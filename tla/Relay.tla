------------------------------- MODULE Relay -------------------------------
(***************************************************************************)
(* The relay layer of WhiteNoise (protocol/relay): on every node the relay *)
(* manager keeps the streams and the sessions of the circuits that pass    *)
(* through it, forwards their messages and takes them down.                *)
(*                                                                         *)
(* Three kinds of threads work on the tables of one node at the same time: *)
(* one reader per stream (RelayInboundHandler), one goroutine per Success  *)
(* signal (handleCircuitSuccess), and the relay actor (Receive), which     *)
(* serves the requests of the proxy, gossip and command managers and the   *)
(* ClosedStream notifications, and is blocked while it waits for the       *)
(* acknowledgement of a SetSessionId.  On a client the user's goroutine    *)
(* also runs SetSessionId, outside the actor.                              *)
(*                                                                         *)
(* This specification leaves the managers open: they may post any request  *)
(* at any time.  Module Circuit closes it with the real ones.              *)
(***************************************************************************)
EXTENDS Session

CONSTANTS
  Node,      \* all nodes
  Client,    \* the nodes in client mode; the others are servers
  SessionId, \* the ids of the circuits
  Stream,    \* the streams that may be opened, numbered in order of opening
  NoNode,    \* no peer: a stream not yet opened, an empty peer id
  NoSid,     \* the empty session id of a stream not yet bound
  NotHeld,   \* the stream is not in the streamMap
  MailCap,   \* bound on the requests waiting in one actor's mailbox
  WireCap    \* bound on the unread messages of one end of a stream

ASSUME ClientAssumption == Client \subseteq Node
ASSUME NoNodeAssumption == NoNode \notin Node
ASSUME NoSidAssumption ==
  /\ NoSid \notin SessionId
  /\ NotHeld \notin SessionId
  /\ NoSid # NotHeld
ASSUME StreamAssumption == Stream \subseteq Nat
ASSUME CapAssumption == MailCap \in Nat /\ WireCap \in Nat

Server == Node \ Client

\* Who waits for the answer of a request: the proxy manager (NewCircuit), the
\* gossip service, the command manager, the user's goroutine, or nobody any
\* more because its future has expired.
Asker == {"proxy", "gossip", "cmd", "user", "gone"}

\* The (myRole, otherRole) pairs the managers pass to NewSessionToPeer.
RolePair == {<<"Caller", "Entry">>, <<"Entry", "Joint">>, <<"Exit", "Answer">>,
             <<"Exit", "Relay">>, <<"Relay", "Joint">>}

\* Payloads of relayed data: the three messages of the Noise XX handshake and
\* a message of the application.
Payload == {"h1", "h2", "h3", "app"}

Message ==
  [type : {"Set"}, sid : SessionId, role : Role, data : {"None"}] \cup
  [type : {"Data"}, sid : SessionId, role : {"None"}, data : Payload] \cup
  [type : {"Probe", "Disc", "Succ"}, sid : SessionId, role : {"None"}, data : {"None"}]

Msg(type, s) == [type |-> type, sid |-> s, role |-> "None", data |-> "None"]
SetMsg(s, role) == [type |-> "Set", sid |-> s, role |-> role, data |-> "None"]
DataMsg(s, d) == [type |-> "Data", sid |-> s, role |-> "None", data |-> d]

\* The requests of protocol/relay/actor.go.
Request ==
  [op : {"New"}, sid : SessionId, who : Asker, peer : Node \cup {NoNode},
   my : Role, other : Role, type : {"None"}] \cup
  [op : {"Send"}, sid : SessionId, who : Asker, peer : {NoNode},
   my : {"None"}, other : {"None"}, type : {"Probe", "Succ"}] \cup
  [op : {"Close", "Get"}, sid : SessionId, who : Asker, peer : {NoNode},
   my : {"None"}, other : {"None"}, type : {"None"}]

ReqNew(s, who, p, my, other) ==
  [op |-> "New", sid |-> s, who |-> who, peer |-> p, my |-> my,
   other |-> other, type |-> "None"]
ReqSend(s, who, type) ==
  [op |-> "Send", sid |-> s, who |-> who, peer |-> NoNode, my |-> "None",
   other |-> "None", type |-> type]
ReqGet(s, who) ==
  [op |-> "Get", sid |-> s, who |-> who, peer |-> NoNode, my |-> "None",
   other |-> "None", type |-> "None"]
ReqClose(s) ==
  [op |-> "Close", sid |-> s, who |-> "gone", peer |-> NoNode, my |-> "None",
   other |-> "None", type |-> "None"]

VARIABLES
  alive,          \* the nodes whose process runs
  dialer,         \* the node that opened a stream
  listener,       \* the node that accepted it
  up,             \* for each node, the streams whose local end is open
  wire,           \* for each node and stream, the messages it has yet to read
  streamMap,      \* for each node and stream, the session id bound to it
  sessionMap,     \* for each node and id, its session
  probeMap,       \* for each node, the ids whose first probe has arrived
  circuitConnMap, \* for each node and id, the state of its CircuitConn
  inbox,          \* what the CircuitConn's buffer holds
  secureConnMap,  \* for each node, the ids with an established SecureSession
  spawned,        \* the goroutines that handle a Success signal
  mailbox,        \* the requests queued for the relay actor
  noticed,        \* for each node, the ClosedStream notifications it has handled
  waiting,        \* the SetSessionId calls that wait for an acknowledgement
  acks,           \* the acknowledgements of SetSessionId under way
  answers         \* the answers of the actor the askers have yet to read

streamVars == <<dialer, listener>>
netVars == <<up, wire>>
connVars == <<probeMap, circuitConnMap, inbox, secureConnMap>>
callVars == <<mailbox, waiting, acks, answers>>
relayVars == <<alive, dialer, listener, up, wire, streamMap, sessionMap, probeMap,
               circuitConnMap, inbox, secureConnMap, spawned, mailbox, noticed,
               waiting, acks, answers>>

-----------------------------------------------------------------------------
(* Streams *)

Remote(n, x) == IF dialer[x] = n THEN listener[x] ELSE dialer[x]

\* Write msg to the streams X: nothing arrives where either end is closed.
Emit(w, n, X, msg) ==
  [m \in Node |-> [x \in Stream |->
     IF x \in X /\ x \in up[n] /\ m = Remote(n, x) /\ x \in up[m]
       THEN Append(w[m][x], msg) ELSE w[m][x]]]

\* The notifications libp2p owes a node: one for each stream end it has closed.
Notes(n) ==
  {x \in Stream : n \in {dialer[x], listener[x]} /\ x \notin up[n] \cup noticed[n]}

\* Close the local ends of X: what they had not read is gone.
CloseEnds(n, X, w) ==
  /\ up' = [up EXCEPT ![n] = @ \ X]
  /\ wire' = [w EXCEPT ![n] = [x \in Stream |-> IF x \in X THEN <<>> ELSE w[n][x]]]

Pop(n, x) == [wire EXCEPT ![n][x] = Tail(@)]

-----------------------------------------------------------------------------
(* The operations on the tables that handlers share *)

Pair(n, s) == StreamsIn(sessionMap[n][s])
Has(n, s) == sessionMap[n][s] # NoSession

\* RemoveSession and CloseCircuit start from the wires w, on which the handler
\* may already have written.
RemoveSession(n, s, w) ==
  /\ CloseEnds(n, Pair(n, s), w)
  /\ sessionMap' = [sessionMap EXCEPT ![n][s] = NoSession]
  /\ probeMap' = [probeMap EXCEPT ![n] = @ \ {s}]
  /\ circuitConnMap' = [circuitConnMap EXCEPT ![n][s] = "none"]
  /\ inbox' = [inbox EXCEPT ![n][s] = <<>>]
  /\ secureConnMap' = [secureConnMap EXCEPT ![n] = @ \ {s}]

\* Mutant: Disconnect goes to every stream of the node.
CloseLoudly(n, s, w) ==
  RemoveSession(n, s, Emit(w, n, up[n], Msg("Disc", s)))

CloseCircuit(n, s, w) ==
  RemoveSession(n, s, Emit(w, n, Pair(n, s), Msg("Disc", s)))

\* The handler writes and touches no table.
OnlyWrite(w) ==
  /\ wire' = w
  /\ UNCHANGED <<up, sessionMap, probeMap, circuitConnMap, inbox,
                 secureConnMap>>

\* The streams of X that a loop over the pair writes before the first error.
Written(n, s, X) ==
  LET p == sessionMap[n][s].pair
  IN  {p[i] : i \in {j \in 1..Len(p) :
         p[j] \in X /\ \A k \in 1..j : p[k] \in X => p[k] \in up[n]}}

SendOK(n, s) == Pair(n, s) # {} /\ Pair(n, s) \subseteq up[n]

\* SendRelay: to every stream of the session; any failure closes the circuit.
SendRelay(n, s, msg, w) ==
  LET w1 == Emit(w, n, Written(n, s, Pair(n, s)), msg)
  IN  IF SendOK(n, s) THEN OnlyWrite(w1) ELSE CloseCircuit(n, s, w1)

\* The session that AddStream stores for an id, new if there is none.
Joined(n, s, x, role) ==
  AddStream(IF Has(n, s) THEN sessionMap[n][s] ELSE NewSession(role), x)

Reply(n, who, val) ==
  answers' = IF who = "gone" THEN answers
             ELSE answers \cup {[at |-> n, who |-> who, val |-> val]}

\* Mutant: AddStreamSessionID is forgotten.
LeftUnbound(n, x, s) == [streamMap EXCEPT ![n][x] = NoSid]

\* AddStream, then AddStreamSessionID.
Bound(n, x, s) == [streamMap EXCEPT ![n][x] = s]

-----------------------------------------------------------------------------
(* RelayInboundHandler: the reader of one stream handles one message *)

Reads(n, x, type) ==
  /\ x \in up[n]
  /\ wire[n][x] # <<>>
  /\ Head(wire[n][x]).type = type

\* The answer to a SetSessionId travels on a stream of its own.
Acked(n, x, m, ok) ==
  acks' = IF Remote(n, x) \in alive
            THEN acks \cup {[to |-> Remote(n, x), stream |-> x, sid |-> m.sid,
                             role |-> m.role, ok |-> ok]}
            ELSE acks

\* A client refuses every role but Answer.
RejectSetSession(n, x, m) ==
  /\ n \in Client /\ m.role # "Answer"
  /\ OnlyWrite(Pop(n, x))
  /\ Acked(n, x, m, FALSE)
  /\ UNCHANGED streamMap

\* "act as both entry and relay": the stream to the joint node gives way to
\* the one from the exit node; a half-built circuit is closed, unanswered.
EntryIsRelay(n, m) ==
  /\ ~ (n \in Client /\ m.role # "Answer")
  /\ sessionMap[n][m.sid].role = "Entry" /\ m.role = "Relay"

\* Mutant: the joint node is not told.
NotTold(n, x, m) == Pop(n, x)

TellJoint(n, x, m) ==
  Emit(Pop(n, x), n, {sessionMap[n][m.sid].pair[2]}, Msg("Disc", m.sid))

SwapJoint(n, x, m) ==
  LET j == sessionMap[n][m.sid].pair[2]
  IN  /\ EntryIsRelay(n, m)
      /\ IsReady(sessionMap[n][m.sid])
      /\ wire' = TellJoint(n, x, m)
      /\ sessionMap' = [sessionMap EXCEPT ![n][m.sid].pair = <<@[1], x>>]
      /\ streamMap' = [streamMap EXCEPT ![n][j] = NotHeld, ![n][x] = m.sid]
      /\ Acked(n, x, m, TRUE)
      /\ UNCHANGED <<up, connVars>>

RefuseHalfEntry(n, x, m) ==
  /\ EntryIsRelay(n, m)
  /\ ~ IsReady(sessionMap[n][m.sid])
  /\ CloseCircuit(n, m.sid, Pop(n, x))
  /\ UNCHANGED <<streamMap, acks>>

JoinSession(n, x, m) ==
  /\ ~ (n \in Client /\ m.role # "Answer")
  /\ ~ EntryIsRelay(n, m)
  /\ sessionMap' = [sessionMap EXCEPT ![n][m.sid] = Joined(n, m.sid, x, m.role)]
  /\ streamMap' = Bound(n, x, m.sid)
  /\ wire' = Pop(n, x)
  /\ circuitConnMap' = IF n \in Client /\ circuitConnMap[n][m.sid] = "none"
                         THEN [circuitConnMap EXCEPT ![n][m.sid] = "building"]
                         ELSE circuitConnMap
  /\ Acked(n, x, m, TRUE)
  /\ UNCHANGED <<up, probeMap, inbox, secureConnMap>>

HandleSetSession(n, x) ==
  /\ Reads(n, x, "Set")
  /\ LET m == Head(wire[n][x])
     IN  \/ RejectSetSession(n, x, m)
         \/ SwapJoint(n, x, m)
         \/ RefuseHalfEntry(n, x, m)
         \/ JoinSession(n, x, m)
  /\ UNCHANGED <<alive, streamVars, noticed, spawned, mailbox, waiting, answers>>

IsEnd(sess) == sess.role \in {"Caller", "Answer"}

\* Mutant: back to the sender too.
BothWays(sess, x) == StreamsIn(sess)

\* Where a node inside the circuit sends what comes in on stream x.
Onward(sess, x) == {GetPattern(sess, x)}

\* Data goes to the CircuitConn at an end of the circuit and to the other
\* stream of the pair elsewhere; a session not yet ready drops it.
HandleRelayMsg(n, x) ==
  /\ Reads(n, x, "Data")
  /\ LET m == Head(wire[n][x])
         sess == sessionMap[n][m.sid]
     IN  IF IsEnd(sess)
           THEN /\ wire' = Pop(n, x)
                /\ inbox' = IF circuitConnMap[n][m.sid] = "none" THEN inbox
                            ELSE [inbox EXCEPT ![n][m.sid] = Append(@, m.data)]
                /\ UNCHANGED <<up, sessionMap, probeMap, circuitConnMap,
                               secureConnMap>>
           ELSE IF ~ IsReady(sess)
             THEN OnlyWrite(Pop(n, x))
             ELSE IF HasPattern(sess, x) /\ Onward(sess, x) \subseteq up[n]
               THEN OnlyWrite(Emit(Pop(n, x), n, Onward(sess, x), m))
               ELSE CloseCircuit(n, m.sid, Pop(n, x))
  /\ UNCHANGED <<alive, streamVars, noticed, streamMap, spawned, callVars>>

\* Mutants: the joint node answers the first probe; it forgets the first one.
AnyProbe(n, s) == TRUE
NoProbe(n, s) == FALSE

SecondProbe(n, s) == s \in probeMap[n]

\* The joint node keeps the first probe and answers the second with Success
\* on both sides; the others pass a probe on.  All probes of a circuit are equal:
\* their content is a hash of the session id.
HandleRelayProbe(n, x) ==
  /\ Reads(n, x, "Probe")
  /\ LET m == Head(wire[n][x])
         sess == sessionMap[n][m.sid]
     IN  IF sess.role = "Joint"
           THEN IF ~ SecondProbe(n, m.sid)
                  THEN /\ probeMap' = [probeMap EXCEPT ![n] = @ \cup {m.sid}]
                       /\ wire' = Pop(n, x)
                       /\ UNCHANGED <<up, sessionMap, circuitConnMap,
                                      inbox, secureConnMap>>
                  ELSE SendRelay(n, m.sid, Msg("Succ", m.sid), Pop(n, x))
           ELSE OnlyWrite(IF HasPattern(sess, x)
                            THEN Emit(Pop(n, x), n, Onward(sess, x), m)
                            ELSE Pop(n, x))
  /\ UNCHANGED <<alive, streamVars, noticed, streamMap, spawned, callVars>>

\* Disconnect is passed to every stream that does not lead back to its
\* sender, and the session is removed whether or not that worked.
HandleDisconnect(n, x) ==
  /\ Reads(n, x, "Disc")
  /\ LET m == Head(wire[n][x])
         onward == {y \in Pair(n, m.sid) : Remote(n, y) # Remote(n, x)}
         w == Emit(Pop(n, x), n, Written(n, m.sid, onward), m)
     IN  IF onward \subseteq up[n]
           THEN RemoveSession(n, m.sid, w)
           ELSE CloseCircuit(n, m.sid, w)
  /\ UNCHANGED <<alive, streamVars, noticed, streamMap, spawned, callVars>>

\* Success is handled by a goroutine of its own: the reader goes on.
SpawnCircuitSuccess(n, x) ==
  /\ Reads(n, x, "Succ")
  /\ OnlyWrite(Pop(n, x))
  /\ spawned' = [spawned EXCEPT ![n] = @ \cup
                   {[sid |-> Head(wire[n][x]).sid, stream |-> x, pc |-> "start"]}]
  /\ UNCHANGED <<alive, streamVars, noticed, streamMap, callVars>>

\* Nothing left to read and the far end is gone: the reader closes its end.
ReadErr(n, x) ==
  /\ x \in up[n]
  /\ wire[n][x] = <<>>
  /\ x \notin up[Remote(n, x)]
  /\ CloseEnds(n, {x}, wire)
  /\ UNCHANGED <<alive, streamVars, noticed, streamMap, sessionMap, connVars, spawned, callVars>>

\* The connection under the stream fails: the reader gets an error at once.
StreamReset(n, x) ==
  /\ x \in up[n]
  /\ CloseEnds(n, {x}, wire)
  /\ UNCHANGED <<alive, streamVars, noticed, streamMap, sessionMap, connVars, spawned, callVars>>

-----------------------------------------------------------------------------
(* handleCircuitSuccess: the goroutine of one Success signal *)

Dies(n, g) == spawned' = [spawned EXCEPT ![n] = @ \ {g}]
Goes(n, g, pc) == spawned' = [spawned EXCEPT ![n] = (@ \ {g}) \cup {[g EXCEPT !.pc = pc]}]

\* Inside the circuit the signal is passed on; write errors are only logged.
ForwardSuccess(n, g) ==
  /\ g \in spawned[n] /\ g.pc = "start"
  /\ ~ IsEnd(sessionMap[n][g.sid])
  /\ LET sess == sessionMap[n][g.sid]
     IN  OnlyWrite(IF HasPattern(sess, g.stream)
                     THEN Emit(wire, n, Onward(sess, g.stream), Msg("Succ", g.sid))
                     ELSE wire)
  /\ Dies(n, g)
  /\ UNCHANGED <<alive, streamVars, noticed, streamMap, callVars>>

\* An end marks its CircuitConn ready and starts the handshake, unless it has
\* no CircuitConn or the secure connection exists.  The caller, being the
\* initiator, sends h1 at once.
StartHandshake(n, g) ==
  /\ g \in spawned[n] /\ g.pc = "start"
  /\ IsEnd(sessionMap[n][g.sid])
  /\ IF circuitConnMap[n][g.sid] = "none" \/ g.sid \in secureConnMap[n]
       THEN /\ Dies(n, g)
            /\ OnlyWrite(wire)
       ELSE IF sessionMap[n][g.sid].role = "Answer"
         THEN /\ circuitConnMap' = [circuitConnMap EXCEPT ![n][g.sid] = "ready"]
              /\ Goes(n, g, "wait1")
              /\ UNCHANGED <<netVars, sessionMap, probeMap, inbox, secureConnMap>>
         ELSE IF SendOK(n, g.sid)
           THEN /\ circuitConnMap' = [circuitConnMap EXCEPT ![n][g.sid] = "ready"]
                /\ wire' = Emit(wire, n, Pair(n, g.sid), DataMsg(g.sid, "h1"))
                /\ Goes(n, g, "wait2")
                /\ UNCHANGED <<up, sessionMap, probeMap, inbox, secureConnMap>>
           ELSE /\ SendRelay(n, g.sid, DataMsg(g.sid, "h1"), wire)
                /\ Dies(n, g)
  /\ UNCHANGED <<alive, streamVars, noticed, streamMap, callVars>>

Expected == [wait1 |-> "h1", wait2 |-> "h2", wait3 |-> "h3"]

\* The handshake reads its next message from the CircuitConn and answers it:
\* h1 with h2 at the answer, h2 with h3 at the caller.  A message it does not
\* expect fails the handshake.  The buffer of the CircuitConn is a queue here
\* whose reader wakes whenever there is something in it.
Handshake(n, g) ==
  /\ g \in spawned[n] /\ g.pc \in DOMAIN Expected
  /\ inbox[n][g.sid] # <<>>
  /\ LET rest == [inbox EXCEPT ![n][g.sid] = Tail(@)]
         out == DataMsg(g.sid, IF g.pc = "wait1" THEN "h2" ELSE "h3")
     IN  IF Head(inbox[n][g.sid]) # Expected[g.pc]
           THEN /\ inbox' = rest
                /\ Dies(n, g)
                /\ UNCHANGED <<netVars, sessionMap, probeMap, circuitConnMap,
                               secureConnMap>>
           ELSE IF g.pc = "wait3" \/ SendOK(n, g.sid)
             THEN /\ inbox' = rest
                  /\ wire' = IF g.pc = "wait3" THEN wire
                             ELSE Emit(wire, n, Pair(n, g.sid), out)
                  /\ Goes(n, g, IF g.pc = "wait1" THEN "wait3" ELSE "done")
                  /\ UNCHANGED <<up, sessionMap, probeMap, circuitConnMap,
                                 secureConnMap>>
             ELSE /\ SendRelay(n, g.sid, out, wire)
                  /\ Dies(n, g)
  /\ UNCHANGED <<alive, streamVars, noticed, streamMap, callVars>>

\* The CircuitConn was closed under the handshake, which ends in an error.
HandshakeCancelled(n, g) ==
  /\ g \in spawned[n] /\ g.pc \in DOMAIN Expected
  /\ circuitConnMap[n][g.sid] = "none"
  /\ Dies(n, g)
  /\ OnlyWrite(wire)
  /\ UNCHANGED <<alive, streamVars, noticed, streamMap, callVars>>

\* The secure connection is stored when the handshake has returned, whatever
\* happened to the session since.
StoreSecureConn(n, g) ==
  /\ g \in spawned[n] /\ g.pc = "done"
  /\ secureConnMap' = [secureConnMap EXCEPT ![n] = @ \cup {g.sid}]
  /\ Dies(n, g)
  /\ UNCHANGED <<alive, streamVars, noticed, netVars, streamMap, sessionMap, probeMap,
                 circuitConnMap, inbox, callVars>>

-----------------------------------------------------------------------------
(* NewSessionToPeer: open a stream, write SetSessionId on it, await the ack *)

\* The numbers of streams are given out in order.
Fresh(x) == dialer[x] = NoNode /\ \A y \in Stream : y < x => dialer[y] # NoNode

\* The far end's RelayStreamHandler holds the stream before it reads from it.
DialAndSet(n, p, s, my, other, proc, who) ==
  /\ p \in alive /\ p # n
  /\ \E x \in Stream :
       /\ Fresh(x)
       /\ dialer' = [dialer EXCEPT ![x] = n]
       /\ listener' = [listener EXCEPT ![x] = p]
       /\ up' = [up EXCEPT ![n] = @ \cup {x}, ![p] = @ \cup {x}]
       /\ wire' = [wire EXCEPT ![p][x] = <<SetMsg(s, other)>>]
       /\ streamMap' = [streamMap EXCEPT ![n][x] = NoSid, ![p][x] = NoSid]
       /\ waiting' = [waiting EXCEPT ![n] = @ \cup
             {[proc |-> proc, sid |-> s, stream |-> x, my |-> my, other |-> other,
               who |-> who]}]
  /\ UNCHANGED <<alive, noticed, sessionMap, connVars, spawned, acks, answers>>

\* Success: the stream joins the session.  If the streamMap no longer holds
\* the stream, AddStreamSessionID does nothing.
SessionSet(n, t) ==
  /\ sessionMap' = [sessionMap EXCEPT ![n][t.sid] = Joined(n, t.sid, t.stream, t.my)]
  /\ streamMap' = IF streamMap[n][t.stream] = NotHeld THEN streamMap
                   ELSE Bound(n, t.stream, t.sid)
  /\ Reply(n, t.who, "ok")

\* The acknowledgement is matched by its command id, the hash of session id
\* and role: it finds whichever call waits under that id.
AckArrives(n, a, t) ==
  /\ a \in acks /\ a.to = n
  /\ t \in waiting[n] /\ t.sid = a.sid /\ t.other = a.role
  /\ acks' = acks \ {a}
  /\ waiting' = [waiting EXCEPT ![n] = @ \ {t}]
  /\ IF a.ok THEN SessionSet(n, t)
             ELSE Reply(n, t.who, "err") /\ UNCHANGED <<streamMap, sessionMap>>
  /\ UNCHANGED <<alive, streamVars, noticed, netVars, connVars, spawned, mailbox>>

\* No acknowledgement in time: the call fails and leaves its stream open.
SetSessionTimeout(n, t) ==
  /\ t \in waiting[n]
  /\ waiting' = [waiting EXCEPT ![n] = @ \ {t}]
  /\ Reply(n, t.who, "err")
  /\ UNCHANGED <<alive, streamVars, noticed, netVars, streamMap, sessionMap, connVars,
                 spawned, mailbox, acks>>

-----------------------------------------------------------------------------
(* Receive: the relay actor serves one request or notification at a time *)

ActorIdle(n) == \A t \in waiting[n] : t.proc # "actor"

Serves(n, op) ==
  /\ ActorIdle(n)
  /\ mailbox[n] # <<>>
  /\ Head(mailbox[n]).op = op
  /\ mailbox' = [mailbox EXCEPT ![n] = Tail(@)]

\* ReqNewSessiontoPeer: the actor waits inside this request.
ServeNew(n) ==
  /\ Serves(n, "New")
  /\ LET r == Head(mailbox[n])
     IN  DialAndSet(n, r.peer, r.sid, r.my, r.other, "actor", r.who)

\* The peer cannot be reached, or is the node itself.
ServeNewFails(n) ==
  /\ Serves(n, "New")
  /\ Reply(n, Head(mailbox[n]).who, "err")
  /\ UNCHANGED <<alive, streamVars, noticed, netVars, streamMap, sessionMap, connVars,
                 spawned, waiting, acks>>

ServeSend(n) ==
  /\ Serves(n, "Send")
  /\ LET r == Head(mailbox[n])
     IN  /\ SendRelay(n, r.sid, Msg(r.type, r.sid), wire)
         /\ Reply(n, r.who, IF SendOK(n, r.sid) THEN "ok" ELSE "err")
  /\ UNCHANGED <<alive, streamVars, noticed, streamMap, spawned, waiting, acks>>

ServeClose(n) ==
  /\ Serves(n, "Close")
  /\ CloseCircuit(n, Head(mailbox[n]).sid, wire)
  /\ UNCHANGED <<alive, streamVars, noticed, streamMap, spawned, waiting, acks, answers>>

ServeGet(n) ==
  /\ Serves(n, "Get")
  /\ LET r == Head(mailbox[n])
     IN  Reply(n, r.who, IF ~ Has(n, r.sid) THEN "absent"
                         ELSE IF IsReady(sessionMap[n][r.sid]) THEN "ready" ELSE "half")
  /\ UNCHANGED <<alive, streamVars, noticed, netVars, streamMap, sessionMap, connVars,
                 spawned, waiting, acks>>

\* Mutant: the closed stream is forgotten but its circuit is not closed.
StreamForgotten(n, x) ==
  /\ ActorIdle(n)
  /\ x \in Notes(n)
  /\ noticed' = [noticed EXCEPT ![n] = @ \cup {x}]
  /\ OnlyWrite(wire)
  /\ streamMap' = [streamMap EXCEPT ![n][x] = NotHeld]
  /\ UNCHANGED <<alive, streamVars, spawned, callVars>>

\* ReqHandleStreamClosed: the circuit of a closed stream is closed.
HandleStreamClosed(n, x) ==
  /\ ActorIdle(n)
  /\ x \in Notes(n)
  /\ noticed' = [noticed EXCEPT ![n] = @ \cup {x}]
  /\ IF streamMap[n][x] \in SessionId
       THEN CloseCircuit(n, streamMap[n][x], wire)
       ELSE OnlyWrite(wire)
  /\ streamMap' = [streamMap EXCEPT ![n][x] = NotHeld]
  /\ UNCHANGED <<alive, streamVars, spawned, callVars>>

-----------------------------------------------------------------------------
(* The user's goroutine on a client *)

\* NewCircuit: NewSessionToPeer runs here, not in the actor.
UserDial(n, p, s) ==
  /\ n \in Client \cap alive
  /\ ~ Has(n, s)
  /\ DialAndSet(n, p, s, "Caller", "Entry", "user", "user")
  /\ UNCHANGED mailbox

AddCircuitConnCaller(n, s) ==
  /\ n \in Client \cap alive
  /\ circuitConnMap[n][s] = "none"
  /\ circuitConnMap' = [circuitConnMap EXCEPT ![n][s] = "building"]
  /\ UNCHANGED <<alive, streamVars, noticed, netVars, streamMap, sessionMap,
                 probeMap, inbox, secureConnMap, spawned, callVars>>

\* DisconnectCircuit, and the deferred close of a NewCircuit that fails.
UserClose(n, s) ==
  /\ n \in Client \cap alive
  /\ CloseCircuit(n, s, wire)
  /\ UNCHANGED <<alive, streamVars, noticed, streamMap, spawned, callVars>>

\* SendMessage on an established secure connection.
UserSend(n, s) ==
  /\ s \in secureConnMap[n]
  /\ \A m \in Node, x \in Stream : Len(wire[m][x]) < WireCap
  /\ SendRelay(n, s, DataMsg(s, "app"), wire)
  /\ UNCHANGED <<alive, streamVars, noticed, streamMap, spawned, callVars>>

\* The application reads what arrived for it.
UserRead(n, s) ==
  /\ s \in secureConnMap[n]
  /\ inbox[n][s] # <<>>
  /\ inbox' = [inbox EXCEPT ![n][s] = Tail(@)]
  /\ UNCHANGED <<alive, streamVars, noticed, netVars, streamMap, sessionMap,
                 probeMap, circuitConnMap, secureConnMap, spawned, callVars>>

-----------------------------------------------------------------------------
(* Process failures *)

\* The process of n ends: its tables are gone and its streams are closed.
Crash(n) ==
  /\ n \in alive
  /\ alive' = alive \ {n}
  /\ up' = [up EXCEPT ![n] = {}]
  /\ noticed' = [noticed EXCEPT ![n] =
                   {x \in Stream : n \in {dialer[x], listener[x]}}]
  /\ wire' = [wire EXCEPT ![n] = [x \in Stream |-> <<>>]]
  /\ streamMap' = [streamMap EXCEPT ![n] = [x \in Stream |-> NotHeld]]
  /\ sessionMap' = [sessionMap EXCEPT ![n] = [s \in SessionId |-> NoSession]]
  /\ probeMap' = [probeMap EXCEPT ![n] = {}]
  /\ circuitConnMap' = [circuitConnMap EXCEPT ![n] = [s \in SessionId |-> "none"]]
  /\ inbox' = [inbox EXCEPT ![n] = [s \in SessionId |-> <<>>]]
  /\ secureConnMap' = [secureConnMap EXCEPT ![n] = {}]
  /\ spawned' = [spawned EXCEPT ![n] = {}]
  /\ mailbox' = [mailbox EXCEPT ![n] = <<>>]
  /\ waiting' = [waiting EXCEPT ![n] = {}]
  /\ acks' = {a \in acks : a.to # n}
  /\ answers' = {a \in answers : a.at # n}
  /\ UNCHANGED streamVars

\* AckStreamHandler asserts the type of the task before it looks whether there
\* is one, which ends the process.  There is none once the call has returned
\* (while the task is still to be deleted, the handler blocks on its channel and
\* ends the process when the channel is closed), and none yet when the
\* acknowledgement is faster than the ack actor: SetSessionId writes first and
\* registers its task afterwards.
AckWithoutTask(n, a) ==
  /\ a \in acks /\ a.to = n
  /\ Crash(n)

Restart(n) ==
  /\ n \in Node \ alive
  /\ alive' = alive \cup {n}
  /\ UNCHANGED <<streamVars, noticed, netVars, streamMap, sessionMap, connVars,
                 spawned, callVars>>

-----------------------------------------------------------------------------
(* The open managers, and the specification *)

Forget(n, who) == {a \in answers : ~ (a.at = n /\ a.who = who)}

\* A manager that has read its last answer, if any, makes a request.
Ask(n, who, r) ==
  /\ n \in Server \cap alive
  /\ Len(mailbox[n]) < MailCap
  /\ r.op = "Send" => \A m \in Node, x \in Stream : Len(wire[m][x]) < WireCap
  /\ mailbox' = [mailbox EXCEPT ![n] = Append(@, r)]
  /\ answers' = Forget(n, who)
  /\ UNCHANGED <<alive, streamVars, noticed, netVars, streamMap, sessionMap,
                 connVars, spawned, waiting, acks>>

AskAny(n, who) ==
  \E s \in SessionId :
    \/ \E p \in Node \cup {NoNode}, rp \in RolePair :
         Ask(n, who, ReqNew(s, who, p, rp[1], rp[2]))
    \/ \E type \in {"Probe", "Succ"} : Ask(n, who, ReqSend(s, who, type))
    \/ Ask(n, who, ReqGet(s, who))
    \/ Ask(n, who, ReqClose(s))

\* It reads the answer and asks nothing more.
ReadAnswer(n, who) ==
  /\ answers' = Forget(n, who)
  /\ UNCHANGED <<alive, streamVars, noticed, netVars, streamMap, sessionMap,
                 connVars, spawned, mailbox, waiting, acks>>

\* An asker's future expires: the request is served all the same, and its
\* answer goes nowhere.
Disown(n, who) ==
  /\ mailbox' = [mailbox EXCEPT ![n] = [i \in DOMAIN @ |->
        IF @[i].who = who THEN [@[i] EXCEPT !.who = "gone"] ELSE @[i]]]
  /\ waiting' = [waiting EXCEPT ![n] =
        {IF t.who = who THEN [t EXCEPT !.who = "gone"] ELSE t : t \in @}]
  /\ UNCHANGED <<alive, streamVars, noticed, netVars, streamMap, sessionMap,
                 connVars, spawned, acks, answers>>

RelayInit ==
  /\ alive = Node
  /\ dialer = [x \in Stream |-> NoNode]
  /\ listener = [x \in Stream |-> NoNode]
  /\ up = [n \in Node |-> {}]
  /\ wire = [n \in Node |-> [x \in Stream |-> <<>>]]
  /\ streamMap = [n \in Node |-> [x \in Stream |-> NotHeld]]
  /\ sessionMap = [n \in Node |-> [s \in SessionId |-> NoSession]]
  /\ probeMap = [n \in Node |-> {}]
  /\ circuitConnMap = [n \in Node |-> [s \in SessionId |-> "none"]]
  /\ inbox = [n \in Node |-> [s \in SessionId |-> <<>>]]
  /\ secureConnMap = [n \in Node |-> {}]
  /\ spawned = [n \in Node |-> {}]
  /\ mailbox = [n \in Node |-> <<>>]
  /\ noticed = [n \in Node |-> {}]
  /\ waiting = [n \in Node |-> {}]
  /\ acks = {}
  /\ answers = {}

\* What the threads of the relay layer of node n do by themselves.
RelayStep(n) ==
  \/ \E x \in Stream :
       \/ HandleSetSession(n, x)
       \/ HandleRelayMsg(n, x)
       \/ HandleRelayProbe(n, x)
       \/ HandleDisconnect(n, x)
       \/ SpawnCircuitSuccess(n, x)
       \/ ReadErr(n, x)
       \/ HandleStreamClosed(n, x)
  \/ \E g \in spawned[n] :
       \/ ForwardSuccess(n, g)
       \/ StartHandshake(n, g)
       \/ Handshake(n, g)
       \/ HandshakeCancelled(n, g)
       \/ StoreSecureConn(n, g)
  \/ \E a \in acks, t \in waiting[n] : AckArrives(n, a, t)
  \/ ServeNew(n)
  \/ ServeSend(n)
  \/ ServeClose(n)
  \/ ServeGet(n)

\* What may go wrong around it.
RelayFault(n) ==
  \/ \E x \in Stream : StreamReset(n, x)
  \/ \E t \in waiting[n] : SetSessionTimeout(n, t)
  \/ ServeNewFails(n)
  \/ Crash(n)
  \/ Restart(n)

\* What its own mistakes lead to.
RelayPanic(n) == \E a \in acks : AckWithoutTask(n, a)

\* What the managers and the user may ask of it.
RelayInput(n) ==
  \/ \E who \in Asker : AskAny(n, who) \/ ReadAnswer(n, who) \/ Disown(n, who)
  \/ \E s \in SessionId :
       \/ \E p \in Node : UserDial(n, p, s)
       \/ AddCircuitConnCaller(n, s)
       \/ UserClose(n, s)
       \/ UserSend(n, s)
       \/ UserRead(n, s)

RelayNext ==
  \E n \in Node : RelayStep(n) \/ RelayPanic(n) \/ RelayFault(n) \/ RelayInput(n)

RelaySpec == RelayInit /\ [][RelayNext]_relayVars
-----------------------------------------------------------------------------
(* Properties *)

Task == [proc : {"actor", "user"}, sid : SessionId, stream : Stream,
         my : Role, other : Role, who : Asker]
Goroutine == [sid : SessionId, stream : Stream,
              pc : {"start", "wait1", "wait2", "wait3", "done"}]
AckMsg == [to : Node, stream : Stream, sid : SessionId, role : Role, ok : BOOLEAN]
Answer == [at : Node, who : Asker, val : {"ok", "err", "absent", "half", "ready"}]

\* The type of the tables of the relay managers and of what is under way
\* between them.
TypeOK ==
  /\ alive \subseteq Node
  /\ dialer \in [Stream -> Node \cup {NoNode}]
  /\ listener \in [Stream -> Node \cup {NoNode}]
  /\ up \in [Node -> SUBSET Stream]
  /\ wire \in [Node -> [Stream -> Seq(Message)]]
  /\ streamMap \in [Node -> [Stream -> SessionId \cup {NoSid, NotHeld}]]
  /\ sessionMap \in [Node -> [SessionId -> SessionType(Stream)]]
  /\ probeMap \in [Node -> SUBSET SessionId]
  /\ circuitConnMap \in [Node -> [SessionId -> {"none", "building", "ready"}]]
  /\ inbox \in [Node -> [SessionId -> Seq(Payload)]]
  /\ secureConnMap \in [Node -> SUBSET SessionId]
  /\ spawned \in [Node -> SUBSET Goroutine]
  /\ mailbox \in [Node -> Seq(Request)]
  /\ noticed \in [Node -> SUBSET Stream]
  /\ waiting \in [Node -> SUBSET Task]
  /\ acks \subseteq AckMsg
  /\ answers \subseteq Answer

\* A server never keeps a dead stream in a circuit unawares: while a session
\* holds a stream whose local end is closed, the ClosedStream notification for
\* it is still to come and the streamMap still names the session, so that
\* HandleStreamClosed will close the circuit.  (streamMap, sessionMap and the
\* stream itself are updated by different threads.)
DeadStreamNoticed ==
  \A n \in Server, s \in SessionId : \A x \in Pair(n, s) :
    x \notin up[n] => x \in Notes(n) /\ streamMap[n][x] = s

\* Everything under way on one stream, in both directions, belongs to one
\* circuit: handlers pick the session by the id in the message and the stream
\* by the session, and the two never disagree.
OneCircuitPerStream ==
  \A x \in Stream : \A n, m \in Node :
    \A i \in 1..Len(wire[n][x]), j \in 1..Len(wire[m][x]) :
      wire[n][x][i].sid = wire[m][x][j].sid

-----------------------------------------------------------------------------
(* The inductive invariant behind DeadStreamNoticed *)

\* A stream has two different ends, or is not open yet.
EndsDiffer ==
  \A x \in Stream :
    \/ dialer[x] = NoNode /\ listener[x] = NoNode
    \/ dialer[x] \in Node /\ listener[x] \in Node /\ dialer[x] # listener[x]

IsEndOf(n, x) == n \in {dialer[x], listener[x]}

\* An end that is open has not been noticed as closed; one that is closed has
\* nothing to read; only the ends of a stream know it.
EndsKnown ==
  \A n \in Node, x \in Stream :
    /\ x \in up[n] => IsEndOf(n, x) /\ x \notin noticed[n]
    /\ x \in noticed[n] => IsEndOf(n, x)
    /\ x \notin up[n] => wire[n][x] = <<>>

\* The closing of a stream in the streamMap has not been noticed.
HeldUnnoticed ==
  \A n \in Node, x \in Stream :
    streamMap[n][x] # NotHeld => IsEndOf(n, x) /\ x \notin noticed[n]

\* The streamMap of a server names the session of each stream in a session.
PairBound ==
  \A n \in Server, s \in SessionId : \A x \in Pair(n, s) : streamMap[n][x] = s

PairDistinct ==
  \A n \in Server, s \in SessionId :
    LET p == sessionMap[n][s].pair IN Len(p) = 2 => p[1] # p[2]

\* On a server only the actor waits for an acknowledgement, for one at a time,
\* on a stream of its own that is not bound yet.
TaskUnbound ==
  \A n \in Server : \A t \in waiting[n] :
    /\ t.proc = "actor"
    /\ \A u \in waiting[n] : u = t
    /\ dialer[t.stream] = n
    /\ streamMap[n][t.stream] = NoSid

\* SetSessionId is the first message of a stream, and comes from its dialer.
SetFirst ==
  \A n \in Node, x \in Stream : \A i \in 1..Len(wire[n][x]) :
    wire[n][x][i].type = "Set" =>
      /\ i = 1
      /\ n = listener[x]
      /\ n \in Server => streamMap[n][x] = NoSid

\* Together they survive every step of the readers, the goroutines, the actor
\* and the failures.
RelayInv ==
  /\ TypeOK
  /\ EndsDiffer
  /\ EndsKnown
  /\ HeldUnnoticed
  /\ PairBound
  /\ PairDistinct
  /\ TaskUnbound
  /\ SetFirst
=============================================================================
