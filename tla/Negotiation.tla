---------------------------- MODULE Negotiation ----------------------------
(***************************************************************************)
(* How the joint node of a circuit becomes known to the proxy of its       *)
(* destination (protocol/proxy, network/gossip): the entry node has the    *)
(* caller encrypt the negotiation, the gossip brings it to every proxy,    *)
(* and the one that knows the destination has it decrypted there.  The     *)
(* module follows several negotiations through one such proxy.             *)
(*                                                                         *)
(* That proxy has one goroutine that reads the gossip, one for each        *)
(* negotiation it accepts, and the proxy actor that both ask: it serves    *)
(* one request at a time and waits for the client in a decryption.         *)
(*                                                                         *)
(* Time is counted in units of 500 ms.  What a process does by itself      *)
(* takes no time; what comes over the network takes any time.              *)
(***************************************************************************)
EXTENDS Naturals, Sequences, FiniteSets

CONSTANTS
  Circuit,     \* the circuits that are being built
  Destination, \* their destinations
  Registered,  \* those of them that are clients of the proxy
  JointNode,
  NoGossip

ASSUME NegotiationAssumption == Registered \subseteq Destination

VARIABLES
  circuitTask, \* at the callers, the destination of each circuit
  joint,       \* at the entry nodes, the joint node of each circuit
  encrypting,  \* for each circuit, how far its entry node is
  gossips,     \* the negotiations the proxy has yet to read
  noiseLoop,   \* handleNoiseMsg: what it asks for, how long, and behind what
  handlers,    \* the goroutines of handleGossipMsg
  actorBox,    \* the requests to the proxy actor
  decrypting,  \* the decryption the actor waits for, and how long
  toDecrypt,   \* the requests on their way to the clients
  decrypted,   \* the acknowledgements on their way back
  learned,     \* what the goroutines have learned
  proxyEnds    \* whether the process has ended, and why

callerVars == <<circuitTask, joint, encrypting>>
exitVars == <<noiseLoop, handlers, actorBox, decrypting>>
negotiationVars == <<callerVars, gossips, exitVars, toDecrypt, decrypted, learned, proxyEnds>>

RequestFutureDuration == 2

\* Mutant: a decryption may take as long as a future.
LongTimeout == 2

DecryptReqTimeout == 1

AtNext == [pc |-> "next", g |-> NoGossip, timer |-> 0, behind |-> 0]
NoDecryption == [g |-> NoGossip, timer |-> 0]

NegotiationInit ==
  /\ circuitTask \in [Circuit -> Destination]
  /\ joint \in [Circuit -> JointNode]
  /\ encrypting = [s \in Circuit |-> "none"]
  /\ gossips = {} /\ handlers = {} /\ actorBox = <<>>
  /\ noiseLoop = AtNext /\ decrypting = NoDecryption
  /\ toDecrypt = {} /\ decrypted = {} /\ learned = {}
  /\ proxyEnds = "no"

-----------------------------------------------------------------------------
(* The entry node and the caller *)

Encrypts(s, from, to) ==
  /\ encrypting[s] = from
  /\ encrypting' = [encrypting EXCEPT ![s] = to]
  /\ UNCHANGED <<circuitTask, joint, exitVars, toDecrypt, decrypted, learned, proxyEnds>>

EncryptGossip(s) == Encrypts(s, "none", "asked") /\ UNCHANGED gossips

EncryptTimeout(s) == Encrypts(s, "asked", "failed") /\ UNCHANGED gossips

\* The caller encrypts for the destination it keeps under the session id.
HandleEncrypt(s) ==
  [key |-> circuitTask[s], sid |-> s, joint |-> joint[s]]

\* The caller's answer is published as it came.
GossipJoint(s) ==
  /\ Encrypts(s, "asked", "gossiped")
  /\ gossips' = gossips \cup {[des |-> circuitTask[s], cypher |-> HandleEncrypt(s)]}

-----------------------------------------------------------------------------
(* The proxy: handleNoiseMsg, handleGossipMsg and the proxy actor *)

ReqGetClient(g) == [op |-> "GetClient", g |-> g]
ReqDecrypt(g) == [op |-> "Decrypt", g |-> g]

ActorFree == decrypting = NoDecryption

\* The decryptions that come before a request that is made now.
Ahead ==
  Cardinality({i \in 1..Len(actorBox) : actorBox[i].op = "Decrypt"})
    + (IF ActorFree THEN 0 ELSE 1)

NextGossip(g) ==
  /\ noiseLoop.pc = "next"
  /\ gossips' = gossips \ {g}
  /\ noiseLoop' = [pc |-> "asked", g |-> g, timer |-> RequestFutureDuration, behind |-> Ahead]
  /\ actorBox' = Append(actorBox, ReqGetClient(g))
  /\ UNCHANGED <<callerVars, handlers, decrypting, toDecrypt, decrypted, learned, proxyEnds>>

ActorTakes(op) ==
  /\ ActorFree /\ actorBox # <<>> /\ Head(actorBox).op = op
  /\ actorBox' = Tail(actorBox)

\* The loop goes on at once, and starts a goroutine for a client of its own.
GetClient ==
  /\ ActorTakes("GetClient")
  /\ noiseLoop' = AtNext
  /\ LET g == Head(actorBox).g
     IN  handlers' = IF g.des \in Registered
                       THEN handlers \cup {[pc |-> "new", g |-> g, timer |-> 0]} ELSE handlers
  /\ UNCHANGED <<callerVars, gossips, decrypting, toDecrypt, decrypted, learned, proxyEnds>>

\* The result of the future is asserted although there is none.
GetClientExpires ==
  /\ noiseLoop.pc = "asked" /\ noiseLoop.timer = 0
  /\ proxyEnds' = "expired"
  /\ UNCHANGED <<callerVars, gossips, exitVars, toDecrypt, decrypted, learned>>

HandleGossipMsg(h) ==
  /\ h.pc = "new"
  /\ handlers' = (handlers \ {h}) \cup
                   {[h EXCEPT !.pc = "asked", !.timer = RequestFutureDuration]}
  /\ actorBox' = Append(actorBox, ReqDecrypt(h.g))
  /\ UNCHANGED <<callerVars, gossips, noiseLoop, decrypting, toDecrypt, decrypted, learned,
                 proxyEnds>>

\* The goroutine logs that and returns; its request stays.
DecryptExpires(h) ==
  /\ h.pc = "asked" /\ h.timer = 0
  /\ handlers' = handlers \ {h}
  /\ UNCHANGED <<callerVars, gossips, noiseLoop, actorBox, decrypting, toDecrypt, decrypted,
                 learned, proxyEnds>>

\* DecryptGossip, which the actor runs.
DecryptGossip ==
  /\ ActorTakes("Decrypt")
  /\ decrypting' = [g |-> Head(actorBox).g, timer |-> DecryptReqTimeout]
  /\ toDecrypt' = toDecrypt \cup {Head(actorBox).g}
  /\ UNCHANGED <<callerVars, gossips, noiseLoop, handlers, decrypted, learned, proxyEnds>>

\* Mutant: the id names the client only.
ByClient(g) == [des |-> g.des]

\* The request's id: the hash of its destination and its cypher.
TaskId(g) == [des |-> g.des, cypher |-> g.cypher]

Answered(g) == handlers' = {h \in handlers : h.g # g \/ h.pc # "asked"}

\* The client answers a request it can decrypt with what it says, any other with
\* an error.
HandleDecrypt(g) ==
  /\ toDecrypt' = toDecrypt \ {g}
  /\ decrypted' = decrypted \cup {[id |-> TaskId(g), ok |-> g.cypher.key = g.des,
                                   sid |-> g.cypher.sid, joint |-> g.cypher.joint]}
  /\ UNCHANGED <<callerVars, gossips, exitVars, learned, proxyEnds>>

IsExpected(a) == ~ ActorFree /\ a.id = TaskId(decrypting.g)

DecryptAcked(a) ==
  /\ IsExpected(a)
  /\ decrypted' = decrypted \ {a}
  /\ decrypting' = NoDecryption
  /\ LET g == decrypting.g
         waits == \E h \in handlers : h.g = g /\ h.pc = "asked"
     IN  /\ Answered(g)
         /\ learned' = IF a.ok /\ waits
                         THEN learned \cup {[g |-> g, sid |-> a.sid, joint |-> a.joint]}
                         ELSE learned
  /\ UNCHANGED <<callerVars, gossips, noiseLoop, actorBox, toDecrypt, proxyEnds>>

GivesUp ==
  /\ decrypting' = NoDecryption
  /\ Answered(decrypting.g)
  /\ UNCHANGED <<callerVars, gossips, noiseLoop, actorBox, decrypted, learned, proxyEnds>>

DecryptTimeout == ~ ActorFree /\ decrypting.timer = 0 /\ GivesUp /\ UNCHANGED toDecrypt

\* The client cannot be reached.
DecryptFails ==
  /\ decrypting.g \in toDecrypt
  /\ toDecrypt' = toDecrypt \ {decrypting.g}
  /\ GivesUp

\* The answer to a decryption that was given up finds no task.
LateDecryptAck(a) ==
  /\ ~ IsExpected(a)
  /\ proxyEnds' = "late"
  /\ UNCHANGED <<callerVars, gossips, exitVars, toDecrypt, decrypted, learned>>

-----------------------------------------------------------------------------
(* Time *)

\* The proxy has something to do that does not depend on the network.
Busy ==
  \/ ActorFree /\ actorBox # <<>>
  \/ \E h \in handlers : h.pc = "new" \/ h.timer = 0
  \/ noiseLoop.pc = "asked" /\ noiseLoop.timer = 0
  \/ ~ ActorFree /\ decrypting.timer = 0

Waiting == noiseLoop.pc = "asked" \/ handlers # {} \/ ~ ActorFree

Less(t) == IF t > 0 THEN t - 1 ELSE 0

Tick ==
  /\ ~ Busy /\ Waiting
  /\ noiseLoop' = [noiseLoop EXCEPT !.timer = Less(@)]
  /\ handlers' = {[h EXCEPT !.timer = Less(@)] : h \in handlers}
  /\ decrypting' = [decrypting EXCEPT !.timer = Less(@)]
  /\ UNCHANGED <<callerVars, gossips, actorBox, toDecrypt, decrypted, learned, proxyEnds>>

NegotiationNext ==
  /\ proxyEnds = "no"
  /\ \/ \E s \in Circuit : EncryptGossip(s) \/ EncryptTimeout(s) \/ GossipJoint(s)
     \/ \E g \in gossips : NextGossip(g)
     \/ GetClient \/ GetClientExpires \/ DecryptGossip \/ DecryptTimeout
     \/ DecryptFails \/ Tick
     \/ \E h \in handlers : HandleGossipMsg(h) \/ DecryptExpires(h)
     \/ \E g \in toDecrypt : HandleDecrypt(g)
     \/ \E a \in decrypted : DecryptAcked(a) \/ LateDecryptAck(a)

NegotiationSpec == NegotiationInit /\ [][NegotiationNext]_negotiationVars

-----------------------------------------------------------------------------
(* Properties *)

\* The proxy is ended by the future of its gossip loop only if the loop's request
\* stood behind two decryptions that clients did not answer in time: a single
\* silent client does not end it (handleNoiseMsg, the actor's Receive,
\* RequestFutureDuration and DecryptReqTimeout).
OneSilentClientSurvived == proxyEnds = "expired" => noiseLoop.behind >= 2

\* What a goroutine learns is what the entry node of that circuit sent, decrypted by
\* the client the circuit goes to, although answers may come late, while another
\* negotiation of the same client is being decrypted (the request id in
\* DecryptGossip, circuitTask in HandleEncrypt).
RightNegotiation ==
  \A n \in learned :
    /\ n.sid = n.g.cypher.sid
    /\ n.joint = joint[n.sid] /\ circuitTask[n.sid] = n.g.des
=============================================================================
