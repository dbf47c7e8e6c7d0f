------------------------------ MODULE Circuit ------------------------------
(***************************************************************************)
(* One circuit, from Dial to teardown: the relay layer of module Relay     *)
(* driven by the managers that build a circuit.                            *)
(*                                                                         *)
(*   - the caller (sdk Dial, noise NewCircuit) binds a stream to its proxy *)
(*     and asks it for a circuit;                                          *)
(*   - the proxy of the caller, the entry node (HandleNewCircuit), picks a *)
(*     joint node, has the caller encrypt its name and gossips it;         *)
(*   - the proxy of the answer, the exit node (handleGossipMsg), has the   *)
(*     answer decrypt it, binds a stream to the answer, picks a relay node *)
(*     and tells it to expand the session to the joint node;               *)
(*   - the relay node obeys (CmdStreamHandler).                            *)
(* Each manager waits for the answer of its relay actor with a future that *)
(* may expire.  Failures from outside are counted against MaxFaults.       *)
(***************************************************************************)
EXTENDS Relay, FiniteSets

CONSTANTS
  Caller, Answerer, \* the two clients of the circuit
  Proxy,            \* the proxy each of them is registered with
  Peers,            \* the servers each server finds in the routing table of its DHT
  Sid,              \* the session id of the circuit
  MayHangUp,        \* the clients that may end an established circuit
  RetryTimes,       \* attempts to find a joint, and a relay, node
  FaultKinds,       \* which failures happen
  MaxFaults         \* bound on failures from outside

\* A process crashes; a stream is reset; a peer cannot be reached or a message
\* of the managers is lost; a future of the caller, or of the proxy manager for
\* its relay actor, expires; one around the gossip expires (for peers, for the
\* encrypted negotiation, for the gossip itself, or at the gossip service); one of
\* the command managers expires; the acknowledgement of a SetSessionId is late or
\* too early; so is the answer of one manager to another; so is the one to
\* ExpendSession.
FaultKind == {"crash", "reset", "lost", "future", "gossip", "command", "ack", "answer",
              "expend"}

ASSUME CircuitAssumption ==
  /\ Caller \in Client /\ Answerer \in Client /\ Caller # Answerer
  /\ Proxy \in [Client -> Server] /\ Peers \in [Server -> SUBSET Server]
  /\ Sid \in SessionId /\ MayHangUp \subseteq Client
  /\ RetryTimes \in Nat \ {0} /\ MaxFaults \in Nat
  /\ FaultKinds \subseteq FaultKind

EntryNode == Proxy[Caller]
ExitNode == Proxy[Answerer]

VARIABLES
  user,   \* where the caller's Dial is
  entry,  \* HandleNewCircuit on the entry node
  exit,   \* handleGossipMsg on the exit node
  cmd,    \* CmdStreamHandler on the relay node
  msgs,   \* requests and acknowledgements under way between the managers
  faults  \* failures so far

mgrVars == <<user, entry, exit, cmd, msgs>>
vars == <<relayVars, user, entry, exit, cmd, msgs, faults>>

ManagerMsg == [type : {"NewCircuit", "CircuitAck", "Gossip", "Expend", "ExpendAck"},
               to : Node, joint : Server \cup {NoNode}, ok : BOOLEAN]

Mail(type, to, joint, ok) == [type |-> type, to |-> to, joint |-> joint, ok |-> ok]

\* The answer of its relay actor that the manager who at node n may read.
Told(n, who, vals) == \E a \in answers : a.at = n /\ a.who = who /\ a.val \in vals

\* A manager's future can expire only while its request is being served.
Pending(n, who) ==
  \/ \E i \in DOMAIN mailbox[n] : mailbox[n][i].who = who
  \/ \E t \in waiting[n] : t.who = who

CircuitInit ==
  /\ RelayInit
  /\ user = "idle"
  /\ entry = [pc |-> "idle", joint |-> NoNode, bad |-> {}, tries |-> 0]
  /\ exit = [pc |-> "idle", joint |-> NoNode, relay |-> NoNode, bad |-> {}, tries |-> 0]
  /\ cmd = [pc |-> "idle", at |-> NoNode, joint |-> NoNode]
  /\ msgs = {}
  /\ faults = 0

Fault(kind) == kind \in FaultKinds /\ faults < MaxFaults /\ faults' = faults + 1
NoFault == UNCHANGED faults
\* A timeout is no failure of its own where the awaited message cannot come.
FaultUnless(forced, kind) == IF forced THEN NoFault ELSE Fault(kind)

NoMail(types) == \A m \in msgs : m.type \notin types

Hopeless(n, t) ==
  /\ \A a \in acks : ~ (a.to = n /\ a.sid = t.sid /\ a.role = t.other)
  /\ \A m \in Node : m # n => wire[m][t.stream] = <<>>

-----------------------------------------------------------------------------
(* The caller: sdk Dial and noise NewCircuit *)

UserAt(from, to) == user = from /\ user' = to /\ UNCHANGED <<entry, exit, cmd>>

UserDials ==
  /\ UserAt("idle", "setting")
  /\ UserDial(Caller, EntryNode, Sid)
  /\ UNCHANGED msgs /\ NoFault

UserDialFails ==
  /\ UserAt("idle", "closing")
  /\ FaultUnless(EntryNode \notin alive, "lost")
  /\ UNCHANGED <<relayVars, msgs>>

UserSet(val, to) ==
  /\ UserAt("setting", to)
  /\ Told(Caller, "user", {val})
  /\ ReadAnswer(Caller, "user")
  /\ UNCHANGED msgs /\ NoFault

\* AddCircuitConnCaller comes before the request goes out.
UserRequests ==
  /\ UserAt("opening", "asked")
  /\ EntryNode \in alive
  /\ AddCircuitConnCaller(Caller, Sid)
  /\ msgs' = msgs \cup {Mail("NewCircuit", EntryNode, NoNode, TRUE)}
  /\ NoFault

UserCannotRequest ==
  /\ UserAt("opening", "closing")
  /\ FaultUnless(EntryNode \notin alive, "lost")
  /\ UNCHANGED <<relayVars, msgs>>

UserAcked ==
  \E m \in msgs :
    /\ m.type = "CircuitAck"
    /\ UserAt("asked", IF m.ok THEN "polling" ELSE "closing")
    /\ msgs' = msgs \ {m}
    /\ UNCHANGED relayVars /\ NoFault

\* Mutant: there is no timeout.
UserWaitsOn ==
  /\ UserAt("asked", "asked")
  /\ UNCHANGED <<relayVars, msgs>> /\ NoFault

UserTimesOut ==
  /\ UserAt("asked", "closing")
  /\ UNCHANGED <<relayVars, msgs>>
  /\ FaultUnless(entry.pc \in {"idle", "end"} /\ NoMail({"NewCircuit", "CircuitAck"}),
                 "future")

\* Mutant: the session is dropped but its streams are left open.
UserForgets ==
  /\ UserAt("closing", "failed")
  /\ sessionMap' = [sessionMap EXCEPT ![Caller][Sid] = NoSession]
  /\ UNCHANGED <<alive, streamVars, netVars, streamMap, connVars, spawned, noticed,
                 callVars, msgs>>
  /\ NoFault

\* The deferred CloseCircuit of a NewCircuit that fails.
UserCloses ==
  /\ UserAt("closing", "failed")
  /\ UserClose(Caller, Sid)
  /\ UNCHANGED msgs /\ NoFault

UserConnects ==
  /\ UserAt("polling", "connected")
  /\ Sid \in secureConnMap[Caller]
  /\ UNCHANGED <<relayVars, msgs>> /\ NoFault

\* Dial's own timeout returns an error and closes nothing.
UserGivesUp ==
  /\ UserAt("polling", "gaveup")
  /\ UNCHANGED <<relayVars, msgs>>
  /\ FaultUnless(faults > 0 \/ ~ Has(Caller, Sid), "future")

UserDisconnects ==
  /\ UserAt("connected", "done")
  /\ Caller \in MayHangUp
  /\ UserClose(Caller, Sid)
  /\ UNCHANGED msgs /\ NoFault

UserStep ==
  \/ UserDials \/ UserSet("ok", "opening") \/ UserSet("err", "closing")
  \/ UserRequests \/ UserAcked \/ UserCloses \/ UserConnects \/ UserDisconnects

UserFault == UserDialFails \/ UserCannotRequest \/ UserTimesOut \/ UserGivesUp

-----------------------------------------------------------------------------
(* The entry node: HandleNewCircuit, and the acknowledgement that follows it *)

EntryAt(from, to) ==
  entry.pc = from /\ entry' = [entry EXCEPT !.pc = to] /\ UNCHANGED <<user, exit, cmd>>
Answers(ok) == msgs' = msgs \cup {Mail("CircuitAck", Caller, NoNode, ok)}

EntryReceives ==
  \E m \in msgs :
    /\ m.type = "NewCircuit"
    /\ EntryAt("idle", "get")
    /\ Ask(EntryNode, "proxy", ReqGet(Sid, "proxy"))
    /\ msgs' = msgs \ {m}
    /\ NoFault

\* "No stream for this session yet", or "Session is full".
EntryRefuses ==
  /\ EntryAt("get", "end")
  /\ Told(EntryNode, "proxy", {"absent", "ready"})
  /\ ReadAnswer(EntryNode, "proxy")
  /\ Answers(FALSE) /\ NoFault

\* Both clients are registered here: the node binds the answer itself...
SameProxyNew ==
  /\ EntryAt("get", "sameNew")
  /\ EntryNode = ExitNode
  /\ Told(EntryNode, "proxy", {"half"})
  /\ Ask(EntryNode, "proxy", ReqNew(Sid, "proxy", Answerer, "Exit", "Answer"))
  /\ UNCHANGED msgs /\ NoFault

SameProxyNewFailed ==
  /\ EntryAt("sameNew", "end")
  /\ Told(EntryNode, "proxy", {"err"})
  /\ Ask(EntryNode, "proxy", ReqClose(Sid))
  /\ Answers(FALSE) /\ NoFault

\* ... and signals Success like a joint node.
SameProxySend ==
  /\ EntryAt("sameNew", "send")
  /\ Told(EntryNode, "proxy", {"ok"})
  /\ Ask(EntryNode, "proxy", ReqSend(Sid, "proxy", "Succ"))
  /\ UNCHANGED msgs /\ NoFault

\* Mutant: the caller itself is not left out.
JointOrCaller(prev, bad) ==
  LET left == ((Peers[EntryNode] \cup {Caller}) \ {EntryNode}) \ bad
  IN  IF left = {} THEN {prev} ELSE left

\* The peers the loop may pick as joint node; when there is none the previous
\* pick stays, at first the empty id.
JointChoice(prev, bad) ==
  LET left == (Peers[EntryNode] \ {EntryNode}) \ bad
  IN  IF left = {} THEN {prev} ELSE left

TryJoint(bad, tries) ==
  \E j \in JointChoice(entry.joint, bad) :
    /\ entry' = [pc |-> "joint", joint |-> j, bad |-> bad, tries |-> tries]
    /\ Ask(EntryNode, "proxy", ReqNew(Sid, "proxy", j, "Entry", "Joint"))
    /\ UNCHANGED <<user, exit, cmd, msgs>> /\ NoFault

EntryPicksJoint ==
  /\ entry.pc = "get" /\ EntryNode # ExitNode
  /\ Told(EntryNode, "proxy", {"half"})
  /\ TryJoint({}, 1)

EntryRetriesJoint ==
  /\ entry.pc = "joint" /\ entry.tries < RetryTimes
  /\ Told(EntryNode, "proxy", {"err"})
  /\ TryJoint(entry.bad \cup {entry.joint}, entry.tries + 1)

\* Mutant: the joint node's acknowledgement is not awaited.
GossipsEarly ==
  /\ EntryAt("joint", "send")
  /\ Caller \in alive
  /\ Ask(EntryNode, "proxy", ReqSend(Sid, "proxy", "Probe"))
  /\ msgs' = msgs \cup {Mail("Gossip", ExitNode, entry.joint, TRUE)}
  /\ NoFault

\* A joint node is bound: the caller encrypts the negotiation, it is gossiped,
\* and the probe goes to the joint node (and to the caller).
EntryGossips ==
  /\ EntryAt("joint", "send")
  /\ Told(EntryNode, "proxy", {"ok"})
  /\ Caller \in alive
  /\ Ask(EntryNode, "proxy", ReqSend(Sid, "proxy", "Probe"))
  /\ msgs' = msgs \cup {Mail("Gossip", ExitNode, entry.joint, TRUE)}
  /\ NoFault

\* The future of the list of peers expires: an error, and nothing is closed.
EntryGetsNoPeers ==
  /\ EntryAt("get", "end")
  /\ EntryNode # ExitNode
  /\ Told(EntryNode, "proxy", {"half"})
  /\ ReadAnswer(EntryNode, "proxy")
  /\ Answers(FALSE) /\ Fault("gossip")

\* EncryptGossip fails or times out: an error, and nothing is closed here.
EntryCannotEncrypt ==
  /\ EntryAt("joint", "end")
  /\ Told(EntryNode, "proxy", {"ok"})
  /\ ReadAnswer(EntryNode, "proxy")
  /\ Answers(FALSE)
  /\ FaultUnless(Caller \notin alive, "gossip")

\* The future of the gossip expires, although the gossip goes out.
EntryGossipExpires ==
  /\ EntryAt("joint", "end")
  /\ Told(EntryNode, "proxy", {"ok"})
  /\ Caller \in alive
  /\ ReadAnswer(EntryNode, "proxy")
  /\ msgs' = msgs \cup {Mail("CircuitAck", Caller, NoNode, FALSE),
                        Mail("Gossip", ExitNode, entry.joint, TRUE)}
  /\ Fault("gossip")

\* The gossip cannot be published: the circuit is closed, but the error that is
\* returned is an older one, nil, so that the caller is told of success.
EntryCannotGossip ==
  /\ EntryAt("joint", "end")
  /\ Told(EntryNode, "proxy", {"ok"})
  /\ Ask(EntryNode, "proxy", ReqClose(Sid))
  /\ Answers(TRUE) /\ Fault("lost")

EntrySent(val, ok) ==
  /\ EntryAt("send", "end")
  /\ Told(EntryNode, "proxy", {val})
  /\ ReadAnswer(EntryNode, "proxy")
  /\ Answers(ok) /\ NoFault

\* Any future of HandleNewCircuit expires.
EntryExpires ==
  /\ EntryAt(entry.pc, "end")
  /\ Pending(EntryNode, "proxy")
  /\ Disown(EntryNode, "proxy")
  /\ Answers(FALSE) /\ Fault("future")

EntryStep ==
  \/ EntryReceives \/ EntryRefuses
  \/ SameProxyNew \/ SameProxyNewFailed \/ SameProxySend
  \/ EntryPicksJoint \/ EntryRetriesJoint \/ EntryGossips
  \/ EntrySent("ok", TRUE) \/ EntrySent("err", FALSE)

EntryFault ==
  \/ EntryGetsNoPeers \/ EntryCannotEncrypt \/ EntryGossipExpires
  \/ EntryCannotGossip \/ EntryExpires

-----------------------------------------------------------------------------
(* The exit node: handleGossipMsg *)

ExitAt(from, to) ==
  exit.pc = from /\ exit' = [exit EXCEPT !.pc = to] /\ UNCHANGED <<user, entry, cmd>>

\* The answer decrypts the negotiation; a stream to it is bound first.
ExitReceives ==
  \E m \in msgs :
    /\ m.type = "Gossip"
    /\ exit.pc = "idle"
    /\ Answerer \in alive
    /\ exit' = [exit EXCEPT !.pc = "answer", !.joint = m.joint]
    /\ Ask(ExitNode, "gossip", ReqNew(Sid, "gossip", Answerer, "Exit", "Answer"))
    /\ msgs' = msgs \ {m}
    /\ UNCHANGED <<user, entry, cmd>> /\ NoFault

\* The gossip is lost, or the answer does not decrypt it in time.
GossipLost ==
  \E m \in msgs :
    /\ m.type = "Gossip"
    /\ msgs' = msgs \ {m}
    /\ FaultUnless(ExitNode \notin alive \/ Answerer \notin alive, "lost")
    /\ UNCHANGED <<relayVars, user, entry, exit, cmd>>

\* The exit node is the joint node: the circuit is complete.
ExitIsJoint ==
  /\ ExitAt("answer", "send")
  /\ Told(ExitNode, "gossip", {"ok"})
  /\ exit.joint = ExitNode
  /\ Ask(ExitNode, "gossip", ReqSend(Sid, "gossip", "Succ"))
  /\ UNCHANGED msgs /\ NoFault

RelayChoice(prev, bad) ==
  LET left == (Peers[ExitNode] \ {ExitNode, exit.joint}) \ bad
  IN  IF left = {} THEN {prev} ELSE left

TryRelay(bad, tries) ==
  \E r \in RelayChoice(exit.relay, bad) :
    /\ exit' = [exit EXCEPT !.pc = "relay", !.relay = r, !.bad = bad, !.tries = tries]
    /\ Ask(ExitNode, "gossip", ReqNew(Sid, "gossip", r, "Exit", "Relay"))
    /\ UNCHANGED <<user, entry, cmd, msgs>> /\ NoFault

ExitPicksRelay ==
  /\ exit.pc = "answer" /\ exit.joint # ExitNode
  /\ Told(ExitNode, "gossip", {"ok"})
  /\ TryRelay({}, 1)

ExitRetriesRelay ==
  /\ exit.pc = "relay" /\ exit.tries < RetryTimes
  /\ Told(ExitNode, "gossip", {"err"})
  /\ TryRelay(exit.bad \cup {exit.relay}, exit.tries + 1)

\* The answer cannot be bound, or no relay node was found.
ExitFails ==
  /\ exit.pc = "answer" \/ (exit.pc = "relay" /\ exit.tries >= RetryTimes)
  /\ ExitAt(exit.pc, "end")
  /\ Told(ExitNode, "gossip", {"err"})
  /\ Ask(ExitNode, "gossip", ReqClose(Sid))
  /\ UNCHANGED msgs /\ NoFault

\* ExpendSession: the relay node is told to reach the joint node.
ExitExpends ==
  /\ ExitAt("relay", "expend")
  /\ exit.relay \in alive
  /\ Told(ExitNode, "gossip", {"ok"})
  /\ ReadAnswer(ExitNode, "gossip")
  /\ msgs' = msgs \cup {Mail("Expend", exit.relay, exit.joint, TRUE)}
  /\ NoFault

ExitExpended ==
  \E m \in msgs :
    /\ m.type = "ExpendAck"
    /\ ExitAt("expend", IF m.ok THEN "send" ELSE "end")
    /\ Ask(ExitNode, "gossip", IF m.ok THEN ReqSend(Sid, "gossip", "Probe")
                                       ELSE ReqClose(Sid))
    /\ msgs' = msgs \ {m}
    /\ NoFault

ExitSent ==
  /\ ExitAt("send", "end")
  /\ Told(ExitNode, "gossip", {"ok", "err"})
  /\ ReadAnswer(ExitNode, "gossip")
  /\ UNCHANGED msgs /\ NoFault

ExitExpires ==
  /\ ExitAt(exit.pc, "end")
  /\ Pending(ExitNode, "gossip")
  /\ Disown(ExitNode, "gossip")
  /\ UNCHANGED msgs /\ Fault("gossip")

\* The relay node cannot be reached.
ExitCannotExpend ==
  /\ ExitAt("relay", "end")
  /\ Told(ExitNode, "gossip", {"ok"})
  /\ Ask(ExitNode, "gossip", ReqClose(Sid))
  /\ UNCHANGED msgs
  /\ FaultUnless(exit.relay \notin alive, "lost")

\* The future for the expansion expires; nothing is closed.
ExitExpendExpires ==
  /\ ExitAt("expend", "end")
  /\ FaultUnless(cmd.pc \in {"idle", "end"} /\ NoMail({"Expend", "ExpendAck"}),
                 "command")
  /\ UNCHANGED <<relayVars, msgs>>

ExitStep ==
  \/ ExitReceives \/ ExitIsJoint \/ ExitPicksRelay \/ ExitRetriesRelay
  \/ ExitFails \/ ExitExpends \/ ExitExpended \/ ExitSent

ExitFault == GossipLost \/ ExitExpires \/ ExitCannotExpend \/ ExitExpendExpires

-----------------------------------------------------------------------------
(* The relay node: CmdStreamHandler *)

CmdAt(from, to) ==
  cmd.pc = from /\ cmd' = [cmd EXCEPT !.pc = to] /\ UNCHANGED <<user, entry, exit>>
Expended(ok) == msgs' = msgs \cup {Mail("ExpendAck", ExitNode, NoNode, ok)}

CmdReceives ==
  \E m \in msgs :
    /\ m.type = "Expend"
    /\ cmd.pc = "idle"
    /\ cmd' = [pc |-> "get", at |-> m.to, joint |-> m.joint]
    /\ Ask(m.to, "cmd", ReqGet(Sid, "cmd"))
    /\ msgs' = msgs \ {m}
    /\ UNCHANGED <<user, entry, exit>> /\ NoFault

\* No such session, or the joint node was not bound: close and refuse.
CmdFails(pc, val) ==
  /\ CmdAt(pc, "end")
  /\ Told(cmd.at, "cmd", {val})
  /\ Ask(cmd.at, "cmd", ReqClose(Sid))
  /\ Expended(FALSE) /\ NoFault

\* "Session is ready, ack as both entry and relay": Success goes both ways.
CmdIsEntry ==
  /\ CmdAt("get", "send")
  /\ Told(cmd.at, "cmd", {"ready"})
  /\ Ask(cmd.at, "cmd", ReqSend(Sid, "cmd", "Succ"))
  /\ Expended(TRUE) /\ NoFault

CmdExpends ==
  /\ CmdAt("get", "new")
  /\ Told(cmd.at, "cmd", {"half"})
  /\ Ask(cmd.at, "cmd", ReqNew(Sid, "cmd", cmd.joint, "Relay", "Joint"))
  /\ UNCHANGED msgs /\ NoFault

CmdExpended ==
  /\ CmdAt("new", "end")
  /\ Told(cmd.at, "cmd", {"ok"})
  /\ ReadAnswer(cmd.at, "cmd")
  /\ Expended(TRUE) /\ NoFault

CmdSent ==
  /\ CmdAt("send", "end")
  /\ Told(cmd.at, "cmd", {"ok", "err"})
  /\ ReadAnswer(cmd.at, "cmd")
  /\ UNCHANGED msgs /\ NoFault

\* A future expires: no acknowledgement is sent.
CmdExpires ==
  /\ cmd.pc \in {"get", "new"}
  /\ CmdAt(cmd.pc, "end")
  /\ Pending(cmd.at, "cmd")
  /\ Disown(cmd.at, "cmd")
  /\ UNCHANGED msgs /\ Fault("command")

CmdStep ==
  \/ CmdReceives \/ CmdFails("get", "absent") \/ CmdFails("new", "err")
  \/ CmdIsEntry \/ CmdExpends \/ CmdExpended \/ CmdSent

-----------------------------------------------------------------------------
(* Processes that end *)

\* The managers on n end with it, and what is on its way to n is lost.
Kill(n) ==
  /\ Crash(n)
  /\ user' = IF n = Caller THEN "dead" ELSE user
  /\ entry' = IF n = EntryNode THEN [entry EXCEPT !.pc = "end"] ELSE entry
  /\ exit' = IF n = ExitNode THEN [exit EXCEPT !.pc = "end"] ELSE exit
  /\ cmd' = IF n = cmd.at THEN [cmd EXCEPT !.pc = "end"] ELSE cmd
  /\ msgs' = {m \in msgs : m.to # n}

\* After the last attempt the circuit is to be closed and an error returned,
\* but the error value whose text is asked for is nil.
EntryFindsNoJoint ==
  /\ entry.pc = "joint" /\ entry.tries >= RetryTimes
  /\ Told(EntryNode, "proxy", {"err"})
  /\ Kill(EntryNode) /\ NoFault

\* An acknowledgement that finds no task ends the process that gets it (see
\* AckWithoutTask).  The one for NewCircuit: its caller has stopped waiting, or
\* has not registered its task yet.
UnexpectedCircuitAck ==
  /\ \E m \in msgs : m.type = "CircuitAck"
  /\ \/ user \in {"closing", "failed"} /\ NoFault
     \/ user = "asked" /\ Fault("answer")
  /\ Kill(Caller)

\* The one for EncryptGossip, and the one for DecryptGossip; the exit node also
\* ends when the future for the list of its clients expires, as its result, nil,
\* is asserted to be a ResGetClient.
UnexpectedEncryptAck ==
  /\ entry.pc = "joint"
  /\ Told(EntryNode, "proxy", {"ok"})
  /\ Kill(EntryNode) /\ Fault("answer")

GossipEndsNode ==
  /\ exit.pc = "idle" /\ ExitNode \in alive
  /\ \E m \in msgs : m.type = "Gossip"
  /\ Kill(ExitNode) /\ (Fault("answer") \/ Fault("gossip"))

\* The one for ExpendSession.
UnexpectedExpendAck ==
  /\ exit.pc \in {"expend", "end"} /\ ExitNode \in alive
  /\ \E m \in msgs : m.type = "ExpendAck"
  /\ Kill(ExitNode) /\ Fault("expend")

\* The gossip service has stopped waiting for ExpendSession, the command actor
\* has not: nobody reads its answer.
LateExpendAck ==
  /\ exit.pc = "end"
  /\ \E m \in msgs : m.type = "ExpendAck" /\ msgs' = msgs \ {m}
  /\ UNCHANGED <<relayVars, user, entry, exit, cmd>> /\ NoFault

\* The future for sending Success expires: its result, nil, is asserted to be
\* a ResError all the same.
CmdSendExpires ==
  /\ cmd.pc = "send" /\ Pending(cmd.at, "cmd")
  /\ Kill(cmd.at) /\ Fault("command")

\* The acknowledgement of a SetSessionId finds no task: the call has returned,
\* or has not registered it yet.
UnexpectedSetSessionAck(n) ==
  \E a \in acks :
    /\ a.to = n
    /\ Kill(n)
    /\ FaultUnless(\A t \in waiting[n] : ~ (t.sid = a.sid /\ t.other = a.role), "ack")

NodeCrash(n) == n \in alive /\ Kill(n) /\ Fault("crash")

-----------------------------------------------------------------------------

\* The answer's user may hang up once connected.
AnswerDisconnects ==
  /\ Answerer \in MayHangUp
  /\ Sid \in secureConnMap[Answerer]
  /\ UserClose(Answerer, Sid)
  /\ UNCHANGED mgrVars /\ NoFault

LayerStep(n) == RelayStep(n) /\ UNCHANGED mgrVars /\ NoFault

LayerFault(n) ==
  /\ \/ (\E x \in Stream : StreamReset(n, x)) /\ Fault("reset")
     \/ \E t \in waiting[n] : /\ SetSessionTimeout(n, t)
                              /\ FaultUnless(Hopeless(n, t), "ack")
     \/ /\ ServeNewFails(n)
        /\ FaultUnless(Head(mailbox[n]).peer \notin alive \ {n}, "lost")
  /\ UNCHANGED mgrVars

CircuitNext ==
  \/ UserStep \/ UserFault
  \/ EntryStep \/ EntryFault
  \/ ExitStep \/ ExitFault
  \/ CmdStep \/ CmdExpires
  \/ AnswerDisconnects
  \/ EntryFindsNoJoint \/ UnexpectedCircuitAck \/ UnexpectedEncryptAck
  \/ GossipEndsNode \/ UnexpectedExpendAck \/ LateExpendAck \/ CmdSendExpires
  \/ \E n \in Node : LayerStep(n) \/ LayerFault(n) \/ UnexpectedSetSessionAck(n) \/ NodeCrash(n)

CircuitSpec == CircuitInit /\ [][CircuitNext]_vars
\* Some step that is not a failure is taken as long as one is possible: the
\* readers, the actors and the managers are goroutines that run whenever they
\* can.  Which of them runs first is left open.
FairSpec == CircuitSpec /\ WF_vars(CircuitNext /\ UNCHANGED faults)

-----------------------------------------------------------------------------
(* Properties *)

UserState == {"idle", "setting", "opening", "asked", "polling", "connected",
              "closing", "failed", "gaveup", "done", "dead"}
EntryState == [pc : {"idle", "get", "sameNew", "joint", "send", "end"},
               joint : Server \cup {NoNode}, bad : SUBSET (Server \cup {NoNode}),
               tries : 0..RetryTimes]
ExitState == [pc : {"idle", "answer", "relay", "expend", "send", "end"},
              joint : Server \cup {NoNode}, relay : Server \cup {NoNode},
              bad : SUBSET (Server \cup {NoNode}), tries : 0..RetryTimes]
CmdState == [pc : {"idle", "get", "new", "send", "end"},
             at : Server \cup {NoNode}, joint : Server \cup {NoNode}]

\* Types of what the managers keep: only servers are picked as joint and relay
\* nodes, and no loop exceeds RetryTimes.
CircuitTypeOK ==
  /\ user \in UserState
  /\ entry \in EntryState
  /\ exit \in ExitState
  /\ cmd \in CmdState
  /\ cmd.pc # "idle" => cmd.at \in Server
  /\ msgs \subseteq ManagerMsg
  /\ faults \in 0..MaxFaults

\* Two neighbours agree on the stream between them.  If a node has it in its
\* session and both ends are open, then so does the other, unless it still
\* waits for the acknowledgement of its SetSessionId or has already sent the
\* Disconnect that will end it (SetSessionId, handleSetSession, SwapJoint and
\* the closing paths run at the two nodes in any order).
LinkAgreement ==
  \A n \in alive : \A x \in Pair(n, Sid) \cap up[n] :
    LET m == Remote(n, x)
    IN  \/ x \notin up[m]
        \/ x \in Pair(m, Sid)
        \/ \E t \in waiting[m] : t.stream = x
        \/ \E i \in 1..Len(wire[n][x]) : wire[n][x][i].type = "Disc"

\* The streams that are about to enter the session at n: a SetSessionId is there to
\* be read on them, or one of n's own is to be acknowledged.
Entering(n) ==
  {x \in Stream : \E i \in 1..Len(wire[n][x]) : wire[n][x][i].type = "Set"}
    \cup {t.stream : t \in waiting[n]}

\* The steps that build a circuit touch the session of a node one after the other,
\* though readers of several streams and the actor load, change and store it
\* without a lock (handleSetSession and SetSessionId): no two of them are ever due
\* at one node at the same time, as each is acknowledged only after its store and
\* the next node acts on the acknowledgement.
SetsApart == \A n \in alive : \A x, y \in Entering(n) : x = y

\* What a handshake finds in the CircuitConn is the message it waits for:
\* although Success is forwarded by goroutines that data may overtake, nothing
\* is lost, repeated or out of order between caller and answer.
HandshakeInOrder ==
  \A n \in alive : \A g \in spawned[n] :
    (g.pc \in DOMAIN Expected /\ inbox[n][g.sid] # <<>>)
      => Head(inbox[n][g.sid]) = Expected[g.pc]

Linked(n, m) ==
  \E x \in Pair(n, Sid) \cap up[n] : Remote(n, x) = m /\ x \in Pair(m, Sid) \cap up[m]

\* The nodes that can be reached from the caller over at most k links.
Reach[k \in 0..Cardinality(Node)] ==
  IF k = 0 THEN {Caller}
  ELSE LET R == Reach[k - 1]
       IN  R \cup {m \in Node : \E n \in R : Linked(n, m)}

PathComplete == Answerer \in Reach[Cardinality(Node)]

\* Success is signalled (by the joint node, by an exit or entry node that is
\* also joint or relay) only when the sessions of all nodes link the caller to
\* the answer.  The signal and the sessions are set by different nodes.
SuccessMeansPath ==
  [][\A n \in Node, x \in Stream :
       /\ Len(wire'[n][x]) > Len(wire[n][x])
       /\ wire'[n][x][Len(wire'[n][x])].type = "Succ"
       => PathComplete]_vars

\* Without failures every Dial ends in a secure connection, whichever joint and
\* relay nodes are drawn, provided that the CircuitConns wake their readers.
\* (The answer may hang up before Dial's next poll.)
DialConnects == (user = "setting") ~> (Sid \in secureConnMap[Caller])

Established == user \in {"connected", "done"} \/ Sid \in secureConnMap[Answerer]

\* When an established circuit is cut anywhere (an end hangs up, a node
\* crashes, a stream is lost), every node drops its session in the end:
\* Disconnect messages, read errors and ClosedStream notifications together
\* reach all of them.
TornDown == (Established /\ ~ PathComplete) ~> (\A n \in Node : ~ Has(n, Sid))

\* Dial returns: whatever fails, the caller gets a connection or an error.
DialReturns ==
  (user = "setting") ~> (user \in {"connected", "done", "failed", "gaveup", "dead"})

\* NewCircuit reports success only for a circuit that its proxy has not just
\* given up: while the positive acknowledgement is under way, the relay actor of
\* the entry node has no order to close the circuit.
SuccessNotClosed ==
  \A m \in msgs : m.type = "CircuitAck" /\ m.ok =>
    \A i \in DOMAIN mailbox[EntryNode] : mailbox[EntryNode][i] # ReqClose(Sid)

\* No process ends except by a crash from outside.
NodesSurvive == alive = Node
=============================================================================
