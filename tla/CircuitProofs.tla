--------------------------- MODULE CircuitProofs ---------------------------
(***************************************************************************)
(* The managers that build a circuit ask of the relay layer nothing but    *)
(* what module Relay allows: Circuit implements Relay, so that what holds  *)
(* of the relay layer under any managers holds under these.  They do so    *)
(* one after the other, so that no two bindings meet at a node, and each   *)
(* finds room for its stream, so that neighbours agree on it.              *)
(***************************************************************************)
EXTENDS Circuit, RelayProofs

\* What a step of Circuit must be for the relay layer.
RelayStepOrNot == [RelayNext]_relayVars

LEMMA Roles ==
  /\ Caller \in Node /\ Answerer \in Node /\ Sid \in SessionId
  /\ EntryNode \in Server /\ ExitNode \in Server
  /\ EntryNode \in Node /\ ExitNode \in Node
BY CircuitAssumption, ClientAssumption DEF EntryNode, ExitNode, Server

-----------------------------------------------------------------------------
(* Steps of the relay layer *)

\* The requests the managers make are requests that any manager might make.
LEMMA AskStep ==
  ASSUME NEW n, NEW who \in Asker, NEW r, Ask(n, who, r),
         \/ r \in {ReqGet(Sid, who), ReqClose(Sid), ReqSend(Sid, who, "Probe"),
                   ReqSend(Sid, who, "Succ")}
         \/ \E p \in Node \cup {NoNode}, rp \in RolePair :
              r = ReqNew(Sid, who, p, rp[1], rp[2])
  PROVE  RelayStepOrNot
<1>1. n \in Node /\ Sid \in SessionId
  BY Roles DEF Ask, Server
<1>2. AskAny(n, who)
  BY <1>1 DEF AskAny
<1> QED
  BY <1>1, <1>2 DEF RelayStepOrNot, RelayNext, RelayInput

LEMMA NewStep ==
  ASSUME NEW n, NEW who \in Asker, NEW p \in Node \cup {NoNode}, NEW my, NEW other,
         <<my, other>> \in RolePair, Ask(n, who, ReqNew(Sid, who, p, my, other))
  PROVE  RelayStepOrNot
<1>1. \E rp \in RolePair : ReqNew(Sid, who, p, my, other) = ReqNew(Sid, who, p, rp[1], rp[2])
  OBVIOUS
<1> QED
  BY <1>1, AskStep

LEMMA InputStep ==
  ASSUME NEW n \in Node, NEW who \in Asker, ReadAnswer(n, who) \/ Disown(n, who)
  PROVE  RelayStepOrNot
BY DEF RelayStepOrNot, RelayNext, RelayInput

LEMMA UserInputStep ==
  ASSUME NEW n \in Node,
         \/ UserDial(n, EntryNode, Sid) \/ AddCircuitConnCaller(n, Sid) \/ UserClose(n, Sid)
  PROVE  RelayStepOrNot
BY Roles DEF RelayStepOrNot, RelayNext, RelayInput

LEMMA CrashStep ==
  ASSUME TypeOK, NEW n, Crash(n)
  PROVE  RelayStepOrNot
<1>1. n \in Node
  BY DEF Crash, TypeOK
<1> QED
  BY <1>1 DEF RelayStepOrNot, RelayNext, RelayFault

LEMMA FaultType ==
  ASSUME faults \in 0..MaxFaults,
         \/ NoFault
         \/ \E kind : Fault(kind)
         \/ \E forced, kind : FaultUnless(forced, kind)
  PROVE  faults' \in 0..MaxFaults
BY CircuitAssumption DEF NoFault, Fault, FaultUnless

LEMMA MailType ==
  ASSUME NEW to \in Node, NEW joint \in Server \cup {NoNode}, NEW ok \in BOOLEAN,
         NEW type \in {"NewCircuit", "CircuitAck", "Gossip", "Expend", "ExpendAck"}
  PROVE  Mail(type, to, joint, ok) \in ManagerMsg
BY DEF Mail, ManagerMsg

-----------------------------------------------------------------------------
(* The caller *)

LEMMA UserRefines ==
  ASSUME TypeOK, CircuitTypeOK, UserStep \/ UserFault
  PROVE  RelayStepOrNot /\ CircuitTypeOK'
<1>1. "user" \in Asker
  BY DEF Asker
<1>2. UNCHANGED <<entry, exit, cmd>> /\ user' \in UserState
  BY DEF UserStep, UserFault, UserDials, UserDialFails, UserSet, UserRequests,
         UserCannotRequest, UserAcked, UserTimesOut, UserCloses, UserConnects, UserGivesUp,
         UserDisconnects, UserAt, UserState
<1>3. faults' \in 0..MaxFaults
  BY FaultType DEF UserStep, UserFault, UserDials, UserDialFails, UserSet, UserRequests,
         UserCannotRequest, UserAcked, UserTimesOut, UserCloses, UserConnects, UserGivesUp,
         UserDisconnects, CircuitTypeOK
<1>4. msgs' \subseteq ManagerMsg
  <2>1. Mail("NewCircuit", EntryNode, NoNode, TRUE) \in ManagerMsg
    BY Roles, MailType
  <2>2. msgs' \subseteq msgs \cup {Mail("NewCircuit", EntryNode, NoNode, TRUE)}
    BY DEF UserStep, UserFault, UserDials, UserDialFails, UserSet, UserRequests,
         UserCannotRequest, UserAcked, UserTimesOut, UserCloses, UserConnects, UserGivesUp,
         UserDisconnects
  <2> QED
    BY <2>1, <2>2 DEF CircuitTypeOK
<1>5. RelayStepOrNot
  <2>1. CASE UNCHANGED relayVars
    BY <2>1 DEF RelayStepOrNot
  <2>2. CASE ReadAnswer(Caller, "user")
    BY <2>2, <1>1, Roles, InputStep
  <2>3. CASE \/ UserDial(Caller, EntryNode, Sid) \/ AddCircuitConnCaller(Caller, Sid)
             \/ UserClose(Caller, Sid)
    BY <2>3, Roles, UserInputStep
  <2> QED
    BY <2>1, <2>2, <2>3
    DEF UserStep, UserFault, UserDials, UserDialFails, UserSet, UserRequests,
        UserCannotRequest, UserAcked, UserTimesOut, UserCloses, UserConnects, UserGivesUp,
        UserDisconnects
<1> QED
  BY <1>2, <1>3, <1>4, <1>5 DEF CircuitTypeOK

-----------------------------------------------------------------------------
(* The entry node *)

LEMMA EntryRefines ==
  ASSUME TypeOK, CircuitTypeOK, EntryStep \/ EntryFault
  PROVE  RelayStepOrNot /\ CircuitTypeOK'
<1>1. /\ "proxy" \in Asker /\ <<"Exit", "Answer">> \in RolePair
      /\ <<"Entry", "Joint">> \in RolePair
  BY DEF Asker, RolePair
<1>2. UNCHANGED <<user, exit, cmd>>
  BY DEF EntryStep, EntryFault, EntryReceives, EntryRefuses, SameProxyNew,
         SameProxyNewFailed, SameProxySend, EntryPicksJoint, EntryRetriesJoint, TryJoint,
         EntryGossips, EntrySent, EntryGetsNoPeers, EntryCannotEncrypt, EntryGossipExpires,
         EntryCannotGossip, EntryExpires, EntryAt
<1>3. entry' \in EntryState
  <2>1. ASSUME NEW bad \in SUBSET (Server \cup {NoNode}), NEW tries \in 0..RetryTimes,
               TryJoint(bad, tries)
        PROVE  entry' \in EntryState
    <3>1. Peers[EntryNode] \subseteq Server /\ entry.joint \in Server \cup {NoNode}
      BY Roles, CircuitAssumption DEF CircuitTypeOK, EntryState
    <3>2. JointChoice(entry.joint, bad) \subseteq Server \cup {NoNode}
      BY <3>1 DEF JointChoice
    <3> QED
      BY <2>1, <3>2 DEF TryJoint, EntryState
  <2>2. CASE EntryPicksJoint
    BY <2>1, <2>2, CircuitAssumption DEF EntryPicksJoint
  <2>3. CASE EntryRetriesJoint
    <3>1. entry \in EntryState
      BY DEF CircuitTypeOK
    <3>2. entry.bad \cup {entry.joint} \in SUBSET (Server \cup {NoNode})
      BY <3>1 DEF EntryState
    <3>3. entry.tries + 1 \in 0..RetryTimes
      BY <3>1, <2>3, CircuitAssumption DEF EntryState, EntryRetriesJoint
    <3> QED
      BY <2>1, <2>3, <3>2, <3>3 DEF EntryRetriesJoint
  <2>4. CASE ~ EntryPicksJoint /\ ~ EntryRetriesJoint
    <3>1. \E to \in {"get", "end", "sameNew", "send"} : entry' = [entry EXCEPT !.pc = to]
      BY <2>4 DEF EntryStep, EntryFault, EntryReceives, EntryRefuses, SameProxyNew,
         SameProxyNewFailed, SameProxySend, EntryGossips, EntrySent, EntryGetsNoPeers,
         EntryCannotEncrypt, EntryGossipExpires, EntryCannotGossip, EntryExpires, EntryAt
    <3> QED
      BY <3>1 DEF CircuitTypeOK, EntryState
  <2> QED
    BY <2>2, <2>3, <2>4
<1>4. faults' \in 0..MaxFaults
  BY FaultType DEF EntryStep, EntryFault, EntryReceives, EntryRefuses, SameProxyNew,
         SameProxyNewFailed, SameProxySend, EntryPicksJoint, EntryRetriesJoint, TryJoint,
         EntryGossips, EntrySent, EntryGetsNoPeers, EntryCannotEncrypt, EntryGossipExpires,
         EntryCannotGossip, EntryExpires, CircuitTypeOK
<1>5. msgs' \subseteq ManagerMsg
  <2>1. entry.joint \in Server \cup {NoNode} /\ TRUE \in BOOLEAN /\ FALSE \in BOOLEAN
    BY DEF CircuitTypeOK, EntryState
  <2>2. /\ Mail("CircuitAck", Caller, NoNode, TRUE) \in ManagerMsg
        /\ Mail("CircuitAck", Caller, NoNode, FALSE) \in ManagerMsg
        /\ Mail("Gossip", ExitNode, entry.joint, TRUE) \in ManagerMsg
    BY <2>1, Roles, MailType
  <2>3. msgs' \subseteq msgs \cup {Mail("CircuitAck", Caller, NoNode, TRUE),
                                  Mail("CircuitAck", Caller, NoNode, FALSE),
                                  Mail("Gossip", ExitNode, entry.joint, TRUE)}
    BY DEF EntryStep, EntryFault, EntryReceives, EntryRefuses, SameProxyNew,
         SameProxyNewFailed, SameProxySend, EntryPicksJoint, EntryRetriesJoint, TryJoint,
         EntryGossips, EntrySent, EntryGetsNoPeers, EntryCannotEncrypt, EntryGossipExpires,
         EntryCannotGossip, EntryExpires, Answers
  <2> QED
    BY <2>2, <2>3 DEF CircuitTypeOK
<1>6. RelayStepOrNot
  <2>1. CASE ReadAnswer(EntryNode, "proxy") \/ Disown(EntryNode, "proxy")
    BY <2>1, <1>1, Roles, InputStep
  <2>2. CASE \E r \in {ReqGet(Sid, "proxy"), ReqClose(Sid), ReqSend(Sid, "proxy", "Probe"),
                       ReqSend(Sid, "proxy", "Succ")} : Ask(EntryNode, "proxy", r)
    BY <2>2, <1>1, AskStep
  <2>3. CASE Ask(EntryNode, "proxy", ReqNew(Sid, "proxy", Answerer, "Exit", "Answer"))
    BY <2>3, <1>1, Roles, NewStep
  <2>4. CASE \E p \in Node \cup {NoNode} :
               Ask(EntryNode, "proxy", ReqNew(Sid, "proxy", p, "Entry", "Joint"))
    BY <2>4, <1>1, NewStep
  <2>5. ASSUME NEW bad, NEW tries, TryJoint(bad, tries)
        PROVE  \E p \in Node \cup {NoNode} :
                 Ask(EntryNode, "proxy", ReqNew(Sid, "proxy", p, "Entry", "Joint"))
    <3>1. /\ Peers[EntryNode] \subseteq Node
          /\ entry.joint \in Node \cup {NoNode}
      BY Roles, CircuitAssumption DEF CircuitTypeOK, EntryState, Server
    <3>2. JointChoice(entry.joint, bad) \subseteq Node \cup {NoNode}
      BY <3>1 DEF JointChoice
    <3> QED
      BY <2>5, <3>2 DEF TryJoint
  <2>6. CASE EntryPicksJoint \/ EntryRetriesJoint
    <3>1. \E bad, tries : TryJoint(bad, tries)
      BY <2>6 DEF EntryPicksJoint, EntryRetriesJoint
    <3> QED
      BY <3>1, <2>4, <2>5
  <2> QED
    BY <2>1, <2>2, <2>3, <2>6
    DEF EntryStep, EntryFault, EntryReceives, EntryRefuses, SameProxyNew,
         SameProxyNewFailed, SameProxySend, EntryGossips, EntrySent, EntryGetsNoPeers,
         EntryCannotEncrypt, EntryGossipExpires, EntryCannotGossip, EntryExpires
<1> QED
  BY <1>2, <1>3, <1>4, <1>5, <1>6 DEF CircuitTypeOK

-----------------------------------------------------------------------------
(* The exit node *)

LEMMA ExitRefines ==
  ASSUME TypeOK, CircuitTypeOK, ExitStep \/ ExitFault
  PROVE  RelayStepOrNot /\ CircuitTypeOK'
<1>1. /\ "gossip" \in Asker /\ <<"Exit", "Answer">> \in RolePair
      /\ <<"Exit", "Relay">> \in RolePair
  BY DEF Asker, RolePair
<1>2. UNCHANGED <<user, entry, cmd>>
  BY DEF ExitStep, ExitFault, ExitReceives, ExitIsJoint, ExitPicksRelay, ExitRetriesRelay,
         TryRelay, ExitFails, ExitExpends, ExitExpended, ExitSent, GossipLost, ExitExpires,
         ExitCannotExpend, ExitExpendExpires, ExitAt
<1>3. exit \in ExitState /\ msgs \subseteq ManagerMsg
  BY DEF CircuitTypeOK
<1>4. \A m \in msgs : m.joint \in Server \cup {NoNode}
  BY <1>3 DEF ManagerMsg
<1>5. ASSUME NEW bad
      PROVE  RelayChoice(exit.relay, bad) \subseteq Server \cup {NoNode}
  <2>1. Peers[ExitNode] \subseteq Server /\ exit.relay \in Server \cup {NoNode}
    BY <1>3, Roles, CircuitAssumption DEF ExitState
  <2> QED
    BY <2>1 DEF RelayChoice
<1>6. exit' \in ExitState
  <2>1. ASSUME NEW bad \in SUBSET (Server \cup {NoNode}), NEW tries \in 0..RetryTimes,
               TryRelay(bad, tries)
        PROVE  exit' \in ExitState
    <3>1. PICK r \in RelayChoice(exit.relay, bad) :
            exit' = [exit EXCEPT !.pc = "relay", !.relay = r, !.bad = bad, !.tries = tries]
      BY <2>1 DEF TryRelay
    <3>2. r \in Server \cup {NoNode}
      BY <1>5
    <3> QED
      BY <1>3, <3>1, <3>2 DEF ExitState
  <2>2. CASE ExitPicksRelay
    BY <2>1, <2>2, CircuitAssumption DEF ExitPicksRelay
  <2>3. CASE ExitRetriesRelay
    <3>1. exit.bad \cup {exit.relay} \in SUBSET (Server \cup {NoNode})
      BY <1>3 DEF ExitState
    <3>2. exit.tries + 1 \in 0..RetryTimes
      BY <1>3, <2>3, CircuitAssumption DEF ExitState, ExitRetriesRelay
    <3> QED
      BY <2>1, <2>3, <3>1, <3>2 DEF ExitRetriesRelay
  <2>4. CASE ExitReceives
    BY <2>4, <1>3, <1>4 DEF ExitReceives, ExitState
  <2>5. CASE ~ ExitPicksRelay /\ ~ ExitRetriesRelay /\ ~ ExitReceives
    <3>1. \/ exit' = exit
          \/ \E to \in {"send", "end", "expend"} : exit' = [exit EXCEPT !.pc = to]
      BY <2>5 DEF ExitStep, ExitFault, ExitIsJoint, ExitFails, ExitExpends, ExitExpended,
         ExitSent, GossipLost, ExitExpires, ExitCannotExpend, ExitExpendExpires, ExitAt
    <3> QED
      BY <3>1, <1>3 DEF ExitState
  <2> QED
    BY <2>2, <2>3, <2>4, <2>5
<1>7. faults' \in 0..MaxFaults
  BY FaultType DEF ExitStep, ExitFault, ExitReceives, ExitIsJoint, ExitPicksRelay,
         ExitRetriesRelay, TryRelay, ExitFails, ExitExpends, ExitExpended, ExitSent,
         GossipLost, ExitExpires, ExitCannotExpend, ExitExpendExpires, CircuitTypeOK
<1>8. msgs' \subseteq ManagerMsg
  <2>1. CASE ExitExpends
    <3>1. exit.relay \in Node /\ exit.joint \in Server \cup {NoNode} /\ TRUE \in BOOLEAN
      BY <2>1, <1>3 DEF ExitExpends, ExitState, TypeOK
    <3>2. Mail("Expend", exit.relay, exit.joint, TRUE) \in ManagerMsg
      BY <3>1, MailType
    <3> QED
      BY <2>1, <3>2, <1>3 DEF ExitExpends
  <2>2. CASE ~ ExitExpends
    <3>1. msgs' \subseteq msgs
      BY <2>2 DEF ExitStep, ExitFault, ExitReceives, ExitIsJoint, ExitPicksRelay,
         ExitRetriesRelay, TryRelay, ExitFails, ExitExpended, ExitSent, GossipLost,
         ExitExpires, ExitCannotExpend, ExitExpendExpires
    <3> QED
      BY <3>1, <1>3
  <2> QED
    BY <2>1, <2>2
<1>9. RelayStepOrNot
  <2>1. CASE ReadAnswer(ExitNode, "gossip") \/ Disown(ExitNode, "gossip")
    BY <2>1, <1>1, Roles, InputStep
  <2>2. CASE \E r \in {ReqGet(Sid, "gossip"), ReqClose(Sid), ReqSend(Sid, "gossip", "Probe"),
                       ReqSend(Sid, "gossip", "Succ")} : Ask(ExitNode, "gossip", r)
    BY <2>2, <1>1, AskStep
  <2>3. CASE Ask(ExitNode, "gossip", ReqNew(Sid, "gossip", Answerer, "Exit", "Answer"))
    BY <2>3, <1>1, Roles, NewStep
  <2>4. CASE ExitPicksRelay \/ ExitRetriesRelay
    <3>1. PICK bad, tries : TryRelay(bad, tries)
      BY <2>4 DEF ExitPicksRelay, ExitRetriesRelay
    <3>2. PICK r \in Server \cup {NoNode} :
            Ask(ExitNode, "gossip", ReqNew(Sid, "gossip", r, "Exit", "Relay"))
      BY <3>1, <1>5 DEF TryRelay
    <3>3. r \in Node \cup {NoNode}
      BY <3>2 DEF Server
    <3> QED
      BY <3>2, <3>3, <1>1, NewStep
  <2>5. CASE UNCHANGED relayVars
    BY <2>5 DEF RelayStepOrNot
  <2>6. CASE ExitExpended
    BY <2>6, <2>2 DEF ExitExpended
  <2> QED
    BY <2>1, <2>2, <2>3, <2>4, <2>5, <2>6
    DEF ExitStep, ExitFault, ExitReceives, ExitIsJoint, ExitFails, ExitExpends, ExitSent,
        GossipLost, ExitExpires, ExitCannotExpend, ExitExpendExpires
<1> QED
  BY <1>2, <1>6, <1>7, <1>8, <1>9 DEF CircuitTypeOK

-----------------------------------------------------------------------------
(* The relay node *)

LEMMA CmdRefines ==
  ASSUME TypeOK, CircuitTypeOK, CmdStep \/ CmdExpires
  PROVE  RelayStepOrNot /\ CircuitTypeOK'
<1>1. "cmd" \in Asker /\ <<"Relay", "Joint">> \in RolePair
  BY DEF Asker, RolePair
<1>2. UNCHANGED <<user, entry, exit>>
  BY DEF CmdStep, CmdReceives, CmdFails, CmdIsEntry, CmdExpends, CmdExpended, CmdSent,
         CmdExpires, CmdAt
<1>3. /\ cmd \in CmdState /\ msgs \subseteq ManagerMsg
      /\ cmd.pc # "idle" => cmd.at \in Server
  BY DEF CircuitTypeOK
<1>4. CASE CmdReceives
  <2>1. PICK m \in msgs :
          /\ cmd' = [pc |-> "get", at |-> m.to, joint |-> m.joint]
          /\ Ask(m.to, "cmd", ReqGet(Sid, "cmd"))
          /\ msgs' = msgs \ {m}
    BY <1>4 DEF CmdReceives
  <2>2. m.joint \in Server \cup {NoNode} /\ m.to \in Server
    BY <2>1, <1>3 DEF ManagerMsg, Ask
  <2>3. cmd' \in CmdState /\ (cmd.pc # "idle" => cmd.at \in Server)'
    BY <2>1, <2>2 DEF CmdState
  <2>4. RelayStepOrNot
    BY <2>1, <1>1, AskStep
  <2>5. msgs' \subseteq ManagerMsg
    BY <2>1, <1>3
  <2>6. faults' \in 0..MaxFaults
    BY <1>4, FaultType DEF CmdReceives, CircuitTypeOK
  <2> QED
    BY <1>2, <2>3, <2>4, <2>5, <2>6 DEF CircuitTypeOK
<1>5. CASE ~ CmdReceives
  <2>1. cmd.pc # "idle" /\ \E to \in {"new", "send", "end"} : cmd' = [cmd EXCEPT !.pc = to]
    BY <1>5 DEF CmdStep, CmdFails, CmdIsEntry, CmdExpends, CmdExpended, CmdSent,
         CmdExpires, CmdAt
  <2>2. cmd' \in CmdState /\ (cmd.pc # "idle" => cmd.at \in Server)'
    BY <2>1, <1>3 DEF CmdState
  <2>3. cmd.at \in Node /\ cmd.joint \in Node \cup {NoNode}
    BY <2>1, <1>3 DEF CmdState, Server
  <2>4. RelayStepOrNot
    <3>1. CASE ReadAnswer(cmd.at, "cmd") \/ Disown(cmd.at, "cmd")
      BY <3>1, <2>3, <1>1, InputStep
    <3>2. CASE Ask(cmd.at, "cmd", ReqClose(Sid)) \/ Ask(cmd.at, "cmd", ReqSend(Sid, "cmd", "Succ"))
      BY <3>2, <1>1, AskStep
    <3>3. CASE Ask(cmd.at, "cmd", ReqNew(Sid, "cmd", cmd.joint, "Relay", "Joint"))
      BY <3>3, <2>3, <1>1, NewStep
    <3> QED
      BY <1>5, <3>1, <3>2, <3>3 DEF CmdStep, CmdFails, CmdIsEntry, CmdExpends, CmdExpended,
         CmdSent, CmdExpires
  <2>5. msgs' \subseteq ManagerMsg
    <3>1. TRUE \in BOOLEAN /\ FALSE \in BOOLEAN
      OBVIOUS
    <3>2. /\ Mail("ExpendAck", ExitNode, NoNode, TRUE) \in ManagerMsg
          /\ Mail("ExpendAck", ExitNode, NoNode, FALSE) \in ManagerMsg
      BY <3>1, Roles, MailType
    <3>3. msgs' \subseteq msgs \cup {Mail("ExpendAck", ExitNode, NoNode, TRUE),
                                    Mail("ExpendAck", ExitNode, NoNode, FALSE)}
      BY <1>5 DEF CmdStep, CmdFails, CmdIsEntry, CmdExpends, CmdExpended, CmdSent,
         CmdExpires, Expended
    <3> QED
      BY <3>2, <3>3, <1>3
  <2>6. faults' \in 0..MaxFaults
    BY <1>5, FaultType DEF CmdStep, CmdFails, CmdIsEntry, CmdExpends, CmdExpended, CmdSent,
         CmdExpires, CircuitTypeOK
  <2> QED
    BY <1>2, <2>2, <2>4, <2>5, <2>6 DEF CircuitTypeOK
<1> QED
  BY <1>4, <1>5

-----------------------------------------------------------------------------
(* Processes that end, and the relay layer's own steps *)

LEMMA KillRefines ==
  ASSUME TypeOK, CircuitTypeOK, NEW n, Kill(n), faults' \in 0..MaxFaults
  PROVE  RelayStepOrNot /\ CircuitTypeOK'
<1>1. RelayStepOrNot
  BY CrashStep DEF Kill
<1>2. user' \in UserState
  BY DEF Kill, CircuitTypeOK, UserState
<1>3. entry' \in EntryState
  BY DEF Kill, CircuitTypeOK, EntryState
<1>4. exit' \in ExitState
  BY DEF Kill, CircuitTypeOK, ExitState
<1>5. cmd' \in CmdState
  BY DEF Kill, CircuitTypeOK, CmdState
<1>6. (cmd.pc # "idle" => cmd.at \in Server)'
  <2>1. CASE n = cmd.at
    <3>1. n \in Node /\ cmd.at \in Server \cup {NoNode}
      BY DEF Kill, Crash, TypeOK, CircuitTypeOK, CmdState
    <3>2. cmd.at \in Server
      BY <2>1, <3>1, NoNodeAssumption
    <3>3. cmd'.at = cmd.at
      BY <2>1 DEF Kill, CircuitTypeOK, CmdState
    <3> QED
      BY <3>2, <3>3
  <2>2. CASE n # cmd.at
    BY <2>2 DEF Kill, CircuitTypeOK
  <2> QED
    BY <2>1, <2>2
<1>7. msgs' \subseteq ManagerMsg
  BY DEF Kill, CircuitTypeOK
<1> QED
  BY <1>1, <1>2, <1>3, <1>4, <1>5, <1>6, <1>7 DEF CircuitTypeOK

LEMMA EndRefines ==
  ASSUME TypeOK, CircuitTypeOK,
         \/ EntryFindsNoJoint \/ UnexpectedCircuitAck \/ UnexpectedEncryptAck
         \/ GossipEndsNode \/ UnexpectedExpendAck \/ LateExpendAck \/ CmdSendExpires
         \/ \E n \in Node : UnexpectedSetSessionAck(n) \/ NodeCrash(n)
  PROVE  RelayStepOrNot /\ CircuitTypeOK'
<1>1. faults' \in 0..MaxFaults
  BY FaultType DEF EntryFindsNoJoint, UnexpectedCircuitAck, UnexpectedEncryptAck,
         GossipEndsNode, UnexpectedExpendAck, LateExpendAck, CmdSendExpires,
         UnexpectedSetSessionAck, NodeCrash, CircuitTypeOK
<1>2. CASE \E n : Kill(n)
  BY <1>1, <1>2, KillRefines
<1>3. CASE UNCHANGED <<relayVars, user, entry, exit, cmd>> /\ msgs' \subseteq msgs
  BY <1>1, <1>3 DEF RelayStepOrNot, CircuitTypeOK
<1> QED
  BY <1>2, <1>3 DEF EntryFindsNoJoint, UnexpectedCircuitAck, UnexpectedEncryptAck,
         GossipEndsNode, UnexpectedExpendAck, LateExpendAck, CmdSendExpires,
         UnexpectedSetSessionAck, NodeCrash

LEMMA LayerRefines ==
  ASSUME TypeOK, CircuitTypeOK,
         AnswerDisconnects \/ \E n \in Node : LayerStep(n) \/ LayerFault(n)
  PROVE  RelayStepOrNot /\ CircuitTypeOK'
<1>1. faults' \in 0..MaxFaults /\ UNCHANGED mgrVars
  BY FaultType DEF AnswerDisconnects, LayerStep, LayerFault, CircuitTypeOK
<1>2. RelayStepOrNot
  <2>1. CASE AnswerDisconnects
    BY <2>1, Roles, UserInputStep DEF AnswerDisconnects
  <2>2. CASE \E n \in Node : LayerStep(n)
    BY <2>2 DEF LayerStep, RelayStepOrNot, RelayNext
  <2>3. CASE \E n \in Node : LayerFault(n)
    BY <2>3 DEF LayerFault, RelayStepOrNot, RelayNext, RelayFault
  <2> QED
    BY <2>1, <2>2, <2>3
<1> QED
  BY <1>1, <1>2 DEF mgrVars, CircuitTypeOK

-----------------------------------------------------------------------------
(* The theorems *)

LEMMA CircuitInitType == CircuitInit => TypeOK /\ CircuitTypeOK
<1> SUFFICES ASSUME CircuitInit PROVE TypeOK /\ CircuitTypeOK
  OBVIOUS
<1>1. TypeOK
  BY InitType DEF CircuitInit
<1>2. user \in UserState /\ cmd \in CmdState /\ cmd.pc = "idle"
  BY DEF CircuitInit, UserState, CmdState
<1>3. entry \in EntryState
  BY CircuitAssumption DEF CircuitInit, EntryState
<1>4. exit \in ExitState
  BY CircuitAssumption DEF CircuitInit, ExitState
<1>5. msgs \subseteq ManagerMsg /\ faults \in 0..MaxFaults
  BY CircuitAssumption DEF CircuitInit
<1> QED
  BY <1>1, <1>2, <1>3, <1>4, <1>5 DEF CircuitTypeOK

LEMMA CircuitNextRefines ==
  TypeOK /\ CircuitTypeOK /\ [CircuitNext]_vars
    => [RelayNext]_relayVars /\ TypeOK' /\ CircuitTypeOK'
<1> SUFFICES ASSUME TypeOK, CircuitTypeOK, [CircuitNext]_vars
             PROVE  [RelayNext]_relayVars /\ TypeOK' /\ CircuitTypeOK'
  OBVIOUS
<1>1. RelayStepOrNot /\ CircuitTypeOK'
  <2>1. CASE UNCHANGED vars
    <3>1. UNCHANGED relayVars /\ UNCHANGED <<user, entry, exit, cmd, msgs, faults>>
      BY <2>1 DEF vars
    <3> QED
      BY <3>1 DEF RelayStepOrNot, CircuitTypeOK
  <2>2. CASE UserStep \/ UserFault
    BY <2>2, UserRefines
  <2>3. CASE EntryStep \/ EntryFault
    BY <2>3, EntryRefines
  <2>4. CASE ExitStep \/ ExitFault
    BY <2>4, ExitRefines
  <2>5. CASE CmdStep \/ CmdExpires
    BY <2>5, CmdRefines
  <2>6. CASE \/ EntryFindsNoJoint \/ UnexpectedCircuitAck \/ UnexpectedEncryptAck
             \/ GossipEndsNode \/ UnexpectedExpendAck \/ LateExpendAck \/ CmdSendExpires
             \/ \E n \in Node : UnexpectedSetSessionAck(n) \/ NodeCrash(n)
    BY <2>6, EndRefines
  <2>7. CASE AnswerDisconnects \/ \E n \in Node : LayerStep(n) \/ LayerFault(n)
    BY <2>7, LayerRefines
  <2> QED
    BY <2>1, <2>2, <2>3, <2>4, <2>5, <2>6, <2>7 DEF CircuitNext
<1> QED
  BY <1>1, NextType DEF RelayStepOrNot

\* The managers only ever name servers as joint and relay nodes, the loops that
\* look for one stop at RetryTimes (HandleNewCircuit, handleGossipMsg), and the
\* command handler runs on a server.
THEOREM CircuitTypeCorrect == CircuitSpec => [](TypeOK /\ CircuitTypeOK)
BY CircuitInitType, CircuitNextRefines, PTL DEF CircuitSpec

\* Circuit implements Relay: whatever the managers, the caller and the failures
\* around them do, the relay layer takes steps of RelayNext only.
THEOREM CircuitRefinesRelay == CircuitSpec => RelaySpec
<1>1. CircuitInit => RelayInit
  BY DEF CircuitInit
<1> QED
  BY <1>1, CircuitInitType, CircuitNextRefines, PTL DEF CircuitSpec, RelaySpec

\* Under the managers too, no server keeps a dead stream in the circuit unawares
\* (HandleStreamClosed will find the session and close it).
THEOREM CircuitDeadStreams == CircuitSpec => []DeadStreamNoticed
BY CircuitRefinesRelay, DeadStreams, PTL

\* Under the managers too, a stream carries the messages of one circuit only, whatever
\* they swap, bind again or close.
THEOREM CircuitOneCircuit == CircuitSpec => []OneCircuitPerStream
BY CircuitRefinesRelay, OneCircuit, PTL

-----------------------------------------------------------------------------
(* One stream is bound at a time *)

\* A SetSessionId is there for n to read on stream x.
SetAt(n, x) == \E i \in 1..Len(wire[n][x]) : wire[n][x][i].type = "Set"

\* A call of n waits for the acknowledgement that names x, s and role.
Awaited(n, x, s, role) == \E t \in waiting[n] : t.stream = x /\ t.sid = s /\ t.other = role

NoTasks == \A n \in Node : waiting[n] = {}
NoSets == \A n \in Node, x \in Stream : ~ SetAt(n, x)
NoNews == \A n \in Node : \A i \in DOMAIN mailbox[n] : mailbox[n][i].op # "New"

OneTask == \A n, m \in Node : \A t \in waiting[n], u \in waiting[m] : n = m /\ t = u

OneSet == \A n, m \in Node, x, y \in Stream : SetAt(n, x) /\ SetAt(m, y) => n = m /\ x = y

\* A SetSessionId belongs to the one call that waits, unless the caller is gone.
SetAwaited ==
  \A n \in Node, x \in Stream : \A i \in 1..Len(wire[n][x]) :
    wire[n][x][i].type = "Set" =>
      /\ \A m \in Node : \A t \in waiting[m] : m # n /\ t.stream = x
      /\ Remote(n, x) \in alive =>
           Awaited(Remote(n, x), x, wire[n][x][i].sid, wire[n][x][i].role)

\* An acknowledgement takes the place of its SetSessionId and is awaited.
AckAwaited ==
  \A a \in acks :
    /\ Awaited(a.to, a.stream, a.sid, a.role)
    /\ NoSets
    /\ \A b \in acks : a = b

\* A request to bind a stream is made when the one before it is done.
NewApart ==
  \A n \in Node : \A i \in DOMAIN mailbox[n] :
    mailbox[n][i].op = "New" =>
      /\ NoTasks
      /\ NoSets
      /\ \A m \in Node : \A j \in DOMAIN mailbox[m] :
           mailbox[m][j].op = "New" => m = n /\ j = i

BindInv == OneTask /\ OneSet /\ SetAwaited /\ AckAwaited /\ NewApart

\* A manager has at most one request under way, and none when it is answered; the
\* actor of a dead process serves none.
OneCall ==
  \A n \in Node :
    /\ \A i, j \in DOMAIN mailbox[n] :
         mailbox[n][i].who = mailbox[n][j].who /\ mailbox[n][i].who # "gone" => i = j
    /\ \A i \in DOMAIN mailbox[n], t \in waiting[n] :
         mailbox[n][i].who = t.who => t.who = "gone"
    /\ \A a \in answers : a.at = n => a.who # "gone" /\ ~ Pending(n, a.who)
    /\ mailbox[n] # <<>> => n \in alive

\* A stream is being bound on behalf of who.
Binding(n, who) ==
  \/ \E i \in DOMAIN mailbox[n] : mailbox[n][i].op = "New" /\ mailbox[n][i].who = who
  \/ \E t \in waiting[n] : t.who = who

\* A stream is being bound and nobody will act on the outcome.
Orphan ==
  \E n \in Node :
    \/ Binding(n, "gone")
    \/ \E x \in Stream : SetAt(n, x) /\ Remote(n, x) \notin alive

\* The states in which a manager has a request under way, and one to bind a stream.
MayAsk(n, who) ==
  \/ who = "user" /\ n = Caller /\ user = "setting"
  \/ who = "proxy" /\ n = EntryNode /\ entry.pc \in {"get", "sameNew", "joint", "send"}
  \/ who = "gossip" /\ n = ExitNode /\ exit.pc \in {"answer", "relay", "send"}
  \/ who = "cmd" /\ n = cmd.at /\ cmd.pc \in {"get", "new", "send"}
  \/ who = "gone"

MayBind(n, who) ==
  \/ who = "user" /\ n = Caller /\ user = "setting"
  \/ who = "proxy" /\ n = EntryNode /\ entry.pc \in {"sameNew", "joint"}
  \/ who = "gossip" /\ n = ExitNode /\ exit.pc \in {"answer", "relay"}
  \/ who = "cmd" /\ n = cmd.at /\ cmd.pc = "new"
  \/ who = "gone"

Owned ==
  /\ \A n \in Node, who \in Asker :
       (Pending(n, who) => MayAsk(n, who)) /\ (Binding(n, who) => MayBind(n, who))
  /\ \A a \in answers : a.who = "user" => user # "idle"

MailOf(type) == \E m \in msgs : m.type = type

\* What the build of the circuit has come to: the managers pass it on, from the
\* caller to the relay node, and each has it to itself.
Stage(s) ==
  \/ s = 1 /\ user \in {"idle", "setting", "opening"}
  \/ s = 2 /\ MailOf("NewCircuit")
  \/ s = 3 /\ entry.pc \in {"get", "sameNew", "joint"}
  \/ s = 4 /\ MailOf("Gossip")
  \/ s = 5 /\ exit.pc \in {"answer", "relay"}
  \/ s = 6 /\ MailOf("Expend")
  \/ s = 7 /\ cmd.pc \in {"get", "new"}
  \/ s = 8 /\ Orphan

OneStage == \A s, r \in 1..8 : Stage(s) /\ Stage(r) => s = r

OneMail ==
  \A m, k \in msgs :
    m.type = k.type /\ m.type \in {"NewCircuit", "Gossip", "Expend"} => m = k

\* The inductive invariant behind SetsApart.
ApartInv == BindInv /\ OneCall /\ Owned /\ OneStage /\ OneMail

LEMMA ApartImplies ==
  ASSUME TypeOK, ApartInv
  PROVE  SetsApart
<1> SUFFICES ASSUME NEW n \in alive, NEW x \in Entering(n), NEW y \in Entering(n)
             PROVE  x = y
  BY DEF SetsApart
<1>1. n \in Node /\ Entering(n) \subseteq Stream
  BY DEF TypeOK, Entering, Task
<1>2. \A z \in Entering(n) : SetAt(n, z) \/ \E t \in waiting[n] : t.stream = z
  BY DEF Entering, SetAt
<1>3. \A z \in Stream : \A t \in waiting[n] : ~ SetAt(n, z)
  BY <1>1 DEF ApartInv, BindInv, SetAwaited, SetAt
<1> QED
  BY <1>1, <1>2, <1>3 DEF ApartInv, BindInv, OneTask, OneSet

-----------------------------------------------------------------------------
(* Steps that bind nothing *)

\* A step that leaves the calls alone; answers may be read.
Still ==
  /\ Calm
  /\ UNCHANGED <<alive, dialer, listener, mailbox, waiting, acks>>
  /\ answers' \subseteq answers

LEMMA StillQuiet ==
  ASSUME RelayInv, NEW n \in Node,
         \/ \E x \in Stream : \/ HandleRelayMsg(n, x) \/ HandleRelayProbe(n, x)
                              \/ HandleDisconnect(n, x) \/ SpawnCircuitSuccess(n, x)
                              \/ ReadErr(n, x) \/ StreamReset(n, x)
                              \/ HandleStreamClosed(n, x)
         \/ \E g \in spawned[n] : \/ ForwardSuccess(n, g) \/ StartHandshake(n, g)
                                  \/ Handshake(n, g) \/ HandshakeCancelled(n, g)
                                  \/ StoreSecureConn(n, g)
         \/ UserClose(n, Sid) \/ AddCircuitConnCaller(n, Sid)
         \/ \E who : ReadAnswer(n, who)
         \/ UNCHANGED relayVars
  PROVE  Still
<1>0. TypeOK /\ CalmWire(wire)
  BY CalmStart DEF RelayInv
<1>1. ASSUME UNCHANGED <<up, wire, sessionMap>>
      PROVE  Calm
  BY <1>0, <1>1 DEF Calm, CalmWire, Silent
<1>2. /\ UNCHANGED <<alive, dialer, listener, mailbox, waiting, acks>>
      /\ answers' \subseteq answers
  BY DEF HandleRelayMsg, HandleRelayProbe, HandleDisconnect, SpawnCircuitSuccess, ReadErr,
         StreamReset, HandleStreamClosed, ForwardSuccess, StartHandshake, Handshake,
         HandshakeCancelled, StoreSecureConn, UserClose, AddCircuitConnCaller, ReadAnswer,
         Forget, relayVars, streamVars, callVars
<1>3. ASSUME NEW x \in Stream, ReadErr(n, x) \/ StreamReset(n, x)
      PROVE  Calm
  <2>1. CloseEnds(n, {x}, wire) /\ UNCHANGED sessionMap
    BY <1>3 DEF ReadErr, StreamReset
  <2> QED
    BY <2>1, <1>0, CloseEndsCalm DEF Calm
<1>4. ASSUME NEW x \in Stream, HandleStreamClosed(n, x)
      PROVE  Calm
  BY <1>0, <1>4, OnlyWriteCalm, CloseCircuitCalm DEF HandleStreamClosed
<1>5. UserClose(n, Sid) => Calm
  BY <1>0, Roles, CloseCircuitCalm DEF UserClose
<1>6. ASSUME \/ AddCircuitConnCaller(n, Sid) \/ \E who : ReadAnswer(n, who)
             \/ UNCHANGED relayVars
      PROVE  Calm
  BY <1>1, <1>6 DEF AddCircuitConnCaller, ReadAnswer, netVars, relayVars
<1> QED
  BY <1>2, <1>3, <1>4, <1>5, <1>6, ReaderCalm, GoroutineCalm DEF Still

\* No SetSessionId is added by a calm step.
LEMMA CalmSets ==
  ASSUME Calm, NEW n \in Node, NEW x \in Stream
  PROVE  /\ SetAt(n, x)' => SetAt(n, x)
         /\ \A i \in 1..Len(wire'[n][x]) : wire'[n][x][i].type = "Set" =>
              i \in 1..Len(wire[n][x]) /\ wire[n][x][i] = wire'[n][x][i]
BY DEF Calm, SetsFrom, SetAt

LEMMA CalmBind ==
  ASSUME BindInv, Calm, UNCHANGED <<alive, dialer, listener, waiting, acks>>, NewApart'
  PROVE  BindInv'
<1>1. \A n \in Node, x \in Stream : SetAt(n, x)' => SetAt(n, x)
  BY CalmSets
<1>2. OneTask' /\ OneSet'
  BY <1>1 DEF BindInv, OneTask, OneSet
<1>3. SetAwaited'
  <2> SUFFICES ASSUME NEW n \in Node, NEW x \in Stream, NEW i \in 1..Len(wire'[n][x]),
                      wire'[n][x][i].type = "Set"
               PROVE  /\ \A m \in Node : \A t \in waiting[m] : m # n /\ t.stream = x
                      /\ Remote(n, x) \in alive =>
                           Awaited(Remote(n, x), x, wire'[n][x][i].sid, wire'[n][x][i].role)
    BY DEF SetAwaited, Awaited, Remote
  <2>1. i \in 1..Len(wire[n][x]) /\ wire[n][x][i] = wire'[n][x][i]
    BY CalmSets
  <2> QED
    BY <2>1 DEF BindInv, SetAwaited
<1>4. AckAwaited'
  BY <1>1 DEF BindInv, AckAwaited, Awaited, NoSets
<1> QED
  BY <1>2, <1>3, <1>4 DEF BindInv

LEMMA StillKeeps ==
  ASSUME BindInv, OneCall, Still
  PROVE  /\ BindInv' /\ OneCall'
         /\ \A n, who : (Pending(n, who)' <=> Pending(n, who))
                        /\ (Binding(n, who)' <=> Binding(n, who))
         /\ Orphan' => Orphan
<1>1. \A n \in Node, x \in Stream : SetAt(n, x)' => SetAt(n, x)
  BY CalmSets DEF Still
<1>2. NewApart'
  BY <1>1 DEF BindInv, NewApart, Still, NoTasks, NoSets
<1>3. BindInv'
  BY <1>2, CalmBind DEF Still
<1>4. \A n, who : (Pending(n, who)' <=> Pending(n, who)) /\ (Binding(n, who)' <=> Binding(n, who))
  BY DEF Still, Pending, Binding
<1>5. OneCall'
  BY <1>4 DEF OneCall, Still
<1>6. Orphan' => Orphan
  BY <1>1, <1>4 DEF Orphan, Still, Remote
<1> QED
  BY <1>3, <1>4, <1>5, <1>6

\* The actor takes the first request of its mailbox.
LEMMA Popped ==
  ASSUME TypeOK, NEW n \in Node, NEW op, Serves(n, op)
  PROVE  /\ 1 \in DOMAIN mailbox[n] /\ Head(mailbox[n]) = mailbox[n][1]
         /\ mailbox[n] # <<>> /\ mailbox[n][1].op = op
         /\ \A m \in Node : m # n => mailbox'[m] = mailbox[m]
         /\ \A i \in DOMAIN mailbox'[n] :
              /\ i + 1 \in DOMAIN mailbox[n] /\ i + 1 # 1 /\ i \in Nat
              /\ mailbox'[n][i] = mailbox[n][i + 1]
<1>1. mailbox \in [Node -> Seq(Request)] /\ mailbox[n] \in Seq(Request) /\ mailbox[n] # <<>>
  BY DEF TypeOK, Serves
<1>2. mailbox'[n] = Tail(mailbox[n]) /\ \A m \in Node : m # n => mailbox'[m] = mailbox[m]
  BY <1>1 DEF Serves
<1>3. Head(mailbox[n]).op = op
  BY DEF Serves
<1> DEFINE q == mailbox[n]
<1> HIDE DEF q
<1>4. q \in Seq(Request) /\ q # <<>>
  BY <1>1 DEF q
<1>5. 1 \in DOMAIN q /\ Head(q) = q[1]
  BY <1>4
<1>6. \A i \in DOMAIN Tail(q) :
        i + 1 \in DOMAIN q /\ i + 1 # 1 /\ i \in Nat /\ Tail(q)[i] = q[i + 1]
  BY <1>4
<1> QED
  BY <1>1, <1>2, <1>3, <1>5, <1>6 DEF q

\* A request is served that binds nothing, or fails to.
LEMMA ServedKeeps ==
  ASSUME TypeOK, BindInv, OneCall, NEW n \in Node, NEW op, Serves(n, op), Calm,
         UNCHANGED <<alive, dialer, listener, waiting, acks>>,
         \/ UNCHANGED answers
         \/ \E val : Reply(n, Head(mailbox[n]).who, val)
  PROVE  /\ BindInv' /\ OneCall'
         /\ \A m \in Node, who \in Asker :
              (Pending(m, who)' => Pending(m, who)) /\ (Binding(m, who)' => Binding(m, who))
         /\ Orphan' => Orphan
         /\ \A a \in answers' : a \in answers \/ Pending(a.at, a.who)
<1> DEFINE r == mailbox[n][1]
<1>1. /\ 1 \in DOMAIN mailbox[n] /\ Head(mailbox[n]) = r /\ mailbox[n] # <<>>
      /\ \A m \in Node : m # n => mailbox'[m] = mailbox[m]
      /\ \A i \in DOMAIN mailbox'[n] :
           /\ i + 1 \in DOMAIN mailbox[n] /\ i + 1 # 1 /\ i \in Nat
           /\ mailbox'[n][i] = mailbox[n][i + 1]
  BY Popped
<1>2. \A m \in Node, x \in Stream : SetAt(m, x)' => SetAt(m, x)
  BY CalmSets
<1>3. NewApart'
  <2> SUFFICES ASSUME NEW k \in Node, NEW i \in DOMAIN mailbox'[k], mailbox'[k][i].op = "New"
               PROVE  /\ NoTasks' /\ NoSets'
                      /\ \A m \in Node : \A j \in DOMAIN mailbox'[m] :
                           mailbox'[m][j].op = "New" => m = k /\ j = i
    BY DEF NewApart
  <2>1. PICK h \in DOMAIN mailbox[k] : mailbox[k][h].op = "New"
    BY <1>1
  <2>2. NoTasks' /\ NoSets'
    BY <2>1, <1>2 DEF BindInv, NewApart, NoTasks, NoSets
  <2>3. ASSUME NEW m \in Node, NEW j \in DOMAIN mailbox'[m], mailbox'[m][j].op = "New"
        PROVE  m = k /\ j = i
    <3>1. CASE k = n
      <4>1. i + 1 \in DOMAIN mailbox[n] /\ mailbox[n][i + 1].op = "New" /\ i \in Nat
        BY <3>1, <1>1
      <4>2. m = n
        BY <4>1, <1>1, <2>3 DEF BindInv, NewApart
      <4>3. j + 1 \in DOMAIN mailbox[n] /\ mailbox[n][j + 1].op = "New" /\ j \in Nat
        BY <4>2, <1>1, <2>3
      <4>4. j + 1 = i + 1
        BY <4>1, <4>3 DEF BindInv, NewApart
      <4> QED
        BY <4>1, <4>2, <4>3, <4>4, <3>1
    <3>2. CASE k # n
      <4>1. i \in DOMAIN mailbox[k] /\ mailbox[k][i].op = "New"
        BY <3>2, <1>1
      <4>2. m # n
        BY <4>1, <3>2, <1>1, <2>3 DEF BindInv, NewApart
      <4> QED
        BY <4>1, <4>2, <1>1, <2>3 DEF BindInv, NewApart
    <3> QED
      BY <3>1, <3>2
  <2> QED
    BY <2>2, <2>3
<1>4. BindInv'
  BY <1>3, CalmBind
<1>5. \A m \in Node, who \in Asker :
        (Pending(m, who)' => Pending(m, who)) /\ (Binding(m, who)' => Binding(m, who))
  BY <1>1 DEF Pending, Binding
<1>6. \A a \in answers' : a \in answers \/ (a.at = n /\ a.who = r.who /\ a.who # "gone")
  <2>1. CASE \E val : Reply(n, Head(mailbox[n]).who, val)
    <3>1. PICK val : Reply(n, r.who, val)
      BY <2>1, <1>1
    <3>2. \A a \in answers' :
            a \in answers \/ (r.who # "gone" /\ a = [at |-> n, who |-> r.who, val |-> val])
      BY <3>1 DEF Reply
    <3> HIDE DEF r
    <3> QED
      BY <3>2
  <2> QED
    BY <2>1
<1>7. ASSUME NEW w, w = r.who, w # "gone"
      PROVE  ~ Pending(n, w)'
  <2> SUFFICES ASSUME Pending(n, w)'
               PROVE  FALSE
    OBVIOUS
  <2>1. CASE \E i \in DOMAIN mailbox'[n] : mailbox'[n][i].who = w
    BY <2>1, <1>1, <1>7 DEF OneCall
  <2>2. CASE \E t \in waiting[n] : t.who = w
    BY <2>2, <1>1, <1>7 DEF OneCall
  <2> QED
    BY <2>1, <2>2 DEF Pending
<1>8. answers \subseteq Answer /\ answers' \subseteq answers \cup {a \in answers' : a.at = n}
  BY <1>6 DEF TypeOK
<1>9. OneCall'
  <2> SUFFICES ASSUME NEW m \in Node
               PROVE  /\ \A i, j \in DOMAIN mailbox'[m] :
                           mailbox'[m][i].who = mailbox'[m][j].who
                           /\ mailbox'[m][i].who # "gone" => i = j
                      /\ \A i \in DOMAIN mailbox'[m], t \in waiting[m] :
                           mailbox'[m][i].who = t.who => t.who = "gone"
                      /\ \A a \in answers' : a.at = m => a.who # "gone" /\ ~ Pending(m, a.who)'
                      /\ mailbox'[m] # <<>> => m \in alive
    BY DEF OneCall
  <2>1. \A a \in answers' : a.at = m => a.who # "gone" /\ ~ Pending(m, a.who)'
    <3> SUFFICES ASSUME NEW a \in answers', a.at = m
                 PROVE  a.who # "gone" /\ ~ Pending(m, a.who)'
      OBVIOUS
    <3>1. CASE a \in answers
      <4>1. a.who \in Asker
        BY <3>1, <1>8 DEF Answer
      <4> QED
        BY <3>1, <4>1, <1>5 DEF OneCall
    <3>2. CASE a \notin answers
      BY <3>2, <1>6, <1>7
    <3> QED
      BY <3>1, <3>2
  <2>2. CASE m = n
    <3>1. \A i, j \in DOMAIN mailbox'[m] :
            mailbox'[m][i].who = mailbox'[m][j].who /\ mailbox'[m][i].who # "gone" => i = j
      <4> SUFFICES ASSUME NEW i \in DOMAIN mailbox'[n], NEW j \in DOMAIN mailbox'[n],
                          mailbox'[n][i].who = mailbox'[n][j].who, mailbox'[n][i].who # "gone"
                   PROVE  i = j
        BY <2>2
      <4>1. i + 1 = j + 1 /\ i \in Nat /\ j \in Nat
        BY <1>1 DEF OneCall
      <4> QED
        BY <4>1
    <3> QED
      BY <2>1, <2>2, <3>1, <1>1 DEF OneCall
  <2>3. CASE m # n
    BY <2>1, <2>3, <1>1 DEF OneCall
  <2> QED
    BY <2>2, <2>3
<1>10. Orphan' => Orphan
  BY <1>2, <1>5 DEF Orphan, Remote, Asker
<1>11. \A a \in answers' : a \in answers \/ Pending(a.at, a.who)
  BY <1>1, <1>6 DEF Pending
<1> QED
  BY <1>4, <1>5, <1>9, <1>10, <1>11

-----------------------------------------------------------------------------
(* Steps that bind a stream *)

\* NewSessionToPeer when nothing else is being bound.
LEMMA DialBinds ==
  ASSUME RelayInv, NEW n \in Node, NEW p, NEW s, NEW my, NEW other, NEW proc, NEW who,
         DialAndSet(n, p, s, my, other, proc, who), NoTasks, NoSets, acks = {}, NoNews'
  PROVE  /\ BindInv'
         /\ \A m \in Node : m # n => waiting'[m] = {}
         /\ \A t \in waiting'[n] : t.who = who
         /\ \A m \in Node, x \in Stream : SetAt(m, x)' => Remote(m, x)' = n
<1>0. TypeOK
  BY DEF RelayInv
<1>1. PICK x \in Stream :
        /\ dialer' = [dialer EXCEPT ![x] = n]
        /\ listener' = [listener EXCEPT ![x] = p]
        /\ wire' = [wire EXCEPT ![p][x] = <<SetMsg(s, other)>>]
        /\ waiting' = [waiting EXCEPT ![n] = @ \cup
             {[proc |-> proc, sid |-> s, stream |-> x, my |-> my, other |-> other,
               who |-> who]}]
  BY DEF DialAndSet
<1>2. p \in Node /\ p # n /\ acks' = {}
  BY <1>0 DEF DialAndSet, TypeOK
<1> DEFINE t == [proc |-> proc, sid |-> s, stream |-> x, my |-> my, other |-> other,
                 who |-> who]
<1>3. waiting'[n] = {t} /\ \A m \in Node : m # n => waiting'[m] = {}
  BY <1>0, <1>1 DEF TypeOK, NoTasks
<1>4. t.stream = x /\ t.sid = s /\ t.other = other /\ t.who = who
  OBVIOUS
<1> HIDE DEF t
<1>5. /\ wire'[p][x] = <<SetMsg(s, other)>>
      /\ \A m \in Node, y \in Stream : (m # p \/ y # x) => wire'[m][y] = wire[m][y]
  BY <1>0, <1>1, <1>2 DEF TypeOK
<1>6. /\ Len(<<SetMsg(s, other)>>) = 1
      /\ \A i \in 1..1 : <<SetMsg(s, other)>>[i].sid = s /\ <<SetMsg(s, other)>>[i].role = other
  BY DEF SetMsg
<1>7. \A m \in Node, y \in Stream : \A i \in 1..Len(wire'[m][y]) :
        wire'[m][y][i].type = "Set" => m = p /\ y = x
  BY <1>5 DEF NoSets, SetAt
<1>8. dialer'[x] = n /\ Remote(p, x)' = n
  BY <1>0, <1>1, <1>2 DEF TypeOK, Remote
<1>9. OneTask'
  BY <1>3 DEF OneTask
<1>10. OneSet'
  BY <1>7 DEF OneSet, SetAt
<1>11. SetAwaited'
  <2> SUFFICES ASSUME NEW m \in Node, NEW y \in Stream, NEW i \in 1..Len(wire'[m][y]),
                      wire'[m][y][i].type = "Set"
               PROVE  /\ \A k \in Node : \A u \in waiting'[k] : k # m /\ u.stream = y
                      /\ Awaited(Remote(m, y), y, wire[m][y][i].sid, wire[m][y][i].role)'
    BY DEF SetAwaited
  <2>1. m = p /\ y = x
    BY <1>7
  <2>2. wire'[m][y][i].sid = s /\ wire'[m][y][i].role = other
    BY <2>1, <1>5, <1>6
  <2>3. \A k \in Node : \A u \in waiting'[k] : k # m /\ u.stream = y
    BY <2>1, <1>2, <1>3, <1>4
  <2>4. Awaited(Remote(m, y), y, wire[m][y][i].sid, wire[m][y][i].role)'
    BY <2>1, <2>2, <1>3, <1>4, <1>8 DEF Awaited
  <2> QED
    BY <2>3, <2>4
<1>12. AckAwaited' /\ NewApart'
  BY <1>2 DEF AckAwaited, NewApart, NoNews
<1>13. \A m \in Node, y \in Stream : SetAt(m, y)' => Remote(m, y)' = n
  BY <1>7, <1>8 DEF SetAt
<1> QED
  BY <1>3, <1>4, <1>9, <1>10, <1>11, <1>12, <1>13 DEF BindInv

LEMMA NoTaskNoAck ==
  ASSUME TypeOK, BindInv, NoTasks
  PROVE  acks = {}
BY DEF TypeOK, AckMsg, BindInv, AckAwaited, Awaited, NoTasks

\* What every step of the relay layer leaves of the calls under way.
CallsShrink ==
  /\ \A m \in Node, who \in Asker :
       (Pending(m, who)' => Pending(m, who)) /\ (Binding(m, who)' => Binding(m, who))
  /\ Orphan' => Orphan
  /\ \A a \in answers' : a \in answers \/ Pending(a.at, a.who)

LEMMA ServeNewBinds ==
  ASSUME RelayInv, BindInv, OneCall, NEW n \in Node, ServeNew(n)
  PROVE  BindInv' /\ OneCall' /\ CallsShrink
<1>0. TypeOK
  BY DEF RelayInv
<1>1. /\ 1 \in DOMAIN mailbox[n] /\ Head(mailbox[n]) = mailbox[n][1] /\ mailbox[n] # <<>>
      /\ mailbox[n][1].op = "New"
      /\ \A m \in Node : m # n => mailbox'[m] = mailbox[m]
      /\ \A i \in DOMAIN mailbox'[n] :
           /\ i + 1 \in DOMAIN mailbox[n] /\ i + 1 # 1 /\ i \in Nat
           /\ mailbox'[n][i] = mailbox[n][i + 1]
  BY <1>0, Popped DEF ServeNew
<1>2. PICK p, s, my, other, who :
        who = mailbox[n][1].who /\ DialAndSet(n, p, s, my, other, "actor", who)
  BY <1>1 DEF ServeNew
<1>3. NoTasks /\ NoSets /\ acks = {}
  <2>1. NoTasks /\ NoSets
    BY <1>1 DEF BindInv, NewApart
  <2> QED
    BY <2>1, <1>0, NoTaskNoAck
<1>4. NoNews'
  BY <1>1 DEF NoNews, BindInv, NewApart
<1>5. /\ BindInv'
      /\ \A m \in Node : m # n => waiting'[m] = {}
      /\ \A t \in waiting'[n] : t.who = who
      /\ \A m \in Node, x \in Stream : SetAt(m, x)' => Remote(m, x)' = n
  BY <1>2, <1>3, <1>4, DialBinds
<1>6. alive' = alive /\ answers' = answers /\ n \in alive
  BY <1>1, <1>2 DEF DialAndSet, OneCall
<1>7. \A m \in Node, w \in Asker :
        (Pending(m, w)' => Pending(m, w)) /\ (Binding(m, w)' => Binding(m, w))
  <2> SUFFICES ASSUME NEW m \in Node, NEW w \in Asker
               PROVE  (Pending(m, w)' => Pending(m, w)) /\ (Binding(m, w)' => Binding(m, w))
    OBVIOUS
  <2>1. CASE m = n
    BY <2>1, <1>1, <1>2, <1>5 DEF Pending, Binding
  <2>2. CASE m # n
    BY <2>2, <1>1, <1>5 DEF Pending, Binding
  <2> QED
    BY <2>1, <2>2
<1>8. Orphan' => Orphan
  BY <1>5, <1>6, <1>7 DEF Orphan, Asker
<1>9. OneCall'
  <2> SUFFICES ASSUME NEW m \in Node
               PROVE  /\ \A i, j \in DOMAIN mailbox'[m] :
                           mailbox'[m][i].who = mailbox'[m][j].who
                           /\ mailbox'[m][i].who # "gone" => i = j
                      /\ \A i \in DOMAIN mailbox'[m], t \in waiting'[m] :
                           mailbox'[m][i].who = t.who => t.who = "gone"
                      /\ \A a \in answers : a.at = m => a.who # "gone" /\ ~ Pending(m, a.who)'
                      /\ mailbox'[m] # <<>> => m \in alive
    BY <1>6 DEF OneCall
  <2>1. \A a \in answers : a.at = m => a.who # "gone" /\ ~ Pending(m, a.who)'
    BY <1>0, <1>7 DEF OneCall, TypeOK, Answer
  <2>2. CASE m = n
    <3>1. \A i, j \in DOMAIN mailbox'[n] :
            mailbox'[n][i].who = mailbox'[n][j].who /\ mailbox'[n][i].who # "gone" => i = j
      <4> SUFFICES ASSUME NEW i \in DOMAIN mailbox'[n], NEW j \in DOMAIN mailbox'[n],
                          mailbox'[n][i].who = mailbox'[n][j].who, mailbox'[n][i].who # "gone"
                   PROVE  i = j
        OBVIOUS
      <4>1. i + 1 = j + 1 /\ i \in Nat /\ j \in Nat
        BY <1>1 DEF OneCall
      <4> QED
        BY <4>1
    <3>2. \A i \in DOMAIN mailbox'[n], t \in waiting'[n] :
            mailbox'[n][i].who = t.who => t.who = "gone"
      BY <1>1, <1>2, <1>5 DEF OneCall
    <3> QED
      BY <2>1, <2>2, <3>1, <3>2, <1>6
  <2>3. CASE m # n
    BY <2>1, <2>3, <1>1, <1>5 DEF OneCall
  <2> QED
    BY <2>2, <2>3
<1> QED
  BY <1>5, <1>6, <1>7, <1>8, <1>9 DEF CallsShrink

\* A call returns and leaves neither a SetSessionId nor an acknowledgement.
LEMMA TaskEnds ==
  ASSUME TypeOK, BindInv, OneCall, NEW n \in Node, NEW t \in waiting[n], NEW val,
         waiting' = [waiting EXCEPT ![n] = @ \ {t}], NoSets, acks' = {}, Reply(n, t.who, val),
         UNCHANGED <<alive, dialer, listener, wire, mailbox>>
  PROVE  BindInv' /\ OneCall' /\ CallsShrink /\ NoTasks'
<1>1. \A m \in Node : waiting'[m] = {}
  BY DEF TypeOK, BindInv, OneTask
<1>2. NoTasks' /\ NoSets'
  BY <1>1 DEF NoTasks, NoSets, SetAt
<1>3. BindInv'
  <2>1. OneTask' /\ OneSet' /\ SetAwaited' /\ AckAwaited'
    BY <1>1, <1>2 DEF OneTask, OneSet, SetAwaited, AckAwaited, NoSets, SetAt
  <2>2. NewApart'
    BY <1>2 DEF BindInv, NewApart
  <2> QED
    BY <2>1, <2>2 DEF BindInv
<1>4. \A m \in Node : \A who :
        Pending(m, who)' => \E i \in DOMAIN mailbox[m] : mailbox[m][i].who = who
  BY <1>1 DEF Pending
<1>5. \A m \in Node : \A who : (Pending(m, who)' => Pending(m, who))
                           /\ (Binding(m, who)' => Binding(m, who))
  BY <1>1 DEF Pending, Binding
<1>6. \A a \in answers' : a \in answers \/ (a.at = n /\ a.who = t.who /\ a.who # "gone")
  BY DEF Reply
<1>7. OneCall'
  <2> SUFFICES ASSUME NEW m \in Node, NEW a \in answers', a.at = m
               PROVE  a.who # "gone" /\ ~ Pending(m, a.who)'
    BY <1>1 DEF OneCall
  <2>1. CASE a \in answers
    BY <2>1, <1>5 DEF OneCall
  <2>2. CASE a \notin answers
    BY <2>2, <1>4, <1>6 DEF OneCall
  <2> QED
    BY <2>1, <2>2
<1>8. Orphan' => Orphan
  BY <1>2, <1>5 DEF Orphan, NoSets
<1>9. \A a \in answers' : a \in answers \/ Pending(a.at, a.who)
  BY <1>6 DEF Pending
<1> QED
  BY <1>2, <1>3, <1>5, <1>7, <1>8, <1>9 DEF CallsShrink

LEMMA AckBinds ==
  ASSUME TypeOK, BindInv, OneCall, NEW n \in Node, NEW a, NEW t, AckArrives(n, a, t)
  PROVE  BindInv' /\ OneCall' /\ CallsShrink
<1>1. t \in waiting[n] /\ a \in acks /\ waiting' = [waiting EXCEPT ![n] = @ \ {t}]
  BY DEF AckArrives
<1>2. NoSets /\ acks' = {}
  BY DEF AckArrives, BindInv, AckAwaited
<1>3. PICK val : Reply(n, t.who, val)
  BY DEF AckArrives, SessionSet
<1>4. UNCHANGED <<alive, dialer, listener, wire, mailbox>>
  BY DEF AckArrives, streamVars, netVars
<1> QED
  BY <1>1, <1>2, <1>3, <1>4, TaskEnds

\* A call gives up when no acknowledgement can come any more.
LEMMA TimeoutBinds ==
  ASSUME TypeOK, BindInv, OneCall, NEW n \in Node, NEW t \in waiting[n],
         SetSessionTimeout(n, t), Hopeless(n, t)
  PROVE  BindInv' /\ OneCall' /\ CallsShrink
<1>1. NoSets
  <2> SUFFICES ASSUME NEW m \in Node, NEW x \in Stream, NEW i \in 1..Len(wire[m][x]),
                      wire[m][x][i].type = "Set"
               PROVE  FALSE
    BY DEF NoSets, SetAt
  <2>1. m # n /\ t.stream = x
    BY DEF BindInv, SetAwaited
  <2>2. wire[m][x] = <<>>
    BY <2>1 DEF Hopeless
  <2> QED
    BY <2>2
<1>2. acks' = {}
  <2> SUFFICES ASSUME NEW a \in acks
               PROVE  FALSE
    BY DEF SetSessionTimeout
  <2>1. a.to \in Node
    BY DEF TypeOK, AckMsg
  <2>2. PICK u \in waiting[a.to] : u.sid = a.sid /\ u.other = a.role
    BY DEF BindInv, AckAwaited, Awaited
  <2>3. a.to = n /\ u = t
    BY <2>1 DEF BindInv, OneTask
  <2> QED
    BY <2>2, <2>3 DEF Hopeless
<1> QED
  BY <1>1, <1>2, TaskEnds DEF SetSessionTimeout, streamVars, netVars

\* The reader takes the only SetSessionId off its stream, and none is acknowledged yet.
LEMMA SetRead ==
  ASSUME RelayInv, BindInv, NEW n \in Node, NEW x \in Stream, HandleSetSession(n, x)
  PROVE  /\ wire[n][x] # <<>> /\ Head(wire[n][x]).type = "Set"
         /\ Head(wire[n][x]) \in Message /\ Head(wire[n][x]).sid \in SessionId
         /\ 1 \in 1..Len(wire[n][x]) /\ Head(wire[n][x]) = wire[n][x][1] /\ SetAt(n, x)
         /\ acks = {} /\ NoSets'
<1> DEFINE m == Head(wire[n][x])
           w == Pop(n, x)
<1>0. TypeOK
  BY DEF RelayInv
<1>1. /\ wire[n][x] # <<>> /\ m.type = "Set"
      /\ UNCHANGED <<alive, dialer, listener, mailbox, waiting, answers>>
  BY DEF HandleSetSession, Reads, streamVars
<1>2. wire[n][x] \in Seq(Message) /\ m \in Message /\ m.sid \in SessionId
  BY <1>0, <1>1, PopType DEF TypeOK, Message
<1>3. 1 \in 1..Len(wire[n][x]) /\ m = wire[n][x][1] /\ SetAt(n, x)
  BY <1>1, <1>2 DEF SetAt
<1>4. CalmWire(w) /\ \A i \in 1..Len(w[n][x]) : w[n][x][i].type # "Set"
  BY <1>1, CalmPop
<1>5. acks = {}
  BY <1>3 DEF BindInv, AckAwaited, NoSets
<1>6. NoSets'
  <2>1. PICK v : /\ CalmWire(v) /\ SetsFrom(v, w)
                 /\ \A k \in Node, y \in Stream : wire'[k][y] \in {v[k][y], <<>>}
    <3>1. CASE RejectSetSession(n, x, m) \/ JoinSession(n, x, m)
      <4>1. wire' = w
        BY <3>1 DEF RejectSetSession, JoinSession, OnlyWrite
      <4>2. SetsFrom(w, w)
        BY DEF SetsFrom
      <4> HIDE DEF w
      <4> QED
        BY <1>4, <4>1, <4>2
    <3>2. Msg("Disc", m.sid) \in Message /\ Msg("Disc", m.sid).type # "Set"
      BY <1>2, MsgType DEF Msg
    <3>3. \A X : /\ CalmWire(Emit(w, n, X, Msg("Disc", m.sid)))
                 /\ SetsFrom(Emit(w, n, X, Msg("Disc", m.sid)), w)
      BY <1>4, <3>2, CalmEmit
    <3>4. CASE SwapJoint(n, x, m)
      <4>1. PICK X : wire' = Emit(w, n, X, Msg("Disc", m.sid))
        BY <3>4 DEF SwapJoint, TellJoint
      <4> QED
        BY <3>3, <4>1
    <3>5. CASE RefuseHalfEntry(n, x, m)
      <4>1. PICK X : RemoveSession(n, m.sid, Emit(w, n, X, Msg("Disc", m.sid)))
        BY <3>5 DEF RefuseHalfEntry, CloseCircuit
      <4> DEFINE v == Emit(w, n, X, Msg("Disc", m.sid))
      <4>2. CalmWire(v) /\ SetsFrom(v, w)
        BY <3>3
      <4>3. CloseEnds(n, Pair(n, m.sid), v)
        BY <4>1 DEF RemoveSession
      <4> HIDE DEF v
      <4>4. \A k \in Node, y \in Stream : wire'[k][y] \in {v[k][y], <<>>}
        BY <4>2, <4>3 DEF CloseEnds, CalmWire, WireType
      <4> QED
        BY <4>2, <4>4
    <3> QED
      BY <3>1, <3>4, <3>5 DEF HandleSetSession
  <2> HIDE DEF w
  <2> SUFFICES ASSUME NEW k \in Node, NEW y \in Stream, NEW i \in 1..Len(wire'[k][y]),
                      wire'[k][y][i].type = "Set"
               PROVE  FALSE
    BY DEF NoSets, SetAt
  <2>2. wire'[k][y] = v[k][y]
    BY <2>1
  <2>3. SetAt(k, y)
    BY <2>1, <2>2 DEF CalmWire, SetsFrom, SetAt
  <2>4. k = n /\ y = x
    BY <2>3, <1>3 DEF BindInv, OneSet
  <2>5. i \in 1..Len(w[n][x]) /\ w[n][x][i] = v[n][x][i]
    BY <2>1, <2>2, <2>4 DEF SetsFrom
  <2> QED
    BY <2>2, <2>4, <2>5, <1>4
<1> QED
  BY <1>1, <1>2, <1>3, <1>5, <1>6

\* The SetSessionId is read, and an acknowledgement may take its place.
LEMMA SetSessionBinds ==
  ASSUME RelayInv, BindInv, OneCall, NEW n \in Node, NEW x \in Stream, HandleSetSession(n, x)
  PROVE  BindInv' /\ OneCall' /\ CallsShrink
<1> DEFINE m == Head(wire[n][x])
<1>1. UNCHANGED <<alive, dialer, listener, mailbox, waiting, answers>>
  BY DEF HandleSetSession, streamVars
<1>3. /\ 1 \in 1..Len(wire[n][x]) /\ m = wire[n][x][1] /\ m.type = "Set"
      /\ acks = {}
  BY SetRead
<1>6. \/ acks' = {}
      \/ /\ Remote(n, x) \in alive
         /\ \E ok : acks' = {[to |-> Remote(n, x), stream |-> x, sid |-> m.sid,
                              role |-> m.role, ok |-> ok]}
  BY <1>3 DEF HandleSetSession, RejectSetSession, SwapJoint, RefuseHalfEntry, JoinSession,
              Acked
<1>7. NoSets'
  BY SetRead
<1>8. AckAwaited'
  <2>1. CASE acks' = {}
    BY <2>1 DEF AckAwaited
  <2>2. CASE acks' # {}
    <3>1. PICK ok : acks' = {[to |-> Remote(n, x), stream |-> x, sid |-> m.sid,
                              role |-> m.role, ok |-> ok]}
      BY <2>2, <1>6
    <3>2. Awaited(Remote(n, x), x, m.sid, m.role)
      BY <2>2, <1>1, <1>3, <1>6 DEF BindInv, SetAwaited
    <3>3. \A a \in acks' : Awaited(a.to, a.stream, a.sid, a.role)'
      BY <3>1, <3>2, <1>1 DEF Awaited
    <3> QED
      BY <3>1, <3>3, <1>7 DEF AckAwaited
  <2> QED
    BY <2>1, <2>2
<1>9. BindInv'
  <2>1. OneTask' /\ OneSet' /\ SetAwaited'
    BY <1>1, <1>7 DEF BindInv, OneTask, OneSet, SetAwaited, NoSets, SetAt
  <2>2. NewApart'
    BY <1>1, <1>7 DEF BindInv, NewApart, NoTasks
  <2> QED
    BY <2>1, <2>2, <1>8 DEF BindInv
<1>10. \A k, who : (Pending(k, who)' <=> Pending(k, who)) /\ (Binding(k, who)' <=> Binding(k, who))
  BY <1>1 DEF Pending, Binding
<1>11. OneCall'
  BY <1>1, <1>10 DEF OneCall
<1>12. Orphan' => Orphan
  BY <1>7, <1>10 DEF Orphan, NoSets
<1> QED
  BY <1>1, <1>9, <1>10, <1>11, <1>12 DEF CallsShrink

-----------------------------------------------------------------------------
(* What the managers ask *)

\* A manager with nothing under way makes a request, to bind a stream only when
\* no other is being bound.
LEMMA AskBinds ==
  ASSUME RelayInv, BindInv, OneCall, NEW n \in Node, NEW who \in Asker, NEW r,
         Ask(n, who, r), who # "gone", ~ Pending(n, who), r.who \in {who, "gone"},
         r.op = "New" => r.who = who /\ NoTasks /\ NoSets /\ NoNews
  PROVE  /\ BindInv' /\ OneCall'
         /\ \A m \in Node, w \in Asker :
              /\ Pending(m, w)' => Pending(m, w) \/ (m = n /\ w = r.who)
              /\ Binding(m, w)' => Binding(m, w) \/ (m = n /\ w = r.who /\ r.op = "New")
         /\ Orphan' => Orphan
         /\ answers' \subseteq answers
<1>0. TypeOK /\ mailbox[n] \in Seq(Request)
  BY DEF RelayInv, TypeOK
<1>1. /\ UNCHANGED <<alive, dialer, listener, wire, waiting, acks>>
      /\ answers' = Forget(n, who) /\ n \in alive
  BY DEF Ask, streamVars, netVars
<1>2. /\ \A m \in Node : m # n => mailbox'[m] = mailbox[m]
      /\ mailbox'[n] = Append(mailbox[n], r)
  BY <1>0 DEF Ask, TypeOK
<1>3. /\ \A i \in DOMAIN mailbox'[n] : \/ i \in DOMAIN mailbox[n] /\ mailbox'[n][i] = mailbox[n][i]
                                       \/ i = Len(mailbox[n]) + 1 /\ mailbox'[n][i] = r
      /\ Len(mailbox[n]) + 1 \notin DOMAIN mailbox[n]
  BY <1>0, <1>2
<1>4. \A m \in Node, x \in Stream : (SetAt(m, x)' <=> SetAt(m, x)) /\ (Remote(m, x)' = Remote(m, x))
  BY <1>1 DEF SetAt, Remote
<1>5. BindInv'
  <2>1. OneTask' /\ OneSet'
    BY <1>1, <1>4 DEF BindInv, OneTask, OneSet
  <2>2. SetAwaited'
    BY <1>1, <1>4 DEF BindInv, SetAwaited, Awaited
  <2>3. AckAwaited'
    BY <1>1, <1>4 DEF BindInv, AckAwaited, Awaited, NoSets
  <2>4. (NoTasks' <=> NoTasks) /\ (NoSets' <=> NoSets)
    BY <1>1, <1>4 DEF NoTasks, NoSets
  <2>5. NewApart'
    <3>1. CASE r.op = "New"
      <4>1. NoTasks' /\ NoSets'
        BY <2>4, <3>1
      <4>2. \A m \in Node : \A j \in DOMAIN mailbox'[m] :
              mailbox'[m][j].op = "New" => m = n /\ j = Len(mailbox[n]) + 1
        BY <3>1, <1>2, <1>3 DEF NoNews
      <4> QED
        BY <4>1, <4>2 DEF NewApart
    <3>2. CASE r.op # "New"
      <4>1. \A m \in Node : \A j \in DOMAIN mailbox'[m] :
              mailbox'[m][j].op = "New" => j \in DOMAIN mailbox[m] /\ mailbox[m][j].op = "New"
        BY <3>2, <1>2, <1>3
      <4> QED
        BY <4>1, <2>4 DEF BindInv, NewApart
    <3> QED
      BY <3>1, <3>2
  <2> QED
    BY <2>1, <2>2, <2>3, <2>5 DEF BindInv
<1>6. ASSUME NEW m \in Node, NEW w \in Asker
      PROVE  /\ Pending(m, w)' => Pending(m, w) \/ (m = n /\ w = r.who)
             /\ Binding(m, w)' => Binding(m, w) \/ (m = n /\ w = r.who /\ r.op = "New")
  BY <1>1, <1>2, <1>3 DEF Pending, Binding
<1>7. answers' \subseteq answers /\ \A a \in answers' : a.at = n => a.who # who
  BY <1>1 DEF Forget
<1>8. OneCall'
  <2> SUFFICES ASSUME NEW m \in Node
               PROVE  /\ \A i, j \in DOMAIN mailbox'[m] :
                           mailbox'[m][i].who = mailbox'[m][j].who
                           /\ mailbox'[m][i].who # "gone" => i = j
                      /\ \A i \in DOMAIN mailbox'[m], t \in waiting[m] :
                           mailbox'[m][i].who = t.who => t.who = "gone"
                      /\ \A a \in answers' : a.at = m => a.who # "gone" /\ ~ Pending(m, a.who)'
                      /\ mailbox'[m] # <<>> => m \in alive
    BY <1>1 DEF OneCall
  <2>1. \A a \in answers' : a.at = m => a.who # "gone" /\ ~ Pending(m, a.who)'
    <3> SUFFICES ASSUME NEW a \in answers', a.at = m
                 PROVE  a.who # "gone" /\ ~ Pending(m, a.who)'
      OBVIOUS
    <3>1. a.who \in Asker /\ a.who # "gone" /\ ~ Pending(m, a.who)
      BY <1>0, <1>7 DEF OneCall, TypeOK, Answer
    <3> QED
      BY <3>1, <1>6, <1>7
  <2>2. CASE m = n
    <3>1. \A i \in DOMAIN mailbox[n] : mailbox[n][i].who # who
      BY DEF Pending
    <3>2. \A t \in waiting[n] : t.who # who
      BY DEF Pending
    <3>3. \A i, j \in DOMAIN mailbox'[n] :
            mailbox'[n][i].who = mailbox'[n][j].who /\ mailbox'[n][i].who # "gone" => i = j
      BY <3>1, <1>3 DEF OneCall
    <3>4. \A i \in DOMAIN mailbox'[n], t \in waiting[n] :
            mailbox'[n][i].who = t.who => t.who = "gone"
      BY <3>2, <1>3 DEF OneCall
    <3> QED
      BY <2>1, <2>2, <3>3, <3>4, <1>1
  <2>3. CASE m # n
    BY <2>1, <2>3, <1>2 DEF OneCall
  <2> QED
    BY <2>2, <2>3
<1>9. Orphan' => Orphan
  <2>1. "gone" \in Asker /\ (r.op = "New" => r.who # "gone")
    BY DEF Asker
  <2>2. \A m \in Node : Binding(m, "gone")' => Binding(m, "gone")
    BY <2>1, <1>6
  <2> QED
    BY <2>2, <1>1, <1>4 DEF Orphan
<1> QED
  BY <1>5, <1>6, <1>7, <1>8, <1>9

\* A manager stops waiting: what it asked for is done for nobody.
LEMMA DisownBinds ==
  ASSUME RelayInv, BindInv, OneCall, NEW n \in Node, NEW who \in Asker, Disown(n, who),
         who # "gone"
  PROVE  /\ BindInv' /\ OneCall'
         /\ ~ Pending(n, who)' /\ ~ Binding(n, who)'
         /\ \A m \in Node, w \in Asker :
              /\ Pending(m, w)' => Pending(m, w) \/ w = "gone"
              /\ Binding(m, w)' => Binding(m, w) \/ w = "gone"
         /\ Orphan' => Orphan \/ Binding(n, who)
         /\ UNCHANGED answers
<1>0. TypeOK
  BY DEF RelayInv
<1> DEFINE D(t) == IF t.who = who THEN [t EXCEPT !.who = "gone"] ELSE t
<1>1. UNCHANGED <<alive, dialer, listener, wire, acks, answers>>
  BY DEF Disown, streamVars, netVars
<1>2. /\ \A m \in Node : m # n => mailbox'[m] = mailbox[m] /\ waiting'[m] = waiting[m]
      /\ waiting'[n] = {D(t) : t \in waiting[n]}
      /\ mailbox'[n] = [i \in DOMAIN mailbox[n] |-> D(mailbox[n][i])]
  BY <1>0 DEF Disown, TypeOK
<1>3. DOMAIN mailbox'[n] = DOMAIN mailbox[n]
  BY <1>2
<1>4. ASSUME NEW t, t \in Task \/ t \in Request
      PROVE  /\ t.who = who => D(t).who = "gone"
             /\ t.who # who => D(t) = t
             /\ t \in Task => D(t).stream = t.stream /\ D(t).sid = t.sid /\ D(t).other = t.other
             /\ t \in Request => D(t).op = t.op
  BY <1>4 DEF Task, Request
<1> HIDE DEF D
<1>5. waiting[n] \subseteq Task /\ \A i \in DOMAIN mailbox[n] : mailbox[n][i] \in Request
  BY <1>0 DEF TypeOK
<1>6. /\ \A i \in DOMAIN mailbox[n] :
           /\ mailbox'[n][i].op = mailbox[n][i].op
           /\ mailbox[n][i].who = who => mailbox'[n][i].who = "gone"
           /\ mailbox[n][i].who # who => mailbox'[n][i].who = mailbox[n][i].who
      /\ \A u \in waiting'[n] : \E t \in waiting[n] :
           /\ u = D(t) /\ u.stream = t.stream /\ u.sid = t.sid /\ u.other = t.other
           /\ t.who = who => u.who = "gone"
           /\ t.who # who => u.who = t.who
      /\ \A t \in waiting[n] : \E u \in waiting'[n] :
           u.stream = t.stream /\ u.sid = t.sid /\ u.other = t.other
  BY <1>2, <1>4, <1>5
<1>7. \A m \in Node, x \in Stream : (SetAt(m, x)' <=> SetAt(m, x)) /\ (Remote(m, x)' = Remote(m, x))
  BY <1>1 DEF SetAt, Remote
<1>8. BindInv'
  <2>1. OneTask'
    BY <1>2, <1>6 DEF BindInv, OneTask
  <2>2. OneSet'
    BY <1>7 DEF BindInv, OneSet
  <2>3. \A m \in Node : \A x, s, role : Awaited(m, x, s, role) => Awaited(m, x, s, role)'
    BY <1>2, <1>6 DEF Awaited
  <2>4. \A m \in Node : \A u \in waiting'[m] : \E t \in waiting[m] : u.stream = t.stream
    BY <1>2, <1>6
  <2>5. SetAwaited'
    <3> SUFFICES ASSUME NEW k \in Node, NEW x \in Stream, NEW i \in 1..Len(wire[k][x]),
                        wire[k][x][i].type = "Set"
                 PROVE  /\ \A m \in Node : \A t \in waiting'[m] : m # k /\ t.stream = x
                        /\ Remote(k, x) \in alive =>
                             Awaited(Remote(k, x), x, wire[k][x][i].sid, wire[k][x][i].role)'
      BY <1>1, <1>7 DEF SetAwaited
    <3>1. \A m \in Node : \A t \in waiting'[m] : m # k /\ t.stream = x
      BY <2>4 DEF BindInv, SetAwaited
    <3>2. ASSUME Remote(k, x) \in alive
          PROVE  Awaited(Remote(k, x), x, wire[k][x][i].sid, wire[k][x][i].role)'
      <4>1. PICK m, s, role : /\ m = Remote(k, x) /\ s = wire[k][x][i].sid
                              /\ role = wire[k][x][i].role /\ m \in Node
        BY <3>2, <1>0 DEF TypeOK
      <4>2. Awaited(m, x, s, role)
        BY <4>1, <3>2 DEF BindInv, SetAwaited
      <4>3. Awaited(m, x, s, role)'
        BY <4>1, <4>2, <2>3
      <4> QED
        BY <4>1, <4>3, <1>1, <1>7
    <3> QED
      BY <3>1, <3>2
  <2>6. AckAwaited'
    <3>1. \A a \in acks : a.to \in Node
      BY <1>0 DEF TypeOK, AckMsg
    <3> QED
      BY <3>1, <2>3, <1>1, <1>7 DEF BindInv, AckAwaited, NoSets
  <2>7. NewApart'
    <3>1. \A m \in Node : \A i \in DOMAIN mailbox'[m] :
            i \in DOMAIN mailbox[m] /\ mailbox'[m][i].op = mailbox[m][i].op
      BY <1>2, <1>3, <1>6
    <3>2. (NoTasks => NoTasks') /\ (NoSets => NoSets')
      BY <2>4, <1>7 DEF NoTasks, NoSets
    <3> QED
      BY <3>1, <3>2 DEF BindInv, NewApart
  <2> QED
    BY <2>1, <2>2, <2>5, <2>6, <2>7 DEF BindInv
<1>9. ~ Pending(n, who)' /\ ~ Binding(n, who)'
  BY <1>3, <1>6 DEF Pending, Binding
<1>10. ASSUME NEW m \in Node, NEW w \in Asker
      PROVE  /\ Pending(m, w)' => Pending(m, w) \/ w = "gone"
             /\ Binding(m, w)' => Binding(m, w) \/ (w = "gone" /\ m = n /\ Binding(n, who))
  <2>1. CASE m = n
    BY <2>1, <1>3, <1>6 DEF Pending, Binding
  <2>2. CASE m # n
    BY <2>2, <1>2 DEF Pending, Binding
  <2> QED
    BY <2>1, <2>2
<1>11. OneCall'
  <2> SUFFICES ASSUME NEW m \in Node
               PROVE  /\ \A i, j \in DOMAIN mailbox'[m] :
                           mailbox'[m][i].who = mailbox'[m][j].who
                           /\ mailbox'[m][i].who # "gone" => i = j
                      /\ \A i \in DOMAIN mailbox'[m], t \in waiting'[m] :
                           mailbox'[m][i].who = t.who => t.who = "gone"
                      /\ \A a \in answers : a.at = m => a.who # "gone" /\ ~ Pending(m, a.who)'
                      /\ mailbox'[m] # <<>> => m \in alive
    BY <1>1 DEF OneCall
  <2>1. \A a \in answers : a.at = m => a.who # "gone" /\ ~ Pending(m, a.who)'
    BY <1>0, <1>10 DEF OneCall, TypeOK, Answer
  <2>2. CASE m = n
    <3>1. \A i, j \in DOMAIN mailbox'[n] :
            mailbox'[n][i].who = mailbox'[n][j].who /\ mailbox'[n][i].who # "gone" => i = j
      BY <1>3, <1>6 DEF OneCall
    <3>2. \A i \in DOMAIN mailbox'[n], t \in waiting'[n] :
            mailbox'[n][i].who = t.who => t.who = "gone"
      BY <1>3, <1>6 DEF OneCall
    <3>3. mailbox'[n] # <<>> => mailbox[n] # <<>>
      <4> SUFFICES ASSUME mailbox[n] = <<>>
                   PROVE  mailbox'[n] = <<>>
        OBVIOUS
      <4> QED
        BY <1>2
    <3> QED
      BY <2>1, <2>2, <3>1, <3>2, <3>3 DEF OneCall
  <2>3. CASE m # n
    BY <2>1, <2>3, <1>2 DEF OneCall
  <2> QED
    BY <2>2, <2>3
<1>12. Orphan' => Orphan \/ Binding(n, who)
  BY <1>1, <1>7, <1>10 DEF Orphan, Asker
<1> QED
  BY <1>1, <1>8, <1>9, <1>10, <1>11, <1>12

\* A process ends, with all its calls; its SetSessionId may still be read.
LEMMA CrashBinds ==
  ASSUME RelayInv, BindInv, OneCall, NEW n \in Node, Crash(n)
  PROVE  /\ BindInv' /\ OneCall'
         /\ \A m \in Node, w \in Asker :
              /\ Pending(m, w)' => m # n /\ Pending(m, w)
              /\ Binding(m, w)' => m # n /\ Binding(m, w)
         /\ Orphan' => Orphan \/ \E w \in Asker : Binding(n, w)
         /\ answers' \subseteq answers
<1>0. TypeOK
  BY DEF RelayInv
<1>1. /\ alive' = alive \ {n} /\ UNCHANGED <<dialer, listener>>
      /\ acks' = {a \in acks : a.to # n} /\ answers' = {a \in answers : a.at # n}
  BY DEF Crash, streamVars
<1>2. /\ waiting'[n] = {} /\ mailbox'[n] = <<>>
      /\ \A x \in Stream : wire'[n][x] = <<>>
      /\ \A m \in Node : m # n => /\ waiting'[m] = waiting[m] /\ mailbox'[m] = mailbox[m]
                                  /\ wire'[m] = wire[m]
  BY <1>0 DEF Crash, TypeOK
<1>3. \A m \in Node : \A t \in waiting'[m] : t \in waiting[m] /\ m # n
  BY <1>2
<1>4. \A m \in Node : \A i \in DOMAIN mailbox'[m] :
        m # n /\ i \in DOMAIN mailbox[m] /\ mailbox'[m][i] = mailbox[m][i]
  BY <1>2
<1>5. \A m \in Node, x \in Stream :
        (SetAt(m, x)' => m # n /\ SetAt(m, x)) /\ (Remote(m, x)' = Remote(m, x))
  BY <1>1, <1>2 DEF SetAt, Remote
<1>6. BindInv'
  <2>1. OneTask' /\ OneSet'
    BY <1>3, <1>5 DEF BindInv, OneTask, OneSet
  <2>2. \A m \in Node : \A x, s, role : m # n /\ Awaited(m, x, s, role) => Awaited(m, x, s, role)'
    BY <1>2 DEF Awaited
  <2>3. SetAwaited'
    <3> SUFFICES ASSUME NEW k \in Node, NEW x \in Stream, NEW i \in 1..Len(wire'[k][x]),
                        wire'[k][x][i].type = "Set"
                 PROVE  /\ \A m \in Node : \A t \in waiting'[m] : m # k /\ t.stream = x
                        /\ Remote(k, x) \in alive' =>
                             Awaited(Remote(k, x), x, wire[k][x][i].sid, wire[k][x][i].role)'
      BY <1>5 DEF SetAwaited
    <3>1. k # n /\ wire'[k][x] = wire[k][x]
      BY <1>2
    <3>2. \A m \in Node : \A t \in waiting'[m] : m # k /\ t.stream = x
      BY <3>1, <1>3 DEF BindInv, SetAwaited
    <3>3. ASSUME Remote(k, x) \in alive'
          PROVE  Awaited(Remote(k, x), x, wire[k][x][i].sid, wire[k][x][i].role)'
      <4>1. PICK m, s, role : /\ m = Remote(k, x) /\ s = wire[k][x][i].sid
                              /\ role = wire[k][x][i].role /\ m \in Node /\ m # n
        BY <3>3, <1>0, <1>1 DEF TypeOK
      <4>2. Awaited(m, x, s, role)
        BY <4>1, <3>1, <3>3, <1>1 DEF BindInv, SetAwaited
      <4>3. Awaited(m, x, s, role)'
        BY <4>1, <4>2, <2>2
      <4> QED
        BY <4>1, <4>3, <3>1, <1>5
    <3> QED
      BY <3>2, <3>3
  <2>4. AckAwaited'
    <3>1. \A a \in acks : a.to \in Node
      BY <1>0 DEF TypeOK, AckMsg
    <3> QED
      BY <3>1, <2>2, <1>1, <1>5 DEF BindInv, AckAwaited, NoSets
  <2>5. NewApart'
    <3>1. (NoTasks => NoTasks') /\ (NoSets => NoSets')
      BY <1>2, <1>5 DEF NoTasks, NoSets
    <3> QED
      BY <3>1, <1>4 DEF BindInv, NewApart
  <2> QED
    BY <2>1, <2>3, <2>4, <2>5 DEF BindInv
<1>7. ASSUME NEW m \in Node, NEW w \in Asker
      PROVE  /\ Pending(m, w)' => m # n /\ Pending(m, w)
             /\ Binding(m, w)' => m # n /\ Binding(m, w)
  BY <1>3, <1>4 DEF Pending, Binding
<1>8. OneCall'
  <2> SUFFICES ASSUME NEW m \in Node
               PROVE  /\ \A i, j \in DOMAIN mailbox'[m] :
                           mailbox'[m][i].who = mailbox'[m][j].who
                           /\ mailbox'[m][i].who # "gone" => i = j
                      /\ \A i \in DOMAIN mailbox'[m], t \in waiting'[m] :
                           mailbox'[m][i].who = t.who => t.who = "gone"
                      /\ \A a \in answers' : a.at = m => a.who # "gone" /\ ~ Pending(m, a.who)'
                      /\ mailbox'[m] # <<>> => m \in alive'
    BY DEF OneCall
  <2>1. \A a \in answers' : a.at = m => a.who # "gone" /\ ~ Pending(m, a.who)'
    BY <1>0, <1>1, <1>7 DEF OneCall, TypeOK, Answer
  <2>2. CASE m = n
    BY <2>1, <2>2, <1>2, <1>3, <1>4
  <2>3. CASE m # n
    BY <2>1, <2>3, <1>1, <1>2 DEF OneCall
  <2> QED
    BY <2>2, <2>3
<1>9. Orphan' => Orphan \/ \E w \in Asker : Binding(n, w)
  <2> SUFFICES ASSUME NEW k \in Node, NEW x \in Stream, SetAt(k, x)', Remote(k, x)' \notin alive'
               PROVE  Orphan \/ \E w \in Asker : Binding(n, w)
    BY <1>7 DEF Orphan, Asker
  <2>1. SetAt(k, x) /\ Remote(k, x) \notin alive'
    BY <1>5
  <2>2. CASE Remote(k, x) \notin alive
    BY <2>1, <2>2 DEF Orphan
  <2>3. CASE Remote(k, x) \in alive
    <3>1. Remote(k, x) = n
      BY <2>1, <2>3, <1>1
    <3>2. PICK t \in waiting[n] : TRUE
      BY <2>1, <2>3, <3>1 DEF BindInv, SetAwaited, SetAt, Awaited
    <3>3. t.who \in Asker
      BY <1>0 DEF TypeOK, Task
    <3> QED
      BY <3>2, <3>3 DEF Binding
  <2> QED
    BY <2>2, <2>3
<1> QED
  BY <1>1, <1>6, <1>7, <1>8, <1>9

-----------------------------------------------------------------------------
(* The build is passed on *)

LEMMA StagesShrink ==
  ASSUME OneStage, \A s \in 1..8 : Stage(s)' => Stage(s)
  PROVE  OneStage'
BY DEF OneStage

LEMMA PassOn ==
  ASSUME OneStage, NEW p \in 1..8, NEW q \in 1..8, Stage(p), p # q => ~ Stage(p)',
         \A s \in 1..8 : Stage(s)' => Stage(s) \/ s = q
  PROVE  OneStage'
BY DEF OneStage

\* The stages other than the last are those of the managers and their messages.
LEMMA StageIs ==
  /\ Stage(1) <=> user \in {"idle", "setting", "opening"}
  /\ Stage(2) <=> MailOf("NewCircuit")
  /\ Stage(3) <=> entry.pc \in {"get", "sameNew", "joint"}
  /\ Stage(4) <=> MailOf("Gossip")
  /\ Stage(5) <=> exit.pc \in {"answer", "relay"}
  /\ Stage(6) <=> MailOf("Expend")
  /\ Stage(7) <=> cmd.pc \in {"get", "new"}
  /\ Stage(8) <=> Orphan
BY DEF Stage

\* The stage in which streams are bound on behalf of who.
Home(who, p) ==
  \/ who = "user" /\ p = 1
  \/ who = "proxy" /\ p = 3
  \/ who = "gossip" /\ p = 5
  \/ who = "cmd" /\ p = 7
  \/ who = "gone" /\ p = 8

LEMMA BindingStage ==
  ASSUME Owned, NEW n \in Node, NEW who \in Asker, Binding(n, who)
  PROVE  \E p \in 1..8 : Home(who, p) /\ Stage(p)
<1>1. MayBind(n, who)
  BY DEF Owned
<1>2. CASE who = "gone"
  <2>1. Orphan
    BY <1>2 DEF Orphan
  <2> QED
    BY <1>2, <2>1, StageIs DEF Home
<1>3. CASE who # "gone"
  BY <1>1, <1>3, StageIs DEF MayBind, Home
<1> QED
  BY <1>2, <1>3

\* In a stage whose manager binds nothing, nothing is being bound at all.
LEMMA NothingBound ==
  ASSUME TypeOK, ApartInv, NEW p \in 1..7, Stage(p),
         \A n \in Node, who \in Asker : Home(who, p) => ~ Binding(n, who)
  PROVE  NoTasks /\ NoNews /\ NoSets /\ acks = {} /\ ~ Orphan
<1>1. \A n \in Node, who \in Asker : ~ Binding(n, who)
  <2> SUFFICES ASSUME NEW n \in Node, NEW who \in Asker, Binding(n, who)
               PROVE  FALSE
    OBVIOUS
  <2>1. PICK q \in 1..8 : Home(who, q) /\ Stage(q)
    BY BindingStage DEF ApartInv
  <2>2. q = p
    BY <2>1 DEF ApartInv, OneStage
  <2> QED
    BY <2>1, <2>2
<1>2. NoTasks
  BY <1>1 DEF NoTasks, Binding, TypeOK, Task
<1>3. NoNews
  <2> SUFFICES ASSUME NEW n \in Node, NEW i \in DOMAIN mailbox[n], mailbox[n][i].op = "New"
               PROVE  FALSE
    BY DEF NoNews
  <2>1. mailbox[n][i] \in Request
    BY DEF TypeOK
  <2>2. mailbox[n][i].who \in Asker
    BY <2>1 DEF Request
  <2> QED
    BY <2>2, <1>1 DEF Binding
<1>4. ~ Orphan
  <2>1. Orphan => Stage(8)
    BY StageIs
  <2> QED
    BY <2>1 DEF ApartInv, OneStage
<1>5. NoSets
  <2> SUFFICES ASSUME NEW n \in Node, NEW x \in Stream, NEW i \in 1..Len(wire[n][x]),
                      wire[n][x][i].type = "Set"
               PROVE  FALSE
    BY DEF NoSets, SetAt
  <2>1. Remote(n, x) \in alive
    BY <1>4 DEF Orphan, SetAt
  <2>2. Remote(n, x) \in Node /\ waiting[Remote(n, x)] # {}
    BY <2>1 DEF ApartInv, BindInv, SetAwaited, Awaited, TypeOK
  <2> QED
    BY <2>2, <1>2 DEF NoTasks
<1>6. acks = {}
  BY <1>2, NoTaskNoAck DEF ApartInv
<1> QED
  BY <1>2, <1>3, <1>4, <1>5, <1>6

\* A step of the relay layer while the managers do nothing.
LEMMA LayerApart ==
  ASSUME ApartInv, BindInv', OneCall', CallsShrink, UNCHANGED mgrVars,
         TypeOK, answers' \subseteq Answer
  PROVE  ApartInv'
<1>1. UNCHANGED <<user, entry, exit, cmd, msgs>>
  BY DEF mgrVars
<1>2. \A n, who : (MayAsk(n, who)' <=> MayAsk(n, who)) /\ (MayBind(n, who)' <=> MayBind(n, who))
  BY <1>1 DEF MayAsk, MayBind
<1>3. Owned'
  <2>1. ASSUME NEW a \in answers', a.who = "user"
        PROVE  user' # "idle"
    <3>1. CASE a \in answers
      BY <3>1, <2>1, <1>1 DEF ApartInv, Owned
    <3>2. CASE a \notin answers
      <4>1. Pending(a.at, "user") /\ a.at \in Node /\ "user" \in Asker
        BY <3>2, <2>1 DEF CallsShrink, Answer, Asker
      <4>2. MayAsk(a.at, "user")
        BY <4>1 DEF ApartInv, Owned
      <4> QED
        BY <4>2, <1>1 DEF MayAsk
    <3> QED
      BY <3>1, <3>2
  <2>2. \A n \in Node, who \in Asker :
          (Pending(n, who)' => MayAsk(n, who)') /\ (Binding(n, who)' => MayBind(n, who)')
    BY <1>2 DEF ApartInv, Owned, CallsShrink
  <2> QED
    BY <2>1, <2>2 DEF Owned
<1>4. \A s \in 1..8 : Stage(s)' => Stage(s)
  BY <1>1 DEF Stage, MailOf, CallsShrink
<1>5. OneStage' /\ OneMail'
  BY <1>1, <1>4, StagesShrink DEF ApartInv, OneMail
<1> QED
  BY <1>3, <1>5 DEF ApartInv

\* A manager whose requests are all answered does something.
LEMMA ManagerActs ==
  ASSUME RelayInv, ApartInv, NEW n \in Node, NEW who \in Asker, who # "gone",
         \A m \in Node : ~ Pending(m, who),
         \A m \in Node, w \in Asker : w # who =>
           (MayAsk(m, w) => MayAsk(m, w)') /\ (MayBind(m, w) => MayBind(m, w)'),
         user' = "idle" => user = "idle",
         \/ Still
         \/ \E r : /\ Ask(n, who, r) /\ r.who \in {who, "gone"}
                   /\ r.who = who => MayAsk(n, who)'
                   /\ r.op = "New" => /\ r.who = who /\ MayBind(n, who)'
                                      /\ NoTasks /\ NoSets /\ NoNews
  PROVE  BindInv' /\ OneCall' /\ Owned' /\ (Orphan' => Orphan)
<1>1. BindInv /\ OneCall /\ Owned
  BY DEF ApartInv
<1>2. ASSUME NEW m \in Node, Binding(m, who)
      PROVE  FALSE
  BY <1>2 DEF Pending, Binding
<1>3. CASE Still
  <2>1. /\ BindInv' /\ OneCall'
        /\ \A m, w : (Pending(m, w)' <=> Pending(m, w)) /\ (Binding(m, w)' <=> Binding(m, w))
        /\ Orphan' => Orphan
    BY <1>1, <1>3, StillKeeps
  <2>2. answers' \subseteq answers
    BY <1>3 DEF Still
  <2>3. Owned'
    BY <2>1, <2>2, <1>1, <1>2 DEF Owned
  <2> QED
    BY <2>1, <2>3
<1>4. ASSUME NEW r, Ask(n, who, r), r.who \in {who, "gone"},
             r.who = who => MayAsk(n, who)',
             r.op = "New" => r.who = who /\ MayBind(n, who)' /\ NoTasks /\ NoSets /\ NoNews
      PROVE  BindInv' /\ OneCall' /\ Owned' /\ (Orphan' => Orphan)
  <2>1. /\ BindInv' /\ OneCall'
        /\ \A m \in Node, w \in Asker :
             /\ Pending(m, w)' => Pending(m, w) \/ (m = n /\ w = r.who)
             /\ Binding(m, w)' => Binding(m, w) \/ (m = n /\ w = r.who /\ r.op = "New")
        /\ Orphan' => Orphan
        /\ answers' \subseteq answers
    BY <1>1, <1>4, AskBinds
  <2>2. \A m : MayAsk(m, "gone")'
    BY DEF MayAsk
  <2>3. Owned'
    <3>1. ASSUME NEW m \in Node, NEW w \in Asker
          PROVE  (Pending(m, w)' => MayAsk(m, w)') /\ (Binding(m, w)' => MayBind(m, w)')
      <4>1. CASE w = who
        BY <4>1, <2>1, <1>2, <1>4
      <4>2. CASE w # who
        BY <4>2, <2>1, <2>2, <1>1, <1>4 DEF Owned
      <4> QED
        BY <4>1, <4>2
    <3> QED
      BY <3>1, <2>1, <1>1 DEF Owned
  <2> QED
    BY <2>1, <2>3
<1> QED
  BY <1>3, <1>4

\* A manager is told: it has nothing under way.
LEMMA ToldIdle ==
  ASSUME ApartInv, NEW n \in Node, NEW who \in Asker, NEW vals, Told(n, who, vals),
         \A m \in Node : MayAsk(m, who) => m = n
  PROVE  \A m \in Node : ~ Pending(m, who)
BY DEF ApartInv, OneCall, Owned, Told

\* A manager stops waiting and ends.
LEMMA ManagerExpires ==
  ASSUME RelayInv, ApartInv, NEW n \in Node, NEW who \in Asker, who # "gone", Disown(n, who),
         \A m \in Node : MayAsk(m, who) => m = n,
         \A m \in Node, w \in Asker : w # who =>
           (MayAsk(m, w) => MayAsk(m, w)') /\ (MayBind(m, w) => MayBind(m, w)'),
         user' = user, NEW p \in 1..7, Home(who, p), ~ Stage(p)',
         \A s \in 1..7 : Stage(s)' => Stage(s)
  PROVE  BindInv' /\ OneCall' /\ Owned' /\ OneStage'
<1>1. BindInv /\ OneCall /\ Owned /\ OneStage
  BY DEF ApartInv
<1>2. /\ BindInv' /\ OneCall'
      /\ ~ Pending(n, who)' /\ ~ Binding(n, who)'
      /\ \A m \in Node, w \in Asker :
           /\ Pending(m, w)' => Pending(m, w) \/ w = "gone"
           /\ Binding(m, w)' => Binding(m, w) \/ w = "gone"
      /\ Orphan' => Orphan \/ Binding(n, who)
      /\ UNCHANGED answers
  BY <1>1, DisownBinds
<1>3. \A m : MayAsk(m, "gone")' /\ MayBind(m, "gone")'
  BY DEF MayAsk, MayBind
<1>4. Owned'
  <2>1. ASSUME NEW m \in Node, NEW w \in Asker
        PROVE  (Pending(m, w)' => MayAsk(m, w)') /\ (Binding(m, w)' => MayBind(m, w)')
    <3>1. CASE w = who
      <4>1. Pending(m, w)' => m = n
        BY <3>1, <1>1, <1>2 DEF Owned
      <4>2. Binding(m, w)' => Pending(m, w)'
        BY DEF Binding, Pending
      <4> QED
        BY <3>1, <4>1, <4>2, <1>2
    <3>2. CASE w # who
      BY <3>2, <1>1, <1>2, <1>3 DEF Owned
    <3> QED
      BY <3>1, <3>2
  <2> QED
    BY <2>1, <1>1, <1>2 DEF Owned
<1>5. OneStage'
  <2>1. \A s \in 1..8 : s = 8 \/ s \in 1..7
    OBVIOUS
  <2>2. CASE Binding(n, who)
    <3>1. PICK q \in 1..8 : Home(who, q) /\ Stage(q)
      BY <2>2, <1>1, BindingStage
    <3>2. q = p /\ p # 8
      BY <3>1 DEF Home
    <3> QED
      BY <2>1, <3>1, <3>2, <1>1, PassOn
  <2>3. CASE ~ Binding(n, who)
    <3>1. Stage(8)' => Stage(8)
      BY <2>3, <1>2, StageIs DEF Stage
    <3> QED
      BY <2>1, <3>1, <1>1, StagesShrink
  <2> QED
    BY <2>2, <2>3
<1> QED
  BY <1>2, <1>4, <1>5

LEMMA LayerKeepsApart ==
  ASSUME "ack" \notin FaultKinds, RelayInv, TypeOK', ApartInv,
         AnswerDisconnects \/ \E n \in Node : LayerStep(n) \/ LayerFault(n)
  PROVE  ApartInv'
<1>1. BindInv /\ OneCall /\ TypeOK /\ CalmWire(wire)
  BY CalmStart DEF ApartInv, RelayInv
<1>2. UNCHANGED mgrVars /\ answers' \subseteq Answer
  BY DEF AnswerDisconnects, LayerStep, LayerFault, TypeOK
<1> SUFFICES BindInv' /\ OneCall' /\ CallsShrink
  BY <1>1, <1>2, LayerApart
<1>3. CASE Still
  <2>1. /\ BindInv' /\ OneCall'
        /\ \A m, w : (Pending(m, w)' <=> Pending(m, w)) /\ (Binding(m, w)' <=> Binding(m, w))
        /\ Orphan' => Orphan
    BY <1>1, <1>3, StillKeeps
  <2> QED
    BY <2>1, <1>3 DEF Still, CallsShrink
<1>4. CASE AnswerDisconnects
  BY <1>3, <1>4, Roles, StillQuiet DEF AnswerDisconnects
<1>5. ASSUME NEW n \in Node, LayerStep(n) \/ LayerFault(n)
      PROVE  BindInv' /\ OneCall' /\ CallsShrink
  <2> DEFINE r == Head(mailbox[n])
  <2>1. CASE \E x \in Stream : HandleSetSession(n, x)
    BY <2>1, <1>1, SetSessionBinds
  <2>2. CASE \E a \in acks, t \in waiting[n] : AckArrives(n, a, t)
    BY <2>2, <1>1, AckBinds
  <2>3. CASE ServeNew(n)
    BY <2>3, <1>1, ServeNewBinds
  <2>4. ASSUME NEW op, Serves(n, op), Calm,
               UNCHANGED <<alive, dialer, listener, waiting, acks>>,
               UNCHANGED answers \/ \E val : Reply(n, r.who, val)
        PROVE  BindInv' /\ OneCall' /\ CallsShrink
    BY <2>4, <1>1, ServedKeeps DEF CallsShrink
  <2>5. CASE ServeSend(n)
    <3>1. r \in Request /\ r.op = "Send" /\ r.sid \in SessionId
      BY <1>1, <2>5, ServesType DEF ServeSend
    <3>2. Msg(r.type, r.sid) \in Message /\ Msg(r.type, r.sid).type # "Set"
      BY <3>1, MsgType DEF Request, Msg
    <3>3. Calm
      BY <3>1, <3>2, <1>1, <2>5, SendRelayCalm DEF ServeSend
    <3>4. Serves(n, "Send") /\ \E val : Reply(n, r.who, val)
      BY <2>5 DEF ServeSend
    <3>5. UNCHANGED <<alive, dialer, listener, waiting, acks>>
      BY <2>5 DEF ServeSend, streamVars
    <3> QED
      BY <3>3, <3>4, <3>5, <2>4
  <2>6. CASE ServeClose(n)
    <3>1. r.sid \in SessionId
      BY <1>1, <2>6, ServesType DEF ServeClose
    <3>2. Calm
      BY <3>1, <1>1, <2>6, CloseCircuitCalm DEF ServeClose
    <3>3. Serves(n, "Close") /\ UNCHANGED <<alive, dialer, listener, waiting, acks, answers>>
      BY <2>6 DEF ServeClose, streamVars
    <3> QED
      BY <3>2, <3>3, <2>4
  <2>7. CASE ServeNewFails(n) \/ ServeGet(n)
    <3>1. UNCHANGED <<alive, dialer, listener, waiting, acks, up, wire, sessionMap>>
      BY <2>7 DEF ServeNewFails, ServeGet, streamVars, netVars
    <3>2. Calm
      BY <3>1, <1>1 DEF Calm, CalmWire, Silent
    <3>3. \E op : Serves(n, op) /\ \E val : Reply(n, r.who, val)
      BY <2>7 DEF ServeNewFails, ServeGet
    <3> QED
      BY <3>1, <3>2, <3>3, <2>4
  <2>8. ASSUME NEW t \in waiting[n], SetSessionTimeout(n, t), FaultUnless(Hopeless(n, t), "ack")
        PROVE  BindInv' /\ OneCall' /\ CallsShrink
    <3>1. Hopeless(n, t)
      BY <2>8 DEF FaultUnless, Fault
    <3> QED
      BY <3>1, <2>8, <1>1, TimeoutBinds
  <2>9. CASE \/ \E x \in Stream : \/ HandleRelayMsg(n, x) \/ HandleRelayProbe(n, x)
                                  \/ HandleDisconnect(n, x) \/ SpawnCircuitSuccess(n, x)
                                  \/ ReadErr(n, x) \/ StreamReset(n, x)
                                  \/ HandleStreamClosed(n, x)
             \/ \E g \in spawned[n] : \/ ForwardSuccess(n, g) \/ StartHandshake(n, g)
                                      \/ Handshake(n, g) \/ HandshakeCancelled(n, g)
                                      \/ StoreSecureConn(n, g)
    BY <1>3, <2>9, StillQuiet
  <2>10. CASE LayerStep(n)
    BY <2>1, <2>2, <2>3, <2>5, <2>6, <2>7, <2>9, <2>10 DEF LayerStep, RelayStep
  <2>11. CASE LayerFault(n)
    BY <2>7, <2>8, <2>9, <2>11 DEF LayerFault
  <2> QED
    BY <1>5, <2>10, <2>11
<1> QED
  BY <1>4, <1>5

\* The managers of a process end with it; the stream it was binding is left to
\* nobody, and nothing else is passed on.
LEMMA KillKeepsApart ==
  ASSUME RelayInv, CircuitTypeOK, ApartInv, NEW n, Kill(n)
  PROVE  ApartInv'
<1>1. TypeOK /\ BindInv /\ OneCall /\ Owned /\ OneStage /\ OneMail
  BY DEF ApartInv, RelayInv
<1>2. n \in Node /\ Crash(n)
  BY <1>1 DEF Kill, Crash, TypeOK
<1>3. /\ BindInv' /\ OneCall'
      /\ \A m \in Node, w \in Asker :
           /\ Pending(m, w)' => m # n /\ Pending(m, w)
           /\ Binding(m, w)' => m # n /\ Binding(m, w)
      /\ Orphan' => Orphan \/ \E w \in Asker : Binding(n, w)
      /\ answers' \subseteq answers
  BY <1>1, <1>2, CrashBinds
<1>4. entry \in EntryState /\ exit \in ExitState /\ cmd \in CmdState
  BY DEF CircuitTypeOK
<1>5. /\ entry'.pc = IF n = EntryNode THEN "end" ELSE entry.pc
      /\ exit'.pc = IF n = ExitNode THEN "end" ELSE exit.pc
      /\ cmd'.pc = IF n = cmd.at THEN "end" ELSE cmd.pc
      /\ cmd'.at = cmd.at
      /\ user' = IF n = Caller THEN "dead" ELSE user
      /\ msgs' \subseteq msgs
  BY <1>4 DEF Kill, EntryState, ExitState, CmdState
<1>6. \A m \in Node, w \in Asker : m # n =>
        (MayAsk(m, w) => MayAsk(m, w)') /\ (MayBind(m, w) => MayBind(m, w)')
  BY <1>5 DEF MayAsk, MayBind
<1>7. Owned'
  <2>1. \A m \in Node, w \in Asker :
          (Pending(m, w)' => MayAsk(m, w)') /\ (Binding(m, w)' => MayBind(m, w)')
    BY <1>1, <1>3, <1>6 DEF Owned
  <2> QED
    BY <2>1, <1>1, <1>3, <1>5 DEF Owned
<1>8. OneMail'
  BY <1>1, <1>5 DEF OneMail
<1>9. \A s \in 1..8 : Stage(s)' => Stage(s) \/ s = 8
  BY <1>5 DEF Stage, MailOf
<1>10. ASSUME NEW w \in Asker, Binding(n, w)
       PROVE  OneStage'
  <2>1. PICK p \in 1..8 : Home(w, p) /\ Stage(p)
    BY <1>1, <1>2, <1>10, BindingStage
  <2>2. MayBind(n, w)
    BY <1>1, <1>2, <1>10 DEF Owned
  <2>3. p # 8 => ~ Stage(p)'
    BY <2>1, <2>2, <1>5 DEF Home, MayBind, Stage
  <2> QED
    BY <2>1, <2>3, <1>1, <1>9, PassOn
<1>11. ASSUME \A w \in Asker : ~ Binding(n, w)
       PROVE  OneStage'
  <2>1. Stage(8)' => Stage(8)
    BY <1>3, <1>11 DEF Stage
  <2> QED
    BY <2>1, <1>1, <1>9, StagesShrink
<1> QED
  BY <1>3, <1>7, <1>8, <1>10, <1>11 DEF ApartInv

-----------------------------------------------------------------------------
(* The managers *)

\* A manager with nothing under way acts; the build stays where it is, or is passed
\* on from p to q.
LEMMA ManagerKeeps ==
  ASSUME RelayInv, ApartInv, NEW n \in Node, NEW who \in Asker, who # "gone",
         \A m \in Node : ~ Pending(m, who),
         \A m \in Node, w \in Asker : w # who =>
           (MayAsk(m, w) => MayAsk(m, w)') /\ (MayBind(m, w) => MayBind(m, w)'),
         user' = "idle" => user = "idle",
         \/ Still
         \/ \E r : /\ Ask(n, who, r) /\ r.who \in {who, "gone"}
                   /\ r.who = who => MayAsk(n, who)'
                   /\ r.op = "New" => /\ r.who = who /\ MayBind(n, who)'
                                      /\ NoTasks /\ NoSets /\ NoNews,
         \/ \A s \in 1..7 : Stage(s)' => Stage(s)
         \/ \E p, q \in 1..7 : /\ Stage(p) /\ ~ Stage(p)'
                               /\ \A s \in 1..7 : Stage(s)' => Stage(s) \/ s = q,
         OneMail'
  PROVE  ApartInv'
<1>1. BindInv' /\ OneCall' /\ Owned' /\ (Orphan' => Orphan)
  BY ManagerActs
<1>2. \A s \in 1..8 : s = 8 \/ s \in 1..7
  OBVIOUS
<1>3. Stage(8)' => Stage(8)
  BY <1>1 DEF Stage
<1>4. OneStage'
  <2>1. CASE \A s \in 1..7 : Stage(s)' => Stage(s)
    BY <2>1, <1>2, <1>3, StagesShrink DEF ApartInv
  <2>2. CASE \E p, q \in 1..7 : /\ Stage(p) /\ ~ Stage(p)'
                                /\ \A s \in 1..7 : Stage(s)' => Stage(s) \/ s = q
    <3>1. PICK p, q \in 1..7 : /\ Stage(p) /\ ~ Stage(p)'
                               /\ \A s \in 1..7 : Stage(s)' => Stage(s) \/ s = q
      BY <2>2
    <3>2. p \in 1..8 /\ q \in 1..8 /\ \A s \in 1..8 : Stage(s)' => Stage(s) \/ s = q
      BY <3>1, <1>2, <1>3
    <3> QED
      BY <3>1, <3>2, PassOn DEF ApartInv
  <2> QED
    BY <2>1, <2>2
<1> QED
  BY <1>1, <1>4 DEF ApartInv

\* The one message of its type is sent, perhaps with acknowledgements.
LEMMA MailAdded ==
  ASSUME OneMail, NEW m, \A k \in msgs : k.type # m.type,
         \A k \in msgs' : k \in msgs \/ k = m \/ k.type \in {"CircuitAck", "ExpendAck"}
  PROVE  OneMail'
<1> SUFFICES ASSUME NEW j \in msgs', NEW k \in msgs', j.type = k.type,
                    j.type \in {"NewCircuit", "Gossip", "Expend"}
             PROVE  j = k
  BY DEF OneMail
<1> QED
  BY DEF OneMail

LEMMA UserKeepsApart ==
  ASSUME RelayInv, CircuitTypeOK, ApartInv, UserStep \/ UserFault
  PROVE  ApartInv'
<1>1. TypeOK /\ BindInv /\ OneCall /\ Owned /\ OneStage /\ OneMail
  BY DEF ApartInv, RelayInv
<1>2. Caller \in Node /\ "user" \in Asker
  BY Roles DEF Asker
<1>3. UNCHANGED <<entry, exit, cmd>>
  BY DEF UserStep, UserFault, UserDials, UserDialFails, UserSet, UserRequests,
         UserCannotRequest, UserAcked, UserTimesOut, UserCloses, UserConnects, UserGivesUp,
         UserDisconnects, UserAt
<1>4. \A m \in Node, w \in Asker : w # "user" =>
        (MayAsk(m, w) <=> MayAsk(m, w)') /\ (MayBind(m, w) <=> MayBind(m, w)')
  BY <1>3 DEF MayAsk, MayBind
<1>5. user # "setting" => \A m \in Node : ~ Pending(m, "user")
  BY <1>1, <1>2 DEF Owned, MayAsk
<1>6. CASE UserDials
  <2>1. user = "idle" /\ user' = "setting" /\ UserDial(Caller, EntryNode, Sid) /\ msgs' = msgs
    BY <1>6 DEF UserDials, UserAt
  <2>2. Stage(1) /\ \A m \in Node : ~ Pending(m, "user") /\ ~ Binding(m, "user")
    BY <2>1, <1>5 DEF Stage, Pending, Binding
  <2>3. NoTasks /\ NoNews /\ NoSets /\ acks = {} /\ ~ Orphan
    BY <1>1, <2>2, NothingBound DEF Home
  <2>4. /\ DialAndSet(Caller, EntryNode, Sid, "Caller", "Entry", "user", "user")
        /\ mailbox' = mailbox /\ Caller \in alive
    BY <2>1 DEF UserDial
  <2>5. alive' = alive /\ answers' = answers
    BY <2>4 DEF DialAndSet
  <2>6. NoNews'
    BY <2>3, <2>4 DEF NoNews
  <2>7. /\ BindInv'
        /\ \A m \in Node : m # Caller => waiting'[m] = {}
        /\ \A t \in waiting'[Caller] : t.who = "user"
        /\ \A m \in Node, x \in Stream : SetAt(m, x)' => Remote(m, x)' = Caller
    BY <1>2, <2>3, <2>4, <2>6, DialBinds
  <2>8. ASSUME NEW m \in Node, NEW w \in Asker
        PROVE  /\ Pending(m, w)' => Pending(m, w) \/ (m = Caller /\ w = "user")
               /\ Binding(m, w)' => Binding(m, w) \/ (m = Caller /\ w = "user")
    BY <2>4, <2>7 DEF Pending, Binding
  <2>9. MayAsk(Caller, "user")' /\ MayBind(Caller, "user")'
    BY <2>1 DEF MayAsk, MayBind
  <2>10. Owned'
    <3>1. ASSUME NEW m \in Node, NEW w \in Asker
          PROVE  (Pending(m, w)' => MayAsk(m, w)') /\ (Binding(m, w)' => MayBind(m, w)')
      BY <2>2, <2>8, <2>9, <1>1, <1>4 DEF Owned
    <3> QED
      BY <3>1, <2>1 DEF Owned
  <2>11. OneCall'
    <3> SUFFICES ASSUME NEW m \in Node
                 PROVE  /\ \A i \in DOMAIN mailbox[m], t \in waiting'[m] :
                             mailbox[m][i].who = t.who => t.who = "gone"
                        /\ \A a \in answers : a.at = m => ~ Pending(m, a.who)'
      BY <1>1, <2>4, <2>5 DEF OneCall
    <3>1. ASSUME NEW i \in DOMAIN mailbox[m], NEW t \in waiting'[m], mailbox[m][i].who = t.who
          PROVE  FALSE
      <4>1. m = Caller /\ t.who = "user"
        BY <2>7, <3>1
      <4> QED
        BY <4>1, <3>1, <2>2 DEF Pending
    <3>2. ASSUME NEW a \in answers, a.at = m
          PROVE  ~ Pending(m, a.who)'
      <4>1. a.who # "user" /\ a.who \in Asker
        BY <2>1, <1>1 DEF Owned, TypeOK, Answer
      <4> QED
        BY <4>1, <3>2, <2>8, <1>1 DEF OneCall
    <3> QED
      BY <3>1, <3>2
  <2>12. ~ Orphan'
    <3>1. \A m \in Node : ~ Binding(m, "gone")'
      BY <2>3, <2>8 DEF Asker, Orphan
    <3> QED
      BY <3>1, <2>4, <2>5, <2>7 DEF Orphan
  <2>13. \A s \in 1..8 : Stage(s)' => Stage(s)
    BY <2>1, <2>12, <1>3 DEF Stage, MailOf
  <2> QED
    BY <2>1, <2>7, <2>10, <2>11, <2>13, <1>1, StagesShrink DEF ApartInv, OneMail
<1>7. ASSUME NEW val, NEW to \in {"opening", "closing"}, UserSet(val, to)
      PROVE  ApartInv'
  <2>1. Still /\ user = "setting" /\ user' = to /\ msgs' = msgs /\ Told(Caller, "user", {val})
    BY <1>2, <1>7, StillQuiet DEF UserSet, UserAt
  <2>2. \A m \in Node : MayAsk(m, "user") => m = Caller
    BY DEF MayAsk
  <2>3. \A m \in Node : ~ Pending(m, "user")
    BY <1>2, <2>1, <2>2, ToldIdle
  <2>4. \A s \in 1..7 : Stage(s)' => Stage(s)
    BY <2>1, <1>3 DEF Stage, MailOf
  <2>5. OneMail'
    BY <2>1, <1>1 DEF OneMail
  <2> QED
    BY <1>2, <1>4, <2>1, <2>3, <2>4, <2>5, ManagerKeeps
<1>8. CASE UserRequests
  <2>1. Still /\ user = "opening" /\ user' = "asked"
        /\ msgs' = msgs \cup {Mail("NewCircuit", EntryNode, NoNode, TRUE)}
    BY <1>2, <1>8, StillQuiet DEF UserRequests, UserAt
  <2>2. Stage(1) /\ ~ Stage(1)' /\ ~ Stage(2)
    BY <2>1, <1>1 DEF Stage, OneStage
  <2>3. \A s \in 1..7 : Stage(s)' => Stage(s) \/ s = 2
    BY <2>1, <1>3 DEF Stage, MailOf, Mail
  <2>4. OneMail'
    <3>1. \A m \in msgs : m.type # "NewCircuit"
      BY <2>2 DEF Stage, MailOf
    <3> QED
      BY <3>1, <2>1, <1>1, MailAdded DEF Mail
  <2> QED
    BY <1>2, <1>4, <1>5, <2>1, <2>2, <2>3, <2>4, ManagerKeeps
<1>9. CASE \/ UserAcked \/ UserCloses \/ UserConnects \/ UserDisconnects
           \/ UserDialFails \/ UserCannotRequest \/ UserTimesOut \/ UserGivesUp
  <2>1. \/ UserClose(Caller, Sid) \/ UNCHANGED relayVars
    BY <1>9 DEF UserDialFails, UserCannotRequest, UserAcked, UserTimesOut, UserCloses,
         UserConnects, UserGivesUp, UserDisconnects
  <2>2. Still
    BY <1>2, <2>1, StillQuiet
  <2>3. /\ user # "setting" /\ user' \notin {"idle", "setting", "opening"}
        /\ msgs' \subseteq msgs
    BY <1>9 DEF UserDialFails, UserCannotRequest, UserAcked, UserTimesOut, UserCloses,
         UserConnects, UserGivesUp, UserDisconnects, UserAt
  <2>4. \A s \in 1..7 : Stage(s)' => Stage(s)
    BY <2>3, <1>3 DEF Stage, MailOf
  <2>5. OneMail'
    BY <2>3, <1>1 DEF OneMail
  <2> QED
    BY <1>2, <1>4, <1>5, <2>2, <2>3, <2>4, <2>5, ManagerKeeps
<1> QED
  BY <1>6, <1>7, <1>8, <1>9 DEF UserStep, UserFault

\* Acknowledgements between the managers pass nothing on.
LEMMA AcksOnly ==
  ASSUME OneMail, \A k \in msgs' : k \in msgs \/ k.type \in {"CircuitAck", "ExpendAck"}
  PROVE  OneMail' /\ \A type \in {"NewCircuit", "Gossip", "Expend"} : MailOf(type)' => MailOf(type)
BY DEF OneMail, MailOf

LEMMA EntryKeepsApart ==
  ASSUME RelayInv, CircuitTypeOK, ApartInv, EntryStep \/ EntryFault
  PROVE  ApartInv'
<1>1. TypeOK /\ BindInv /\ OneCall /\ Owned /\ OneStage /\ OneMail
  BY DEF ApartInv, RelayInv
<1>2. EntryNode \in Node /\ "proxy" \in Asker /\ entry \in EntryState
  BY Roles DEF Asker, CircuitTypeOK
<1>3. UNCHANGED <<user, exit, cmd>>
  BY DEF EntryStep, EntryFault, EntryReceives, EntryRefuses, SameProxyNew, SameProxyNewFailed,
         SameProxySend, EntryPicksJoint, EntryRetriesJoint, EntryGossips, EntrySent,
         EntryGetsNoPeers, EntryCannotEncrypt, EntryGossipExpires, EntryCannotGossip,
         EntryExpires, EntryAt, TryJoint
<1>4. \A m \in Node, w \in Asker : w # "proxy" =>
        (MayAsk(m, w) <=> MayAsk(m, w)') /\ (MayBind(m, w) <=> MayBind(m, w)')
  BY <1>3 DEF MayAsk, MayBind
<1>5. \A m \in Node : MayAsk(m, "proxy") => m = EntryNode /\ entry.pc \notin {"idle", "end"}
  BY DEF MayAsk
<1>6. \A vals : Told(EntryNode, "proxy", vals) => \A m \in Node : ~ Pending(m, "proxy")
  BY <1>2, <1>5, ToldIdle
<1>7. \A from, to : EntryAt(from, to) => entry.pc = from /\ entry'.pc = to
  BY <1>2 DEF EntryAt, EntryState
<1>8. ASSUME NEW to, to \in {"get", "sameNew", "joint", "send"}, entry'.pc = to
      PROVE  /\ MayAsk(EntryNode, "proxy")'
             /\ to \in {"sameNew", "joint"} => MayBind(EntryNode, "proxy")'
  BY <1>8 DEF MayAsk, MayBind
<1>9. ASSUME \A m \in Node : ~ Pending(m, "proxy"), OneMail',
             \/ Still
             \/ \E r : /\ Ask(EntryNode, "proxy", r) /\ r.who \in {"proxy", "gone"}
                       /\ r.who = "proxy" => MayAsk(EntryNode, "proxy")'
                       /\ r.op = "New" => /\ r.who = "proxy" /\ MayBind(EntryNode, "proxy")'
                                          /\ NoTasks /\ NoSets /\ NoNews,
             \/ \A s \in 1..7 : Stage(s)' => Stage(s)
             \/ \E p, q \in 1..7 : /\ Stage(p) /\ ~ Stage(p)'
                                   /\ \A s \in 1..7 : Stage(s)' => Stage(s) \/ s = q
      PROVE  ApartInv'
  BY <1>2, <1>3, <1>4, <1>9, ManagerKeeps
<1>10. CASE EntryReceives
  <2>1. PICK m \in msgs : /\ m.type = "NewCircuit" /\ EntryAt("idle", "get")
                          /\ Ask(EntryNode, "proxy", ReqGet(Sid, "proxy"))
                          /\ msgs' = msgs \ {m}
    BY <1>10 DEF EntryReceives
  <2>2. entry.pc = "idle" /\ entry'.pc = "get"
    BY <2>1, <1>7
  <2>3. \A k \in Node : ~ Pending(k, "proxy")
    BY <2>2, <1>1, <1>2, <1>5 DEF Owned
  <2>4. Stage(2) /\ ~ Stage(2)' /\ OneMail'
    BY <2>1, <1>1 DEF Stage, MailOf, OneMail
  <2>5. \A s \in 1..7 : Stage(s)' => Stage(s) \/ s = 3
    BY <2>1, <1>3 DEF Stage, MailOf
  <2>6. ReqGet(Sid, "proxy").who = "proxy" /\ ReqGet(Sid, "proxy").op = "Get"
    BY DEF ReqGet
  <2>7. MayAsk(EntryNode, "proxy")'
    BY <2>2, <1>8
  <2> QED
    BY <2>1, <2>3, <2>4, <2>5, <2>6, <2>7, <1>9
<1>11. CASE \/ EntryRefuses \/ EntryGetsNoPeers \/ EntryCannotEncrypt
            \/ EntrySent("ok", TRUE) \/ EntrySent("err", FALSE)
  <2>1. /\ \E vals : Told(EntryNode, "proxy", vals)
        /\ ReadAnswer(EntryNode, "proxy")
        /\ \E ok : Answers(ok)
        /\ \E from : EntryAt(from, "end")
    BY <1>11 DEF EntryRefuses, EntryGetsNoPeers, EntryCannotEncrypt, EntrySent
  <2>2. Still /\ entry'.pc = "end"
    BY <2>1, <1>2, <1>7, StillQuiet
  <2>3. OneMail' /\ \A type \in {"NewCircuit", "Gossip", "Expend"} : MailOf(type)' => MailOf(type)
    BY <2>1, <1>1, AcksOnly DEF Answers, Mail
  <2>4. \A s \in 1..7 : Stage(s)' => Stage(s)
    BY <2>2, <2>3, <1>3 DEF Stage
  <2> QED
    BY <2>1, <2>2, <2>3, <2>4, <1>6, <1>9
<1>12. CASE EntryGossips \/ EntryGossipExpires
  <2> DEFINE g == Mail("Gossip", ExitNode, entry.joint, TRUE)
  <2>1. /\ Told(EntryNode, "proxy", {"ok"}) /\ entry.pc = "joint"
        /\ entry'.pc \in {"send", "end"}
        /\ \A k \in msgs' : k \in msgs \/ k = g \/ k.type = "CircuitAck"
    BY <1>12, <1>7 DEF EntryGossips, EntryGossipExpires, Mail
  <2>2. Stage(3) /\ ~ Stage(3)' /\ ~ Stage(4)
    BY <2>1, <1>1 DEF Stage, OneStage
  <2>3. \A s \in 1..7 : Stage(s)' => Stage(s) \/ s = 4
    BY <2>1, <1>3 DEF Stage, MailOf, Mail
  <2>4. g.type = "Gossip" /\ \A m \in msgs : m.type # "Gossip"
    BY <2>2 DEF Stage, MailOf, Mail
  <2>5. OneMail'
    BY <2>1, <2>4, <1>1, MailAdded
  <2>6. CASE EntryGossips
    <3>1. /\ Ask(EntryNode, "proxy", ReqSend(Sid, "proxy", "Probe"))
          /\ entry'.pc = "send"
      BY <2>6, <1>7 DEF EntryGossips
    <3>2. MayAsk(EntryNode, "proxy")'
      BY <3>1, <1>8
    <3>3. ReqSend(Sid, "proxy", "Probe").who = "proxy" /\ ReqSend(Sid, "proxy", "Probe").op = "Send"
      BY DEF ReqSend
    <3> QED
      BY <3>1, <3>2, <3>3, <2>1, <2>2, <2>3, <2>5, <1>6, <1>9
  <2>7. CASE EntryGossipExpires
    <3>1. Still
      BY <2>7, <1>2, StillQuiet DEF EntryGossipExpires
    <3> QED
      BY <3>1, <2>1, <2>2, <2>3, <2>5, <1>6, <1>9
  <2> QED
    BY <1>12, <2>6, <2>7
<1>13. ASSUME NEW r, Ask(EntryNode, "proxy", r), r.op # "New", r.who \in {"proxy", "gone"},
              r.who = "proxy" => entry'.pc = "send", entry'.pc \in {"send", "end"},
              NEW vals, Told(EntryNode, "proxy", vals),
              msgs' = msgs \/ \E ok : Answers(ok)
       PROVE  ApartInv'
  <2>1. OneMail' /\ \A type \in {"NewCircuit", "Gossip", "Expend"} : MailOf(type)' => MailOf(type)
    BY <1>13, <1>1, AcksOnly DEF Answers, Mail
  <2>2. \A s \in 1..7 : Stage(s)' => Stage(s)
    BY <2>1, <1>3, <1>13 DEF Stage
  <2>3. r.who = "proxy" => MayAsk(EntryNode, "proxy")'
    BY <1>8, <1>13
  <2> QED
    BY <2>1, <2>2, <2>3, <1>6, <1>9, <1>13
<1>14. CASE SameProxyNewFailed \/ SameProxySend \/ EntryCannotGossip
  <2>1. ReqClose(Sid).who = "gone" /\ ReqClose(Sid).op = "Close"
    BY DEF ReqClose
  <2>2. ReqSend(Sid, "proxy", "Succ").who = "proxy" /\ ReqSend(Sid, "proxy", "Succ").op = "Send"
    BY DEF ReqSend
  <2>3. CASE SameProxySend
    <3>1. /\ entry'.pc = "send" /\ Ask(EntryNode, "proxy", ReqSend(Sid, "proxy", "Succ"))
          /\ Told(EntryNode, "proxy", {"ok"}) /\ msgs' = msgs
      BY <2>3, <1>7 DEF SameProxySend
    <3> QED
      BY <3>1, <2>2, <1>13
  <2>4. CASE SameProxyNewFailed \/ EntryCannotGossip
    <3>1. /\ entry'.pc = "end" /\ Ask(EntryNode, "proxy", ReqClose(Sid))
          /\ \E vals : Told(EntryNode, "proxy", vals)
          /\ \E ok : Answers(ok)
      BY <2>4, <1>7 DEF SameProxyNewFailed, EntryCannotGossip
    <3> QED
      BY <3>1, <2>1, <1>13
  <2> QED
    BY <1>14, <2>3, <2>4
<1>15. ASSUME NEW p, NEW my, NEW other, Ask(EntryNode, "proxy", ReqNew(Sid, "proxy", p, my, other)),
              NEW vals, Told(EntryNode, "proxy", vals), msgs' = msgs,
              entry.pc \in {"get", "sameNew", "joint"}, entry'.pc \in {"sameNew", "joint"}
       PROVE  ApartInv'
  <2> DEFINE r == ReqNew(Sid, "proxy", p, my, other)
  <2>1. r.who = "proxy" /\ r.op = "New"
    BY DEF ReqNew
  <2>2. \A m \in Node : ~ Pending(m, "proxy") /\ ~ Binding(m, "proxy")
    BY <1>6, <1>15 DEF Pending, Binding
  <2>3. Stage(3) /\ OneMail' /\ \A s \in 1..7 : Stage(s)' => Stage(s)
    BY <1>1, <1>3, <1>15 DEF Stage, OneMail, MailOf
  <2>4. NoTasks /\ NoNews /\ NoSets
    BY <1>1, <2>2, <2>3, NothingBound DEF Home
  <2>5. MayAsk(EntryNode, "proxy")' /\ MayBind(EntryNode, "proxy")'
    BY <1>8, <1>15
  <2> HIDE DEF r
  <2>6. Ask(EntryNode, "proxy", r)
    BY <1>15 DEF r
  <2> QED
    BY <2>1, <2>2, <2>3, <2>4, <2>5, <2>6, <1>9
<1>16. CASE SameProxyNew
  BY <1>7, <1>15, <1>16 DEF SameProxyNew
<1>17. CASE EntryPicksJoint \/ EntryRetriesJoint
  <2>1. \E bad, tries : TryJoint(bad, tries)
    BY <1>17 DEF EntryPicksJoint, EntryRetriesJoint
  <2>2. PICK j : /\ Ask(EntryNode, "proxy", ReqNew(Sid, "proxy", j, "Entry", "Joint"))
                 /\ entry'.pc = "joint" /\ msgs' = msgs
    BY <2>1 DEF TryJoint
  <2>3. entry.pc \in {"get", "joint"} /\ \E vals : Told(EntryNode, "proxy", vals)
    BY <1>17 DEF EntryPicksJoint, EntryRetriesJoint
  <2> QED
    BY <2>2, <2>3, <1>15
<1>18. CASE EntryExpires
  <2>1. Disown(EntryNode, "proxy") /\ entry'.pc = "end" /\ Answers(FALSE)
    BY <1>7, <1>18 DEF EntryExpires
  <2>2. OneMail' /\ \A type \in {"NewCircuit", "Gossip", "Expend"} : MailOf(type)' => MailOf(type)
    BY <2>1, <1>1, AcksOnly DEF Answers, Mail
  <2>3. ~ Stage(3)' /\ \A s \in 1..7 : Stage(s)' => Stage(s)
    BY <2>1, <2>2, <1>3 DEF Stage
  <2>4. BindInv' /\ OneCall' /\ Owned' /\ OneStage'
    BY <2>1, <2>3, <1>2, <1>3, <1>4, <1>5, ManagerExpires DEF Home
  <2> QED
    BY <2>2, <2>4 DEF ApartInv
<1> QED
  BY <1>10, <1>11, <1>12, <1>14, <1>16, <1>17, <1>18 DEF EntryStep, EntryFault

\* Nothing moves but a message that gets lost or is read by nobody.
LEMMA StillApart ==
  ASSUME TypeOK, ApartInv, Still, UNCHANGED <<user, entry, exit, cmd>>, msgs' \subseteq msgs
  PROVE  ApartInv'
<1>1. BindInv /\ OneCall /\ Owned /\ OneStage /\ OneMail
  BY DEF ApartInv
<1>2. /\ BindInv' /\ OneCall'
      /\ \A n, w : (Pending(n, w)' <=> Pending(n, w)) /\ (Binding(n, w)' <=> Binding(n, w))
      /\ Orphan' => Orphan
  BY <1>1, StillKeeps
<1>3. \A n, w : (MayAsk(n, w)' <=> MayAsk(n, w)) /\ (MayBind(n, w)' <=> MayBind(n, w))
  BY DEF MayAsk, MayBind
<1>4. Owned'
  BY <1>1, <1>2, <1>3 DEF Owned, Still
<1>5. \A s \in 1..8 : Stage(s)' => Stage(s)
  BY <1>2 DEF Stage, MailOf
<1> QED
  BY <1>1, <1>2, <1>4, <1>5, StagesShrink DEF ApartInv, OneMail

LEMMA ExitKeepsApart ==
  ASSUME RelayInv, CircuitTypeOK, ApartInv, ExitStep \/ ExitFault
  PROVE  ApartInv'
<1>1. TypeOK /\ BindInv /\ OneCall /\ Owned /\ OneStage /\ OneMail
  BY DEF ApartInv, RelayInv
<1>2. ExitNode \in Node /\ "gossip" \in Asker /\ exit \in ExitState
  BY Roles DEF Asker, CircuitTypeOK
<1>3. UNCHANGED <<user, entry, cmd>>
  BY DEF ExitStep, ExitFault, ExitReceives, ExitIsJoint, ExitPicksRelay, ExitRetriesRelay,
         ExitFails, ExitExpends, ExitExpended, ExitSent, GossipLost, ExitExpires,
         ExitCannotExpend, ExitExpendExpires, ExitAt, TryRelay
<1>4. \A m \in Node, w \in Asker : w # "gossip" =>
        (MayAsk(m, w) <=> MayAsk(m, w)') /\ (MayBind(m, w) <=> MayBind(m, w)')
  BY <1>3 DEF MayAsk, MayBind
<1>5. \A m \in Node : MayAsk(m, "gossip") => m = ExitNode /\ exit.pc \in {"answer", "relay", "send"}
  BY DEF MayAsk
<1>6. ASSUME \/ exit.pc \in {"idle", "expend", "end"}
             \/ \E vals : Told(ExitNode, "gossip", vals)
      PROVE  \A m \in Node : ~ Pending(m, "gossip")
  <2>1. CASE exit.pc \in {"idle", "expend", "end"}
    BY <2>1, <1>1, <1>2, <1>5 DEF Owned
  <2>2. CASE \E vals : Told(ExitNode, "gossip", vals)
    BY <2>2, <1>2, <1>5, ToldIdle
  <2> QED
    BY <1>6, <2>1, <2>2
<1>7. \A from, to : ExitAt(from, to) => exit.pc = from /\ exit'.pc = to
  BY <1>2 DEF ExitAt, ExitState
<1>8. ASSUME NEW to, to \in {"answer", "relay", "send"}, exit'.pc = to
      PROVE  /\ MayAsk(ExitNode, "gossip")'
             /\ to \in {"answer", "relay"} => MayBind(ExitNode, "gossip")'
  BY <1>8 DEF MayAsk, MayBind
<1>9. ASSUME \A m \in Node : ~ Pending(m, "gossip"), OneMail',
             \/ Still
             \/ \E r : /\ Ask(ExitNode, "gossip", r) /\ r.who \in {"gossip", "gone"}
                       /\ r.who = "gossip" => MayAsk(ExitNode, "gossip")'
                       /\ r.op = "New" => /\ r.who = "gossip" /\ MayBind(ExitNode, "gossip")'
                                          /\ NoTasks /\ NoSets /\ NoNews,
             \/ \A s \in 1..7 : Stage(s)' => Stage(s)
             \/ \E p, q \in 1..7 : /\ Stage(p) /\ ~ Stage(p)'
                                   /\ \A s \in 1..7 : Stage(s)' => Stage(s) \/ s = q
      PROVE  ApartInv'
  BY <1>2, <1>3, <1>4, <1>9, ManagerKeeps
<1>10. ASSUME NEW p \in 1..7, Stage(p), NEW peer, NEW my, NEW other,
              Ask(ExitNode, "gossip", ReqNew(Sid, "gossip", peer, my, other)),
              \A m \in Node : ~ Pending(m, "gossip"), OneMail',
              exit'.pc \in {"answer", "relay"}, p \in {4, 5},
              \/ \A s \in 1..7 : Stage(s)' => Stage(s)
              \/ ~ Stage(p)' /\ \A s \in 1..7 : Stage(s)' => Stage(s) \/ s = 5
       PROVE  ApartInv'
  <2> DEFINE r == ReqNew(Sid, "gossip", peer, my, other)
  <2>1. r.who = "gossip" /\ r.op = "New"
    BY DEF ReqNew
  <2>2. \A m \in Node : ~ Binding(m, "gossip")
    BY <1>10 DEF Pending, Binding
  <2>3. NoTasks /\ NoNews /\ NoSets
    BY <1>1, <1>10, <2>2, NothingBound DEF Home
  <2>4. MayAsk(ExitNode, "gossip")' /\ MayBind(ExitNode, "gossip")'
    BY <1>8, <1>10
  <2> HIDE DEF r
  <2>5. Ask(ExitNode, "gossip", r)
    BY <1>10 DEF r
  <2>6. \/ \A s \in 1..7 : Stage(s)' => Stage(s)
        \/ \E h, q \in 1..7 : /\ Stage(h) /\ ~ Stage(h)'
                              /\ \A s \in 1..7 : Stage(s)' => Stage(s) \/ s = q
    BY <1>10
  <2> QED
    BY <2>1, <2>3, <2>4, <2>5, <2>6, <1>9, <1>10
<1>11. CASE ExitReceives
  <2>1. PICK m \in msgs : /\ m.type = "Gossip" /\ exit.pc = "idle"
                          /\ exit' = [exit EXCEPT !.pc = "answer", !.joint = m.joint]
                          /\ Ask(ExitNode, "gossip",
                                 ReqNew(Sid, "gossip", Answerer, "Exit", "Answer"))
                          /\ msgs' = msgs \ {m}
    BY <1>11 DEF ExitReceives
  <2>2. exit'.pc = "answer"
    BY <2>1, <1>2 DEF ExitState
  <2>3. Stage(4) /\ ~ Stage(4)' /\ OneMail'
    BY <2>1, <1>1 DEF Stage, MailOf, OneMail
  <2>4. \A s \in 1..7 : Stage(s)' => Stage(s) \/ s = 5
    BY <2>1, <1>3 DEF Stage, MailOf
  <2>5. 4 \in 1..7 /\ 4 \in {4, 5}
    OBVIOUS
  <2> QED
    BY <2>1, <2>2, <2>3, <2>4, <2>5, <1>6, <1>10
<1>12. CASE ExitPicksRelay \/ ExitRetriesRelay
  <2>1. /\ exit.pc \in {"answer", "relay"} /\ \E vals : Told(ExitNode, "gossip", vals)
        /\ \E bad, tries : TryRelay(bad, tries)
    BY <1>12 DEF ExitPicksRelay, ExitRetriesRelay
  <2>2. PICK r : /\ Ask(ExitNode, "gossip", ReqNew(Sid, "gossip", r, "Exit", "Relay"))
                 /\ exit'.pc = "relay" /\ msgs' = msgs
    BY <2>1, <1>2 DEF TryRelay, ExitState
  <2>3. Stage(5) /\ OneMail' /\ \A s \in 1..7 : Stage(s)' => Stage(s)
    BY <2>1, <2>2, <1>1, <1>3 DEF Stage, MailOf, OneMail
  <2>4. 5 \in 1..7 /\ 5 \in {4, 5}
    OBVIOUS
  <2> QED
    BY <2>1, <2>2, <2>3, <2>4, <1>6, <1>10
<1>13. ASSUME NEW r, Ask(ExitNode, "gossip", r), r.op # "New", r.who \in {"gossip", "gone"},
              r.who = "gossip" => exit'.pc = "send", exit'.pc \in {"send", "end"},
              exit.pc = "expend" \/ \E vals : Told(ExitNode, "gossip", vals),
              msgs' \subseteq msgs
       PROVE  ApartInv'
  <2>1. OneMail' /\ \A s \in 1..7 : Stage(s)' => Stage(s)
    BY <1>1, <1>3, <1>13 DEF Stage, MailOf, OneMail
  <2>2. r.who = "gossip" => MayAsk(ExitNode, "gossip")'
    BY <1>8, <1>13
  <2> QED
    BY <2>1, <2>2, <1>6, <1>9, <1>13
<1>14. CASE ExitIsJoint \/ ExitFails \/ ExitExpended \/ ExitCannotExpend
  <2>1. ReqClose(Sid).who = "gone" /\ ReqClose(Sid).op = "Close"
    BY DEF ReqClose
  <2>2. \A type : ReqSend(Sid, "gossip", type).who = "gossip"
                  /\ ReqSend(Sid, "gossip", type).op = "Send"
    BY DEF ReqSend
  <2>3. CASE ExitIsJoint
    <3>1. /\ exit'.pc = "send" /\ Ask(ExitNode, "gossip", ReqSend(Sid, "gossip", "Succ"))
          /\ \E vals : Told(ExitNode, "gossip", vals)
          /\ msgs' = msgs
      BY <2>3, <1>7 DEF ExitIsJoint
    <3> QED
      BY <3>1, <2>2, <1>13
  <2>4. CASE ExitFails \/ ExitCannotExpend
    <3>1. /\ exit'.pc = "end" /\ Ask(ExitNode, "gossip", ReqClose(Sid))
          /\ \E vals : Told(ExitNode, "gossip", vals)
          /\ msgs' = msgs
      BY <2>4, <1>7 DEF ExitFails, ExitCannotExpend
    <3> QED
      BY <3>1, <2>1, <1>13
  <2>5. CASE ExitExpended
    <3>1. PICK m \in msgs :
            /\ ExitAt("expend", IF m.ok THEN "send" ELSE "end")
            /\ Ask(ExitNode, "gossip", IF m.ok THEN ReqSend(Sid, "gossip", "Probe")
                                               ELSE ReqClose(Sid))
            /\ msgs' = msgs \ {m}
      BY <2>5 DEF ExitExpended
    <3>2. exit.pc = "expend" /\ msgs' \subseteq msgs
      BY <3>1, <1>7
    <3>3. CASE m.ok
      <4>1. exit'.pc = "send" /\ Ask(ExitNode, "gossip", ReqSend(Sid, "gossip", "Probe"))
        BY <3>1, <3>3, <1>7
      <4> QED
        BY <4>1, <3>2, <2>2, <1>13
    <3>4. CASE ~ m.ok
      <4>1. exit'.pc = "end" /\ Ask(ExitNode, "gossip", ReqClose(Sid))
        BY <3>1, <3>4, <1>7
      <4> QED
        BY <4>1, <3>2, <2>1, <1>13
    <3> QED
      BY <3>3, <3>4
  <2> QED
    BY <1>14, <2>3, <2>4, <2>5
<1>15. CASE ExitExpends
  <2> DEFINE e == Mail("Expend", exit.relay, exit.joint, TRUE)
  <2>1. /\ Told(ExitNode, "gossip", {"ok"}) /\ ReadAnswer(ExitNode, "gossip")
        /\ exit.pc = "relay" /\ exit'.pc = "expend" /\ msgs' = msgs \cup {e}
    BY <1>15, <1>7 DEF ExitExpends
  <2>2. Still
    BY <2>1, <1>2, StillQuiet
  <2>3. Stage(5) /\ ~ Stage(5)' /\ ~ Stage(6)
    BY <2>1, <1>1 DEF Stage, OneStage
  <2>4. \A s \in 1..7 : Stage(s)' => Stage(s) \/ s = 6
    BY <2>1, <1>3 DEF Stage, MailOf, Mail
  <2>5. e.type = "Expend" /\ \A m \in msgs : m.type # "Expend"
    BY <2>3 DEF Stage, MailOf, Mail
  <2>6. OneMail'
    BY <2>1, <2>5, <1>1, MailAdded
  <2> QED
    BY <2>1, <2>2, <2>3, <2>4, <2>6, <1>6, <1>9
<1>16. CASE ExitSent \/ ExitExpendExpires
  <2>1. /\ exit.pc = "expend" \/ \E vals : Told(ExitNode, "gossip", vals)
        /\ ReadAnswer(ExitNode, "gossip") \/ UNCHANGED relayVars
        /\ exit'.pc = "end" /\ msgs' = msgs
    BY <1>16, <1>7 DEF ExitSent, ExitExpendExpires
  <2>2. Still
    BY <2>1, <1>2, StillQuiet
  <2>3. OneMail' /\ \A s \in 1..7 : Stage(s)' => Stage(s)
    BY <2>1, <1>1, <1>3 DEF Stage, MailOf, OneMail
  <2> QED
    BY <2>1, <2>2, <2>3, <1>6, <1>9
<1>17. CASE GossipLost
  <2>1. UNCHANGED relayVars /\ UNCHANGED <<user, entry, exit, cmd>> /\ msgs' \subseteq msgs
    BY <1>17 DEF GossipLost
  <2>2. Still
    BY <2>1, <1>2, StillQuiet
  <2> QED
    BY <2>1, <2>2, <1>1, StillApart
<1>18. CASE ExitExpires
  <2>1. Disown(ExitNode, "gossip") /\ exit'.pc = "end" /\ msgs' = msgs
    BY <1>7, <1>18 DEF ExitExpires
  <2>2. ~ Stage(5)' /\ OneMail' /\ \A s \in 1..7 : Stage(s)' => Stage(s)
    BY <2>1, <1>1, <1>3 DEF Stage, MailOf, OneMail
  <2>3. BindInv' /\ OneCall' /\ Owned' /\ OneStage'
    BY <2>1, <2>2, <1>2, <1>3, <1>4, <1>5, ManagerExpires DEF Home
  <2> QED
    BY <2>2, <2>3 DEF ApartInv
<1> QED
  BY <1>11, <1>12, <1>14, <1>15, <1>16, <1>17, <1>18 DEF ExitStep, ExitFault

LEMMA CmdKeepsApart ==
  ASSUME RelayInv, CircuitTypeOK, ApartInv, CmdStep \/ CmdExpires
  PROVE  ApartInv'
<1>1. TypeOK /\ BindInv /\ OneCall /\ Owned /\ OneStage /\ OneMail
  BY DEF ApartInv, RelayInv
<1>2. "cmd" \in Asker /\ cmd \in CmdState /\ (cmd.pc # "idle" => cmd.at \in Node)
  BY DEF Asker, CircuitTypeOK, Server
<1>3. UNCHANGED <<user, entry, exit>>
  BY DEF CmdStep, CmdReceives, CmdFails, CmdIsEntry, CmdExpends, CmdExpended, CmdSent,
         CmdExpires, CmdAt
<1>4. \A m \in Node, w \in Asker : w # "cmd" =>
        (MayAsk(m, w) <=> MayAsk(m, w)') /\ (MayBind(m, w) <=> MayBind(m, w)')
  BY <1>3 DEF MayAsk, MayBind
<1>5. \A m \in Node : MayAsk(m, "cmd") => m = cmd.at /\ cmd.pc \in {"get", "new", "send"}
  BY DEF MayAsk
<1>6. ASSUME cmd.at \in Node, NEW vals, Told(cmd.at, "cmd", vals)
      PROVE  \A m \in Node : ~ Pending(m, "cmd")
  BY <1>2, <1>5, <1>6, ToldIdle
<1>7. \A from, to : CmdAt(from, to) => cmd.pc = from /\ cmd'.pc = to /\ cmd'.at = cmd.at
  BY <1>2 DEF CmdAt, CmdState
<1>8. ASSUME NEW n \in Node, \A m \in Node : ~ Pending(m, "cmd"), OneMail',
             \/ Still
             \/ \E r : /\ Ask(n, "cmd", r) /\ r.who \in {"cmd", "gone"}
                       /\ r.who = "cmd" => MayAsk(n, "cmd")'
                       /\ r.op = "New" => /\ r.who = "cmd" /\ MayBind(n, "cmd")'
                                          /\ NoTasks /\ NoSets /\ NoNews,
             \/ \A s \in 1..7 : Stage(s)' => Stage(s)
             \/ \E p, q \in 1..7 : /\ Stage(p) /\ ~ Stage(p)'
                                   /\ \A s \in 1..7 : Stage(s)' => Stage(s) \/ s = q
      PROVE  ApartInv'
  BY <1>2, <1>3, <1>4, <1>8, ManagerKeeps
<1>9. CASE CmdReceives
  <2>1. PICK m \in msgs : /\ m.type = "Expend" /\ cmd.pc = "idle"
                          /\ cmd' = [pc |-> "get", at |-> m.to, joint |-> m.joint]
                          /\ Ask(m.to, "cmd", ReqGet(Sid, "cmd"))
                          /\ msgs' = msgs \ {m}
    BY <1>9 DEF CmdReceives
  <2>2. m.to \in Node /\ \A k \in Node : ~ Pending(k, "cmd")
    BY <2>1, <1>1, <1>2, <1>5 DEF Owned, CircuitTypeOK, ManagerMsg
  <2>3. Stage(6) /\ ~ Stage(6)' /\ OneMail'
    BY <2>1, <1>1 DEF Stage, MailOf, OneMail
  <2>4. \A s \in 1..7 : Stage(s)' => Stage(s) \/ s = 7
    BY <2>1, <1>3 DEF Stage, MailOf
  <2>5. ReqGet(Sid, "cmd").who = "cmd" /\ ReqGet(Sid, "cmd").op = "Get"
    BY DEF ReqGet
  <2>6. MayAsk(m.to, "cmd")'
    BY <2>1 DEF MayAsk
  <2> QED
    BY <2>1, <2>2, <2>3, <2>4, <2>5, <2>6, <1>8
<1>10. ASSUME NEW vals, Told(cmd.at, "cmd", vals), cmd.pc # "idle", cmd'.at = cmd.at,
              cmd'.pc \in {"send", "end"}, msgs' = msgs \/ \E ok : Expended(ok),
              \/ ReadAnswer(cmd.at, "cmd")
              \/ \E r : /\ Ask(cmd.at, "cmd", r) /\ r.op # "New" /\ r.who \in {"cmd", "gone"}
                        /\ r.who = "cmd" => cmd'.pc = "send"
       PROVE  ApartInv'
  <2>1. OneMail' /\ \A type \in {"NewCircuit", "Gossip", "Expend"} : MailOf(type)' => MailOf(type)
    BY <1>10, <1>1, AcksOnly DEF Expended, Mail
  <2>2. \A s \in 1..7 : Stage(s)' => Stage(s)
    BY <2>1, <1>3, <1>10 DEF Stage
  <2>3. cmd'.pc = "send" => MayAsk(cmd.at, "cmd")'
    BY <1>10 DEF MayAsk
  <2>4. cmd.at \in Node /\ \A m \in Node : ~ Pending(m, "cmd")
    BY <1>2, <1>6, <1>10
  <2>5. CASE ReadAnswer(cmd.at, "cmd")
    <3>1. Still
      BY <2>4, <2>5, StillQuiet
    <3> QED
      BY <3>1, <2>1, <2>2, <2>4, <1>8
  <2>6. CASE \E r : /\ Ask(cmd.at, "cmd", r) /\ r.op # "New" /\ r.who \in {"cmd", "gone"}
                    /\ r.who = "cmd" => cmd'.pc = "send"
    <3>1. PICK r : /\ Ask(cmd.at, "cmd", r) /\ r.op # "New" /\ r.who \in {"cmd", "gone"}
                   /\ r.who = "cmd" => cmd'.pc = "send"
      BY <2>6
    <3>2. r.who = "cmd" => MayAsk(cmd.at, "cmd")'
      BY <3>1, <2>3
    <3> QED
      BY <3>1, <3>2, <2>1, <2>2, <2>4, <1>8, <1>10
  <2> QED
    BY <1>10, <2>5, <2>6
<1>11. CASE \/ CmdFails("get", "absent") \/ CmdFails("new", "err") \/ CmdIsEntry
            \/ CmdExpended \/ CmdSent
  <2>1. ReqClose(Sid).who = "gone" /\ ReqClose(Sid).op = "Close"
    BY DEF ReqClose
  <2>2. ReqSend(Sid, "cmd", "Succ").who = "cmd" /\ ReqSend(Sid, "cmd", "Succ").op = "Send"
    BY DEF ReqSend
  <2>3. /\ \E vals : Told(cmd.at, "cmd", vals)
        /\ msgs' = msgs \/ \E ok : Expended(ok)
    BY <1>11 DEF CmdFails, CmdIsEntry, CmdExpended, CmdSent
  <2>4. /\ cmd.pc # "idle" /\ cmd'.at = cmd.at
        /\ cmd'.pc = IF CmdIsEntry THEN "send" ELSE "end"
    <3>1. CASE CmdIsEntry
      BY <3>1, <1>7 DEF CmdIsEntry
    <3>2. CASE ~ CmdIsEntry
      <4>1. \E from \in {"get", "new", "send"} : CmdAt(from, "end")
        BY <3>2, <1>11 DEF CmdFails, CmdExpended, CmdSent
      <4> QED
        BY <3>2, <4>1, <1>7
    <3> QED
      BY <3>1, <3>2
  <2>5. CASE CmdIsEntry
    <3>1. Ask(cmd.at, "cmd", ReqSend(Sid, "cmd", "Succ")) /\ cmd'.pc = "send"
      BY <2>4, <2>5 DEF CmdIsEntry
    <3> QED
      BY <3>1, <2>2, <2>3, <2>4, <1>10
  <2>6. CASE CmdFails("get", "absent") \/ CmdFails("new", "err")
    <3>1. Ask(cmd.at, "cmd", ReqClose(Sid)) /\ cmd'.pc \in {"send", "end"}
      BY <2>4, <2>6 DEF CmdFails
    <3> QED
      BY <3>1, <2>1, <2>3, <2>4, <1>10
  <2>7. CASE CmdExpended \/ CmdSent
    <3>1. ReadAnswer(cmd.at, "cmd") /\ cmd'.pc \in {"send", "end"}
      BY <2>4, <2>7 DEF CmdExpended, CmdSent
    <3> QED
      BY <3>1, <2>3, <2>4, <1>10
  <2> QED
    BY <1>11, <2>5, <2>6, <2>7
<1>12. CASE CmdExpends
  <2> DEFINE r == ReqNew(Sid, "cmd", cmd.joint, "Relay", "Joint")
  <2>1. /\ cmd.pc = "get" /\ cmd'.pc = "new" /\ cmd'.at = cmd.at /\ msgs' = msgs
        /\ Told(cmd.at, "cmd", {"half"}) /\ Ask(cmd.at, "cmd", r)
    BY <1>7, <1>12 DEF CmdExpends
  <2>2. r.who = "cmd" /\ r.op = "New"
    BY DEF ReqNew
  <2>3. cmd.at \in Node /\ \A m \in Node : ~ Pending(m, "cmd")
    BY <2>1, <1>2, <1>6
  <2>4. \A m \in Node : ~ Binding(m, "cmd")
    BY <2>3 DEF Pending, Binding
  <2>5. Stage(7) /\ OneMail' /\ \A s \in 1..7 : Stage(s)' => Stage(s)
    BY <2>1, <1>1, <1>3 DEF Stage, OneMail, MailOf
  <2>6. NoTasks /\ NoNews /\ NoSets
    BY <1>1, <2>4, <2>5, NothingBound DEF Home
  <2>7. MayAsk(cmd.at, "cmd")' /\ MayBind(cmd.at, "cmd")'
    BY <2>1 DEF MayAsk, MayBind
  <2> HIDE DEF r
  <2> QED
    BY <2>1, <2>2, <2>3, <2>5, <2>6, <2>7, <1>8
<1>13. CASE CmdExpires
  <2>1. /\ Disown(cmd.at, "cmd") /\ cmd'.pc = "end" /\ msgs' = msgs /\ cmd.at \in Node
    BY <1>2, <1>7, <1>13 DEF CmdExpires
  <2>2. ~ Stage(7)' /\ OneMail' /\ \A s \in 1..7 : Stage(s)' => Stage(s)
    BY <2>1, <1>1, <1>3 DEF Stage, MailOf, OneMail
  <2>3. BindInv' /\ OneCall' /\ Owned' /\ OneStage'
    BY <2>1, <2>2, <1>2, <1>3, <1>4, <1>5, ManagerExpires DEF Home
  <2> QED
    BY <2>2, <2>3 DEF ApartInv
<1> QED
  BY <1>9, <1>11, <1>12, <1>13 DEF CmdStep

LEMMA EndKeepsApart ==
  ASSUME RelayInv, CircuitTypeOK, ApartInv,
         \/ EntryFindsNoJoint \/ UnexpectedCircuitAck \/ UnexpectedEncryptAck
         \/ GossipEndsNode \/ UnexpectedExpendAck \/ LateExpendAck \/ CmdSendExpires
         \/ \E n \in Node : UnexpectedSetSessionAck(n) \/ NodeCrash(n)
  PROVE  ApartInv'
<1>1. CASE LateExpendAck
  <2>1. UNCHANGED relayVars /\ UNCHANGED <<user, entry, exit, cmd>> /\ msgs' \subseteq msgs
    BY <1>1 DEF LateExpendAck
  <2>2. Still
    BY <2>1, Roles, StillQuiet
  <2> QED
    BY <2>1, <2>2, StillApart DEF RelayInv
<1>2. CASE \E n : Kill(n)
  BY <1>2, KillKeepsApart
<1> QED
  BY <1>1, <1>2 DEF EntryFindsNoJoint, UnexpectedCircuitAck, UnexpectedEncryptAck,
         GossipEndsNode, UnexpectedExpendAck, CmdSendExpires, UnexpectedSetSessionAck, NodeCrash

LEMMA ApartInit ==
  ASSUME CircuitInit
  PROVE  ApartInv
<1>1. /\ \A n \in Node : waiting[n] = {} /\ mailbox[n] = <<>>
      /\ \A n \in Node, x \in Stream : wire[n][x] = <<>>
      /\ acks = {} /\ answers = {}
  BY DEF CircuitInit, RelayInit
<1>2. NoSets
  BY <1>1 DEF NoSets, SetAt
<1>3. BindInv
  <2>1. OneTask /\ AckAwaited
    BY <1>1 DEF OneTask, AckAwaited
  <2>2. OneSet /\ SetAwaited
    BY <1>2 DEF OneSet, SetAwaited, NoSets, SetAt
  <2>3. NewApart
    BY <1>1 DEF NewApart
  <2> QED
    BY <2>1, <2>2, <2>3 DEF BindInv
<1>4. \A n \in Node : \A w : ~ Pending(n, w) /\ ~ Binding(n, w)
  BY <1>1 DEF Pending, Binding
<1>5. OneCall /\ Owned
  BY <1>1, <1>4 DEF OneCall, Owned
<1>6. ~ Orphan
  BY <1>2, <1>4 DEF Orphan, NoSets
<1>7. OneStage /\ OneMail
  BY <1>6 DEF CircuitInit, OneStage, Stage, MailOf, OneMail
<1> QED
  BY <1>3, <1>5, <1>7 DEF ApartInv

LEMMA ApartNext ==
  ASSUME "ack" \notin FaultKinds, RelayInv, TypeOK', CircuitTypeOK, ApartInv,
         [CircuitNext]_vars
  PROVE  ApartInv'
<1>1. CASE UNCHANGED vars
  <2>1. UNCHANGED relayVars /\ UNCHANGED <<user, entry, exit, cmd>> /\ msgs' = msgs
    BY <1>1 DEF vars
  <2>2. Still
    BY <2>1, Roles, StillQuiet
  <2> QED
    BY <2>1, <2>2, StillApart DEF RelayInv
<1>2. CASE UserStep \/ UserFault
  BY <1>2, UserKeepsApart
<1>3. CASE EntryStep \/ EntryFault
  BY <1>3, EntryKeepsApart
<1>4. CASE ExitStep \/ ExitFault
  BY <1>4, ExitKeepsApart
<1>5. CASE CmdStep \/ CmdExpires
  BY <1>5, CmdKeepsApart
<1>6. CASE \/ EntryFindsNoJoint \/ UnexpectedCircuitAck \/ UnexpectedEncryptAck
           \/ GossipEndsNode \/ UnexpectedExpendAck \/ LateExpendAck \/ CmdSendExpires
           \/ \E n \in Node : UnexpectedSetSessionAck(n) \/ NodeCrash(n)
  BY <1>6, EndKeepsApart
<1>7. CASE AnswerDisconnects \/ \E n \in Node : LayerStep(n) \/ LayerFault(n)
  BY <1>7, LayerKeepsApart
<1> QED
  BY <1>1, <1>2, <1>3, <1>4, <1>5, <1>6, <1>7 DEF CircuitNext

\* The steps that build a circuit touch the session of a node one after the other
\* (handleSetSession and SetSessionId load, change and store it without a lock),
\* whatever fails, as long as a SetSessionId gives up only when its acknowledgement
\* cannot come any more.
THEOREM CircuitSetsApart ==
  ASSUME "ack" \notin FaultKinds
  PROVE  CircuitSpec => []SetsApart
<1>1. CircuitInit => ApartInv
  BY ApartInit
<1>2. RelayInv /\ TypeOK' /\ CircuitTypeOK /\ ApartInv /\ [CircuitNext]_vars => ApartInv'
  BY ApartNext
<1>3. RelayInv /\ ApartInv => SetsApart
  BY ApartImplies DEF RelayInv
<1>4. RelaySpec => []RelayInv
  BY RelayInvariant
<1> QED
  BY <1>1, <1>2, <1>3, <1>4, CircuitRefinesRelay, CircuitTypeCorrect, PTL DEF CircuitSpec
-----------------------------------------------------------------------------
(* Steps that leave neighbours in agreement *)

DiscIn(w, m, x) == \E i \in 1..Len(w[m][x]) : w[m][x][i].type = "Disc"

\* Wires a handler may have written on without losing a Disconnect, but for those
\* at the places F.
Keeps(w, F) ==
  /\ w \in WireType
  /\ \A m \in Node, x \in Stream : <<m, x>> \in F \/ (DiscIn(wire, m, x) => DiscIn(w, m, x))

\* A session that is removed leaves no open stream, and no Disconnect is lost.
Gentle(F) ==
  /\ \A m \in Node : up'[m] \subseteq up[m]
  /\ \A m \in Node, s \in SessionId :
       \/ sessionMap'[m][s] = sessionMap[m][s]
       \/ sessionMap'[m][s] = NoSession /\ Pair(m, s) \cap up'[m] = {}
  /\ \A m \in Node, x \in Stream :
       <<m, x>> \in F \/ x \notin up'[m] \/ (DiscIn(wire, m, x) => DiscIn(wire', m, x))

LEMMA KeepsStart ==
  ASSUME TypeOK
  PROVE  Keeps(wire, {})
BY DEF TypeOK, Keeps, WireType

LEMMA KeepsPop ==
  ASSUME TypeOK, NEW n \in Node, NEW x \in Stream, wire[n][x] # <<>>
  PROVE  /\ Keeps(Pop(n, x), {<<n, x>>})
         /\ Head(wire[n][x]).type # "Disc" => Keeps(Pop(n, x), {})
<1> DEFINE w == Pop(n, x)
<1>1. w \in WireType /\ wire \in WireType /\ wire[n][x] \in Seq(Message)
  BY PopType DEF TypeOK, WireType
<1>2. /\ w[n][x] = Tail(wire[n][x])
      /\ \A m \in Node, y \in Stream : <<m, y>> # <<n, x>> => w[m][y] = wire[m][y]
  BY <1>1 DEF Pop, WireType
<1>3. ASSUME Head(wire[n][x]).type # "Disc", DiscIn(wire, n, x)
      PROVE  DiscIn(w, n, x)
  <2> DEFINE q == wire[n][x]
  <2>1. PICK i \in 1..Len(q) : q[i].type = "Disc"
    BY <1>3 DEF DiscIn
  <2>2. q \in Seq(Message) /\ q # <<>> /\ Head(q).type # "Disc"
    BY <1>1, <1>3
  <2> HIDE DEF q
  <2>3. i # 1 /\ i - 1 \in 1..Len(Tail(q)) /\ Tail(q)[i - 1] = q[i]
    BY <2>1, <2>2
  <2>4. w[n][x] = Tail(q)
    BY <1>2 DEF q
  <2> HIDE DEF w
  <2> QED
    BY <2>1, <2>3, <2>4 DEF DiscIn
<1> HIDE DEF w
<1>4. \A m \in Node, y \in Stream :
        <<m, y>> # <<n, x>> => (DiscIn(wire, m, y) => DiscIn(w, m, y))
  BY <1>2 DEF DiscIn
<1>5. Keeps(w, {<<n, x>>})
  BY <1>1, <1>4 DEF Keeps
<1>6. Head(wire[n][x]).type # "Disc" => Keeps(w, {})
  BY <1>1, <1>3, <1>4 DEF Keeps
<1> QED
  BY <1>5, <1>6 DEF w

LEMMA KeepsEmit ==
  ASSUME NEW w, NEW F, Keeps(w, F), NEW n \in Node, NEW X, NEW msg \in Message
  PROVE  Keeps(Emit(w, n, X, msg), F)
<1> DEFINE v == Emit(w, n, X, msg)
<1>1. w \in WireType /\ v \in WireType
  BY EmitType DEF Keeps
<1>2. \A m \in Node, x \in Stream : v[m][x] = w[m][x] \/ v[m][x] = Append(w[m][x], msg)
  BY DEF Emit
<1> HIDE DEF v
<1>3. ASSUME NEW m \in Node, NEW x \in Stream, DiscIn(w, m, x)
      PROVE  DiscIn(v, m, x)
  <2>1. PICK i \in 1..Len(w[m][x]) : w[m][x][i].type = "Disc"
    BY <1>3 DEF DiscIn
  <2>2. CASE v[m][x] = w[m][x]
    BY <2>1, <2>2 DEF DiscIn
  <2>3. CASE v[m][x] = Append(w[m][x], msg)
    <3>1. w[m][x] \in Seq(Message)
      BY <1>1 DEF WireType
    <3>2. i \in 1..Len(v[m][x]) /\ v[m][x][i] = w[m][x][i]
      BY <2>1, <2>3, <3>1
    <3> QED
      BY <2>1, <3>2 DEF DiscIn
  <2> QED
    BY <1>2, <2>2, <2>3
<1> QED
  BY <1>1, <1>3 DEF v, Keeps

LEMMA OnlyWriteGentle ==
  ASSUME NEW w, NEW F, Keeps(w, F), wire' = w, UNCHANGED <<up, sessionMap>>
  PROVE  Gentle(F)
BY DEF Keeps, Gentle

LEMMA CloseEndsGentle ==
  ASSUME TypeOK, NEW w, NEW F, Keeps(w, F), NEW n \in Node, NEW X, CloseEnds(n, X, w)
  PROVE  /\ \A m \in Node : up'[m] \subseteq up[m]
         /\ X \cap up'[n] = {}
         /\ \A m \in Node, x \in Stream :
              <<m, x>> \in F \/ x \notin up'[m] \/ (DiscIn(wire, m, x) => DiscIn(wire', m, x))
<1>1. /\ \A m \in Node : up'[m] = IF m = n THEN up[m] \ X ELSE up[m]
      /\ \A m \in Node, x \in Stream :
           wire'[m][x] = IF m = n /\ x \in X THEN <<>> ELSE w[m][x]
  BY DEF CloseEnds, Keeps, WireType, TypeOK
<1>2. ASSUME NEW m \in Node, NEW x \in Stream, <<m, x>> \notin F, x \in up'[m],
             DiscIn(wire, m, x)
      PROVE  DiscIn(wire', m, x)
  <2>1. wire'[m][x] = w[m][x] /\ DiscIn(w, m, x)
    BY <1>1, <1>2 DEF Keeps
  <2> QED
    BY <2>1 DEF DiscIn
<1>3. (\A m \in Node : up'[m] \subseteq up[m]) /\ X \cap up'[n] = {}
  BY <1>1
<1> QED
  BY <1>2, <1>3

LEMMA RemoveSessionGentle ==
  ASSUME TypeOK, NEW w, NEW F, Keeps(w, F), NEW n \in Node, NEW s \in SessionId,
         RemoveSession(n, s, w)
  PROVE  Gentle(F) /\ sessionMap'[n][s] = NoSession
<1>1. CloseEnds(n, Pair(n, s), w)
  BY DEF RemoveSession
<1>2. /\ \A m \in Node, r \in SessionId : m # n \/ r # s => sessionMap'[m][r] = sessionMap[m][r]
      /\ sessionMap'[n][s] = NoSession
  BY DEF RemoveSession, TypeOK
<1>3. /\ \A m \in Node : up'[m] \subseteq up[m]
      /\ Pair(n, s) \cap up'[n] = {}
      /\ \A m \in Node, x \in Stream :
           <<m, x>> \in F \/ x \notin up'[m] \/ (DiscIn(wire, m, x) => DiscIn(wire', m, x))
  BY <1>1, CloseEndsGentle
<1> QED
  BY <1>2, <1>3 DEF Gentle

LEMMA CloseCircuitGentle ==
  ASSUME TypeOK, NEW w, NEW F, Keeps(w, F), NEW n \in Node, NEW s \in SessionId,
         CloseCircuit(n, s, w)
  PROVE  Gentle(F) /\ sessionMap'[n][s] = NoSession
<1>1. Msg("Disc", s) \in Message
  BY MsgType
<1> QED
  BY <1>1, KeepsEmit, RemoveSessionGentle DEF CloseCircuit

LEMMA SendRelayGentle ==
  ASSUME TypeOK, NEW w, NEW F, Keeps(w, F), NEW n \in Node, NEW s \in SessionId,
         NEW msg \in Message, SendRelay(n, s, msg, w)
  PROVE  Gentle(F)
<1> DEFINE w1 == Emit(w, n, Written(n, s, Pair(n, s)), msg)
<1>1. Keeps(w1, F)
  BY KeepsEmit
<1>2. OnlyWrite(w1) \/ CloseCircuit(n, s, w1)
  BY DEF SendRelay
<1> HIDE DEF w1
<1> QED
  BY <1>1, <1>2, OnlyWriteGentle, CloseCircuitGentle DEF OnlyWrite

\* The readers.  Only HandleDisconnect takes a Disconnect off the wire, and it removes
\* the session that it was for.
LEMMA ReaderGentle ==
  ASSUME TypeOK, NEW n \in Node, NEW x \in Stream,
         \/ HandleRelayMsg(n, x) \/ HandleRelayProbe(n, x)
         \/ HandleDisconnect(n, x) \/ SpawnCircuitSuccess(n, x)
  PROVE  \/ Gentle({})
         \/ /\ Gentle({<<n, x>>}) /\ wire[n][x] # <<>>
            /\ sessionMap'[n][Head(wire[n][x]).sid] = NoSession
<1> DEFINE m == Head(wire[n][x])
           sess == sessionMap[n][m.sid]
<1>1. wire[n][x] # <<>>
  BY DEF HandleRelayMsg, HandleRelayProbe, HandleDisconnect, SpawnCircuitSuccess, Reads
<1>2. m \in Message /\ m.sid \in SessionId
  BY <1>1, PopType DEF Message
<1>3. ASSUME m.type # "Disc"
      PROVE  Keeps(Pop(n, x), {}) /\ \A X : Keeps(Emit(Pop(n, x), n, X, m), {})
  BY <1>1, <1>2, <1>3, KeepsPop, KeepsEmit
<1>4. CASE HandleRelayMsg(n, x)
  <2>1. m.type # "Disc"
    BY <1>4 DEF HandleRelayMsg, Reads
  <2>2. CASE IsEnd(sess)
    BY <2>1, <2>2, <1>3, <1>4, OnlyWriteGentle DEF HandleRelayMsg
  <2>3. CASE ~ IsEnd(sess)
    BY <2>1, <2>3, <1>2, <1>3, <1>4, OnlyWriteGentle, CloseCircuitGentle
       DEF HandleRelayMsg, OnlyWrite
  <2> QED
    BY <2>2, <2>3
<1>5. CASE HandleRelayProbe(n, x)
  <2>1. m.type # "Disc"
    BY <1>5 DEF HandleRelayProbe, Reads
  <2>2. CASE sess.role = "Joint" /\ ~ SecondProbe(n, m.sid)
    BY <2>1, <2>2, <1>3, <1>5, OnlyWriteGentle DEF HandleRelayProbe
  <2>3. CASE sess.role = "Joint" /\ SecondProbe(n, m.sid)
    <3>1. SendRelay(n, m.sid, Msg("Succ", m.sid), Pop(n, x))
      BY <2>3, <1>5 DEF HandleRelayProbe
    <3>2. Msg("Succ", m.sid) \in Message
      BY <1>2, MsgType
    <3> QED
      BY <3>1, <3>2, <2>1, <1>2, <1>3, SendRelayGentle
  <2>4. CASE sess.role # "Joint"
    BY <2>1, <2>4, <1>3, <1>5, OnlyWriteGentle DEF HandleRelayProbe, OnlyWrite
  <2> QED
    BY <2>2, <2>3, <2>4
<1>6. CASE HandleDisconnect(n, x)
  <2>1. \A X : Keeps(Emit(Pop(n, x), n, X, m), {<<n, x>>})
    BY <1>1, <1>2, KeepsPop, KeepsEmit
  <2>2. \E X : \/ RemoveSession(n, m.sid, Emit(Pop(n, x), n, X, m))
               \/ CloseCircuit(n, m.sid, Emit(Pop(n, x), n, X, m))
    BY <1>6 DEF HandleDisconnect
  <2>3. Gentle({<<n, x>>}) /\ sessionMap'[n][m.sid] = NoSession
    BY <2>1, <2>2, <1>2, RemoveSessionGentle, CloseCircuitGentle
  <2> QED
    BY <2>3, <1>1
<1>7. CASE SpawnCircuitSuccess(n, x)
  <2>1. m.type # "Disc"
    BY <1>7 DEF SpawnCircuitSuccess, Reads
  <2> QED
    BY <2>1, <1>3, <1>7, OnlyWriteGentle DEF SpawnCircuitSuccess, OnlyWrite
<1> QED
  BY <1>4, <1>5, <1>6, <1>7

LEMMA GoroutineGentle ==
  ASSUME TypeOK, NEW n \in Node, NEW g \in spawned[n],
         \/ ForwardSuccess(n, g) \/ StartHandshake(n, g) \/ Handshake(n, g)
         \/ HandshakeCancelled(n, g) \/ StoreSecureConn(n, g)
  PROVE  Gentle({})
<1> DEFINE sess == sessionMap[n][g.sid]
<1>0. Keeps(wire, {})
  BY KeepsStart
<1>1. g.sid \in SessionId
  BY DEF TypeOK, Goroutine
<1>2. \A d \in Payload : DataMsg(g.sid, d) \in Message
  BY <1>1, MsgType
<1>3. \A X : \A d \in Payload : Keeps(Emit(wire, n, X, DataMsg(g.sid, d)), {})
  BY <1>0, <1>2, KeepsEmit
<1>4. ASSUME UNCHANGED <<up, sessionMap>>, Keeps(wire', {})
      PROVE  Gentle({})
  BY <1>4, OnlyWriteGentle
<1>5. \A d \in Payload : SendRelay(n, g.sid, DataMsg(g.sid, d), wire) => Gentle({})
  BY <1>0, <1>1, <1>2, SendRelayGentle
<1>6. CASE ForwardSuccess(n, g)
  <2>1. Msg("Succ", g.sid) \in Message
    BY <1>1, MsgType
  <2> QED
    BY <2>1, <1>0, <1>6, KeepsEmit, OnlyWriteGentle DEF ForwardSuccess, OnlyWrite
<1>7. CASE StartHandshake(n, g)
  <2>1. \/ /\ UNCHANGED <<up, sessionMap>>
           /\ wire' = wire \/ wire' = Emit(wire, n, Pair(n, g.sid), DataMsg(g.sid, "h1"))
        \/ SendRelay(n, g.sid, DataMsg(g.sid, "h1"), wire)
    BY <1>7 DEF StartHandshake, netVars, OnlyWrite
  <2>2. "h1" \in Payload
    BY DEF Payload
  <2> QED
    BY <2>1, <2>2, <1>0, <1>3, <1>4, <1>5
<1>8. CASE Handshake(n, g)
  <2>1. PICK d \in {"h2", "h3"} :
          \/ /\ UNCHANGED <<up, sessionMap>>
             /\ wire' = wire \/ wire' = Emit(wire, n, Pair(n, g.sid), DataMsg(g.sid, d))
          \/ SendRelay(n, g.sid, DataMsg(g.sid, d), wire)
    BY <1>8 DEF Handshake, netVars
  <2>2. d \in Payload
    BY DEF Payload
  <2> QED
    BY <2>1, <2>2, <1>0, <1>3, <1>4, <1>5
<1>9. CASE HandshakeCancelled(n, g) \/ StoreSecureConn(n, g)
  BY <1>0, <1>9, OnlyWriteGentle DEF HandshakeCancelled, StoreSecureConn, netVars, OnlyWrite
<1> QED
  BY <1>6, <1>7, <1>8, <1>9

-----------------------------------------------------------------------------
(* The invariant behind LinkAgreement *)

\* The streams in a node's session of the circuit.
Load(n) == Len(sessionMap[n][Sid].pair)

\* A stream that n is asked to join will be in its session: there is room for it, or
\* it takes the place of the one to the joint node.
RoomFor(n, role) ==
  \/ Load(n) <= 1
  \/ role = "Relay" /\ sessionMap[n][Sid].role = "Entry"

Roomy(n, r) ==
  /\ r.sid = Sid
  /\ r.op = "New" => Load(n) <= 1 /\ (r.peer \in Node => RoomFor(r.peer, r.other))

NewRoom == \A n \in Node : \A i \in DOMAIN mailbox[n] : Roomy(n, mailbox[n][i])

SetRoom ==
  \A n \in Node, x \in Stream : \A i \in 1..Len(wire[n][x]) :
    wire[n][x][i].type = "Set" => wire[n][x][i].sid = Sid /\ RoomFor(n, wire[n][x][i].role)

TaskRoom == \A n \in Node : \A t \in waiting[n] : t.sid = Sid /\ Load(n) <= 1

DeadIdle == \A n \in Node : n \notin alive => up[n] = {} /\ waiting[n] = {}

TaskDials == \A n \in Node : \A t \in waiting[n] : dialer[t.stream] = n

\* A listener that has joined has acknowledged.
TaskAck ==
  \A n \in Node : \A t \in waiting[n] :
    t.stream \in Pair(listener[t.stream], Sid) => \E a \in acks : a.ok

AckAgrees ==
  \A a \in acks :
    /\ a.ok => \/ a.stream \in Pair(listener[a.stream], Sid)
               \/ a.stream \notin up[listener[a.stream]]
    /\ ~ a.ok => a.stream \notin Pair(listener[a.stream], Sid)

\* What LinkAgreement says of the stream x at n.
Agreed(n, x) ==
  \/ x \notin up[Remote(n, x)]
  \/ x \in Pair(Remote(n, x), Sid)
  \/ \E t \in waiting[Remote(n, x)] : t.stream = x
  \/ DiscIn(wire, n, x)

AllAgreed == \A n \in Node : \A x \in Pair(n, Sid) \cap up[n] : Agreed(n, x)

LinkInv ==
  /\ NewRoom /\ SetRoom /\ TaskRoom
  /\ DeadIdle /\ TaskDials /\ TaskAck /\ AckAgrees /\ AllAgreed

LEMMA LinkImplies ==
  ASSUME TypeOK, LinkInv
  PROVE  LinkAgreement
BY DEF TypeOK, LinkInv, AllAgreed, Agreed, DiscIn, LinkAgreement

\* A step that neither binds nor opens a stream.
Soft ==
  /\ \A m \in Node : up'[m] \subseteq up[m]
  /\ \A m \in Node :
       \/ sessionMap'[m][Sid] = sessionMap[m][Sid]
       \/ sessionMap'[m][Sid] = NoSession /\ Pair(m, Sid) \cap up'[m] = {}
  /\ \A m \in Node : \A x \in Pair(m, Sid)' \cap up'[m] :
       DiscIn(wire, m, x) => DiscIn(wire', m, x)

Quiet == Calm /\ Soft

LEMMA PairStreams ==
  ASSUME TypeOK
  PROVE  /\ \A m \in Node, s \in SessionId : Pair(m, s) \subseteq Stream
         /\ \A m \in Node : Load(m) \in 0..2
         /\ StreamsIn(NoSession) = {} /\ Len(NoSession.pair) = 0
<1>1. \A m \in Node, s \in SessionId :
        sessionMap[m][s].pair \in Seq(Stream) /\ Len(sessionMap[m][s].pair) <= 2
  BY DEF TypeOK, SessionType
<1>2. ASSUME NEW m \in Node
      PROVE  Load(m) \in 0..2
  <2> DEFINE k == Load(m)
  <2>1. k \in Nat /\ k <= 2
    BY <1>1, Roles DEF Load
  <2> HIDE DEF k
  <2>2. k \in 0..2
    BY <2>1
  <2> QED
    BY <2>2 DEF k
<1>3. \A m \in Node, s \in SessionId : Pair(m, s) \subseteq Stream
  BY <1>1 DEF Pair, StreamsIn
<1> QED
  BY <1>2, <1>3 DEF StreamsIn, NoSession

LEMMA GentleSoft ==
  ASSUME TypeOK, Gentle({})
  PROVE  Soft
<1>1. \A m \in Node : Pair(m, Sid)' \subseteq Pair(m, Sid)
  BY Roles, PairStreams DEF Gentle, Pair
<1> QED
  BY <1>1, Roles, PairStreams DEF Gentle, Soft

LEMMA ReaderSoft ==
  ASSUME TypeOK, StreamsAssigned, NEW n \in Node, NEW x \in Stream,
         \/ HandleRelayMsg(n, x) \/ HandleRelayProbe(n, x)
         \/ HandleDisconnect(n, x) \/ SpawnCircuitSuccess(n, x)
  PROVE  Soft
<1>1. CASE Gentle({})
  BY <1>1, GentleSoft
<1>2. CASE /\ Gentle({<<n, x>>}) /\ wire[n][x] # <<>>
           /\ sessionMap'[n][Head(wire[n][x]).sid] = NoSession
  <2>1. PICK c \in Assignment : Agrees(c)
    BY DEF StreamsAssigned
  <2>2. Head(wire[n][x]).sid = c[x]
    BY <2>1, <1>2, PopOf DEF Agrees
  <2>3. \A m \in Node : Pair(m, Sid)' \subseteq Pair(m, Sid) /\ Pair(m, Sid) \subseteq Stream
    BY <1>2, Roles, PairStreams DEF Gentle, Pair
  <2>4. x \notin Pair(n, Sid)'
    <3> SUFFICES ASSUME x \in Pair(n, Sid)
                 PROVE  Pair(n, Sid)' = {}
      BY <2>3
    <3>1. c[x] = Sid
      BY <2>1, Roles DEF Agrees, PairsOf
    <3> QED
      BY <3>1, <2>2, <1>2, PairStreams DEF Pair
  <2>5. \A m \in Node : \A y \in Pair(m, Sid)' \cap up'[m] :
          DiscIn(wire, m, y) => DiscIn(wire', m, y)
    BY <2>3, <2>4, <1>2 DEF Gentle
  <2> QED
    BY <2>5, <1>2, Roles DEF Gentle, Soft
<1> QED
  BY <1>1, <1>2, ReaderGentle

LEMMA QuietSteps ==
  ASSUME RelayInv, StreamsAssigned, NEW n \in Node,
         \/ \E x \in Stream : \/ HandleRelayMsg(n, x) \/ HandleRelayProbe(n, x)
                              \/ HandleDisconnect(n, x) \/ SpawnCircuitSuccess(n, x)
                              \/ ReadErr(n, x) \/ StreamReset(n, x)
                              \/ HandleStreamClosed(n, x)
         \/ \E g \in spawned[n] : \/ ForwardSuccess(n, g) \/ StartHandshake(n, g)
                                  \/ Handshake(n, g) \/ HandshakeCancelled(n, g)
                                  \/ StoreSecureConn(n, g)
         \/ UserClose(n, Sid) \/ ServeSend(n) \/ ServeClose(n)
         \/ UNCHANGED <<up, wire, sessionMap>>
  PROVE  Quiet
<1> DEFINE r == Head(mailbox[n])
<1>0. TypeOK /\ CalmWire(wire) /\ Keeps(wire, {})
  BY CalmStart, KeepsStart DEF RelayInv
<1>1. CASE UNCHANGED <<up, wire, sessionMap>>
  <2>1. Calm
    BY <1>0, <1>1 DEF Calm, CalmWire, Silent
  <2>2. Soft
    BY <1>0, <1>1, OnlyWriteGentle, GentleSoft
  <2> QED
    BY <2>1, <2>2 DEF Quiet
<1>2. ASSUME NEW x \in Stream, ReadErr(n, x) \/ StreamReset(n, x)
      PROVE  Quiet
  <2>1. CloseEnds(n, {x}, wire) /\ UNCHANGED sessionMap
    BY <1>2 DEF ReadErr, StreamReset
  <2>2. Calm
    BY <2>1, <1>0, CloseEndsCalm DEF Calm
  <2>3. Gentle({})
    BY <2>1, <1>0, CloseEndsGentle DEF Gentle
  <2> QED
    BY <2>2, <2>3, <1>0, GentleSoft DEF Quiet
<1>3. ASSUME NEW x \in Stream, HandleStreamClosed(n, x)
      PROVE  Quiet
  <2>1. OnlyWrite(wire) \/ \E s \in SessionId : CloseCircuit(n, s, wire)
    BY <1>3 DEF HandleStreamClosed
  <2>2. Calm
    BY <2>1, <1>0, OnlyWriteCalm, CloseCircuitCalm
  <2>3. Gentle({})
    BY <2>1, <1>0, OnlyWriteGentle, CloseCircuitGentle DEF OnlyWrite
  <2> QED
    BY <2>2, <2>3, <1>0, GentleSoft DEF Quiet
<1>4. CASE UserClose(n, Sid)
  <2>1. CloseCircuit(n, Sid, wire)
    BY <1>4 DEF UserClose
  <2> QED
    BY <2>1, <1>0, Roles, CloseCircuitCalm, CloseCircuitGentle, GentleSoft DEF Quiet
<1>5. CASE ServeSend(n)
  <2>1. r \in Request /\ r.op = "Send" /\ r.sid \in SessionId
    BY <1>0, <1>5, ServesType DEF ServeSend
  <2>2. Msg(r.type, r.sid) \in Message /\ Msg(r.type, r.sid).type # "Set"
    BY <2>1, MsgType DEF Request, Msg
  <2>3. SendRelay(n, r.sid, Msg(r.type, r.sid), wire)
    BY <1>5 DEF ServeSend
  <2> QED
    BY <2>1, <2>2, <2>3, <1>0, SendRelayCalm, SendRelayGentle, GentleSoft DEF Quiet
<1>6. CASE ServeClose(n)
  <2>1. r.sid \in SessionId /\ CloseCircuit(n, r.sid, wire)
    BY <1>0, <1>6, ServesType DEF ServeClose
  <2> QED
    BY <2>1, <1>0, CloseCircuitCalm, CloseCircuitGentle, GentleSoft DEF Quiet
<1>7. ASSUME NEW x \in Stream,
             \/ HandleRelayMsg(n, x) \/ HandleRelayProbe(n, x)
             \/ HandleDisconnect(n, x) \/ SpawnCircuitSuccess(n, x)
      PROVE  Quiet
  BY <1>0, <1>7, ReaderCalm, ReaderSoft DEF Quiet
<1>8. ASSUME NEW g \in spawned[n],
             \/ ForwardSuccess(n, g) \/ StartHandshake(n, g) \/ Handshake(n, g)
             \/ HandshakeCancelled(n, g) \/ StoreSecureConn(n, g)
      PROVE  Quiet
  BY <1>0, <1>8, GoroutineCalm, GoroutineGentle, GentleSoft DEF Quiet
<1> QED
  BY <1>1, <1>2, <1>3, <1>4, <1>5, <1>6, <1>7, <1>8

\* What a quiet step leaves of the sessions.
LEMMA QuietLoads ==
  ASSUME TypeOK, Quiet
  PROVE  /\ \A m \in Node : Load(m)' = Load(m) \/ Load(m)' = 0
         /\ \A m \in Node : Load(m)' # 0 => sessionMap'[m][Sid] = sessionMap[m][Sid]
         /\ \A m \in Node : Pair(m, Sid)' \subseteq Pair(m, Sid)
         /\ \A m \in Node : Pair(m, Sid) \cap up'[m] \subseteq Pair(m, Sid)'
         /\ \A m \in Node : \A role : RoomFor(m, role) => RoomFor(m, role)'
<1>1. \A m \in Node : \/ sessionMap'[m][Sid] = sessionMap[m][Sid]
                      \/ sessionMap'[m][Sid] = NoSession /\ Pair(m, Sid) \cap up'[m] = {}
  BY DEF Quiet, Soft
<1>2. StreamsIn(NoSession) = {} /\ Len(NoSession.pair) = 0
  BY PairStreams
<1>3. \A m \in Node : Load(m)' = Load(m) \/ Load(m)' = 0
  BY <1>1, <1>2 DEF Load
<1>4. \A m \in Node : Load(m)' # 0 => sessionMap'[m][Sid] = sessionMap[m][Sid]
  BY <1>1, <1>2 DEF Load
<1>5. ASSUME NEW m \in Node, NEW role, RoomFor(m, role)
      PROVE  RoomFor(m, role)'
  <2>1. CASE Load(m)' = 0
    BY <2>1 DEF RoomFor
  <2>2. CASE Load(m)' # 0
    BY <2>2, <1>3, <1>4, <1>5 DEF RoomFor
  <2> QED
    BY <2>1, <2>2
<1>6. \A m \in Node : /\ Pair(m, Sid)' \subseteq Pair(m, Sid)
                      /\ Pair(m, Sid) \cap up'[m] \subseteq Pair(m, Sid)'
  BY <1>1, <1>2 DEF Pair
<1> QED
  BY <1>3, <1>4, <1>5, <1>6


LEMMA FarEnd ==
  ASSUME RelayInv, NEW n \in Node, NEW x \in up[n]
  PROVE  /\ x \in Stream /\ IsEndOf(n, x)
         /\ Remote(n, x) \in Node /\ Remote(n, x) # n /\ Remote(Remote(n, x), x) = n
<1>1. x \in Stream
  BY DEF RelayInv, TypeOK
<1>2. IsEndOf(n, x) /\ dialer[x] \in Node /\ listener[x] \in Node /\ dialer[x] # listener[x]
  BY <1>1, NoNodeAssumption DEF RelayInv, EndsKnown, EndsDiffer, IsEndOf
<1> QED
  BY <1>1, <1>2 DEF Remote, IsEndOf

\* The ends of the stream of a task, and of an acknowledgement.
LEMMA TaskEnd ==
  ASSUME RelayInv, TaskDials, NEW n \in Node, NEW t \in waiting[n]
  PROVE  /\ t.stream \in Stream /\ dialer[t.stream] = n
         /\ listener[t.stream] \in Node /\ listener[t.stream] # n
         /\ Remote(listener[t.stream], t.stream) = n
         /\ Remote(n, t.stream) = listener[t.stream]
<1>1. t.stream \in Stream /\ dialer[t.stream] = n
  BY DEF RelayInv, TypeOK, Task, TaskDials
<1>2. listener[t.stream] \in Node /\ listener[t.stream] # n
  BY <1>1, NoNodeAssumption DEF RelayInv, EndsDiffer
<1> QED
  BY <1>1, <1>2 DEF Remote

LEMMA AckEnd ==
  ASSUME RelayInv, BindInv, TaskDials, NEW a \in acks
  PROVE  /\ a.stream \in Stream /\ a.to \in Node /\ dialer[a.stream] = a.to
         /\ listener[a.stream] \in Node /\ listener[a.stream] # a.to
<1>1. a.to \in Node
  BY DEF RelayInv, TypeOK, AckMsg
<1>2. PICK t \in waiting[a.to] : t.stream = a.stream
  BY DEF BindInv, AckAwaited, Awaited
<1> QED
  BY <1>1, <1>2, TaskEnd

SameTasks ==
  \A m \in Node :
    /\ \A t \in waiting'[m] : \E u \in waiting[m] : u.stream = t.stream /\ u.sid = t.sid
    /\ \A u \in waiting[m] : \E t \in waiting'[m] : t.stream = u.stream

\* A quiet step removes sessions at most, and only where it closes their streams.
LEMMA QuietLinks ==
  ASSUME RelayInv, BindInv, LinkInv, Quiet, UNCHANGED <<alive, dialer, listener>>, SameTasks,
         acks' = acks \/ (TaskAck' /\ AckAgrees'),
         \A m \in Node : \A j \in DOMAIN mailbox'[m] : Roomy(m, mailbox'[m][j])
  PROVE  LinkInv'
<1>0. TypeOK
  BY DEF RelayInv
<1>1. /\ \A m \in Node : Load(m)' = Load(m) \/ Load(m)' = 0
      /\ \A m \in Node : Pair(m, Sid)' \subseteq Pair(m, Sid)
      /\ \A m \in Node : Pair(m, Sid) \cap up'[m] \subseteq Pair(m, Sid)'
      /\ \A m \in Node : \A role : RoomFor(m, role) => RoomFor(m, role)'
  BY <1>0, QuietLoads
<1>2. \A m \in Node : up'[m] \subseteq up[m]
  BY DEF Quiet, Calm
<1>3. NewRoom'
  <2>1. \A m \in Node : \A r : Roomy(m, r) => Roomy(m, r)'
    <3> SUFFICES ASSUME NEW m \in Node, NEW r, Roomy(m, r)
                 PROVE  Roomy(m, r)'
      OBVIOUS
    <3>1. Load(m) <= 1 => Load(m)' <= 1
      BY <1>1
    <3> QED
      BY <3>1, <1>1 DEF Roomy
  <2> QED
    BY <2>1 DEF NewRoom
<1>4. SetRoom'
  <2>1. ASSUME NEW m \in Node, NEW x \in Stream, NEW i \in 1..Len(wire'[m][x]),
               wire'[m][x][i].type = "Set"
        PROVE  i \in 1..Len(wire[m][x]) /\ wire[m][x][i] = wire'[m][x][i]
    BY <2>1, CalmSets DEF Quiet
  <2> QED
    BY <2>1, <1>1 DEF LinkInv, SetRoom
<1>5. TaskRoom'
  BY <1>1 DEF LinkInv, TaskRoom, SameTasks
<1>6. DeadIdle'
  BY <1>2 DEF LinkInv, DeadIdle, SameTasks
<1>7. TaskDials'
  BY DEF LinkInv, TaskDials, SameTasks
<1>8. ASSUME acks' = acks
      PROVE  TaskAck'
  <2> SUFFICES ASSUME NEW m \in Node, NEW t \in waiting'[m],
                      t.stream \in Pair(listener[t.stream], Sid)'
               PROVE  \E a \in acks : a.ok
    BY <1>8 DEF TaskAck
  <2>1. PICK u \in waiting[m] : u.stream = t.stream
    BY DEF SameTasks
  <2>2. listener[u.stream] \in Node
    BY TaskEnd DEF LinkInv
  <2>3. u.stream \in Pair(listener[u.stream], Sid)
    BY <2>1, <2>2, <1>1
  <2> QED
    BY <2>3 DEF LinkInv, TaskAck
<1>9. ASSUME acks' = acks
      PROVE  AckAgrees'
  <2> SUFFICES ASSUME NEW a \in acks
               PROVE  /\ a.ok => \/ a.stream \in Pair(listener[a.stream], Sid)'
                                 \/ a.stream \notin up'[listener[a.stream]]
                      /\ ~ a.ok => a.stream \notin Pair(listener[a.stream], Sid)'
    BY <1>9 DEF AckAgrees
  <2>1. PICK l \in Node : l = listener[a.stream]
    BY AckEnd DEF LinkInv
  <2>2. /\ a.ok => a.stream \in Pair(l, Sid) \/ a.stream \notin up[l]
        /\ ~ a.ok => a.stream \notin Pair(l, Sid)
    BY <2>1 DEF LinkInv, AckAgrees
  <2>3. Pair(l, Sid)' = Pair(listener[a.stream], Sid)'
    BY <2>1 DEF Pair
  <2> QED
    BY <2>1, <2>2, <2>3, <1>1, <1>2
<1>10. AllAgreed'
  <2> SUFFICES ASSUME NEW n \in Node, NEW x \in Pair(n, Sid)' \cap up'[n]
               PROVE  Agreed(n, x)'
    BY DEF AllAgreed
  <2>1. x \in Pair(n, Sid) \cap up[n]
    BY <1>1, <1>2
  <2>2. PICK m \in Node : m = Remote(n, x) /\ m = Remote(n, x)'
    BY <2>1, FarEnd DEF Remote
  <2>3. \/ x \notin up[m] \/ x \in Pair(m, Sid)
        \/ \E t \in waiting[m] : t.stream = x
        \/ DiscIn(wire, n, x)
    BY <2>1, <2>2 DEF LinkInv, AllAgreed, Agreed
  <2>4. DiscIn(wire, n, x) => DiscIn(wire', n, x)
    BY DEF Quiet, Soft
  <2>5. \/ x \notin up'[m] \/ x \in Pair(m, Sid)'
        \/ \E t \in waiting'[m] : t.stream = x
        \/ DiscIn(wire', n, x)
    BY <2>3, <2>4, <1>1, <1>2 DEF SameTasks
  <2> QED
    BY <2>2, <2>5 DEF Agreed
<1> QED
  BY <1>3, <1>4, <1>5, <1>6, <1>7, <1>8, <1>9, <1>10 DEF LinkInv

\* A SetSessionId that times out was not accepted.
LEMMA TimeoutLinks ==
  ASSUME RelayInv, BindInv, LinkInv, NEW n \in Node, NEW t \in waiting[n],
         SetSessionTimeout(n, t), Hopeless(n, t)
  PROVE  LinkInv'
<1>1. /\ waiting' = [waiting EXCEPT ![n] = @ \ {t}]
      /\ UNCHANGED <<alive, dialer, listener, up, wire, sessionMap, mailbox, acks>>
  BY DEF SetSessionTimeout, streamVars, netVars
<1>2. \A m \in Node : waiting'[m] = {}
  BY <1>1 DEF RelayInv, TypeOK, BindInv, OneTask
<1>3. acks = {}
  <2> SUFFICES ASSUME NEW a \in acks
               PROVE  FALSE
    OBVIOUS
  <2>1. a.to \in Node
    BY DEF RelayInv, TypeOK, AckMsg
  <2>2. PICK u \in waiting[a.to] : u.sid = a.sid /\ u.other = a.role
    BY DEF BindInv, AckAwaited, Awaited
  <2>3. a.to = n /\ u = t
    BY <2>1, <2>2 DEF BindInv, OneTask
  <2> QED
    BY <2>2, <2>3 DEF Hopeless
<1>4. NewRoom' /\ SetRoom'
  BY <1>1 DEF LinkInv, NewRoom, Roomy, RoomFor, Load, SetRoom
<1>5. TaskRoom' /\ TaskDials' /\ TaskAck' /\ AckAgrees' /\ DeadIdle'
  BY <1>1, <1>2, <1>3 DEF LinkInv, TaskRoom, TaskDials, TaskAck, AckAgrees, DeadIdle
<1>6. AllAgreed'
  <2> SUFFICES ASSUME NEW m \in Node, NEW x \in Pair(m, Sid) \cap up[m]
               PROVE  Agreed(m, x)'
    BY <1>1 DEF AllAgreed, Pair
  <2>1. Agreed(m, x)
    BY DEF LinkInv, AllAgreed
  <2>2. ASSUME NEW u \in waiting[Remote(m, x)], u.stream = x
        PROVE  FALSE
    <3>1. Remote(m, x) \in Node /\ Remote(Remote(m, x), x) = m
      BY FarEnd
    <3>2. listener[x] = m
      BY <2>2, <3>1, TaskEnd DEF LinkInv
    <3> QED
      BY <2>2, <3>1, <3>2, <1>3 DEF LinkInv, TaskAck
  <2> QED
    BY <2>1, <2>2, <1>1 DEF Agreed, Remote, Pair, DiscIn
<1> QED
  BY <1>4, <1>5, <1>6 DEF LinkInv

\* There is room: the stream joins the session, whose role stays what it is.
LEMMA JoinedRoom ==
  ASSUME TypeOK, NEW n \in Node, NEW x \in Stream, NEW role \in Role, Load(n) <= 1
  PROVE  LET q == Joined(n, Sid, x, role)
         IN  /\ StreamsIn(q) = Pair(n, Sid) \cup {x}
             /\ Len(q.pair) = Load(n) + 1
             /\ q.role = IF Has(n, Sid) THEN sessionMap[n][Sid].role ELSE role
<1> DEFINE old == IF Has(n, Sid) THEN sessionMap[n][Sid] ELSE NewSession(role)
           q == AddStream(old, x)
<1>1. /\ old \in SessionType(Stream) /\ StreamsIn(old) = Pair(n, Sid) /\ Len(old.pair) = Load(n)
      /\ old.role = IF Has(n, Sid) THEN sessionMap[n][Sid].role ELSE role
  <2>1. CASE Has(n, Sid)
    BY <2>1, Roles DEF TypeOK, Load, Pair
  <2>2. CASE ~ Has(n, Sid)
    BY <2>2, NewSessionType, PairStreams DEF Has, NewSession, NoSession, Pair, Load, StreamsIn
  <2> QED
    BY <2>1, <2>2
<1> HIDE DEF old
<1>2. old.pair \in Seq(Stream) /\ Len(old.pair) \in Nat /\ Len(old.pair) <= 1
  BY <1>1 DEF SessionType
<1>3. q = [old EXCEPT !.pair = Append(old.pair, x)]
  <2> DEFINE k == Len(old.pair)
             j == Len(Append(old.pair, x))
  <2>1. j = k + 1 /\ k \in Nat /\ k <= 1
    BY <1>2
  <2> HIDE DEF k, j
  <2>2. k # 2 /\ ~ j > 2
    BY <2>1
  <2> QED
    BY <2>2 DEF AddStream, IsReady, k, j
<1>4. q.pair = Append(old.pair, x) /\ q.role = old.role
  BY <1>1, <1>3 DEF SessionType
<1>5. Len(q.pair) = Len(old.pair) + 1 /\ q.pair[Len(old.pair) + 1] = x
      /\ \A i \in 1..Len(old.pair) : q.pair[i] = old.pair[i]
  BY <1>2, <1>4
<1>6. StreamsIn(q) = StreamsIn(old) \cup {x}
  <2> HIDE DEF q
  <2>1. ASSUME NEW i \in 1..Len(q.pair)
        PROVE  q.pair[i] \in StreamsIn(old) \cup {x}
    <3>1. i = Len(old.pair) + 1 \/ i \in 1..Len(old.pair)
      BY <1>2, <1>5
    <3> QED
      BY <3>1, <1>5 DEF StreamsIn
  <2>2. ASSUME NEW i \in 1..Len(old.pair)
        PROVE  i \in 1..Len(q.pair) /\ old.pair[i] = q.pair[i]
    BY <1>2, <1>5
  <2>3. Len(old.pair) + 1 \in 1..Len(q.pair)
    BY <1>2, <1>5
  <2> QED
    BY <2>1, <2>2, <2>3, <1>5 DEF StreamsIn
<1>7. q = Joined(n, Sid, x, role)
  BY DEF Joined, old
<1> HIDE DEF q
<1> QED
  BY <1>1, <1>4, <1>5, <1>6, <1>7

\* The acknowledgement says what the far end has done.
LEMMA AckLinks ==
  ASSUME RelayInv, BindInv, LinkInv, NEW n \in Node, NEW a, NEW t, AckArrives(n, a, t)
  PROVE  LinkInv'
<1> DEFINE x == t.stream
<1>1. /\ a \in acks /\ a.to = n /\ t \in waiting[n]
      /\ waiting' = [waiting EXCEPT ![n] = @ \ {t}] /\ acks' = acks \ {a}
      /\ UNCHANGED <<alive, dialer, listener, up, wire, mailbox>>
  BY DEF AckArrives, streamVars, netVars
<1>2. \A m \in Node : \A u \in waiting[m] : m = n /\ u = t
  BY <1>1 DEF BindInv, OneTask
<1>3. (\A m \in Node : waiting'[m] = {}) /\ acks' = {}
  BY <1>1, <1>2 DEF RelayInv, TypeOK, BindInv, AckAwaited
<1>4. a.stream = x
  BY <1>1, <1>2 DEF BindInv, AckAwaited, Awaited
<1>5. TaskRoom' /\ TaskDials' /\ TaskAck' /\ AckAgrees' /\ DeadIdle'
  BY <1>1, <1>3 DEF LinkInv, TaskRoom, TaskDials, TaskAck, AckAgrees, DeadIdle
<1>6. t.sid = Sid /\ Load(n) <= 1 /\ x \in Stream /\ t.my \in Role
  BY <1>1 DEF LinkInv, TaskRoom, RelayInv, TypeOK, Task
<1>7. PICK l \in Node : /\ l = listener[x] /\ l # n /\ Remote(n, x) = l
                        /\ Remote(l, x) = n
  BY <1>1, TaskEnd DEF LinkInv
<1>8. ASSUME NEW m \in Node, NEW y \in up[m], NEW u \in waiting[Remote(m, y)], u.stream = y
      PROVE  m = l /\ y = x
  <2>1. Remote(m, y) \in Node /\ Remote(Remote(m, y), y) = m
    BY FarEnd
  <2>2. Remote(m, y) = n /\ u = t
    BY <2>1, <1>2
  <2> QED
    BY <2>1, <2>2, <1>7, <1>8
<1>9. CASE ~ a.ok
  <2>1. UNCHANGED sessionMap
    BY <1>9 DEF AckArrives
  <2>2. NewRoom' /\ SetRoom'
    BY <2>1, <1>1 DEF LinkInv, NewRoom, Roomy, RoomFor, Load, SetRoom
  <2>3. x \notin Pair(l, Sid)
    BY <1>1, <1>4, <1>7, <1>9 DEF LinkInv, AckAgrees
  <2>4. AllAgreed'
    <3> SUFFICES ASSUME NEW m \in Node, NEW y \in Pair(m, Sid) \cap up[m]
                 PROVE  Agreed(m, y)'
      BY <2>1, <1>1 DEF AllAgreed, Pair
    <3>1. Agreed(m, y)
      BY DEF LinkInv, AllAgreed
    <3>2. \A u \in waiting[Remote(m, y)] : u.stream # y
      BY <2>3, <1>8
    <3> QED
      BY <3>1, <3>2, <2>1, <1>1 DEF Agreed, Remote, Pair, DiscIn
  <2> QED
    BY <2>2, <2>4, <1>5 DEF LinkInv
<1>10. CASE a.ok
  <2>1. sessionMap' = [sessionMap EXCEPT ![n][Sid] = Joined(n, Sid, x, t.my)]
    BY <1>6, <1>10 DEF AckArrives, SessionSet
  <2>2. /\ sessionMap'[n][Sid] = Joined(n, Sid, x, t.my)
        /\ \A m \in Node : m # n => sessionMap'[m] = sessionMap[m]
    BY <2>1, Roles DEF RelayInv, TypeOK
  <2>3. /\ Pair(n, Sid)' = Pair(n, Sid) \cup {x}
        /\ \A m \in Node : m # n => Pair(m, Sid)' = Pair(m, Sid)
    BY <2>2, <1>6, JoinedRoom DEF RelayInv, Pair
  <2>4. NewRoom' /\ SetRoom'
    <3>1. \A m \in Node : \A i \in DOMAIN mailbox[m] :
            mailbox[m][i].op # "New" /\ mailbox[m][i].sid = Sid
      BY <1>1 DEF BindInv, NewApart, NoTasks, LinkInv, NewRoom, Roomy
    <3>2. \A m \in Node, y \in Stream : \A i \in 1..Len(wire[m][y]) : wire[m][y][i].type # "Set"
      BY <1>1 DEF BindInv, AckAwaited, NoSets, SetAt
    <3> QED
      BY <3>1, <3>2, <1>1 DEF NewRoom, Roomy, SetRoom
  <2>5. x \in Pair(l, Sid) \/ x \notin up[l]
    BY <1>1, <1>4, <1>7, <1>10 DEF LinkInv, AckAgrees
  <2>6. AllAgreed'
    <3> SUFFICES ASSUME NEW m \in Node, NEW y \in Pair(m, Sid)' \cap up[m]
                 PROVE  Agreed(m, y)'
      BY <1>1 DEF AllAgreed
    <3>0. PICK k \in Node : k = Remote(m, y) /\ k = Remote(m, y)'
      BY <1>1, FarEnd DEF Remote
    <3>1. CASE m = n /\ y = x
      BY <3>0, <3>1, <2>3, <2>5, <1>1, <1>7 DEF Agreed
    <3>2. CASE ~ (m = n /\ y = x)
      <4>1. y \in Pair(m, Sid)
        BY <3>2, <2>3
      <4>2. Agreed(m, y)
        BY <4>1 DEF LinkInv, AllAgreed
      <4>3. ASSUME NEW u \in waiting[k], u.stream = y
            PROVE  y \in Pair(k, Sid)'
        <5>1. m = l /\ y = x
          BY <4>3, <3>0, <1>8
        <5> QED
          BY <5>1, <3>0, <2>3, <1>7
      <4>4. y \in Pair(k, Sid) => y \in Pair(k, Sid)'
        BY <2>3
      <4> QED
        BY <4>2, <4>3, <4>4, <3>0, <1>1 DEF Agreed, DiscIn
    <3> QED
      BY <3>1, <3>2
  <2> QED
    BY <2>4, <2>6, <1>5 DEF LinkInv
<1> QED
  BY <1>9, <1>10

\* A stream that is not open yet is in no session.
LEMMA FreshUnbound ==
  ASSUME StreamsAssigned, NEW x \in Stream, dialer[x] = NoNode
  PROVE  \A m \in Node : x \notin Pair(m, Sid)
<1>1. PICK c \in Assignment : Agrees(c)
  BY DEF StreamsAssigned
<1>2. c[x] # Sid
  BY <1>1, Roles, NoSidAssumption DEF Agrees, OpenedOf
<1> QED
  BY <1>1, <1>2, Roles DEF Agrees, PairsOf

\* A stream is opened, where there is room for it.
LEMMA DialLinks ==
  ASSUME RelayInv, StreamsAssigned, LinkInv, NEW n \in Node, n \in alive,
         NEW p, NEW my, NEW other, NEW proc, NEW who,
         DialAndSet(n, p, Sid, my, other, proc, who), NoTasks, NoSets, acks = {},
         Load(n) <= 1, RoomFor(p, other),
         \A m \in Node : \A j \in DOMAIN mailbox'[m] : Roomy(m, mailbox'[m][j])
  PROVE  LinkInv'
<1>1. PICK x \in Stream :
        /\ Fresh(x)
        /\ dialer' = [dialer EXCEPT ![x] = n]
        /\ listener' = [listener EXCEPT ![x] = p]
        /\ up' = [up EXCEPT ![n] = @ \cup {x}, ![p] = @ \cup {x}]
        /\ wire' = [wire EXCEPT ![p][x] = <<SetMsg(Sid, other)>>]
        /\ waiting' = [waiting EXCEPT ![n] = @ \cup
              {[proc |-> proc, sid |-> Sid, stream |-> x, my |-> my, other |-> other,
                who |-> who]}]
  BY DEF DialAndSet
<1>2. p \in Node /\ p \in alive /\ p # n /\ UNCHANGED <<alive, sessionMap, acks>>
  BY DEF DialAndSet, RelayInv, TypeOK
<1>3. dialer[x] = NoNode
  BY <1>1 DEF Fresh
<1>4. /\ \A m \in Node : x \notin Pair(m, Sid)
      /\ \A m \in Node : x \notin up[m] /\ wire[m][x] = <<>>
  BY <1>3, FreshUnbound, FreshUnknown
<1>5. /\ \A m \in Node : up'[m] = IF m \in {n, p} THEN up[m] \cup {x} ELSE up[m]
      /\ \A m \in Node, y \in Stream :
           wire'[m][y] = IF m = p /\ y = x THEN <<SetMsg(Sid, other)>> ELSE wire[m][y]
      /\ \A m \in Node : m # n => waiting'[m] = {}
      /\ \A t \in waiting'[n] : t.stream = x /\ t.sid = Sid
      /\ dialer'[x] = n /\ listener'[x] = p
      /\ \A y \in Stream : y # x => dialer'[y] = dialer[y] /\ listener'[y] = listener[y]
  <2>1. \A m \in Node : waiting[m] = {}
    BY DEF NoTasks
  <2>2. /\ \A m \in Node : m # n => waiting'[m] = {}
        /\ \A t \in waiting'[n] : t.stream = x /\ t.sid = Sid
    BY <2>1, <1>1 DEF RelayInv, TypeOK
  <2>3. \A m \in Node : up'[m] = IF m \in {n, p} THEN up[m] \cup {x} ELSE up[m]
    BY <1>1, <1>2 DEF RelayInv, TypeOK
  <2>4. \A m \in Node, y \in Stream :
          wire'[m][y] = IF m = p /\ y = x THEN <<SetMsg(Sid, other)>> ELSE wire[m][y]
    BY <1>1, <1>2 DEF RelayInv, TypeOK
  <2>5. /\ dialer'[x] = n /\ listener'[x] = p
        /\ \A y \in Stream : y # x => dialer'[y] = dialer[y] /\ listener'[y] = listener[y]
    BY <1>1 DEF RelayInv, TypeOK
  <2> QED
    BY <2>2, <2>3, <2>4, <2>5
<1>6. \A m \in Node : up'[m] \subseteq up[m] \cup {x}
  <2> SUFFICES ASSUME NEW m \in Node
               PROVE  up'[m] \subseteq up[m] \cup {x}
    OBVIOUS
  <2>1. up'[m] = up[m] \cup {x} \/ up'[m] = up[m]
    BY <1>5
  <2> QED
    BY <2>1
<1>7. /\ \A m \in Node : Load(m)' = Load(m) /\ Pair(m, Sid)' = Pair(m, Sid)
      /\ \A m \in Node : \A role : RoomFor(m, role) => RoomFor(m, role)'
  BY <1>2 DEF Load, Pair, RoomFor
<1>8. NewRoom'
  <2>1. \A m \in Node : \A r : Roomy(m, r) => Roomy(m, r)'
    BY <1>7 DEF Roomy
  <2> QED
    BY <2>1 DEF NewRoom
<1>9. SetRoom'
  <2> SUFFICES ASSUME NEW m \in Node, NEW y \in Stream, NEW i \in 1..Len(wire'[m][y]),
                      wire'[m][y][i].type = "Set"
               PROVE  wire'[m][y][i].sid = Sid /\ RoomFor(m, wire[m][y][i].role)'
    BY DEF SetRoom
  <2>1. m = p /\ y = x
    BY <1>5 DEF NoSets, SetAt
  <2>2. wire'[m][y] = <<SetMsg(Sid, other)>>
    BY <2>1, <1>5
  <2>3. wire'[m][y][i] = SetMsg(Sid, other)
    BY <2>2
  <2>4. wire'[m][y][i].sid = Sid /\ wire'[m][y][i].role = other
    BY <2>3 DEF SetMsg
  <2>5. RoomFor(m, other)'
    BY <2>1, <1>7
  <2> QED
    BY <2>4, <2>5 DEF RoomFor
<1>10. TaskRoom' /\ TaskDials'
  BY <1>5, <1>7 DEF TaskRoom, TaskDials
<1>11. DeadIdle'
  BY <1>2, <1>5 DEF LinkInv, DeadIdle
<1>12. TaskAck' /\ AckAgrees'
  <2>1. p = listener'[x] /\ x \notin Pair(p, Sid)'
    BY <1>2, <1>4, <1>5, <1>7
  <2>2. \A m \in Node : \A t \in waiting'[m] : t.stream = x
    BY <1>5
  <2>3. Pair(p, Sid)' = Pair(listener[x], Sid)'
    BY <2>1 DEF Pair
  <2> QED
    BY <2>1, <2>2, <2>3, <1>2 DEF TaskAck, AckAgrees, Pair
<1>13. AllAgreed'
  <2> SUFFICES ASSUME NEW m \in Node, NEW y \in Pair(m, Sid)' \cap up'[m]
               PROVE  Agreed(m, y)'
    BY DEF AllAgreed
  <2>1. y # x /\ y \in Pair(m, Sid) \cap up[m]
    <3>1. y \in Pair(m, Sid)
      BY <1>7
    <3>2. y # x
      BY <3>1, <1>4
    <3>3. y \in up[m]
      BY <3>2, <1>6
    <3> QED
      BY <3>1, <3>2, <3>3
  <2>2. y \in Stream
    BY <2>1, FarEnd
  <2>3. PICK k \in Node : k = Remote(m, y) /\ k = Remote(m, y)'
    BY <2>1, <2>2, <1>5, FarEnd DEF Remote
  <2>4. y \notin up[k] \/ y \in Pair(k, Sid) \/ DiscIn(wire, m, y)
    BY <2>1, <2>3 DEF LinkInv, AllAgreed, Agreed, NoTasks
  <2>5. y \notin up'[k] \/ y \in Pair(k, Sid)' \/ DiscIn(wire', m, y)
    <3>1. wire'[m][y] = wire[m][y]
      BY <2>1, <2>2, <1>5
    <3>2. y \notin up[k] => y \notin up'[k]
      BY <2>1, <1>6
    <3> QED
      BY <2>4, <3>1, <3>2, <1>7 DEF DiscIn
  <2> QED
    BY <2>3, <2>5 DEF Agreed
<1> QED
  BY <1>8, <1>9, <1>10, <1>11, <1>12, <1>13 DEF LinkInv

LEMMA CrashQuiet ==
  ASSUME RelayInv, NEW n \in Node, Crash(n)
  PROVE  Quiet /\ sessionMap'[n][Sid] = NoSession
<1>1. /\ up'[n] = {} /\ \A m \in Node : m # n => up'[m] = up[m]
      /\ \A x \in Stream : wire'[n][x] = <<>>
      /\ \A m \in Node, x \in Stream : m # n => wire'[m][x] = wire[m][x]
      /\ \A s \in SessionId : sessionMap'[n][s] = NoSession
      /\ \A m \in Node, s \in SessionId : m # n => sessionMap'[m][s] = sessionMap[m][s]
  BY DEF Crash, RelayInv, TypeOK
<1>2. Calm
  <2>1. SetsFrom(wire', wire)
    BY <1>1 DEF SetsFrom
  <2>2. \A m \in Node, x \in Stream : x \notin up'[m] => wire'[m][x] = <<>>
    BY <1>1 DEF RelayInv, EndsKnown
  <2> QED
    BY <2>1, <2>2, <1>1 DEF Calm
<1>3. Soft
  <2>1. \A m \in Node : m # n => Pair(m, Sid)' \subseteq Stream
    BY <1>1, Roles, PairStreams DEF Pair, RelayInv
  <2> QED
    BY <2>1, <1>1, Roles DEF Soft, DiscIn
<1> QED
  BY <1>1, <1>2, <1>3, Roles DEF Quiet

LEMMA CrashLinks ==
  ASSUME RelayInv, BindInv, LinkInv, NEW n \in Node, Crash(n)
  PROVE  LinkInv'
<1>0. TypeOK /\ Quiet
  BY CrashQuiet DEF RelayInv
<1>1. /\ alive' = alive \ {n} /\ up'[n] = {} /\ waiting'[n] = {} /\ mailbox'[n] = <<>>
      /\ \A m \in Node : m # n => /\ up'[m] = up[m] /\ waiting'[m] = waiting[m]
                                  /\ mailbox'[m] = mailbox[m]
      /\ acks' = {a \in acks : a.to # n} /\ UNCHANGED <<dialer, listener>>
      /\ \A m \in Node, x \in Stream : m # n => wire'[m][x] = wire[m][x]
  BY DEF Crash, RelayInv, TypeOK, streamVars
<1>2. /\ \A m \in Node : Load(m)' = Load(m) \/ Load(m)' = 0
      /\ \A m \in Node : Pair(m, Sid)' \subseteq Pair(m, Sid)
      /\ \A m \in Node : Pair(m, Sid) \cap up'[m] \subseteq Pair(m, Sid)'
      /\ \A m \in Node : \A role : RoomFor(m, role) => RoomFor(m, role)'
  BY <1>0, QuietLoads
<1>3. NewRoom'
  <2>1. \A m \in Node : \A r : Roomy(m, r) => Roomy(m, r)'
    <3> SUFFICES ASSUME NEW m \in Node, NEW r, Roomy(m, r)
                 PROVE  Roomy(m, r)'
      OBVIOUS
    <3>1. Load(m) <= 1 => Load(m)' <= 1
      BY <1>2
    <3> QED
      BY <3>1, <1>2 DEF Roomy
  <2>2. \A m \in Node : \A j \in DOMAIN mailbox'[m] : Roomy(m, mailbox'[m][j])
    BY <1>1 DEF LinkInv, NewRoom
  <2> QED
    BY <2>1, <2>2 DEF NewRoom
<1>4. SetRoom'
  <2>1. ASSUME NEW m \in Node, NEW x \in Stream, NEW i \in 1..Len(wire'[m][x]),
               wire'[m][x][i].type = "Set"
        PROVE  i \in 1..Len(wire[m][x]) /\ wire[m][x][i] = wire'[m][x][i]
    BY <2>1, <1>0, CalmSets DEF Quiet
  <2> QED
    BY <2>1, <1>2 DEF LinkInv, SetRoom
<1>5. TaskRoom' /\ TaskDials' /\ DeadIdle'
  BY <1>1, <1>2 DEF LinkInv, TaskRoom, TaskDials, DeadIdle
<1>6. TaskAck'
  <2> SUFFICES ASSUME NEW m \in Node, NEW t \in waiting'[m],
                      t.stream \in Pair(listener[t.stream], Sid)'
               PROVE  \E a \in acks' : a.ok
    BY DEF TaskAck
  <2>1. m # n /\ t \in waiting[m]
    BY <1>1
  <2>2. PICK l \in Node : l = listener[t.stream]
    BY <2>1, TaskEnd DEF LinkInv
  <2>3. Pair(l, Sid)' = Pair(listener[t.stream], Sid)'
    BY <2>2, <1>1 DEF Pair
  <2>4. t.stream \in Pair(listener[t.stream], Sid)
    BY <2>2, <2>3, <1>2
  <2>5. PICK a \in acks : a.ok
    BY <2>1, <2>4 DEF LinkInv, TaskAck
  <2>6. a.to \in Node
    BY <1>0 DEF TypeOK, AckMsg
  <2>7. a.to = m
    BY <2>1, <2>6 DEF BindInv, AckAwaited, Awaited, OneTask
  <2> QED
    BY <2>1, <2>5, <2>7, <1>1
<1>7. AckAgrees'
  <2> SUFFICES ASSUME NEW a \in acks
               PROVE  /\ a.ok => \/ a.stream \in Pair(listener[a.stream], Sid)'
                                 \/ a.stream \notin up'[listener[a.stream]]
                      /\ ~ a.ok => a.stream \notin Pair(listener[a.stream], Sid)'
    BY <1>1 DEF AckAgrees
  <2>1. PICK l \in Node : l = listener[a.stream]
    BY AckEnd DEF LinkInv
  <2>2. /\ a.ok => a.stream \in Pair(l, Sid) \/ a.stream \notin up[l]
        /\ ~ a.ok => a.stream \notin Pair(l, Sid)
    BY <2>1 DEF LinkInv, AckAgrees
  <2>3. Pair(l, Sid)' = Pair(listener[a.stream], Sid)'
    BY <2>1, <1>1 DEF Pair
  <2>4. up'[l] \subseteq up[l]
    BY <1>1
  <2> QED
    BY <2>1, <2>2, <2>3, <2>4, <1>2
<1>8. AllAgreed'
  <2> SUFFICES ASSUME NEW m \in Node, NEW x \in Pair(m, Sid)' \cap up'[m]
               PROVE  Agreed(m, x)'
    BY DEF AllAgreed
  <2>1. m # n /\ x \in Pair(m, Sid) \cap up[m] /\ x \in Stream
    BY <1>1, <1>2, FarEnd
  <2>2. PICK k \in Node : k = Remote(m, x) /\ k = Remote(m, x)'
    BY <2>1, <1>1, FarEnd DEF Remote
  <2>3. \/ x \notin up[k] \/ x \in Pair(k, Sid)
        \/ \E t \in waiting[k] : t.stream = x
        \/ DiscIn(wire, m, x)
    BY <2>1, <2>2 DEF LinkInv, AllAgreed, Agreed
  <2>4. \/ x \notin up'[k] \/ x \in Pair(k, Sid)'
        \/ \E t \in waiting'[k] : t.stream = x
        \/ DiscIn(wire', m, x)
    BY <2>1, <2>3, <1>1, <1>2 DEF DiscIn
  <2> QED
    BY <2>2, <2>4 DEF Agreed
<1> QED
  BY <1>3, <1>4, <1>5, <1>6, <1>7, <1>8 DEF LinkInv

\* The reader of a SetSessionId: the far end still waits, or is gone.
LEMMA SetterWaits ==
  ASSUME RelayInv, BindInv, LinkInv, NEW n \in Node, NEW x \in Stream, HandleSetSession(n, x)
  PROVE  /\ Head(wire[n][x]).sid = Sid /\ RoomFor(n, Head(wire[n][x]).role)
         /\ Head(wire[n][x]).role \in Role
         /\ x \in up[n] /\ listener[x] = n
         /\ \A k \in Node : \A t \in waiting[k] : k = Remote(n, x) /\ t.stream = x
         /\ Remote(n, x) \in alive => \E t \in waiting[Remote(n, x)] : t.stream = x
         /\ Remote(n, x) \notin alive => up[Remote(n, x)] = {}
         /\ (\E k \in Node : waiting[k] # {}) => x \notin Pair(n, Sid) /\ Remote(n, x) \in alive
<1> DEFINE m == Head(wire[n][x])
<1>1. /\ m \in Message /\ m.type = "Set" /\ acks = {}
      /\ 1 \in 1..Len(wire[n][x]) /\ m = wire[n][x][1]
  BY SetRead
<1>2. m.sid = Sid /\ RoomFor(n, m.role) /\ m.role \in Role
  BY <1>1 DEF LinkInv, SetRoom, Message
<1>3. x \in up[n] /\ listener[x] = n
  BY <1>1 DEF HandleSetSession, Reads, RelayInv, SetFirst
<1>4. Remote(n, x) = dialer[x] /\ dialer[x] \in Node
  BY <1>3, FarEnd DEF Remote, RelayInv, EndsDiffer
<1>5. \A k \in Node : \A t \in waiting[k] : k = Remote(n, x) /\ t.stream = x
  <2> SUFFICES ASSUME NEW k \in Node, NEW t \in waiting[k]
               PROVE  k = Remote(n, x) /\ t.stream = x
    OBVIOUS
  <2>1. t.stream = x
    BY <1>1 DEF BindInv, SetAwaited
  <2> QED
    BY <2>1, <1>4 DEF LinkInv, TaskDials
<1>6. Remote(n, x) \in alive => \E t \in waiting[Remote(n, x)] : t.stream = x
  BY <1>1 DEF BindInv, SetAwaited, Awaited
<1>7. Remote(n, x) \notin alive => up[Remote(n, x)] = {} /\ waiting[Remote(n, x)] = {}
  BY <1>4 DEF LinkInv, DeadIdle
<1>8. ASSUME NEW k \in Node, waiting[k] # {}
      PROVE  x \notin Pair(n, Sid) /\ Remote(n, x) \in alive
  <2>1. PICK t \in waiting[k] : TRUE
    BY <1>8
  <2>2. k = Remote(n, x) /\ t.stream = x
    BY <1>5
  <2>3. x \notin Pair(n, Sid)
    BY <2>2, <1>1, <1>3 DEF LinkInv, TaskAck
  <2> QED
    BY <2>2, <2>3, <1>7, <1>8
<1> QED
  BY <1>2, <1>3, <1>5, <1>6, <1>7, <1>8

\* The stream joins the session; another may give way to it.
LEMMA JoinLinks ==
  ASSUME RelayInv, BindInv, LinkInv, NEW n \in Node, NEW x \in Stream, HandleSetSession(n, x),
         UNCHANGED up, Keeps(wire', {}),
         \A k \in Node : k # n => sessionMap'[k][Sid] = sessionMap[k][Sid],
         x \in Pair(n, Sid)', \A y \in Pair(n, Sid)' : y = x \/ y \in Pair(n, Sid),
         \A y \in Pair(n, Sid) \cap up[n] :
           \/ y \in Pair(n, Sid)' \/ y \notin up[Remote(n, y)]
           \/ DiscIn(wire', Remote(n, y), y),
         Acked(n, x, Head(wire[n][x]), TRUE)
  PROVE  LinkInv'
<1> DEFINE m == Head(wire[n][x])
<1>1. UNCHANGED <<alive, dialer, listener, mailbox, waiting>>
  BY DEF HandleSetSession, streamVars
<1>2. acks = {} /\ NoSets' /\ SetAt(n, x)
  BY SetRead
<1>3. x \in up[n] /\ listener[x] = n
  BY SetterWaits
<1>4. PICK d \in Node : d = Remote(n, x) /\ d # n
  BY <1>3, FarEnd
<1>5. /\ \A k \in Node : \A t \in waiting[k] : k = d /\ t.stream = x
      /\ d \in alive => \E t \in waiting[d] : t.stream = x
      /\ d \notin alive => up[d] = {}
      /\ (\E k \in Node : waiting[k] # {}) => d \in alive
  BY <1>4, SetterWaits
<1>6. NewRoom'
  <2>1. \A k \in Node : \A i \in DOMAIN mailbox[k] :
          mailbox[k][i].op # "New" /\ mailbox[k][i].sid = Sid
    BY <1>2 DEF BindInv, NewApart, NoSets, LinkInv, NewRoom, Roomy
  <2> QED
    BY <2>1, <1>1 DEF NewRoom, Roomy
<1>7. SetRoom'
  BY <1>2 DEF SetRoom, NoSets, SetAt
<1>8. TaskRoom' /\ TaskDials' /\ DeadIdle'
  BY <1>1, <1>4, <1>5 DEF LinkInv, TaskRoom, TaskDials, DeadIdle, Load
<1>9. TaskAck'
  <2> SUFFICES ASSUME NEW k \in Node, NEW t \in waiting[k]
               PROVE  \E a \in acks' : a.ok
    BY <1>1 DEF TaskAck
  <2>1. Remote(n, x) \in alive
    BY <1>4, <1>5
  <2> DEFINE b == [to |-> Remote(n, x), stream |-> x, sid |-> m.sid, role |-> m.role, ok |-> TRUE]
  <2>2. b \in acks'
    BY <2>1 DEF Acked
  <2>3. b.ok = TRUE
    OBVIOUS
  <2> QED
    BY <2>2, <2>3
<1>10. AckAgrees'
  <2> SUFFICES ASSUME NEW a \in acks'
               PROVE  a.ok /\ a.stream = x
    BY <1>1, <1>3 DEF AckAgrees, Pair
  <2> QED
    BY <1>2 DEF Acked
<1>11. AllAgreed'
  <2> SUFFICES ASSUME NEW k \in Node, NEW y \in Pair(k, Sid)' \cap up[k]
               PROVE  Agreed(k, y)'
    BY DEF AllAgreed
  <2>1. PICK r \in Node : r = Remote(k, y) /\ r = Remote(k, y)' /\ Remote(r, y) = k
    BY <1>1, FarEnd DEF Remote
  <2>2. y \in Stream
    BY FarEnd
  <2>3. CASE k = n /\ y = x
    <3>1. r = d
      BY <2>1, <2>3, <1>4
    <3>2. y \notin up[r] \/ \E t \in waiting[r] : t.stream = y
      BY <3>1, <2>3, <1>5
    <3> QED
      BY <3>2, <2>1, <1>1 DEF Agreed
  <2>4. CASE ~ (k = n /\ y = x)
    <3>1. y \in Pair(k, Sid)
      BY <2>4 DEF Pair
    <3>2. Agreed(k, y)
      BY <3>1 DEF LinkInv, AllAgreed
    <3>3. DiscIn(wire, k, y) => DiscIn(wire', k, y)
      BY <2>2 DEF Keeps
    <3>4. y \in Pair(r, Sid) /\ y \in up[r] => y \in Pair(r, Sid)' \/ DiscIn(wire', k, y)
      <4>1. CASE r # n
        BY <4>1 DEF Pair
      <4>2. CASE r = n
        BY <4>2, <2>1
      <4> QED
        BY <4>1, <4>2
    <3> QED
      BY <3>2, <3>3, <3>4, <2>1, <1>1 DEF Agreed
  <2> QED
    BY <2>3, <2>4
<1> QED
  BY <1>6, <1>7, <1>8, <1>9, <1>10, <1>11 DEF LinkInv

LEMMA SetSessionLinks ==
  ASSUME RelayInv, BindInv, LinkInv, NEW n \in Node, NEW x \in Stream, HandleSetSession(n, x)
  PROVE  LinkInv'
<1> DEFINE m == Head(wire[n][x])
           w == Pop(n, x)
<1>0. TypeOK
  BY DEF RelayInv
<1>1. UNCHANGED <<alive, dialer, listener, mailbox, waiting>>
  BY DEF HandleSetSession, streamVars
<1>2. wire[n][x] # <<>> /\ m.type = "Set" /\ acks = {}
  BY SetRead
<1>3. m.sid = Sid /\ RoomFor(n, m.role) /\ m.role \in Role /\ listener[x] = n
  BY SetterWaits
<1>4. CalmWire(w) /\ Keeps(w, {}) /\ w \in WireType
  BY <1>0, <1>2, CalmPop, KeepsPop DEF Keeps
<1>5. SameTasks /\ \A k \in Node : \A j \in DOMAIN mailbox'[k] : Roomy(k, mailbox'[k][j])
  BY <1>1 DEF SameTasks, LinkInv, NewRoom
<1>6. CASE RejectSetSession(n, x, m)
  <2>1. OnlyWrite(w) /\ Acked(n, x, m, FALSE)
    BY <1>6 DEF RejectSetSession
  <2>2. Quiet
    BY <2>1, <1>0, <1>4, OnlyWriteCalm, OnlyWriteGentle, GentleSoft DEF Quiet, OnlyWrite
  <2>3. UNCHANGED sessionMap
    BY <2>1 DEF OnlyWrite
  <2>4. (\E k \in Node : waiting[k] # {}) => x \notin Pair(n, Sid)
    BY SetterWaits
  <2>5. \A k \in Node : \A t \in waiting[k] : t.stream = x
    BY SetterWaits
  <2>6. TaskAck'
    BY <2>3, <2>4, <2>5, <1>1, <1>3 DEF TaskAck, Pair
  <2>7. AckAgrees'
    <3> SUFFICES ASSUME NEW a \in acks'
                 PROVE  ~ a.ok /\ a.stream = x /\ x \notin Pair(n, Sid)
      BY <2>3, <1>1, <1>3 DEF AckAgrees, Pair
    <3>1. Remote(n, x) \in alive /\ ~ a.ok /\ a.stream = x
      BY <2>1, <1>2 DEF Acked
    <3>2. \E t \in waiting[Remote(n, x)] : TRUE
      BY <3>1, SetterWaits
    <3>3. Remote(n, x) \in Node
      BY <3>1, <1>0 DEF TypeOK
    <3> QED
      BY <3>1, <3>2, <3>3, <2>4
  <2> QED
    BY <2>2, <2>6, <2>7, <1>1, <1>5, QuietLinks
<1>7. CASE RefuseHalfEntry(n, x, m)
  <2>1. CloseCircuit(n, Sid, w) /\ UNCHANGED acks
    BY <1>3, <1>7 DEF RefuseHalfEntry
  <2>2. Quiet
    <3> HIDE DEF w
    <3> QED
      BY <2>1, <1>0, <1>4, Roles, CloseCircuitCalm, CloseCircuitGentle, GentleSoft DEF Quiet
  <2> QED
    BY <2>1, <2>2, <1>1, <1>5, QuietLinks
<1>8. CASE JoinSession(n, x, m)
  <2>1. /\ UNCHANGED up /\ wire' = w /\ Acked(n, x, m, TRUE)
        /\ sessionMap' = [sessionMap EXCEPT ![n][Sid] = Joined(n, Sid, x, m.role)]
    BY <1>3, <1>8 DEF JoinSession
  <2>2. Load(n) <= 1
    BY <1>3, <1>8 DEF JoinSession, EntryIsRelay, RoomFor
  <2>3. /\ sessionMap'[n][Sid] = Joined(n, Sid, x, m.role)
        /\ \A k \in Node : k # n => sessionMap'[k][Sid] = sessionMap[k][Sid]
    BY <2>1, <1>0, Roles DEF TypeOK
  <2>4. Pair(n, Sid)' = Pair(n, Sid) \cup {x}
    BY <2>2, <2>3, <1>0, <1>3, JoinedRoom DEF Pair
  <2> QED
    BY <2>1, <2>3, <2>4, <1>4, JoinLinks
<1>9. CASE SwapJoint(n, x, m)
  <2> DEFINE p == sessionMap[n][Sid].pair
             v == Emit(w, n, {p[2]}, Msg("Disc", Sid))
  <2>1. /\ UNCHANGED up /\ wire' = v /\ Acked(n, x, m, TRUE) /\ Len(p) = 2
        /\ sessionMap' = [sessionMap EXCEPT ![n][Sid].pair = <<@[1], x>>]
    BY <1>3, <1>9 DEF SwapJoint, TellJoint, IsReady
  <2>2. /\ sessionMap'[n][Sid].pair = <<p[1], x>>
        /\ \A k \in Node : k # n => sessionMap'[k][Sid] = sessionMap[k][Sid]
    <3>1. sessionMap'[n][Sid] = [sessionMap[n][Sid] EXCEPT !.pair = <<p[1], x>>]
      BY <2>1, <1>0, Roles DEF TypeOK
    <3>2. sessionMap[n][Sid] \in [role : Role \cup {"None"}, pair : Seq(Stream)]
      BY <1>0, Roles DEF TypeOK, SessionType
    <3>3. sessionMap'[n][Sid].pair = <<p[1], x>>
      BY <3>1, <3>2
    <3> QED
      BY <2>1, <3>3, <1>0, Roles DEF TypeOK
  <2>3. Pair(n, Sid) = {p[1], p[2]} /\ Pair(n, Sid)' = {p[1], x}
    <3>1. \A s, a, b : s.pair = <<a, b>> => StreamsIn(s) = {a, b}
      BY DEF StreamsIn
    <3>2. p \in Seq(Stream)
      BY <1>0, Roles DEF TypeOK, SessionType
    <3>3. p = <<p[1], p[2]>>
      BY <2>1, <3>2
    <3> QED
      BY <2>2, <3>1, <3>3 DEF Pair
  <2>4. Msg("Disc", Sid) \in Message /\ Msg("Disc", Sid).type = "Disc"
    BY Roles, MsgType DEF Msg
  <2>5. Keeps(wire', {})
    BY <2>1, <2>4, <1>4, KeepsEmit
  <2>6. ASSUME NEW y \in Pair(n, Sid) \cap up[n], y \notin Pair(n, Sid)', y \in up[Remote(n, y)]
        PROVE  DiscIn(wire', Remote(n, y), y)
    <3>1. y = p[2]
      BY <2>3, <2>6
    <3>2. PICK k \in Node : k = Remote(n, y)
      BY FarEnd
    <3>3. y \in Stream /\ w[k][y] \in Seq(Message)
      BY <1>4, FarEnd DEF WireType
    <3>4. v[k][y] = Append(w[k][y], Msg("Disc", Sid))
      BY <2>6, <3>1, <3>2, <3>3 DEF Emit
    <3>5. v[k][y][Len(v[k][y])] = Msg("Disc", Sid) /\ Len(v[k][y]) \in 1..Len(v[k][y])
      BY <3>3, <3>4, <2>4
    <3> HIDE DEF v
    <3> QED
      BY <3>2, <3>5, <2>1, <2>4 DEF DiscIn
  <2> HIDE DEF v, p
  <2>7. x \in Pair(n, Sid)' /\ \A y \in Pair(n, Sid)' : y = x \/ y \in Pair(n, Sid)
    BY <2>3
  <2> QED
    BY <2>1, <2>2, <2>5, <2>6, <2>7, JoinLinks
<1> QED
  BY <1>6, <1>7, <1>8, <1>9 DEF HandleSetSession

-----------------------------------------------------------------------------
(* Where there is room, from stage to stage *)

Empty(n) == Load(n) = 0
Light(n) == n \in Node => Load(n) <= 1
OnlyIn(S) == \A n \in Node \ S : Empty(n)

EntryRole == Has(EntryNode, Sid) => sessionMap[EntryNode][Sid].role = "Entry"

\* The binding that who at n has asked for has been accepted.
Fruit(n, who) == (\E a \in acks : a.ok /\ a.to = n) \/ Told(n, who, {"ok"})

\* No manager has two answers to read.
AnswerOne == \A a, b \in answers : a.at = b.at /\ a.who = b.who => a = b

\* Whom each manager binds at its present place.
Target(who) ==
  CASE who = "user"   -> EntryNode
    [] who = "proxy"  -> IF entry.pc = "joint" THEN entry.joint ELSE Answerer
    [] who = "gossip" -> IF exit.pc = "answer" THEN Answerer ELSE exit.relay
    [] OTHER          -> cmd.joint

\* At both ends of the stream between them the entry node is bound as such.
EntryBound(who, my, other) ==
  /\ who = "user" => other = "Entry"
  /\ who = "proxy" /\ entry.pc = "joint" => my = "Entry"

Tied ==
  \A n \in Node :
    /\ \A i \in DOMAIN mailbox[n] :
         LET r == mailbox[n][i]
         IN  r.op = "New" /\ r.who # "gone"
               => r.peer = Target(r.who) /\ EntryBound(r.who, r.my, r.other)
    /\ \A t \in waiting[n] :
         t.who # "gone" => listener[t.stream] = Target(t.who) /\ EntryBound(t.who, t.my, t.other)

\* At most the caller and its proxy have a session, and there is room at the proxy.
Started == OnlyIn({Caller, EntryNode}) /\ Light(EntryNode) /\ EntryRole

UserRoom ==
  /\ user = "idle" => OnlyIn({})
  /\ user = "setting" => OnlyIn({}) \/ Fruit(Caller, "user")
  /\ user \in {"idle", "setting", "opening"} => Started
  /\ MailOf("NewCircuit") => Started

EntryRoom ==
  /\ entry.joint # EntryNode
  /\ entry.pc = "get" => Started
  /\ entry.pc = "joint" =>
       /\ EntryNode # ExitNode /\ EntryRole
       /\ \/ Started
          \/ /\ Fruit(EntryNode, "proxy")
             /\ OnlyIn({Caller, EntryNode, entry.joint}) /\ Light(entry.joint)

GossipRoom ==
  \A m \in msgs : m.type = "Gossip" =>
    /\ EntryNode # ExitNode /\ m.joint # EntryNode /\ EntryRole
    /\ OnlyIn({Caller, EntryNode, m.joint}) /\ Light(m.joint)

\* The exit node knows the joint node; the relay node has no session yet, or is the
\* entry node.
Reached == OnlyIn({Caller, EntryNode, exit.joint, ExitNode, Answerer}) /\ EntryRole

ExitRoom ==
  /\ exit.pc \in {"idle", "answer"} => exit.relay = NoNode
  /\ exit.pc \in {"answer", "relay"} =>
       /\ EntryNode # ExitNode /\ exit.joint # EntryNode
       /\ exit.joint # ExitNode => Light(exit.joint)
  /\ exit.pc = "answer" =>
       /\ Reached
       /\ exit.joint # ExitNode =>
            Empty(ExitNode) \/ (Light(ExitNode) /\ Told(ExitNode, "gossip", {"ok"}))
  /\ exit.pc = "relay" =>
       /\ exit.joint # ExitNode /\ (exit.relay = NoNode \/ exit.relay # exit.joint)
       /\ (Reached /\ Light(ExitNode)) \/ Fruit(ExitNode, "gossip")

CmdRoom ==
  /\ \A m \in msgs : m.type = "Expend" => Light(m.joint)
  /\ cmd.pc = "get" =>
       Light(cmd.joint) /\ (Told(cmd.at, "cmd", {"half"}) => Light(cmd.at))

Rooms == UserRoom /\ EntryRoom /\ GossipRoom /\ ExitRoom /\ CmdRoom

\* No session gets more streams.
Lighter ==
  /\ \A n \in Node : Empty(n) => Empty(n)'
  /\ \A n : Light(n) => Light(n)'
  /\ EntryRole => EntryRole'

LEMMA QuietLighter ==
  ASSUME TypeOK, Quiet
  PROVE  Lighter
<1>1. /\ \A m \in Node : Load(m)' = Load(m) \/ Load(m)' = 0
      /\ \A m \in Node : Load(m)' # 0 => sessionMap'[m][Sid] = sessionMap[m][Sid]
  BY QuietLoads
<1>2. \A n \in Node : Empty(n) => Empty(n)'
  BY <1>1 DEF Empty
<1>3. \A n : Light(n) => Light(n)'
  BY <1>1 DEF Light
<1>4. EntryRole => EntryRole'
  <2>1. \/ sessionMap'[EntryNode][Sid] = sessionMap[EntryNode][Sid]
        \/ sessionMap'[EntryNode][Sid] = NoSession
    BY Roles DEF Quiet, Soft
  <2> QED
    BY <2>1 DEF EntryRole, Has
<1> QED
  BY <1>2, <1>3, <1>4 DEF Lighter

LEMMA SameLighter ==
  ASSUME \A n \in Node : sessionMap'[n][Sid] = sessionMap[n][Sid]
  PROVE  Lighter
BY Roles DEF Lighter, Empty, Light, Load, EntryRole, Has

LEMMA EmptyLight == \A n : (n \in Node => Empty(n)) => Light(n)
BY DEF Empty, Light

\* The parts of the invariant are kept where no manager acts.
LEMMA UserKept ==
  ASSUME UserRoom, Lighter, user' \in {"idle", "setting", "opening"} => user' = user,
         MailOf("NewCircuit")' => MailOf("NewCircuit"),
         user' = "setting" => (Fruit(Caller, "user") => Fruit(Caller, "user")')
  PROVE  UserRoom'
<1>1. (OnlyIn({}) => OnlyIn({})') /\ (Started => Started')
  BY DEF Lighter, OnlyIn, Started
<1>2. user' \in {"idle", "setting", "opening"} => Started'
  BY <1>1 DEF UserRoom
<1>3. MailOf("NewCircuit")' => Started'
  BY <1>1 DEF UserRoom
<1> HIDE DEF Started
<1> QED
  BY <1>1, <1>2, <1>3 DEF UserRoom

LEMMA EntryKept ==
  ASSUME EntryRoom, Lighter, entry'.joint = entry.joint,
         entry'.pc \in {"get", "joint"} => entry'.pc = entry.pc,
         entry'.pc = "joint" => (Fruit(EntryNode, "proxy") => Fruit(EntryNode, "proxy")')
  PROVE  EntryRoom'
<1>1. Started => Started'
  BY DEF Lighter, OnlyIn, Started
<1>2. OnlyIn({Caller, EntryNode, entry.joint}) => OnlyIn({Caller, EntryNode, entry.joint})'
  BY DEF Lighter, OnlyIn
<1>3. (Light(entry.joint) => Light(entry.joint)') /\ (EntryRole => EntryRole')
  BY DEF Lighter, Light
<1> QED
  BY <1>1, <1>2, <1>3 DEF EntryRoom

LEMMA GossipKept ==
  ASSUME GossipRoom, Lighter, \A m \in msgs' : m.type = "Gossip" => m \in msgs
  PROVE  GossipRoom'
<1> SUFFICES ASSUME NEW m \in msgs', m.type = "Gossip"
             PROVE  /\ EntryNode # ExitNode /\ m.joint # EntryNode /\ EntryRole'
                    /\ OnlyIn({Caller, EntryNode, m.joint})' /\ Light(m.joint)'
  BY DEF GossipRoom
<1>1. /\ EntryNode # ExitNode /\ m.joint # EntryNode /\ EntryRole
      /\ OnlyIn({Caller, EntryNode, m.joint}) /\ Light(m.joint)
  BY DEF GossipRoom
<1>2. OnlyIn({Caller, EntryNode, m.joint})'
  BY <1>1 DEF Lighter, OnlyIn
<1> QED
  BY <1>1, <1>2 DEF Lighter

LEMMA ExitKept ==
  ASSUME ExitRoom, Lighter, exit'.joint = exit.joint, exit'.relay = exit.relay,
         exit'.pc \in {"idle", "answer", "relay"} => exit'.pc = exit.pc,
         exit'.pc \in {"answer", "relay"} =>
           /\ Fruit(ExitNode, "gossip") => Fruit(ExitNode, "gossip")'
           /\ Told(ExitNode, "gossip", {"ok"}) => Told(ExitNode, "gossip", {"ok"})'
  PROVE  ExitRoom'
<1>1. Reached => Reached'
  BY DEF Lighter, OnlyIn, Reached
<1>2. (Light(exit.joint) => Light(exit.joint)') /\ (Light(ExitNode) => Light(ExitNode)')
  BY DEF Lighter, Light
<1>3. Empty(ExitNode) => Empty(ExitNode)'
  BY Roles DEF Lighter
<1> QED
  BY <1>1, <1>2, <1>3 DEF ExitRoom

LEMMA CmdKept ==
  ASSUME CmdRoom, Lighter, \A m \in msgs' : m.type = "Expend" => m \in msgs \/ Light(m.joint),
         cmd'.pc = "get" =>
           /\ cmd' = cmd
           /\ Told(cmd.at, "cmd", {"half"})' => Told(cmd.at, "cmd", {"half"}) \/ Light(cmd.at)'
  PROVE  CmdRoom'
<1>1. ASSUME cmd'.pc = "get"
      PROVE  Light(cmd.joint)' /\ (Told(cmd.at, "cmd", {"half"})' => Light(cmd.at)')
  <2>1. (Light(cmd.joint) => Light(cmd.joint)') /\ (Light(cmd.at) => Light(cmd.at)')
    BY <1>1 DEF Lighter, Light
  <2> QED
    BY <2>1, <1>1 DEF CmdRoom
<1>2. \A m \in msgs' : m.type = "Expend" => Light(m.joint)'
  BY DEF CmdRoom, Lighter
<1> QED
  BY <1>1, <1>2 DEF CmdRoom

\* The relay layer acts, and no manager.
LEMMA LayerFrame ==
  ASSUME Rooms, Lighter, UNCHANGED mgrVars,
         \A n, who : Told(n, who, {"ok"}) => Told(n, who, {"ok"})',
         \A n, who : Fruit(n, who) => Fruit(n, who)',
         Told(cmd.at, "cmd", {"half"})' => Told(cmd.at, "cmd", {"half"}) \/ Light(cmd.at)'
  PROVE  Rooms'
<1>1. UNCHANGED <<user, entry, exit, cmd, msgs>>
  BY DEF mgrVars
<1>2. UserRoom'
  BY <1>1, UserKept DEF Rooms, MailOf
<1>3. EntryRoom'
  BY <1>1, EntryKept DEF Rooms
<1>4. GossipRoom'
  BY <1>1, GossipKept DEF Rooms
<1>5. ExitRoom'
  BY <1>1, ExitKept DEF Rooms
<1>6. CmdRoom'
  BY <1>1, CmdKept DEF Rooms
<1> QED
  BY <1>2, <1>3, <1>4, <1>5, <1>6 DEF Rooms

StageInv == AnswerOne /\ Tied /\ Rooms

\* The actor answers a call that is open.
LEMMA ReplyOne ==
  ASSUME OneCall, AnswerOne, NEW n \in Node, NEW who, NEW val, who = "gone" \/ Pending(n, who),
         Reply(n, who, val)
  PROVE  /\ AnswerOne'
         /\ \A m, w, vals : Told(m, w, vals) => Told(m, w, vals)'
         /\ \A m, w, vals : Told(m, w, vals)' =>
              Told(m, w, vals) \/ (m = n /\ w = who /\ val \in vals)
         /\ who # "gone" => Told(n, who, {val})'
<1>1. CASE who = "gone"
  <2>1. answers' = answers
    BY <1>1 DEF Reply
  <2> QED
    BY <1>1, <2>1 DEF AnswerOne, Told
<1>2. CASE who # "gone"
  <2> DEFINE b == [at |-> n, who |-> who, val |-> val]
  <2>1. answers' = answers \cup {b}
    BY <1>2 DEF Reply
  <2>2. b.at = n /\ b.who = who /\ b.val = val
    OBVIOUS
  <2> HIDE DEF b
  <2>3. \A a \in answers : ~ (a.at = n /\ a.who = who)
    BY <1>2 DEF OneCall
  <2>4. AnswerOne'
    BY <2>1, <2>2, <2>3 DEF AnswerOne
  <2>5. \A m, w, vals : Told(m, w, vals) => Told(m, w, vals)'
    BY <2>1 DEF Told
  <2>6. \A m, w, vals : Told(m, w, vals)' =>
          Told(m, w, vals) \/ (m = n /\ w = who /\ val \in vals)
    BY <2>1, <2>2 DEF Told
  <2>7. Told(n, who, {val})'
    BY <2>1, <2>2 DEF Told
  <2> QED
    BY <2>4, <2>5, <2>6, <2>7
<1> QED
  BY <1>1, <1>2

LEMMA TiedShrinks ==
  ASSUME Tied, UNCHANGED <<entry, exit, cmd, listener>>,
         \A m \in Node : waiting'[m] \subseteq waiting[m],
         \A m \in Node : \A i \in DOMAIN mailbox'[m] :
           \E j \in DOMAIN mailbox[m] : mailbox'[m][i] = mailbox[m][j]
  PROVE  Tied'
<1>1. /\ \A who : Target(who)' = Target(who)
      /\ \A who, my, other : EntryBound(who, my, other) => EntryBound(who, my, other)'
  BY DEF Target, EntryBound
<1> SUFFICES ASSUME NEW n \in Node
             PROVE  /\ \A i \in DOMAIN mailbox'[n] :
                         mailbox'[n][i].op = "New" /\ mailbox'[n][i].who # "gone" =>
                           /\ mailbox'[n][i].peer = Target(mailbox[n][i].who)'
                           /\ EntryBound(mailbox[n][i].who, mailbox[n][i].my,
                                         mailbox[n][i].other)'
                    /\ \A t \in waiting'[n] : t.who # "gone" =>
                         /\ listener'[t.stream] = Target(t.who)'
                         /\ EntryBound(t.who, t.my, t.other)'
  BY DEF Tied
<1>2. ASSUME NEW i \in DOMAIN mailbox'[n], mailbox'[n][i].op = "New",
             mailbox'[n][i].who # "gone"
      PROVE  /\ mailbox'[n][i].peer = Target(mailbox[n][i].who)'
             /\ EntryBound(mailbox[n][i].who, mailbox[n][i].my, mailbox[n][i].other)'
  <2>1. PICK r : r = mailbox'[n][i]
    OBVIOUS
  <2>2. r.peer = Target(r.who) /\ EntryBound(r.who, r.my, r.other)
    BY <2>1, <1>2 DEF Tied
  <2>3. r.peer = Target(r.who)' /\ EntryBound(r.who, r.my, r.other)'
    BY <2>2, <1>1
  <2> QED
    BY <2>1, <2>3 DEF Target, EntryBound
<1>3. ASSUME NEW t \in waiting'[n], t.who # "gone"
      PROVE  listener'[t.stream] = Target(t.who)' /\ EntryBound(t.who, t.my, t.other)'
  BY <1>1, <1>3 DEF Tied
<1> QED
  BY <1>2, <1>3

\* The relay layer does nothing that adds a stream to a session.
LEMMA LayerStage ==
  ASSUME OneCall, StageInv, Lighter, UNCHANGED <<mgrVars, listener>>,
         \A n : (\E a \in acks : a.ok /\ a.to = n) => (\E a \in acks' : a.ok /\ a.to = n),
         \A m \in Node : waiting'[m] \subseteq waiting[m],
         \A m \in Node : \A i \in DOMAIN mailbox'[m] :
           \E j \in DOMAIN mailbox[m] : mailbox'[m][i] = mailbox[m][j],
         \/ UNCHANGED answers
         \/ \E n \in Node : \E who, val :
              /\ who = "gone" \/ Pending(n, who)
              /\ Reply(n, who, val) /\ (val = "half" => Light(n)')
  PROVE  StageInv'
<1>1. UNCHANGED <<entry, exit, cmd>>
  BY DEF mgrVars
<1>2. Tied'
  BY <1>1, TiedShrinks DEF StageInv
<1>3. /\ AnswerOne'
      /\ \A m, w, vals : Told(m, w, vals) => Told(m, w, vals)'
      /\ Told(cmd.at, "cmd", {"half"})' => Told(cmd.at, "cmd", {"half"}) \/ Light(cmd.at)'
  <2>1. CASE UNCHANGED answers
    BY <2>1, <1>1 DEF StageInv, AnswerOne, Told
  <2>2. ASSUME NEW n \in Node, NEW who, NEW val, who = "gone" \/ Pending(n, who),
               Reply(n, who, val), val = "half" => Light(n)'
        PROVE  <1>3!:
    <3>1. /\ AnswerOne'
          /\ \A m, w, vals : Told(m, w, vals) => Told(m, w, vals)'
          /\ \A m, w, vals : Told(m, w, vals)' =>
               Told(m, w, vals) \/ (m = n /\ w = who /\ val \in vals)
      BY <2>2, ReplyOne DEF StageInv
    <3>2. ASSUME NEW k, k = cmd.at, Told(k, "cmd", {"half"})'
          PROVE  Told(k, "cmd", {"half"}) \/ Light(k)'
      BY <3>1, <3>2, <2>2
    <3>3. Told(cmd.at, "cmd", {"half"})' => Told(cmd.at, "cmd", {"half"}) \/ Light(cmd.at)'
      BY <3>2, <1>1 DEF Told, Light
    <3> QED
      BY <3>1, <3>3
  <2> QED
    BY <2>1, <2>2
<1>4. \A m, w : Fruit(m, w) => Fruit(m, w)'
  BY <1>3 DEF Fruit
<1>5. Rooms'
  BY <1>3, <1>4, LayerFrame DEF StageInv
<1> QED
  BY <1>2, <1>3, <1>5 DEF StageInv

\* A binding is made at one stage, and the other managers have no say in it.
LEMMA TaskStage ==
  ASSUME TypeOK, ApartInv, NEW n \in Node, NEW t \in waiting[n]
  PROVE  /\ MayBind(n, t.who)
         /\ \E p \in {1, 3, 5, 7, 8} : /\ Home(t.who, p) /\ Stage(p)
                                       /\ \A s \in 1..8 : Stage(s) => s = p
<1>1. t.who \in Asker
  BY DEF TypeOK, Task
<1>2. Binding(n, t.who)
  BY DEF Binding
<1>3. PICK p \in 1..8 : Home(t.who, p) /\ Stage(p)
  BY <1>1, <1>2, BindingStage DEF ApartInv
<1>4. p \in {1, 3, 5, 7, 8}
  BY <1>3 DEF Home
<1>5. \A s \in 1..8 : Stage(s) => s = p
  BY <1>3 DEF ApartInv, OneStage
<1>6. MayBind(n, t.who)
  BY <1>1, <1>2 DEF ApartInv, Owned
<1> QED
  BY <1>3, <1>4, <1>5, <1>6

\* A joint or a relay node is no client.
LEMMA JointServer ==
  ASSUME CircuitTypeOK
  PROVE  /\ entry.joint \notin Client /\ exit.joint \notin Client /\ exit.relay \notin Client
         /\ \A m \in msgs : m.joint \notin Client
         /\ Caller \in Client /\ Answerer \in Client /\ EntryNode \notin Client
         /\ ExitNode \notin Client /\ entry.joint # Caller /\ Caller # Answerer
<1>1. \A j \in Server \cup {NoNode} : j \notin Client
  BY ClientAssumption, NoNodeAssumption DEF Server
<1>2. /\ entry.joint \in Server \cup {NoNode} /\ exit.joint \in Server \cup {NoNode}
      /\ exit.relay \in Server \cup {NoNode}
  BY DEF CircuitTypeOK, EntryState, ExitState
<1>3. \A m \in msgs : m.joint \in Server \cup {NoNode}
  BY DEF CircuitTypeOK, ManagerMsg
<1>4. Caller \in Client /\ Answerer \in Client /\ Caller # Answerer
  BY CircuitAssumption
<1> QED
  BY <1>1, <1>2, <1>3, <1>4, Roles

LEMMA RoomsBut ==
  ASSUME Rooms, UNCHANGED mgrVars, NEW p \in {1, 3, 5, 7, 8},
         \A s \in 1..8 : Stage(s) => s = p,
         p = 1 => UserRoom', p = 3 => EntryRoom', p = 5 => ExitRoom', cmd.pc # "get"
  PROVE  Rooms'
<1>1. UNCHANGED <<user, entry, exit, cmd, msgs>>
  BY DEF mgrVars
<1>2. /\ p # 1 => user \notin {"idle", "setting", "opening"}
      /\ p # 3 => entry.pc \notin {"get", "sameNew", "joint"}
      /\ p # 5 => exit.pc \notin {"answer", "relay"}
      /\ ~ MailOf("NewCircuit") /\ ~ MailOf("Gossip") /\ ~ MailOf("Expend")
  <2> USE StageIs
  <2>1. p # 1 => ~ Stage(1)
    OBVIOUS
  <2>2. p # 3 => ~ Stage(3)
    OBVIOUS
  <2>3. p # 5 => ~ Stage(5)
    OBVIOUS
  <2>4. ~ Stage(2) /\ ~ Stage(4) /\ ~ Stage(6)
    OBVIOUS
  <2> QED
    BY <2>1, <2>2, <2>3, <2>4
<1>3. UserRoom'
  BY <1>1, <1>2 DEF UserRoom, MailOf
<1>4. EntryRoom'
  BY <1>1, <1>2 DEF EntryRoom, Rooms
<1>5. GossipRoom' /\ CmdRoom'
  BY <1>1, <1>2 DEF GossipRoom, CmdRoom, MailOf
<1>6. ExitRoom'
  BY <1>1, <1>2 DEF ExitRoom, Rooms
<1> QED
  BY <1>3, <1>4, <1>5, <1>6 DEF Rooms

\* One stream more in the session of n, and nowhere else.
Gains(n, role) ==
  /\ Load(n)' = Load(n) + 1
  /\ sessionMap'[n][Sid].role = IF Has(n, Sid) THEN sessionMap[n][Sid].role ELSE role
  /\ \A m \in Node : m # n => sessionMap'[m][Sid] = sessionMap[m][Sid]

LEMMA JoinedGains ==
  ASSUME TypeOK, NEW n \in Node, NEW x \in Stream, NEW role \in Role, Load(n) <= 1,
         sessionMap' = [sessionMap EXCEPT ![n][Sid] = Joined(n, Sid, x, role)]
  PROVE  Gains(n, role)
<1>1. /\ sessionMap'[n][Sid] = Joined(n, Sid, x, role)
      /\ \A m \in Node : m # n => sessionMap'[m][Sid] = sessionMap[m][Sid]
  BY Roles DEF TypeOK
<1> QED
  BY <1>1, JoinedRoom DEF Gains, Load

LEMMA GainsRoom ==
  ASSUME TypeOK, NEW n \in Node, NEW role, Gains(n, role)
  PROVE  /\ \A m \in Node : m # n => (Empty(m) => Empty(m)')
         /\ \A m : m # n => (Light(m) => Light(m)')
         /\ Empty(n) => Light(n)'
         /\ EntryRole /\ (n = EntryNode => role = "Entry") => EntryRole'
<1>1. \A m \in Node : m # n => Load(m)' = Load(m)
  BY DEF Gains, Load
<1>2. Empty(n) => Light(n)'
  BY DEF Gains, Empty, Light
<1>3. EntryRole /\ (n = EntryNode => role = "Entry") => EntryRole'
  BY Roles DEF EntryRole, Has, Gains
<1> QED
  BY <1>1, <1>2, <1>3 DEF Empty, Light

\* Joined or not, there is room at the joint node for the stream of the relay node.
LEMMA JointLight ==
  ASSUME CircuitTypeOK, EntryRoom, entry.pc = "joint"
  PROVE  /\ EntryNode # ExitNode /\ EntryRole
         /\ OnlyIn({Caller, EntryNode, entry.joint}) /\ Light(entry.joint)
<1>1. CASE Started
  <2>1. OnlyIn({Caller, EntryNode, entry.joint})
    BY <1>1 DEF Started, OnlyIn
  <2>2. entry.joint \in Node => Empty(entry.joint)
    BY <1>1, JointServer DEF Started, OnlyIn, EntryRoom
  <2> QED
    BY <2>1, <2>2, EmptyLight DEF EntryRoom
<1>2. CASE ~ Started
  BY <1>2 DEF EntryRoom
<1> QED
  BY <1>1, <1>2

\* The binding that was acknowledged becomes part of the session.
LEMMA AckStage ==
  ASSUME TypeOK, CircuitTypeOK, ApartInv, LinkInv, StageInv, NEW n \in Node, NEW a, NEW t,
         AckArrives(n, a, t), a.ok, UNCHANGED mgrVars
  PROVE  StageInv'
<1>1. /\ t \in waiting[n] /\ Reply(n, t.who, "ok") /\ UNCHANGED <<mailbox, listener>>
      /\ waiting' = [waiting EXCEPT ![n] = @ \ {t}]
      /\ sessionMap' = [sessionMap EXCEPT ![n][t.sid] = Joined(n, t.sid, t.stream, t.my)]
  BY DEF AckArrives, SessionSet, streamVars
<1>2. UNCHANGED <<user, entry, exit, cmd, msgs>>
  BY DEF mgrVars
<1>3. Pending(n, t.who) /\ OneCall
  BY <1>1 DEF Pending, ApartInv
<1>4. /\ AnswerOne' /\ (t.who # "gone" => Told(n, t.who, {"ok"})')
  BY <1>1, <1>3, ReplyOne DEF StageInv
<1>5. \A vals : ~ Told(n, t.who, vals)
  BY <1>3 DEF Told, OneCall
<1>6. Tied'
  BY <1>1, <1>2, TiedShrinks DEF StageInv, TypeOK
<1>7. Gains(n, t.my)
  <2>1. t.sid = Sid /\ Load(n) <= 1
    BY <1>1 DEF LinkInv, TaskRoom
  <2>2. t.stream \in Stream /\ t.my \in Role
    BY <1>1 DEF TypeOK, Task
  <2> QED
    BY <2>1, <2>2, <1>1, JoinedGains
<1>8. /\ \A m \in Node : m # n => (Empty(m) => Empty(m)')
      /\ \A m : m # n => (Light(m) => Light(m)')
      /\ Empty(n) => Light(n)'
      /\ EntryRole /\ (n = EntryNode => t.my = "Entry") => EntryRole'
  BY <1>7, GainsRoom
<1>9. PICK p \in {1, 3, 5, 7, 8} : /\ Home(t.who, p) /\ Stage(p)
                                   /\ \A s \in 1..8 : Stage(s) => s = p
  BY <1>1, TaskStage
<1>10. MayBind(n, t.who)
  BY <1>1, TaskStage
<1>11. ASSUME p = 1
       PROVE  UserRoom'
  <2>1. t.who = "user" /\ n = Caller /\ user = "setting"
    BY <1>9, <1>10, <1>11 DEF Home, MayBind
  <2>2. Started'
    <3>1. n # EntryNode
      BY <2>1, CircuitAssumption, Roles DEF Server
    <3>2. Started
      BY <2>1 DEF StageInv, Rooms, UserRoom
    <3>3. OnlyIn({Caller, EntryNode})'
      BY <3>2, <2>1, <1>8 DEF Started, OnlyIn
    <3> QED
      BY <3>1, <3>2, <3>3, <1>8 DEF Started
  <2>3. Fruit(Caller, "user")'
    BY <2>1, <1>4 DEF Fruit
  <2> QED
    BY <2>1, <2>2, <2>3, <1>2 DEF UserRoom
<1>12. ASSUME p = 3
       PROVE  EntryRoom'
  <2>1. t.who = "proxy" /\ n = EntryNode /\ entry.pc \in {"sameNew", "joint"}
    BY <1>9, <1>10, <1>12 DEF Home, MayBind
  <2>2. entry.joint # EntryNode
    BY DEF StageInv, Rooms, EntryRoom
  <2>3. CASE entry.pc = "sameNew"
    BY <2>2, <2>3, <1>2 DEF EntryRoom
  <2>4. CASE entry.pc = "joint"
    <3>1. /\ EntryNode # ExitNode /\ EntryRole
          /\ OnlyIn({Caller, EntryNode, entry.joint}) /\ Light(entry.joint)
      BY <2>4, JointLight DEF StageInv, Rooms
    <3>2. t.my = "Entry"
      BY <1>1, <2>1, <2>4 DEF StageInv, Tied, EntryBound
    <3>3. Light(entry.joint)' /\ EntryRole'
      BY <3>1, <3>2, <2>1, <2>2, <1>2, <1>8 DEF Light
    <3>4. OnlyIn({Caller, EntryNode, entry.joint})'
      BY <3>1, <2>1, <1>2, <1>8 DEF OnlyIn
    <3>5. Fruit(EntryNode, "proxy")'
      BY <2>1, <1>4 DEF Fruit
    <3> QED
      BY <3>1, <3>3, <3>4, <3>5, <2>2, <2>4, <1>2 DEF EntryRoom
  <2> QED
    BY <2>1, <2>3, <2>4
<1>13. ASSUME p = 5
       PROVE  ExitRoom'
  <2>1. t.who = "gossip" /\ n = ExitNode /\ exit.pc \in {"answer", "relay"}
    BY <1>9, <1>10, <1>13 DEF Home, MayBind
  <2>2. ExitRoom
    BY DEF StageInv, Rooms
  <2>3. EntryNode # ExitNode /\ (exit.joint # ExitNode => Light(exit.joint)')
    <3>1. exit.joint # ExitNode => Light(exit.joint)
      BY <2>1, <2>2 DEF ExitRoom
    <3> QED
      BY <3>1, <2>1, <2>2, <1>2, <1>8 DEF ExitRoom, Light
  <2>4. Told(ExitNode, "gossip", {"ok"})' /\ Fruit(ExitNode, "gossip")'
    BY <2>1, <1>4 DEF Fruit
  <2>5. ASSUME exit.pc = "answer"
        PROVE  Reached' /\ (exit.joint # ExitNode => Light(ExitNode)')
    <3>1. Reached /\ (exit.joint # ExitNode => Empty(ExitNode))
      BY <2>1, <2>2, <2>5, <1>5 DEF ExitRoom
    <3>2. Reached'
      BY <3>1, <2>1, <2>3, <1>2, <1>8 DEF Reached, OnlyIn
    <3> QED
      BY <3>1, <3>2, <2>1, <1>8
  <2> QED
    BY <2>1, <2>2, <2>3, <2>4, <2>5, <1>2 DEF ExitRoom
<1>14. cmd.pc # "get"
  <2>1. ASSUME cmd.pc = "get"
        PROVE  FALSE
    <3>1. Stage(7)
      BY <2>1, StageIs
    <3>2. p = 7
      BY <3>1, <1>9
    <3> QED
      BY <3>2, <2>1, <1>9, <1>10 DEF Home, MayBind
  <2> QED
    BY <2>1
<1>15. Rooms'
  BY <1>9, <1>11, <1>12, <1>13, <1>14, RoomsBut DEF StageInv
<1> QED
  BY <1>4, <1>6, <1>15 DEF StageInv

\* The listener joins: the binding bears fruit for the manager that asked for it.
LEMMA JoinStage ==
  ASSUME RelayInv, CircuitTypeOK, ApartInv, LinkInv, StageInv, NEW n \in Node, NEW x \in Stream,
         HandleSetSession(n, x), JoinSession(n, x, Head(wire[n][x])), UNCHANGED mgrVars
  PROVE  StageInv'
<1> DEFINE m == Head(wire[n][x])
<1>0. TypeOK /\ BindInv /\ OneCall
  BY DEF RelayInv, ApartInv
<1>1. /\ UNCHANGED <<user, entry, exit, cmd, msgs>>
      /\ UNCHANGED <<listener, mailbox, waiting, answers>>
  BY DEF mgrVars, HandleSetSession, streamVars
<1>2. m.sid = Sid /\ RoomFor(n, m.role) /\ m.role \in Role /\ listener[x] = n /\ x \in up[n]
  BY <1>0, SetterWaits
<1>3. Gains(n, m.role)
  <2>1. Load(n) <= 1
    BY <1>2 DEF JoinSession, EntryIsRelay, RoomFor
  <2> QED
    BY <2>1, <1>0, <1>2, JoinedGains DEF JoinSession
<1>4. /\ \A k \in Node : k # n => (Empty(k) => Empty(k)')
      /\ \A k : k # n => (Light(k) => Light(k)')
      /\ Empty(n) => Light(n)'
      /\ EntryRole /\ (n = EntryNode => m.role = "Entry") => EntryRole'
  BY <1>0, <1>3, GainsRoom
<1>5. AnswerOne' /\ Tied'
  <2>1. Tied'
    BY <1>1, TiedShrinks DEF StageInv
  <2> QED
    BY <2>1, <1>1 DEF StageInv, AnswerOne
<1>6. PICK d \in Node : /\ d = Remote(n, x) /\ acks = {} /\ SetAt(n, x)
                       /\ 1 \in 1..Len(wire[n][x]) /\ wire[n][x][1] = m /\ m.type = "Set"
  BY <1>0, <1>2, FarEnd, SetRead
<1>7. CASE d \notin alive
  <2>1. Stage(8)
    BY <1>6, <1>7, StageIs DEF Orphan
  <2>2. \A s \in 1..8 : Stage(s) => s = 8
    BY <2>1 DEF ApartInv, OneStage
  <2>3. cmd.pc # "get"
    BY <2>2, StageIs
  <2>4. Rooms'
    BY <2>2, <2>3, RoomsBut DEF StageInv
  <2> QED
    BY <2>4, <1>5 DEF StageInv
<1>8. CASE d \in alive
  <2>1. PICK t \in waiting[d] : t.stream = x /\ t.other = m.role
    BY <1>0, <1>6, <1>8 DEF BindInv, SetAwaited, Awaited
  <2>2. PICK p \in {1, 3, 5, 7, 8} : /\ Home(t.who, p) /\ Stage(p)
                                     /\ \A s \in 1..8 : Stage(s) => s = p
    BY <1>0, <1>6, TaskStage
  <2>3. MayBind(d, t.who)
    BY <1>0, <1>6, TaskStage
  <2>4. t.who # "gone" => n = Target(t.who) /\ EntryBound(t.who, t.my, m.role)
    BY <2>1, <1>2, <1>6 DEF StageInv, Tied
  <2>5. \A who : Fruit(d, who)'
    <3> DEFINE b == [to |-> d, stream |-> x, sid |-> m.sid, role |-> m.role, ok |-> TRUE]
    <3>1. b \in acks'
      BY <1>6, <1>8 DEF JoinSession, Acked
    <3>2. b.ok = TRUE /\ b.to = d
      OBVIOUS
    <3> HIDE DEF b
    <3> QED
      BY <3>1, <3>2, <1>6 DEF Fruit
  <2>6. ~ Fruit(d, t.who)
    BY <1>0, <1>6 DEF Fruit, Told, OneCall, Pending
  <2>7. ASSUME p = 1
        PROVE  UserRoom'
    <3>1. t.who = "user" /\ d = Caller /\ user = "setting"
      BY <2>2, <2>3, <2>7 DEF Home, MayBind
    <3>2. n = EntryNode /\ m.role = "Entry"
      BY <2>4, <3>1 DEF Target, EntryBound
    <3>3. OnlyIn({}) /\ EntryRole
      BY <2>6, <3>1 DEF StageInv, Rooms, UserRoom, Started
    <3>4. Started'
      BY <3>2, <3>3, <1>4 DEF Started, OnlyIn
    <3>5. Fruit(Caller, "user")'
      BY <2>5, <3>1
    <3> QED
      BY <3>1, <3>4, <3>5, <1>1 DEF UserRoom
  <2>8. ASSUME p = 3
        PROVE  EntryRoom'
    <3>1. t.who = "proxy" /\ d = EntryNode /\ entry.pc \in {"sameNew", "joint"}
      BY <2>2, <2>3, <2>8 DEF Home, MayBind
    <3>2. entry.joint # EntryNode /\ entry.joint # Caller
      BY JointServer DEF StageInv, Rooms, EntryRoom
    <3>3. CASE entry.pc = "sameNew"
      BY <3>2, <3>3, <1>1 DEF EntryRoom
    <3>4. CASE entry.pc = "joint"
      <4>1. n = entry.joint
        BY <2>4, <3>1, <3>4 DEF Target
      <4>2. EntryNode # ExitNode /\ Started
        BY <2>6, <3>1, <3>4 DEF StageInv, Rooms, EntryRoom
      <4>3. Light(entry.joint)' /\ EntryRole'
        BY <4>1, <4>2, <3>2, <1>1, <1>4 DEF Started, OnlyIn, Light
      <4>4. OnlyIn({Caller, EntryNode, entry.joint})'
        BY <4>1, <4>2, <1>1, <1>4 DEF Started, OnlyIn
      <4>5. Fruit(EntryNode, "proxy")'
        BY <2>5, <3>1
      <4> QED
        BY <4>2, <4>3, <4>4, <4>5, <3>2, <3>4, <1>1 DEF EntryRoom
    <3> QED
      BY <3>1, <3>3, <3>4
  <2>9. ASSUME p = 5
        PROVE  ExitRoom'
    <3>1. t.who = "gossip" /\ d = ExitNode /\ exit.pc \in {"answer", "relay"}
      BY <2>2, <2>3, <2>9 DEF Home, MayBind
    <3>2. ExitRoom
      BY DEF StageInv, Rooms
    <3>3. n = IF exit.pc = "answer" THEN Answerer ELSE exit.relay
      BY <2>4, <3>1 DEF Target
    <3>4. EntryNode # ExitNode /\ (exit.joint # ExitNode => Light(exit.joint)')
      <4>1. exit.joint # n
        BY <3>1, <3>2, <3>3, JointServer, NoNodeAssumption DEF ExitRoom
      <4>2. exit.joint # ExitNode => Light(exit.joint)
        BY <3>1, <3>2 DEF ExitRoom
      <4> QED
        BY <4>1, <4>2, <3>1, <3>2, <1>1, <1>4 DEF ExitRoom, Light
    <3>5. Fruit(ExitNode, "gossip")'
      BY <2>5, <3>1
    <3>6. ASSUME exit.pc = "answer"
          PROVE  /\ Reached'
                 /\ exit.joint # ExitNode =>
                      Empty(ExitNode)' \/ (Light(ExitNode)' /\ Told(ExitNode, "gossip", {"ok"})')
      <4>1. n = Answerer /\ n # EntryNode /\ n # ExitNode /\ ExitNode \in Node
        BY <3>3, <3>6, JointServer, Roles
      <4>2. Reached'
        BY <4>1, <3>2, <3>6, <1>1, <1>4 DEF ExitRoom, Reached, OnlyIn
      <4>3. Told(ExitNode, "gossip", {"ok"}) => Told(ExitNode, "gossip", {"ok"})'
        BY <1>1 DEF Told
      <4> QED
        BY <4>1, <4>2, <4>3, <3>2, <3>6, <1>4 DEF ExitRoom
    <3> QED
      BY <3>1, <3>2, <3>4, <3>5, <3>6, <1>1 DEF ExitRoom
  <2>10. cmd.pc # "get"
    <3>1. ASSUME cmd.pc = "get"
          PROVE  FALSE
      <4>1. Stage(7)
        BY <3>1, StageIs
      <4>2. p = 7
        BY <4>1, <2>2
      <4> QED
        BY <4>2, <3>1, <2>2, <2>3 DEF Home, MayBind
    <3> QED
      BY <3>1
  <2>11. Rooms'
    BY <2>2, <2>7, <2>8, <2>9, <2>10, RoomsBut DEF StageInv
  <2> QED
    BY <2>11, <1>5 DEF StageInv
<1> QED
  BY <1>7, <1>8

LEMMA SetSessionStage ==
  ASSUME RelayInv, CircuitTypeOK, ApartInv, LinkInv, StageInv, NEW n \in Node, NEW x \in Stream,
         HandleSetSession(n, x), UNCHANGED mgrVars
  PROVE  StageInv'
<1> DEFINE m == Head(wire[n][x])
           w == Pop(n, x)
<1>0. TypeOK /\ BindInv /\ OneCall
  BY DEF RelayInv, ApartInv
<1>1. UNCHANGED <<listener, mailbox, waiting, answers>>
  BY DEF HandleSetSession, streamVars
<1>2. wire[n][x] # <<>> /\ m.type = "Set" /\ acks = {} /\ m.sid = Sid
  BY <1>0, SetRead, SetterWaits
<1>3. Lighter => StageInv'
  BY <1>0, <1>1, <1>2, LayerStage
<1>4. CASE RejectSetSession(n, x, m)
  BY <1>3, <1>4, SameLighter DEF RejectSetSession, OnlyWrite
<1>5. CASE RefuseHalfEntry(n, x, m)
  <2>1. CloseCircuit(n, Sid, w)
    BY <1>2, <1>5 DEF RefuseHalfEntry
  <2>2. CalmWire(w) /\ Keeps(w, {}) /\ w \in WireType
    BY <1>0, <1>2, CalmPop, KeepsPop DEF Keeps
  <2> HIDE DEF w
  <2>3. Quiet
    BY <2>1, <2>2, <1>0, Roles, CloseCircuitCalm, CloseCircuitGentle, GentleSoft DEF Quiet
  <2> QED
    BY <2>3, <1>0, <1>3, QuietLighter
<1>6. CASE SwapJoint(n, x, m)
  <2>1. /\ Load(n) = 2
        /\ sessionMap' = [sessionMap EXCEPT ![n][Sid].pair = <<@[1], x>>]
        /\ sessionMap[n][Sid].role = "Entry"
    BY <1>2, <1>6 DEF SwapJoint, IsReady, EntryIsRelay, Load
  <2>2. PICK q : sessionMap'[n][Sid] = [sessionMap[n][Sid] EXCEPT !.pair = q]
    BY <2>1, <1>0, Roles DEF TypeOK
  <2>3. sessionMap[n][Sid] \in [role : Role \cup {"None"}, pair : Seq(Stream)]
    BY <1>0, Roles DEF TypeOK, SessionType
  <2>4. /\ sessionMap'[n][Sid].role = "Entry"
        /\ \A k \in Node : k # n => sessionMap'[k][Sid] = sessionMap[k][Sid]
    BY <2>1, <2>2, <2>3, <1>0, Roles DEF TypeOK
  <2>5. \A k \in Node : k # n => Load(k)' = Load(k)
    BY <2>4 DEF Load
  <2>6. EntryRole => EntryRole'
    BY <2>4, Roles DEF EntryRole, Has
  <2>7. Lighter
    BY <2>1, <2>5, <2>6 DEF Lighter, Empty, Light
  <2> QED
    BY <2>7, <1>3
<1>7. CASE JoinSession(n, x, m)
  BY <1>7, JoinStage
<1> QED
  BY <1>4, <1>5, <1>6, <1>7 DEF HandleSetSession

\* The task of a new binding is the only one.
LEMMA DialTied ==
  ASSUME TypeOK, NoTasks, NoNews', NEW n \in Node, NEW p, NEW s, NEW my, NEW other, NEW proc,
         NEW who, DialAndSet(n, p, s, my, other, proc, who),
         who # "gone" => p = Target(who)' /\ EntryBound(who, my, other)'
  PROVE  Tied'
<1>1. PICK x \in Stream :
        /\ listener' = [listener EXCEPT ![x] = p]
        /\ waiting' = [waiting EXCEPT ![n] = @ \cup
              {[proc |-> proc, sid |-> s, stream |-> x, my |-> my, other |-> other,
                who |-> who]}]
  BY DEF DialAndSet
<1>2. \A m \in Node : \A t \in waiting'[m] :
        t.stream = x /\ t.my = my /\ t.other = other /\ t.who = who
  BY <1>1 DEF NoTasks, TypeOK
<1>3. listener'[x] = p
  BY <1>1 DEF TypeOK
<1>4. ASSUME NEW m \in Node, NEW t \in waiting'[m], t.who # "gone"
      PROVE  listener'[t.stream] = Target(t.who)' /\ EntryBound(t.who, t.my, t.other)'
  BY <1>2, <1>3, <1>4
<1> QED
  BY <1>4 DEF Tied, NoNews

\* The actor serves a request to bind a stream: the task takes its place.
LEMMA ServeNewStage ==
  ASSUME RelayInv, StreamsAssigned, ApartInv, LinkInv, StageInv, NEW n \in Node, ServeNew(n),
         UNCHANGED mgrVars
  PROVE  StageInv' /\ LinkInv'
<1> DEFINE r == mailbox[n][1]
<1>0. TypeOK /\ BindInv /\ OneCall
  BY DEF RelayInv, ApartInv
<1>1. /\ 1 \in DOMAIN mailbox[n] /\ Head(mailbox[n]) = r /\ r.op = "New"
      /\ \A m \in Node : m # n => mailbox'[m] = mailbox[m]
      /\ \A i \in DOMAIN mailbox'[n] :
           i + 1 \in DOMAIN mailbox[n] /\ mailbox'[n][i] = mailbox[n][i + 1]
  BY <1>0, Popped DEF ServeNew
<1>2. PICK p, s, my, other, who :
        /\ p = r.peer /\ s = r.sid /\ my = r.my /\ other = r.other /\ who = r.who
        /\ DialAndSet(n, p, s, my, other, "actor", who)
  BY <1>1 DEF ServeNew
<1>3. s = Sid /\ Load(n) <= 1 /\ p \in alive /\ RoomFor(p, other)
  <2>1. Roomy(n, r)
    BY <1>1 DEF LinkInv, NewRoom
  <2>2. p \in alive /\ p \in Node
    BY <1>0, <1>2 DEF DialAndSet, TypeOK
  <2> QED
    BY <2>1, <2>2, <1>1, <1>2 DEF Roomy
<1>4. NoTasks /\ NoSets /\ acks = {} /\ n \in alive
  <2>1. NoTasks /\ NoSets
    BY <1>0, <1>1 DEF BindInv, NewApart
  <2> QED
    BY <2>1, <1>0, <1>1, NoTaskNoAck DEF OneCall
<1>5. UNCHANGED <<sessionMap, acks, answers, user, entry, exit, cmd, msgs>>
  BY <1>2 DEF DialAndSet, mgrVars
<1>6. \A m \in Node : \A j \in DOMAIN mailbox'[m] :
        \E i \in DOMAIN mailbox[m] : mailbox'[m][j] = mailbox[m][i]
  BY <1>1
<1>7. LinkInv'
  <2>1. \A m \in Node : \A j \in DOMAIN mailbox'[m] : Roomy(m, mailbox'[m][j])
    BY <1>6 DEF LinkInv, NewRoom
  <2> QED
    BY <2>1, <1>2, <1>3, <1>4, DialLinks
<1>8. Rooms'
  <2>1. Lighter
    BY <1>5, SameLighter
  <2>2. \A m, w, vals : Told(m, w, vals)' <=> Told(m, w, vals)
    BY <1>5 DEF Told
  <2>3. \A m, w : Fruit(m, w) => Fruit(m, w)'
    BY <2>2, <1>5 DEF Fruit
  <2>4. Told(cmd.at, "cmd", {"half"})' => Told(cmd.at, "cmd", {"half"})
    BY <1>5 DEF Told
  <2> QED
    BY <2>1, <2>2, <2>3, <2>4, LayerFrame DEF StageInv
<1>9. Tied'
  <2>1. NoNews'
    <3>1. \A i \in DOMAIN mailbox'[n] : i + 1 # 1
      BY <1>0, Popped DEF ServeNew
    <3> QED
      BY <3>1, <1>0, <1>1 DEF NoNews, BindInv, NewApart
  <2>2. who # "gone" => p = Target(who) /\ EntryBound(who, my, other)
    BY <1>1, <1>2 DEF StageInv, Tied
  <2>3. /\ \A w : Target(w)' = Target(w)
        /\ \A w, a, b : EntryBound(w, a, b) => EntryBound(w, a, b)'
    BY <1>5 DEF Target, EntryBound
  <2> QED
    BY <2>1, <2>2, <2>3, <1>0, <1>2, <1>4, DialTied
<1> QED
  BY <1>5, <1>7, <1>8, <1>9 DEF StageInv, AnswerOne

\* The actor serves a request that binds nothing, or fails to.
LEMMA ServedStage ==
  ASSUME RelayInv, ApartInv, LinkInv, StageInv, NEW n \in Node, NEW op, Serves(n, op), Quiet,
         UNCHANGED <<mgrVars, alive, dialer, listener, waiting, acks>>,
         \/ UNCHANGED answers
         \/ \E val : Reply(n, Head(mailbox[n]).who, val) /\ (val = "half" => Light(n)')
  PROVE  LinkInv' /\ StageInv'
<1>0. TypeOK /\ BindInv /\ OneCall
  BY DEF RelayInv, ApartInv
<1>1. /\ 1 \in DOMAIN mailbox[n] /\ Head(mailbox[n]) = mailbox[n][1]
      /\ \A m \in Node : m # n => mailbox'[m] = mailbox[m]
      /\ \A i \in DOMAIN mailbox'[n] :
           i + 1 \in DOMAIN mailbox[n] /\ mailbox'[n][i] = mailbox[n][i + 1]
  BY <1>0, Popped
<1>2. \A m \in Node : \A i \in DOMAIN mailbox'[m] :
        \E j \in DOMAIN mailbox[m] : mailbox'[m][i] = mailbox[m][j]
  BY <1>1
<1>3. LinkInv'
  <2>1. \A m \in Node : \A j \in DOMAIN mailbox'[m] : Roomy(m, mailbox'[m][j])
    BY <1>2 DEF LinkInv, NewRoom
  <2>2. SameTasks
    BY DEF SameTasks
  <2> QED
    BY <2>1, <2>2, <1>0, QuietLinks
<1>4. Lighter
  BY <1>0, QuietLighter
<1>5. Pending(n, Head(mailbox[n]).who)
  BY <1>1 DEF Pending
<1>6. StageInv'
  BY <1>0, <1>2, <1>4, <1>5, LayerStage
<1> QED
  BY <1>3, <1>6

LEMMA LayerKeepsLinks ==
  ASSUME "ack" \notin FaultKinds, RelayInv, StreamsAssigned, CircuitTypeOK, ApartInv,
         LinkInv, StageInv,
         AnswerDisconnects \/ \E n \in Node : LayerStep(n) \/ LayerFault(n)
  PROVE  LinkInv' /\ StageInv'
<1>0. TypeOK /\ BindInv /\ OneCall
  BY DEF RelayInv, ApartInv
<1>1. UNCHANGED mgrVars
  BY DEF AnswerDisconnects, LayerStep, LayerFault
<1>2. ASSUME Quiet, Still, UNCHANGED answers
      PROVE  LinkInv' /\ StageInv'
  <2>1. UNCHANGED <<alive, dialer, listener, mailbox, waiting, acks>>
    BY <1>2 DEF Still
  <2>2. LinkInv'
    BY <2>1, <1>0, <1>2, QuietLinks DEF SameTasks, LinkInv, NewRoom
  <2>3. Lighter
    BY <1>0, <1>2, QuietLighter
  <2>4. StageInv'
    BY <2>1, <2>3, <1>0, <1>1, <1>2, LayerStage
  <2> QED
    BY <2>2, <2>4
<1>3. CASE AnswerDisconnects
  <2>1. UserClose(Answerer, Sid) /\ UNCHANGED answers
    BY <1>3 DEF AnswerDisconnects, UserClose, callVars
  <2> QED
    BY <2>1, <1>2, Roles, StillQuiet, QuietSteps
<1>4. ASSUME NEW n \in Node, LayerStep(n) \/ LayerFault(n)
      PROVE  LinkInv' /\ StageInv'
  <2> DEFINE r == Head(mailbox[n])
  <2>1. CASE \E x \in Stream : HandleSetSession(n, x)
    BY <2>1, <1>0, <1>1, SetSessionLinks, SetSessionStage
  <2>2. ASSUME NEW a \in acks, NEW t \in waiting[n], AckArrives(n, a, t)
        PROVE  LinkInv' /\ StageInv'
    <3>1. LinkInv'
      BY <2>2, <1>0, AckLinks
    <3>2. CASE a.ok
      BY <3>1, <3>2, <2>2, <1>0, <1>1, AckStage
    <3>3. CASE ~ a.ok
      <4>1. /\ Reply(n, t.who, "err") /\ UNCHANGED <<sessionMap, mailbox, listener>>
            /\ waiting' = [waiting EXCEPT ![n] = @ \ {t}]
        BY <2>2, <3>3 DEF AckArrives, streamVars
      <4>2. \A b \in acks : ~ b.ok
        BY <1>0, <3>3 DEF BindInv, AckAwaited
      <4>3. Lighter
        BY <4>1, SameLighter
      <4>4. Pending(n, t.who)
        BY DEF Pending
      <4>5. \A m \in Node : waiting'[m] \subseteq waiting[m]
        BY <4>1, <1>0 DEF TypeOK
      <4>6. StageInv'
        BY <4>1, <4>2, <4>3, <4>4, <4>5, <1>0, <1>1, LayerStage
      <4> QED
        BY <3>1, <4>6
    <3> QED
      BY <3>2, <3>3
  <2>3. CASE ServeNew(n)
    BY <2>3, <1>1, ServeNewStage
  <2>4. CASE ServeSend(n)
    <3>1. /\ Serves(n, "Send")
          /\ \E val : Reply(n, r.who, val) /\ val # "half"
          /\ UNCHANGED <<alive, dialer, listener, waiting, acks>>
      BY <2>4 DEF ServeSend, streamVars
    <3>2. Quiet
      BY <2>4, QuietSteps
    <3> QED
      BY <3>1, <3>2, <1>1, ServedStage
  <2>5. CASE ServeClose(n)
    <3>1. Serves(n, "Close") /\ UNCHANGED <<alive, dialer, listener, waiting, acks, answers>>
      BY <2>5 DEF ServeClose, streamVars
    <3>2. Quiet
      BY <2>5, QuietSteps
    <3> QED
      BY <3>1, <3>2, <1>1, ServedStage
  <2>6. CASE ServeNewFails(n) \/ ServeGet(n)
    <3>1. UNCHANGED <<alive, dialer, listener, waiting, acks, up, wire, sessionMap>>
      BY <2>6 DEF ServeNewFails, ServeGet, streamVars, netVars
    <3>2. Quiet
      BY <3>1, QuietSteps
    <3>3. PICK op : Serves(n, op)
      BY <2>6 DEF ServeNewFails, ServeGet
    <3>4. \E val : Reply(n, r.who, val) /\ (val = "half" => Light(n)')
      <4>1. CASE ServeNewFails(n)
        BY <4>1 DEF ServeNewFails
      <4>2. CASE ServeGet(n)
        <5>1. 1 \in DOMAIN mailbox[n] /\ r = mailbox[n][1]
          BY <3>3, <1>0, Popped
        <5>2. r.sid = Sid
          BY <5>1 DEF LinkInv, NewRoom, Roomy
        <5>3. PICK val : Reply(n, r.who, val) /\ (val = "half" => Load(n) # 2)
          BY <4>2, <5>2 DEF ServeGet, IsReady, Load
        <5>4. Load(n) # 2 => Load(n)' <= 1
          <6>1. PICK k \in 0..2 : k = Load(n)
            BY <1>0, PairStreams
          <6>2. Load(n)' = k
            BY <6>1, <3>1 DEF Load
          <6> QED
            BY <6>1, <6>2
        <5> QED
          BY <5>3, <5>4 DEF Light
      <4> QED
        BY <2>6, <4>1, <4>2
    <3> QED
      BY <3>1, <3>2, <3>3, <3>4, <1>1, ServedStage
  <2>7. ASSUME NEW t \in waiting[n], SetSessionTimeout(n, t), FaultUnless(Hopeless(n, t), "ack")
        PROVE  LinkInv' /\ StageInv'
    <3>1. Hopeless(n, t)
      BY <2>7 DEF FaultUnless, Fault
    <3>2. LinkInv'
      BY <3>1, <2>7, <1>0, TimeoutLinks
    <3>3. /\ Reply(n, t.who, "err") /\ UNCHANGED <<sessionMap, mailbox, listener, acks>>
          /\ waiting' = [waiting EXCEPT ![n] = @ \ {t}]
      BY <2>7 DEF SetSessionTimeout, streamVars
    <3>4. Lighter
      BY <3>3, SameLighter
    <3>5. Pending(n, t.who)
      BY DEF Pending
    <3>6. \A m \in Node : waiting'[m] \subseteq waiting[m]
      BY <3>3, <1>0 DEF TypeOK
    <3>7. StageInv'
      BY <3>3, <3>4, <3>5, <3>6, <1>0, <1>1, LayerStage
    <3> QED
      BY <3>2, <3>7
  <2>8. CASE \/ \E x \in Stream : \/ HandleRelayMsg(n, x) \/ HandleRelayProbe(n, x)
                                  \/ HandleDisconnect(n, x) \/ SpawnCircuitSuccess(n, x)
                                  \/ ReadErr(n, x) \/ StreamReset(n, x)
                                  \/ HandleStreamClosed(n, x)
             \/ \E g \in spawned[n] : \/ ForwardSuccess(n, g) \/ StartHandshake(n, g)
                                      \/ Handshake(n, g) \/ HandshakeCancelled(n, g)
                                      \/ StoreSecureConn(n, g)
    <3>1. UNCHANGED answers
      BY <2>8 DEF HandleRelayMsg, HandleRelayProbe, HandleDisconnect, SpawnCircuitSuccess,
                  ReadErr, StreamReset, HandleStreamClosed, ForwardSuccess, StartHandshake,
                  Handshake, HandshakeCancelled, StoreSecureConn, callVars
    <3>2. Still
      BY <2>8, StillQuiet
    <3>3. Quiet
      BY <2>8, QuietSteps
    <3> QED
      BY <3>1, <3>2, <3>3, <1>2
  <2>9. CASE LayerStep(n)
    BY <2>1, <2>2, <2>3, <2>4, <2>5, <2>6, <2>8, <2>9 DEF LayerStep, RelayStep
  <2>10. CASE LayerFault(n)
    BY <2>6, <2>7, <2>8, <2>10 DEF LayerFault
  <2> QED
    BY <1>4, <2>9, <2>10
<1> QED
  BY <1>3, <1>4

\* A process ends: what it was told, and what it was to bind, goes with it.
LEMMA KillKeepsLinks ==
  ASSUME RelayInv, CircuitTypeOK, ApartInv, LinkInv, StageInv, NEW n, Kill(n)
  PROVE  LinkInv' /\ StageInv'
<1>0. TypeOK /\ BindInv /\ Owned
  BY DEF RelayInv, ApartInv
<1>1. n \in Node /\ Crash(n)
  BY <1>0 DEF Kill, Crash, TypeOK
<1>2. LinkInv'
  BY <1>0, <1>1, CrashLinks
<1>3. Lighter
  BY <1>0, <1>1, CrashQuiet, QuietLighter
<1>4. /\ acks' = {a \in acks : a.to # n} /\ answers' = {a \in answers : a.at # n}
      /\ mailbox'[n] = <<>> /\ waiting'[n] = {} /\ listener' = listener
      /\ \A m \in Node : m # n => mailbox'[m] = mailbox[m] /\ waiting'[m] = waiting[m]
  BY <1>0, <1>1 DEF Crash, TypeOK, streamVars
<1>5. entry \in EntryState /\ exit \in ExitState /\ cmd \in CmdState
  BY DEF CircuitTypeOK
<1>6. /\ user' = IF n = Caller THEN "dead" ELSE user
      /\ n # EntryNode => entry' = entry
      /\ n = EntryNode => entry'.pc = "end"
      /\ entry'.joint = entry.joint
      /\ n # ExitNode => exit' = exit
      /\ n = ExitNode => exit'.pc = "end"
      /\ exit'.joint = exit.joint /\ exit'.relay = exit.relay
      /\ n # cmd.at => cmd' = cmd
      /\ n = cmd.at => cmd'.pc = "end"
      /\ msgs' \subseteq msgs
  BY <1>5 DEF Kill, EntryState, ExitState, CmdState
<1>7. \A m : m # n =>
        \A who, vals : /\ Told(m, who, vals)' <=> Told(m, who, vals)
                       /\ Fruit(m, who) => Fruit(m, who)'
  BY <1>4 DEF Told, Fruit
<1>8. AnswerOne'
  BY <1>4 DEF StageInv, AnswerOne
<1>9. Tied'
  <2>1. ASSUME NEW m \in Node, m # n, NEW who \in Asker, who # "gone", Binding(m, who)
        PROVE  /\ Target(who)' = Target(who)
               /\ \A my, other : EntryBound(who, my, other) => EntryBound(who, my, other)'
    <3>1. MayBind(m, who)
      BY <2>1, <1>0 DEF Owned
    <3> QED
      BY <3>1, <2>1, <1>6 DEF MayBind, Target, EntryBound
  <2>2. ASSUME NEW m \in Node, NEW t \in waiting'[m], t.who # "gone"
        PROVE  listener'[t.stream] = Target(t.who)' /\ EntryBound(t.who, t.my, t.other)'
    <3>1. m # n /\ t \in waiting[m]
      BY <2>2, <1>4
    <3>2. t.who \in Asker /\ Binding(m, t.who)
      BY <3>1, <1>0 DEF Binding, TypeOK, Task
    <3>3. listener[t.stream] = Target(t.who) /\ EntryBound(t.who, t.my, t.other)
      BY <3>1, <2>2 DEF StageInv, Tied
    <3> QED
      BY <3>1, <3>2, <3>3, <2>1, <2>2, <1>4
  <2>3. ASSUME NEW m \in Node, NEW i \in DOMAIN mailbox'[m], NEW r, r = mailbox'[m][i],
               r.op = "New", r.who # "gone"
        PROVE  r.peer = Target(r.who)' /\ EntryBound(r.who, r.my, r.other)'
    <3>1. m # n /\ i \in DOMAIN mailbox[m] /\ r = mailbox[m][i]
      BY <2>3, <1>4
    <3>2. r \in Request
      BY <3>1, <1>0 DEF TypeOK
    <3>3. r.who \in Asker /\ Binding(m, r.who)
      BY <3>1, <3>2, <2>3 DEF Binding, Request
    <3>4. r.peer = Target(r.who) /\ EntryBound(r.who, r.my, r.other)
      BY <3>1, <2>3 DEF StageInv, Tied
    <3> QED
      BY <3>1, <3>3, <3>4, <2>1, <2>3
  <2> QED
    BY <2>2, <2>3 DEF Tied, Target, EntryBound
<1>10. UserRoom'
  BY <1>3, <1>6, <1>7, UserKept DEF StageInv, Rooms, MailOf
<1>11. EntryRoom'
  BY <1>3, <1>6, <1>7, EntryKept DEF StageInv, Rooms
<1>12. GossipRoom'
  BY <1>3, <1>6, GossipKept DEF StageInv, Rooms
<1>13. ExitRoom'
  BY <1>3, <1>6, <1>7, ExitKept DEF StageInv, Rooms
<1>14. CmdRoom'
  <2>1. cmd'.pc = "get" =>
          cmd' = cmd /\ (Told(cmd.at, "cmd", {"half"})' => Told(cmd.at, "cmd", {"half"}))
    BY <1>4, <1>6 DEF Told
  <2> QED
    BY <2>1, <1>3, <1>6, CmdKept DEF StageInv, Rooms
<1> QED
  BY <1>2, <1>8, <1>9, <1>10, <1>11, <1>12, <1>13, <1>14 DEF StageInv, Rooms

-----------------------------------------------------------------------------
(* The managers pass the sessions on *)

\* Nothing has come of a binding that the manager is told has failed.
LEMMA NotFruit ==
  ASSUME TypeOK, ApartInv, StageInv, NEW n \in Node, NEW who \in Asker, who # "gone",
         Told(n, who, {"err"}), \A m \in Node : MayAsk(m, who) => m = n,
         NEW p \in 1..7, Home(who, p), Stage(p)
  PROVE  ~ Fruit(n, who)
<1>1. \A m \in Node : ~ Binding(m, who)
  BY ToldIdle DEF Pending, Binding
<1>2. \A w \in Asker : Home(w, p) => w = who
  BY DEF Home
<1>3. acks = {}
  BY <1>1, <1>2, NothingBound
<1>4. ~ Told(n, who, {"ok"})
  BY DEF StageInv, AnswerOne, Told
<1> QED
  BY <1>3, <1>4 DEF Fruit

\* A manager with nothing under way acts; only a request of its own needs room.
LEMMA ManagerLinks ==
  ASSUME RelayInv, ApartInv, LinkInv, StageInv, NEW n \in Node, NEW who \in Asker,
         \A m \in Node : ~ Pending(m, who),
         \A w \in Asker : w \notin {who, "gone"} =>
           /\ Target(w)' = Target(w)
           /\ \A my, other : EntryBound(w, my, other) => EntryBound(w, my, other)',
         \/ Still /\ Quiet /\ answers' \in {answers, Forget(n, who)}
         \/ \E r : /\ Ask(n, who, r) /\ Roomy(n, r)
                   /\ r.op = "New" => /\ r.who = who /\ r.peer = Target(who)'
                                      /\ EntryBound(who, r.my, r.other)'
  PROVE  /\ LinkInv' /\ AnswerOne' /\ Tied' /\ Lighter
         /\ \A m, w, vals : /\ Told(m, w, vals)' => Told(m, w, vals)
                            /\ w # who => (Told(m, w, vals) => Told(m, w, vals)')
         /\ \A m, w : w # who => (Fruit(m, w) => Fruit(m, w)')
<1>0. TypeOK /\ BindInv /\ OneCall
  BY DEF RelayInv, ApartInv
<1>1. /\ UNCHANGED <<alive, dialer, listener, waiting, acks>>
      /\ answers' \in {answers, Forget(n, who)}
  BY DEF Still, Ask, streamVars
<1>2. Quiet
  <2>1. ASSUME NEW r, Ask(n, who, r)
        PROVE  Quiet
    <3>1. UNCHANGED <<up, wire, sessionMap>>
      BY <2>1 DEF Ask, netVars
    <3> QED
      BY <3>1, <1>0, CalmStart, KeepsStart, OnlyWriteGentle, GentleSoft
         DEF Quiet, Calm, CalmWire, Silent
  <2> QED
    BY <2>1
<1>3. \A m \in Node : \A j \in DOMAIN mailbox'[m] :
        \/ \E i \in DOMAIN mailbox[m] : mailbox'[m][j] = mailbox[m][i]
        \/ /\ m = n /\ Roomy(n, mailbox'[m][j])
           /\ mailbox'[m][j].op = "New" =>
                /\ mailbox'[m][j].who = who /\ mailbox'[m][j].peer = Target(who)'
                /\ EntryBound(who, mailbox[m][j].my, mailbox[m][j].other)'
  <2>1. CASE Still
    BY <2>1 DEF Still
  <2>2. ASSUME NEW r, Ask(n, who, r), Roomy(n, r),
               r.op = "New" => /\ r.who = who /\ r.peer = Target(who)'
                               /\ EntryBound(who, r.my, r.other)'
        PROVE  <1>3!:
    <3>1. mailbox[n] \in Seq(Request)
      BY <1>0 DEF TypeOK
    <3>2. /\ \A m \in Node : m # n => mailbox'[m] = mailbox[m]
          /\ mailbox'[n] = Append(mailbox[n], r)
      BY <2>2, <1>0 DEF Ask, TypeOK
    <3>3. \A j \in DOMAIN mailbox'[n] : \/ j \in DOMAIN mailbox[n] /\ mailbox'[n][j] = mailbox[n][j]
                                        \/ mailbox'[n][j] = r
      BY <3>1, <3>2
    <3>4. ASSUME NEW j, mailbox'[n][j] = r
          PROVE  /\ Roomy(n, mailbox'[n][j])
                 /\ mailbox'[n][j].op = "New" =>
                      /\ mailbox'[n][j].who = who /\ mailbox'[n][j].peer = Target(who)'
                      /\ EntryBound(who, mailbox[n][j].my, mailbox[n][j].other)'
      BY <2>2, <3>4 DEF EntryBound
    <3> QED
      BY <3>2, <3>3, <3>4
  <2> QED
    BY <2>1, <2>2
<1>4. LinkInv'
  <2>1. \A m \in Node : \A j \in DOMAIN mailbox'[m] : Roomy(m, mailbox'[m][j])
    BY <1>3 DEF LinkInv, NewRoom
  <2>2. SameTasks
    BY <1>1 DEF SameTasks
  <2> QED
    BY <2>1, <2>2, <1>0, <1>1, <1>2, QuietLinks
<1>5. Lighter
  BY <1>0, <1>2, QuietLighter
<1>6. AnswerOne'
  BY <1>1 DEF StageInv, AnswerOne, Forget
<1>7. \A m, w, vals : /\ Told(m, w, vals)' => Told(m, w, vals)
                      /\ w # who => (Told(m, w, vals) => Told(m, w, vals)')
  BY <1>1 DEF Told, Forget
<1>8. \A m, w : w # who => (Fruit(m, w) => Fruit(m, w)')
  BY <1>1, <1>7 DEF Fruit
<1>9. Tied'
  <2>1. ASSUME NEW m \in Node, NEW t \in waiting'[m], t.who # "gone"
        PROVE  listener'[t.stream] = Target(t.who)' /\ EntryBound(t.who, t.my, t.other)'
    <3>1. t \in waiting[m] /\ t.who \in Asker /\ t.who # who
      BY <1>0, <1>1 DEF TypeOK, Task, Pending
    <3>2. listener[t.stream] = Target(t.who) /\ EntryBound(t.who, t.my, t.other)
      BY <3>1, <2>1 DEF StageInv, Tied
    <3> QED
      BY <3>1, <3>2, <2>1, <1>1
  <2>2. ASSUME NEW m \in Node, NEW j \in DOMAIN mailbox'[m], NEW r, r = mailbox'[m][j],
               r.op = "New", r.who # "gone"
        PROVE  r.peer = Target(r.who)' /\ EntryBound(r.who, r.my, r.other)'
    <3>1. CASE \E i \in DOMAIN mailbox[m] : r = mailbox[m][i]
      <4>1. PICK i \in DOMAIN mailbox[m] : r = mailbox[m][i]
        BY <3>1
      <4>2. r \in Request
        BY <4>1, <1>0 DEF TypeOK
      <4>3. r.who \in Asker /\ r.who # who
        BY <4>1, <4>2 DEF Request, Pending
      <4>4. r.peer = Target(r.who) /\ EntryBound(r.who, r.my, r.other)
        BY <4>1, <2>2 DEF StageInv, Tied
      <4> QED
        BY <4>3, <4>4, <2>2
    <3>2. CASE ~ \E i \in DOMAIN mailbox[m] : r = mailbox[m][i]
      <4>1. r.who = who /\ r.peer = Target(who)' /\ EntryBound(who, r.my, r.other)'
        BY <3>2, <2>2, <1>3 DEF EntryBound
      <4> QED
        BY <4>1
    <3> QED
      BY <3>1, <3>2
  <2> QED
    BY <2>1, <2>2 DEF Tied, Target, EntryBound
<1> QED
  BY <1>4, <1>5, <1>6, <1>7, <1>8, <1>9

\* A manager stops waiting: what it asked for is bound for nobody.
LEMMA DisownLinks ==
  ASSUME RelayInv, ApartInv, LinkInv, StageInv, NEW n \in Node, NEW who \in Asker, who # "gone",
         Disown(n, who), \A m \in Node : MayAsk(m, who) => m = n,
         \A w \in Asker : w # who =>
           /\ Target(w)' = Target(w)
           /\ \A my, other : EntryBound(w, my, other) => EntryBound(w, my, other)'
  PROVE  /\ LinkInv' /\ AnswerOne' /\ Tied' /\ Lighter
         /\ \A m, w, vals : Told(m, w, vals)' <=> Told(m, w, vals)
         /\ \A m, w : Fruit(m, w) => Fruit(m, w)'
<1>0. TypeOK /\ BindInv /\ Owned
  BY DEF RelayInv, ApartInv
<1> DEFINE D(t) == IF t.who = who THEN [t EXCEPT !.who = "gone"] ELSE t
<1>1. UNCHANGED <<alive, dialer, listener, up, wire, sessionMap, acks, answers>>
  BY DEF Disown, streamVars, netVars
<1>2. /\ \A m \in Node : m # n => mailbox'[m] = mailbox[m] /\ waiting'[m] = waiting[m]
      /\ waiting'[n] = {D(t) : t \in waiting[n]}
      /\ mailbox'[n] = [i \in DOMAIN mailbox[n] |-> D(mailbox[n][i])]
  BY <1>0 DEF Disown, TypeOK
<1>3. ASSUME NEW t, t \in Task \/ t \in Request
      PROVE  /\ t.who = who => D(t).who = "gone"
             /\ t.who # who => D(t) = t
             /\ t \in Task => D(t).stream = t.stream /\ D(t).sid = t.sid
             /\ t \in Request => /\ D(t).op = t.op /\ D(t).sid = t.sid
                                 /\ D(t).peer = t.peer /\ D(t).other = t.other
  BY <1>3 DEF Task, Request
<1> HIDE DEF D
<1>4. waiting[n] \subseteq Task /\ \A i \in DOMAIN mailbox[n] : mailbox[n][i] \in Request
  BY <1>0 DEF TypeOK
<1>5. LinkInv'
  <2>1. Quiet
    BY <1>0, <1>1, CalmStart, KeepsStart, OnlyWriteGentle, GentleSoft
       DEF Quiet, Calm, CalmWire, Silent
  <2>2. SameTasks
    BY <1>2, <1>3, <1>4 DEF SameTasks
  <2>3. ASSUME NEW j \in DOMAIN mailbox'[n]
        PROVE  Roomy(n, mailbox'[n][j])
    <3>1. PICK r \in Request : /\ r = mailbox[n][j] /\ mailbox'[n][j] = D(r) /\ Roomy(n, r)
      BY <1>2, <1>4 DEF LinkInv, NewRoom
    <3>2. /\ D(r).op = r.op /\ D(r).sid = r.sid /\ D(r).peer = r.peer /\ D(r).other = r.other
      BY <1>3
    <3> QED
      BY <3>1, <3>2 DEF Roomy
  <2>4. \A m \in Node : \A j \in DOMAIN mailbox'[m] : Roomy(m, mailbox'[m][j])
    BY <2>3, <1>2 DEF LinkInv, NewRoom
  <2> QED
    BY <2>1, <2>2, <2>4, <1>0, <1>1, QuietLinks
<1>6. Lighter
  BY <1>1, SameLighter
<1>7. AnswerOne' /\ \A m, w, vals : Told(m, w, vals)' <=> Told(m, w, vals)
  BY <1>1 DEF StageInv, AnswerOne, Told
<1>8. \A m, w : Fruit(m, w) => Fruit(m, w)'
  BY <1>1, <1>7 DEF Fruit
<1>9. \A m \in Node : m # n => ~ Pending(m, who)
  BY <1>0 DEF Owned
<1>10. Tied'
  <2>1. ASSUME NEW m \in Node, NEW t \in waiting'[m], t.who # "gone"
        PROVE  listener'[t.stream] = Target(t.who)' /\ EntryBound(t.who, t.my, t.other)'
    <3>1. t \in waiting[m] /\ t.who # who
      <4>1. CASE m = n
        <5>1. PICK u \in waiting[n] : t = D(u)
          BY <4>1, <1>2
        <5> QED
          BY <5>1, <4>1, <2>1, <1>3, <1>4
      <4>2. CASE m # n
        BY <4>2, <1>2, <1>9 DEF Pending
      <4> QED
        BY <4>1, <4>2
    <3>2. t.who \in Asker
      BY <3>1, <1>0 DEF TypeOK, Task
    <3>3. listener[t.stream] = Target(t.who) /\ EntryBound(t.who, t.my, t.other)
      BY <3>1, <2>1 DEF StageInv, Tied
    <3> QED
      BY <3>1, <3>2, <3>3, <1>1
  <2>2. ASSUME NEW m \in Node, NEW j \in DOMAIN mailbox'[m], NEW r, r = mailbox'[m][j],
               r.op = "New", r.who # "gone"
        PROVE  r.peer = Target(r.who)' /\ EntryBound(r.who, r.my, r.other)'
    <3>1. j \in DOMAIN mailbox[m] /\ r = mailbox[m][j] /\ r.who # who
      <4>1. CASE m = n
        <5>1. PICK q \in Request : j \in DOMAIN mailbox[n] /\ q = mailbox[n][j] /\ r = D(q)
          BY <4>1, <2>2, <1>2, <1>4
        <5>2. q.who # who /\ r = q
          BY <5>1, <2>2, <1>3
        <5> QED
          BY <5>1, <5>2, <4>1
      <4>2. CASE m # n
        BY <4>2, <2>2, <1>2, <1>9 DEF Pending
      <4> QED
        BY <4>1, <4>2
    <3>2. r \in Request
      BY <3>1, <1>0 DEF TypeOK
    <3>3. r.who \in Asker
      BY <3>2 DEF Request
    <3>4. r.peer = Target(r.who) /\ EntryBound(r.who, r.my, r.other)
      BY <3>1, <2>2 DEF StageInv, Tied
    <3> QED
      BY <3>1, <3>3, <3>4
  <2> QED
    BY <2>1, <2>2 DEF Tied, Target, EntryBound
<1> QED
  BY <1>5, <1>6, <1>7, <1>8, <1>10

LEMMA UserKeepsLinks ==
  ASSUME RelayInv, StreamsAssigned, CircuitTypeOK, ApartInv, LinkInv, StageInv,
         UserStep \/ UserFault
  PROVE  LinkInv' /\ StageInv'
<1>1. TypeOK /\ BindInv /\ OneCall /\ Owned /\ Rooms
  BY DEF ApartInv, RelayInv, StageInv
<1>2. Caller \in Node /\ "user" \in Asker
  BY Roles DEF Asker
<1>3. UNCHANGED <<entry, exit, cmd>>
  BY DEF UserStep, UserFault, UserDials, UserDialFails, UserSet, UserRequests,
         UserCannotRequest, UserAcked, UserTimesOut, UserCloses, UserConnects, UserGivesUp,
         UserDisconnects, UserAt
<1>4. /\ \A w : Target(w)' = Target(w)
      /\ \A w, my, other : EntryBound(w, my, other) => EntryBound(w, my, other)'
  BY <1>3 DEF Target, EntryBound
<1>5. user # "setting" => \A m \in Node : ~ Pending(m, "user")
  BY <1>1, <1>2 DEF Owned, MayAsk
<1>6. Lighter => (OnlyIn({}) => OnlyIn({})') /\ (Started => Started')
  BY DEF Lighter, OnlyIn, Started
<1>7. ASSUME Lighter, \A m \in msgs' : m \in msgs \/ m.type = "NewCircuit",
             \A m, w, vals : /\ Told(m, w, vals)' => Told(m, w, vals)
                             /\ w # "user" => (Told(m, w, vals) => Told(m, w, vals)'),
             \A m, w : w # "user" => (Fruit(m, w) => Fruit(m, w)')
      PROVE  EntryRoom' /\ GossipRoom' /\ ExitRoom' /\ CmdRoom'
  <2>1. EntryRoom' /\ GossipRoom' /\ ExitRoom'
    BY <1>1, <1>3, <1>7, EntryKept, GossipKept, ExitKept DEF Rooms
  <2>2. Told(cmd.at, "cmd", {"half"})' => Told(cmd.at, "cmd", {"half"})
    <3>1. \A k : Told(k, "cmd", {"half"})' => Told(k, "cmd", {"half"})
      BY <1>7
    <3> QED
      BY <3>1, <1>3 DEF Told
  <2>3. CmdRoom'
    BY <2>2, <1>1, <1>3, <1>7, CmdKept DEF Rooms
  <2> QED
    BY <2>1, <2>3
<1>8. CASE UserDials
  <2>1. user = "idle" /\ user' = "setting" /\ UserDial(Caller, EntryNode, Sid) /\ msgs' = msgs
    BY <1>8 DEF UserDials, UserAt
  <2>2. Stage(1) /\ \A m \in Node : ~ Pending(m, "user") /\ ~ Binding(m, "user")
    BY <2>1, <1>5 DEF Stage, Pending, Binding
  <2>3. NoTasks /\ NoNews /\ NoSets /\ acks = {}
    BY <1>1, <2>2, NothingBound DEF Home
  <2>4. /\ DialAndSet(Caller, EntryNode, Sid, "Caller", "Entry", "user", "user")
        /\ mailbox' = mailbox /\ Caller \in alive
    BY <2>1 DEF UserDial
  <2>5. UNCHANGED <<sessionMap, acks, answers>>
    BY <2>4 DEF DialAndSet
  <2>6. OnlyIn({}) /\ Started
    BY <2>1, <1>1 DEF Rooms, UserRoom
  <2>7. Load(Caller) <= 1 /\ RoomFor(EntryNode, "Entry")
    BY <2>6, Roles DEF OnlyIn, Empty, RoomFor
  <2>8. \A m \in Node : \A j \in DOMAIN mailbox'[m] : Roomy(m, mailbox'[m][j])
    BY <2>4 DEF LinkInv, NewRoom
  <2>9. LinkInv'
    BY <2>3, <2>4, <2>7, <2>8, <1>2, DialLinks
  <2>10. NoNews'
    BY <2>3, <2>4 DEF NoNews
  <2>11. Tied'
    <3>1. EntryNode = Target("user")' /\ EntryBound("user", "Caller", "Entry")'
      BY DEF Target, EntryBound
    <3> QED
      BY <3>1, <2>3, <2>4, <2>10, <1>1, <1>2, DialTied
  <2>12. Lighter
    BY <2>5, SameLighter
  <2>13. \A m, w, vals : Told(m, w, vals)' <=> Told(m, w, vals)
    BY <2>5 DEF Told
  <2>14. \A m, w : Fruit(m, w) => Fruit(m, w)'
    BY <2>5, <2>13 DEF Fruit
  <2>15. UserRoom'
    BY <2>1, <2>6, <2>12, <1>6 DEF UserRoom
  <2>16. AnswerOne'
    BY <2>5 DEF StageInv, AnswerOne
  <2> QED
    BY <2>1, <2>9, <2>11, <2>12, <2>13, <2>14, <2>15, <2>16, <1>7 DEF StageInv, Rooms
<1>9. ASSUME Still, Quiet, answers' \in {answers, Forget(Caller, "user")},
             \A m \in Node : ~ Pending(m, "user"),
             \A m \in msgs' : m \in msgs \/ m.type = "NewCircuit", Lighter => UserRoom'
      PROVE  LinkInv' /\ StageInv'
  <2>1. /\ LinkInv' /\ AnswerOne' /\ Tied' /\ Lighter
        /\ \A m, w, vals : /\ Told(m, w, vals)' => Told(m, w, vals)
                           /\ w # "user" => (Told(m, w, vals) => Told(m, w, vals)')
        /\ \A m, w : w # "user" => (Fruit(m, w) => Fruit(m, w)')
    BY <1>2, <1>4, <1>9, ManagerLinks
  <2> QED
    BY <2>1, <1>7, <1>9 DEF StageInv, Rooms
<1>10. ASSUME NEW val, NEW to \in {"opening", "closing"}, UserSet(val, to)
       PROVE  LinkInv' /\ StageInv'
  <2>1. /\ user = "setting" /\ user' = to /\ msgs' = msgs /\ Told(Caller, "user", {val})
        /\ ReadAnswer(Caller, "user") /\ UNCHANGED <<up, wire, sessionMap>>
        /\ answers' = Forget(Caller, "user")
    BY <1>10 DEF UserSet, UserAt, ReadAnswer, netVars
  <2>2. Still /\ Quiet
    BY <1>2, <2>1, StillQuiet, QuietSteps
  <2>3. \A m \in Node : MayAsk(m, "user") => m = Caller
    BY DEF MayAsk
  <2>4. \A m \in Node : ~ Pending(m, "user")
    BY <1>2, <2>1, <2>3, ToldIdle
  <2>5. Started
    BY <2>1, <1>1 DEF Rooms, UserRoom
  <2>6. Lighter => UserRoom'
    BY <2>1, <2>5, <1>6 DEF UserRoom
  <2> QED
    BY <2>1, <2>2, <2>4, <2>6, <1>9
<1>11. CASE UserRequests
  <2>1. /\ user = "opening" /\ user' = "asked"
        /\ msgs' = msgs \cup {Mail("NewCircuit", EntryNode, NoNode, TRUE)}
        /\ AddCircuitConnCaller(Caller, Sid) /\ UNCHANGED <<up, wire, sessionMap, answers>>
    BY <1>11 DEF UserRequests, UserAt, AddCircuitConnCaller, netVars, callVars
  <2>2. Still /\ Quiet
    BY <1>2, <2>1, StillQuiet, QuietSteps
  <2>3. Started
    BY <2>1, <1>1 DEF Rooms, UserRoom
  <2>4. Lighter => UserRoom'
    BY <2>1, <2>3, <1>6 DEF UserRoom
  <2>5. \A m \in msgs' : m \in msgs \/ m.type = "NewCircuit"
    BY <2>1 DEF Mail
  <2> QED
    BY <2>1, <2>2, <2>4, <2>5, <1>5, <1>9
<1>12. CASE \/ UserAcked \/ UserCloses \/ UserConnects \/ UserDisconnects
            \/ UserDialFails \/ UserCannotRequest \/ UserTimesOut \/ UserGivesUp
  <2>1. \/ UserClose(Caller, Sid) \/ UNCHANGED relayVars
    BY <1>12 DEF UserDialFails, UserCannotRequest, UserAcked, UserTimesOut, UserCloses,
         UserConnects, UserGivesUp, UserDisconnects
  <2>2. Still /\ Quiet /\ answers' = answers
    BY <1>2, <2>1, StillQuiet, QuietSteps DEF relayVars, UserClose, callVars
  <2>3. /\ user # "setting" /\ user' \notin {"idle", "setting", "opening"}
        /\ msgs' \subseteq msgs
    BY <1>12 DEF UserDialFails, UserCannotRequest, UserAcked, UserTimesOut, UserCloses,
         UserConnects, UserGivesUp, UserDisconnects, UserAt
  <2>4. Lighter => UserRoom'
    BY <2>3, <1>1, UserKept DEF Rooms, MailOf
  <2> QED
    BY <2>2, <2>3, <2>4, <1>5, <1>9
<1> QED
  BY <1>8, <1>10, <1>11, <1>12 DEF UserStep, UserFault

LEMMA EntryKeepsLinks ==
  ASSUME RelayInv, StreamsAssigned, CircuitTypeOK, ApartInv, LinkInv, StageInv,
         EntryStep \/ EntryFault
  PROVE  LinkInv' /\ StageInv'
<1>1. TypeOK /\ BindInv /\ OneCall /\ Owned /\ Rooms
  BY DEF ApartInv, RelayInv, StageInv
<1>2. EntryNode \in Node /\ "proxy" \in Asker /\ entry \in EntryState
  BY Roles DEF Asker, CircuitTypeOK
<1>3. UNCHANGED <<user, exit, cmd>>
  BY DEF EntryStep, EntryFault, EntryReceives, EntryRefuses, SameProxyNew, SameProxyNewFailed,
         SameProxySend, EntryPicksJoint, EntryRetriesJoint, EntryGossips, EntrySent,
         EntryGetsNoPeers, EntryCannotEncrypt, EntryGossipExpires, EntryCannotGossip,
         EntryExpires, EntryAt, TryJoint
<1>4. \A w \in Asker : w # "proxy" =>
        /\ Target(w)' = Target(w)
        /\ \A my, other : EntryBound(w, my, other) => EntryBound(w, my, other)'
  BY <1>3 DEF Target, EntryBound, Asker
<1>5. \A m \in Node : MayAsk(m, "proxy") => m = EntryNode /\ entry.pc \notin {"idle", "end"}
  BY DEF MayAsk
<1>6. \A vals : Told(EntryNode, "proxy", vals) => \A m \in Node : ~ Pending(m, "proxy")
  BY <1>2, <1>5, ToldIdle
<1>7. \A from, to : EntryAt(from, to) =>
        entry.pc = from /\ entry'.pc = to /\ entry'.joint = entry.joint
  BY <1>2 DEF EntryAt, EntryState
<1>8. Lighter => (Started => Started')
  BY DEF Lighter, OnlyIn, Started
<1>9. entry'.pc \notin {"get", "joint"} /\ entry'.joint = entry.joint => (Lighter => EntryRoom')
  BY <1>1, EntryKept DEF Rooms
<1>10. (\A m \in msgs' : m.type = "Gossip" => m \in msgs) => (Lighter => GossipRoom')
  BY <1>1, GossipKept DEF Rooms
<1>11. ASSUME LinkInv', AnswerOne', Tied', Lighter, EntryRoom', GossipRoom',
              \A m \in msgs' : m \in msgs \/ m.type \in {"Gossip", "CircuitAck"},
              \A m, w, vals : /\ Told(m, w, vals)' => Told(m, w, vals)
                              /\ w # "proxy" => (Told(m, w, vals) => Told(m, w, vals)'),
              \A m, w : w # "proxy" => (Fruit(m, w) => Fruit(m, w)')
       PROVE  LinkInv' /\ StageInv'
  <2>1. UserRoom' /\ ExitRoom'
    BY <1>1, <1>3, <1>11, UserKept, ExitKept DEF Rooms, MailOf
  <2>2. Told(cmd.at, "cmd", {"half"})' => Told(cmd.at, "cmd", {"half"})
    <3>1. \A k : Told(k, "cmd", {"half"})' => Told(k, "cmd", {"half"})
      BY <1>11
    <3> QED
      BY <3>1, <1>3 DEF Told
  <2>3. CmdRoom'
    BY <2>2, <1>1, <1>3, <1>11, CmdKept DEF Rooms
  <2> QED
    BY <2>1, <2>3, <1>11 DEF StageInv, Rooms
<1>12. ASSUME \A m \in Node : ~ Pending(m, "proxy"),
              \/ Still /\ Quiet /\ answers' \in {answers, Forget(EntryNode, "proxy")}
              \/ \E r : /\ Ask(EntryNode, "proxy", r) /\ Roomy(EntryNode, r)
                        /\ r.op = "New" => /\ r.who = "proxy" /\ r.peer = Target("proxy")'
                                           /\ EntryBound("proxy", r.my, r.other)',
              \A m \in msgs' : m \in msgs \/ m.type \in {"Gossip", "CircuitAck"},
              Lighter => EntryRoom', Lighter => GossipRoom'
       PROVE  LinkInv' /\ StageInv'
  <2>1. /\ LinkInv' /\ AnswerOne' /\ Tied' /\ Lighter
        /\ \A m, w, vals : /\ Told(m, w, vals)' => Told(m, w, vals)
                           /\ w # "proxy" => (Told(m, w, vals) => Told(m, w, vals)')
        /\ \A m, w : w # "proxy" => (Fruit(m, w) => Fruit(m, w)')
    BY <1>2, <1>4, <1>12, ManagerLinks
  <2> QED
    BY <2>1, <1>11, <1>12
<1>13. ReadAnswer(EntryNode, "proxy") =>
         Still /\ Quiet /\ answers' \in {answers, Forget(EntryNode, "proxy")}
  <2> SUFFICES ASSUME ReadAnswer(EntryNode, "proxy")
               PROVE  Still /\ Quiet /\ answers' \in {answers, Forget(EntryNode, "proxy")}
    OBVIOUS
  <2>1. UNCHANGED <<up, wire, sessionMap>> /\ answers' = Forget(EntryNode, "proxy")
    BY DEF ReadAnswer, netVars
  <2> QED
    BY <2>1, <1>2, StillQuiet, QuietSteps
<1>14. CASE EntryReceives
  <2>1. PICK m \in msgs : /\ m.type = "NewCircuit" /\ EntryAt("idle", "get")
                          /\ Ask(EntryNode, "proxy", ReqGet(Sid, "proxy"))
                          /\ msgs' = msgs \ {m}
    BY <1>14 DEF EntryReceives
  <2>2. entry.pc = "idle" /\ entry'.pc = "get" /\ entry'.joint = entry.joint
    BY <2>1, <1>7
  <2>3. \A k \in Node : ~ Pending(k, "proxy")
    BY <2>2, <1>1, <1>2, <1>5 DEF Owned
  <2>4. Roomy(EntryNode, ReqGet(Sid, "proxy")) /\ ReqGet(Sid, "proxy").op # "New"
    BY DEF ReqGet, Roomy
  <2>5. Started
    BY <2>1, <1>1 DEF Rooms, UserRoom, MailOf
  <2>6. Lighter => EntryRoom'
    BY <2>2, <2>5, <1>1, <1>8 DEF Rooms, EntryRoom
  <2>7. Lighter => GossipRoom'
    BY <2>1, <1>10
  <2> QED
    BY <2>1, <2>3, <2>4, <2>6, <2>7, <1>12
<1>15. CASE \/ EntryRefuses \/ EntryGetsNoPeers \/ EntryCannotEncrypt
            \/ EntrySent("ok", TRUE) \/ EntrySent("err", FALSE)
  <2>1. /\ \E vals : Told(EntryNode, "proxy", vals)
        /\ ReadAnswer(EntryNode, "proxy")
        /\ \E ok : Answers(ok)
        /\ \E from : EntryAt(from, "end")
    BY <1>15 DEF EntryRefuses, EntryGetsNoPeers, EntryCannotEncrypt, EntrySent
  <2>2. \A m \in msgs' : m \in msgs \/ m.type = "CircuitAck"
    BY <2>1 DEF Answers, Mail
  <2>3. (Lighter => EntryRoom') /\ (Lighter => GossipRoom')
    BY <2>1, <2>2, <1>7, <1>9, <1>10
  <2> QED
    BY <2>1, <2>2, <2>3, <1>6, <1>12, <1>13
<1>16. CASE EntryGossips \/ EntryGossipExpires
  <2> DEFINE g == Mail("Gossip", ExitNode, entry.joint, TRUE)
  <2>1. /\ Told(EntryNode, "proxy", {"ok"}) /\ entry.pc = "joint"
        /\ entry'.pc \in {"send", "end"} /\ entry'.joint = entry.joint
        /\ \A k \in msgs' : k \in msgs \/ k = g \/ k.type = "CircuitAck"
    BY <1>7, <1>16 DEF EntryGossips, EntryGossipExpires, Mail
  <2>2. g.type = "Gossip" /\ g.joint = entry.joint
    BY DEF Mail
  <2> HIDE DEF g
  <2>3. /\ EntryNode # ExitNode /\ EntryRole /\ entry.joint # EntryNode
        /\ OnlyIn({Caller, EntryNode, entry.joint}) /\ Light(entry.joint)
    BY <2>1, <1>1, JointLight DEF Rooms, EntryRoom
  <2>4. ASSUME Lighter, NEW k \in msgs', k.type = "Gossip"
        PROVE  /\ k.joint # EntryNode /\ EntryRole'
               /\ OnlyIn({Caller, EntryNode, k.joint})' /\ Light(k.joint)'
    <3>1. /\ k.joint # EntryNode /\ EntryRole
          /\ OnlyIn({Caller, EntryNode, k.joint}) /\ Light(k.joint)
      BY <2>1, <2>2, <2>3, <2>4, <1>1 DEF Rooms, GossipRoom
    <3>2. OnlyIn({Caller, EntryNode, k.joint})'
      BY <3>1, <2>4 DEF Lighter, OnlyIn
    <3> QED
      BY <3>1, <3>2, <2>4 DEF Lighter
  <2>5. Lighter => GossipRoom'
    BY <2>3, <2>4 DEF GossipRoom
  <2>6. Lighter => EntryRoom'
    BY <2>1, <1>9
  <2>7. \A m \in msgs' : m \in msgs \/ m.type \in {"Gossip", "CircuitAck"}
    BY <2>1, <2>2
  <2>8. CASE EntryGossips
    <3>1. Ask(EntryNode, "proxy", ReqSend(Sid, "proxy", "Probe"))
      BY <2>8 DEF EntryGossips
    <3>2. /\ Roomy(EntryNode, ReqSend(Sid, "proxy", "Probe"))
          /\ ReqSend(Sid, "proxy", "Probe").op # "New"
      BY DEF ReqSend, Roomy
    <3> QED
      BY <3>1, <3>2, <2>1, <2>5, <2>6, <2>7, <1>6, <1>12
  <2>9. CASE EntryGossipExpires
    <3>1. ReadAnswer(EntryNode, "proxy")
      BY <2>9 DEF EntryGossipExpires
    <3> QED
      BY <3>1, <2>1, <2>5, <2>6, <2>7, <1>6, <1>12, <1>13
  <2> QED
    BY <1>16, <2>8, <2>9
<1>17. CASE SameProxyNewFailed \/ SameProxySend \/ EntryCannotGossip
  <2>1. /\ Roomy(EntryNode, ReqClose(Sid)) /\ ReqClose(Sid).op # "New"
        /\ Roomy(EntryNode, ReqSend(Sid, "proxy", "Succ"))
        /\ ReqSend(Sid, "proxy", "Succ").op # "New"
    BY DEF ReqSend, ReqClose, Roomy
  <2>2. /\ entry'.pc \in {"send", "end"} /\ entry'.joint = entry.joint
        /\ \/ Ask(EntryNode, "proxy", ReqSend(Sid, "proxy", "Succ"))
           \/ Ask(EntryNode, "proxy", ReqClose(Sid))
        /\ \E vals : Told(EntryNode, "proxy", vals)
        /\ msgs' = msgs \/ \E ok : Answers(ok)
    BY <1>7, <1>17 DEF SameProxyNewFailed, SameProxySend, EntryCannotGossip
  <2>3. \A m \in msgs' : m \in msgs \/ m.type = "CircuitAck"
    BY <2>2 DEF Answers, Mail
  <2>4. (Lighter => EntryRoom') /\ (Lighter => GossipRoom')
    BY <2>2, <2>3, <1>9, <1>10
  <2> QED
    BY <2>1, <2>2, <2>3, <2>4, <1>6, <1>12
<1>18. CASE SameProxyNew
  <2> DEFINE r == ReqNew(Sid, "proxy", Answerer, "Exit", "Answer")
  <2>1. /\ entry.pc = "get" /\ entry'.pc = "sameNew" /\ entry'.joint = entry.joint
        /\ Told(EntryNode, "proxy", {"half"}) /\ Ask(EntryNode, "proxy", r) /\ msgs' = msgs
    BY <1>7, <1>18 DEF SameProxyNew
  <2>2. /\ r.who = "proxy" /\ r.peer = Answerer /\ r.sid = Sid /\ r.other = "Answer"
    BY DEF ReqNew
  <2> HIDE DEF r
  <2>3. Started
    BY <2>1, <1>1 DEF Rooms, EntryRoom
  <2>4. Empty(Answerer)
    BY <2>3, JointServer, Roles DEF Started, OnlyIn
  <2>5. Roomy(EntryNode, r)
    BY <2>2, <2>3, <2>4, <1>2 DEF Roomy, RoomFor, Started, Light, Empty
  <2>6. r.peer = Target("proxy")' /\ EntryBound("proxy", r.my, r.other)'
    BY <2>1, <2>2 DEF Target, EntryBound
  <2>7. (Lighter => EntryRoom') /\ (Lighter => GossipRoom')
    BY <2>1, <1>9, <1>10
  <2> QED
    BY <2>1, <2>2, <2>5, <2>6, <2>7, <1>6, <1>12
<1>19. CASE EntryPicksJoint \/ EntryRetriesJoint
  <2>1. \E bad, tries : TryJoint(bad, tries)
    BY <1>19 DEF EntryPicksJoint, EntryRetriesJoint
  <2>2. PICK j, bad : /\ j \in JointChoice(entry.joint, bad)
                      /\ Ask(EntryNode, "proxy", ReqNew(Sid, "proxy", j, "Entry", "Joint"))
                      /\ entry'.pc = "joint" /\ entry'.joint = j /\ msgs' = msgs
    BY <2>1 DEF TryJoint
  <2> DEFINE r == ReqNew(Sid, "proxy", j, "Entry", "Joint")
  <2>3. r.who = "proxy" /\ r.peer = j /\ r.sid = Sid /\ r.my = "Entry" /\ r.other = "Joint"
    BY DEF ReqNew
  <2>4. Ask(EntryNode, "proxy", r)
    BY <2>2
  <2> HIDE DEF r
  <2>5. \E vals : Told(EntryNode, "proxy", vals)
    BY <1>19 DEF EntryPicksJoint, EntryRetriesJoint
  <2>6. EntryNode # ExitNode /\ Started
    <3>1. CASE EntryPicksJoint
      BY <3>1, <1>1 DEF EntryPicksJoint, Rooms, EntryRoom
    <3>2. CASE EntryRetriesJoint
      <4>1. entry.pc = "joint" /\ Told(EntryNode, "proxy", {"err"})
        BY <3>2 DEF EntryRetriesJoint
      <4>2. Stage(3) /\ Home("proxy", 3)
        BY <4>1 DEF Stage, Home
      <4>3. ~ Fruit(EntryNode, "proxy")
        BY <4>1, <4>2, <1>1, <1>2, <1>5, NotFruit
      <4> QED
        BY <4>1, <4>3, <1>1 DEF Rooms, EntryRoom
    <3> QED
      BY <3>1, <3>2, <1>19
  <2>7. j # EntryNode /\ j # Caller
    <3>1. Peers[EntryNode] \subseteq Server
      BY CircuitAssumption, Roles
    <3>2. entry.joint # EntryNode /\ entry.joint # Caller
      BY <1>1, JointServer DEF Rooms, EntryRoom
    <3>3. Caller \notin Server
      BY JointServer DEF Server
    <3> QED
      BY <3>1, <3>2, <3>3, <2>2 DEF JointChoice
  <2>8. j \in Node => Empty(j)
    BY <2>6, <2>7 DEF Started, OnlyIn
  <2>9. Roomy(EntryNode, r)
    BY <2>3, <2>6, <2>8, <1>2 DEF Roomy, RoomFor, Started, Light, Empty
  <2>10. r.peer = Target("proxy")' /\ EntryBound("proxy", r.my, r.other)'
    BY <2>2, <2>3 DEF Target, EntryBound
  <2>11. Lighter => EntryRoom'
    <3> SUFFICES ASSUME Lighter
                 PROVE  EntryRoom'
      OBVIOUS
    <3>1. Started' /\ EntryRole'
      BY <2>6, <1>8 DEF Started
    <3> QED
      BY <3>1, <2>2, <2>6, <2>7 DEF EntryRoom
  <2>12. Lighter => GossipRoom'
    BY <2>2, <1>10
  <2> QED
    BY <2>2, <2>3, <2>4, <2>5, <2>9, <2>10, <2>11, <2>12, <1>6, <1>12
<1>20. CASE EntryExpires
  <2>1. /\ Disown(EntryNode, "proxy") /\ entry'.pc = "end" /\ entry'.joint = entry.joint
        /\ Answers(FALSE)
    BY <1>7, <1>20 DEF EntryExpires
  <2>2. /\ LinkInv' /\ AnswerOne' /\ Tied' /\ Lighter
        /\ \A m, w, vals : Told(m, w, vals)' <=> Told(m, w, vals)
        /\ \A m, w : Fruit(m, w) => Fruit(m, w)'
    BY <2>1, <1>2, <1>4, <1>5, DisownLinks
  <2>3. \A m \in msgs' : m \in msgs \/ m.type = "CircuitAck"
    BY <2>1 DEF Answers, Mail
  <2>4. EntryRoom' /\ GossipRoom'
    BY <2>1, <2>2, <2>3, <1>9, <1>10
  <2> QED
    BY <2>2, <2>3, <2>4, <1>11
<1> QED
  BY <1>14, <1>15, <1>16, <1>17, <1>18, <1>19, <1>20 DEF EntryStep, EntryFault

\* A message gets lost, or is read by nobody.
LEMMA IdleLinks ==
  ASSUME RelayInv, StreamsAssigned, ApartInv, LinkInv, StageInv,
         UNCHANGED <<relayVars, user, entry, exit, cmd>>, msgs' \subseteq msgs
  PROVE  LinkInv' /\ StageInv'
<1>1. TypeOK /\ BindInv /\ Rooms
  BY DEF RelayInv, ApartInv, StageInv
<1>2. UNCHANGED <<alive, dialer, listener, up, wire, sessionMap, mailbox, waiting, acks, answers>>
  BY DEF relayVars
<1>3. Quiet
  BY <1>2, Roles, QuietSteps
<1>4. LinkInv'
  BY <1>1, <1>2, <1>3, QuietLinks DEF SameTasks, LinkInv, NewRoom
<1>5. Lighter
  BY <1>2, SameLighter
<1>6. Tied'
  BY <1>2, TiedShrinks DEF StageInv
<1>7. /\ \A m, w, vals : Told(m, w, vals)' <=> Told(m, w, vals)
      /\ \A m, w : Fruit(m, w) => Fruit(m, w)'
  BY <1>2 DEF Told, Fruit
<1>8. UserRoom' /\ EntryRoom' /\ GossipRoom' /\ ExitRoom'
  BY <1>1, <1>5, <1>7, UserKept, EntryKept, GossipKept, ExitKept DEF Rooms, MailOf
<1>9. CmdRoom'
  <2>1. Told(cmd.at, "cmd", {"half"})' => Told(cmd.at, "cmd", {"half"})
    BY <1>2 DEF Told
  <2> QED
    BY <2>1, <1>1, <1>5, CmdKept DEF Rooms
<1> QED
  BY <1>2, <1>4, <1>6, <1>8, <1>9 DEF StageInv, Rooms, AnswerOne

LEMMA ExitKeepsLinks ==
  ASSUME RelayInv, StreamsAssigned, CircuitTypeOK, ApartInv, LinkInv, StageInv,
         ExitStep \/ ExitFault
  PROVE  LinkInv' /\ StageInv'
<1>1. TypeOK /\ BindInv /\ OneCall /\ Owned /\ Rooms
  BY DEF ApartInv, RelayInv, StageInv
<1>2. ExitNode \in Node /\ "gossip" \in Asker /\ exit \in ExitState
  BY Roles DEF Asker, CircuitTypeOK
<1>3. UNCHANGED <<user, entry, cmd>>
  BY DEF ExitStep, ExitFault, ExitReceives, GossipLost, ExitIsJoint, ExitPicksRelay,
         ExitRetriesRelay, ExitFails, ExitExpends, ExitExpended, ExitSent, ExitExpires,
         ExitCannotExpend, ExitExpendExpires, ExitAt, TryRelay
<1>4. \A w \in Asker : w # "gossip" =>
        /\ Target(w)' = Target(w)
        /\ \A my, other : EntryBound(w, my, other) => EntryBound(w, my, other)'
  BY <1>3 DEF Target, EntryBound, Asker
<1>5. \A m \in Node : MayAsk(m, "gossip") =>
        m = ExitNode /\ exit.pc \in {"answer", "relay", "send"}
  BY DEF MayAsk
<1>6. /\ \A vals : Told(ExitNode, "gossip", vals) => \A m \in Node : ~ Pending(m, "gossip")
      /\ exit.pc \notin {"answer", "relay", "send"} => \A m \in Node : ~ Pending(m, "gossip")
  BY <1>1, <1>2, <1>5, ToldIdle DEF Owned
<1>7. \A from, to : ExitAt(from, to) =>
        /\ exit.pc = from /\ exit'.pc = to
        /\ exit'.joint = exit.joint /\ exit'.relay = exit.relay
  BY <1>2 DEF ExitAt, ExitState
<1>8. ASSUME \E from, to : ExitAt(from, to) /\ to \in {"send", "expend", "end"}
      PROVE  Lighter => ExitRoom'
  BY <1>1, <1>7, <1>8, ExitKept DEF Rooms
<1>9. ASSUME LinkInv', AnswerOne', Tied', Lighter, ExitRoom',
             \A m \in msgs' : m \in msgs \/ (m.type = "Expend" /\ Light(m.joint)),
             \A m, w, vals : /\ Told(m, w, vals)' => Told(m, w, vals)
                             /\ w # "gossip" => (Told(m, w, vals) => Told(m, w, vals)'),
             \A m, w : w # "gossip" => (Fruit(m, w) => Fruit(m, w)')
      PROVE  LinkInv' /\ StageInv'
  <2>1. UserRoom' /\ EntryRoom' /\ GossipRoom'
    BY <1>1, <1>3, <1>9, UserKept, EntryKept, GossipKept DEF Rooms, MailOf
  <2>2. Told(cmd.at, "cmd", {"half"})' => Told(cmd.at, "cmd", {"half"})
    <3>1. \A k : Told(k, "cmd", {"half"})' => Told(k, "cmd", {"half"})
      BY <1>9
    <3> QED
      BY <3>1, <1>3 DEF Told
  <2>3. CmdRoom'
    BY <2>2, <1>1, <1>3, <1>9, CmdKept DEF Rooms
  <2> QED
    BY <2>1, <2>3, <1>9 DEF StageInv, Rooms
<1>10. ASSUME \A m \in Node : ~ Pending(m, "gossip"),
              \/ Still /\ Quiet /\ answers' \in {answers, Forget(ExitNode, "gossip")}
              \/ \E r : /\ Ask(ExitNode, "gossip", r) /\ Roomy(ExitNode, r)
                        /\ r.op = "New" => /\ r.who = "gossip" /\ r.peer = Target("gossip")'
                                           /\ EntryBound("gossip", r.my, r.other)',
              \A m \in msgs' : m \in msgs \/ (m.type = "Expend" /\ Light(m.joint)),
              Lighter => ExitRoom'
       PROVE  LinkInv' /\ StageInv'
  <2>1. /\ LinkInv' /\ AnswerOne' /\ Tied' /\ Lighter
        /\ \A m, w, vals : /\ Told(m, w, vals)' => Told(m, w, vals)
                           /\ w # "gossip" => (Told(m, w, vals) => Told(m, w, vals)')
        /\ \A m, w : w # "gossip" => (Fruit(m, w) => Fruit(m, w)')
    BY <1>2, <1>4, <1>10, ManagerLinks
  <2> QED
    BY <2>1, <1>9, <1>10
<1>11. ReadAnswer(ExitNode, "gossip") =>
         Still /\ Quiet /\ answers' \in {answers, Forget(ExitNode, "gossip")}
  <2> SUFFICES ASSUME ReadAnswer(ExitNode, "gossip")
               PROVE  Still /\ Quiet /\ answers' \in {answers, Forget(ExitNode, "gossip")}
    OBVIOUS
  <2>1. UNCHANGED <<up, wire, sessionMap>> /\ answers' = Forget(ExitNode, "gossip")
    BY DEF ReadAnswer, netVars
  <2> QED
    BY <2>1, <1>2, StillQuiet, QuietSteps
<1>12. CASE ExitReceives
  <2>1. PICK m \in msgs :
          /\ m.type = "Gossip" /\ exit.pc = "idle"
          /\ exit' = [exit EXCEPT !.pc = "answer", !.joint = m.joint]
          /\ Ask(ExitNode, "gossip", ReqNew(Sid, "gossip", Answerer, "Exit", "Answer"))
          /\ msgs' = msgs \ {m}
    BY <1>12 DEF ExitReceives
  <2>2. PICK j : j = m.joint
    OBVIOUS
  <2> DEFINE r == ReqNew(Sid, "gossip", Answerer, "Exit", "Answer")
  <2>3. r.who = "gossip" /\ r.peer = Answerer /\ r.sid = Sid
    BY DEF ReqNew
  <2>4. Ask(ExitNode, "gossip", r)
    BY <2>1
  <2> HIDE DEF r
  <2>5. exit'.pc = "answer" /\ exit'.joint = j /\ exit'.relay = NoNode
    BY <2>1, <2>2, <1>1, <1>2 DEF ExitState, Rooms, ExitRoom
  <2>6. /\ EntryNode # ExitNode /\ j # EntryNode /\ EntryRole
        /\ OnlyIn({Caller, EntryNode, j}) /\ Light(j) /\ j \notin Client
    BY <2>1, <2>2, <1>1, JointServer DEF Rooms, GossipRoom
  <2>7. Empty(Answerer) /\ (j # ExitNode => Empty(ExitNode))
    BY <2>6, JointServer, Roles DEF OnlyIn
  <2>8. Roomy(ExitNode, r)
    BY <2>3, <2>6, <2>7, <1>2 DEF Roomy, RoomFor, Light, Empty
  <2>9. r.peer = Target("gossip")' /\ EntryBound("gossip", r.my, r.other)'
    BY <2>3, <2>5 DEF Target, EntryBound
  <2>10. Lighter => ExitRoom'
    <3> SUFFICES ASSUME Lighter
                 PROVE  ExitRoom'
      OBVIOUS
    <3>1. Light(j)' /\ EntryRole' /\ (j # ExitNode => Empty(ExitNode)')
      BY <2>6, <2>7, <1>2 DEF Lighter
    <3>2. OnlyIn({Caller, EntryNode, j, ExitNode, Answerer})'
      BY <2>6 DEF Lighter, OnlyIn
    <3>3. Reached'
      BY <3>1, <3>2, <2>5 DEF Reached
    <3> QED
      BY <3>1, <3>3, <2>5, <2>6 DEF ExitRoom
  <2> QED
    BY <2>1, <2>3, <2>4, <2>8, <2>9, <2>10, <1>6, <1>10
<1>13. CASE ExitIsJoint \/ ExitFails \/ ExitCannotExpend
  <2>1. /\ Roomy(ExitNode, ReqClose(Sid)) /\ ReqClose(Sid).op # "New"
        /\ Roomy(ExitNode, ReqSend(Sid, "gossip", "Succ"))
        /\ ReqSend(Sid, "gossip", "Succ").op # "New"
    BY DEF ReqSend, ReqClose, Roomy
  <2>2. /\ \E from, to : ExitAt(from, to) /\ to \in {"send", "expend", "end"}
        /\ \/ Ask(ExitNode, "gossip", ReqSend(Sid, "gossip", "Succ"))
           \/ Ask(ExitNode, "gossip", ReqClose(Sid))
        /\ \E vals : Told(ExitNode, "gossip", vals)
        /\ msgs' = msgs
    BY <1>13 DEF ExitIsJoint, ExitFails, ExitCannotExpend
  <2> QED
    BY <2>1, <2>2, <1>6, <1>8, <1>10
<1>14. CASE ExitPicksRelay \/ ExitRetriesRelay
  <2>1. PICK bad, tries : TryRelay(bad, tries)
    BY <1>14 DEF ExitPicksRelay, ExitRetriesRelay
  <2>2. PICK k : /\ k \in RelayChoice(exit.relay, bad)
                 /\ exit' = [exit EXCEPT !.pc = "relay", !.relay = k, !.bad = bad, !.tries = tries]
                 /\ Ask(ExitNode, "gossip", ReqNew(Sid, "gossip", k, "Exit", "Relay"))
                 /\ msgs' = msgs
    BY <2>1 DEF TryRelay
  <2> DEFINE r == ReqNew(Sid, "gossip", k, "Exit", "Relay")
  <2>3. r.who = "gossip" /\ r.peer = k /\ r.sid = Sid /\ r.other = "Relay"
    BY DEF ReqNew
  <2>4. Ask(ExitNode, "gossip", r)
    BY <2>2
  <2> HIDE DEF r
  <2>5. exit'.pc = "relay" /\ exit'.joint = exit.joint /\ exit'.relay = k
    BY <2>2, <1>2 DEF ExitState
  <2>6. \E vals : Told(ExitNode, "gossip", vals)
    BY <1>14 DEF ExitPicksRelay, ExitRetriesRelay
  <2>7. /\ EntryNode # ExitNode /\ exit.joint # EntryNode /\ exit.joint # ExitNode
        /\ Light(exit.joint) /\ Reached /\ Light(ExitNode)
        /\ exit.relay = NoNode \/ exit.relay # exit.joint
    <3>1. CASE ExitPicksRelay
      <4>1. exit.pc = "answer" /\ exit.joint # ExitNode
        BY <3>1 DEF ExitPicksRelay
      <4>2. Empty(ExitNode) => Light(ExitNode)
        BY EmptyLight
      <4> QED
        BY <4>1, <4>2, <1>1 DEF Rooms, ExitRoom
    <3>2. CASE ExitRetriesRelay
      <4>1. exit.pc = "relay" /\ Told(ExitNode, "gossip", {"err"})
        BY <3>2 DEF ExitRetriesRelay
      <4>2. Stage(5) /\ Home("gossip", 5)
        BY <4>1 DEF Stage, Home
      <4>3. ~ Fruit(ExitNode, "gossip")
        BY <4>1, <4>2, <1>1, <1>2, <1>5, NotFruit
      <4> QED
        BY <4>1, <4>3, <1>1 DEF Rooms, ExitRoom
    <3> QED
      BY <3>1, <3>2, <1>14
  <2>8. k = NoNode \/ (k # exit.joint /\ k \notin Client)
    <3>1. Peers[ExitNode] \subseteq Server
      BY CircuitAssumption, Roles
    <3>2. exit.relay \notin Client
      BY JointServer
    <3> QED
      BY <3>1, <3>2, <2>2, <2>7 DEF RelayChoice, Server
  <2>9. k \in Node => RoomFor(k, "Relay")
    <3> SUFFICES ASSUME k \in Node
                 PROVE  RoomFor(k, "Relay")
      OBVIOUS
    <3>1. k # exit.joint /\ k # Caller /\ k # Answerer
      BY <2>8, JointServer, NoNodeAssumption
    <3>2. CASE k = EntryNode
      <4>1. Len(NoSession.pair) = 0
        BY DEF NoSession
      <4> QED
        BY <4>1, <3>2, <2>7 DEF Reached, EntryRole, Has, RoomFor, Load
    <3>3. CASE k = ExitNode
      BY <3>3, <2>7, <1>2 DEF RoomFor, Light
    <3>4. CASE k # EntryNode /\ k # ExitNode
      BY <3>1, <3>4, <2>7 DEF Reached, OnlyIn, Empty, RoomFor
    <3> QED
      BY <3>2, <3>3, <3>4
  <2>10. Roomy(ExitNode, r)
    BY <2>3, <2>7, <2>9, <1>2 DEF Roomy, Light
  <2>11. r.peer = Target("gossip")' /\ EntryBound("gossip", r.my, r.other)'
    BY <2>3, <2>5 DEF Target, EntryBound
  <2>12. Lighter => ExitRoom'
    <3> SUFFICES ASSUME Lighter
                 PROVE  ExitRoom'
      OBVIOUS
    <3>1. PICK j : j = exit.joint /\ j = exit'.joint
      BY <2>5
    <3>2. Light(j)' /\ Light(ExitNode)' /\ EntryRole'
      BY <3>1, <2>7 DEF Lighter, Reached
    <3>3. OnlyIn({Caller, EntryNode, j, ExitNode, Answerer})'
      BY <3>1, <2>7 DEF Lighter, OnlyIn, Reached
    <3>4. Reached'
      BY <3>1, <3>2, <3>3 DEF Reached
    <3> QED
      BY <3>1, <3>2, <3>4, <2>5, <2>7, <2>8 DEF ExitRoom
  <2> QED
    BY <2>2, <2>3, <2>4, <2>6, <2>10, <2>11, <2>12, <1>6, <1>10
<1>15. CASE ExitExpends
  <2> DEFINE e == Mail("Expend", exit.relay, exit.joint, TRUE)
  <2>1. /\ ExitAt("relay", "expend") /\ Told(ExitNode, "gossip", {"ok"})
        /\ ReadAnswer(ExitNode, "gossip") /\ msgs' = msgs \cup {e}
    BY <1>15 DEF ExitExpends
  <2>2. e.type = "Expend" /\ e.joint = exit.joint
    BY DEF Mail
  <2> HIDE DEF e
  <2>3. Light(exit.joint)
    BY <2>1, <1>1, <1>7 DEF Rooms, ExitRoom
  <2>4. \A m \in msgs' : m \in msgs \/ (m.type = "Expend" /\ Light(m.joint))
    BY <2>1, <2>2, <2>3
  <2> QED
    BY <2>1, <2>4, <1>6, <1>8, <1>10, <1>11
<1>16. CASE ExitExpended
  <2>1. PICK m \in msgs :
          /\ ExitAt("expend", IF m.ok THEN "send" ELSE "end")
          /\ Ask(ExitNode, "gossip", IF m.ok THEN ReqSend(Sid, "gossip", "Probe")
                                             ELSE ReqClose(Sid))
          /\ msgs' = msgs \ {m}
    BY <1>16 DEF ExitExpended
  <2>2. /\ Roomy(ExitNode, ReqClose(Sid)) /\ ReqClose(Sid).op # "New"
        /\ Roomy(ExitNode, ReqSend(Sid, "gossip", "Probe"))
        /\ ReqSend(Sid, "gossip", "Probe").op # "New"
    BY DEF ReqSend, ReqClose, Roomy
  <2>3. exit.pc = "expend"
    BY <2>1, <1>7
  <2> QED
    BY <2>1, <2>2, <2>3, <1>6, <1>8, <1>10
<1>17. CASE ExitSent \/ ExitExpendExpires
  <2>1. CASE ExitSent
    BY <2>1, <1>6, <1>8, <1>10, <1>11 DEF ExitSent
  <2>2. CASE ExitExpendExpires
    <3>1. /\ ExitAt("expend", "end") /\ UNCHANGED relayVars /\ msgs' = msgs
          /\ UNCHANGED <<up, wire, sessionMap, answers>>
      BY <2>2 DEF ExitExpendExpires, relayVars
    <3>2. exit.pc = "expend"
      BY <3>1, <1>7
    <3>3. Still /\ Quiet
      BY <3>1, <1>2, StillQuiet, QuietSteps
    <3> QED
      BY <3>1, <3>2, <3>3, <1>6, <1>8, <1>10
  <2> QED
    BY <1>17, <2>1, <2>2
<1>18. CASE ExitExpires
  <2>1. Disown(ExitNode, "gossip") /\ ExitAt(exit.pc, "end") /\ msgs' = msgs
    BY <1>18 DEF ExitExpires
  <2>2. /\ LinkInv' /\ AnswerOne' /\ Tied' /\ Lighter
        /\ \A m, w, vals : Told(m, w, vals)' <=> Told(m, w, vals)
        /\ \A m, w : Fruit(m, w) => Fruit(m, w)'
    BY <2>1, <1>2, <1>4, <1>5, DisownLinks
  <2>3. ExitRoom'
    BY <2>1, <2>2, <1>8
  <2> QED
    BY <2>1, <2>2, <2>3, <1>9
<1>19. CASE GossipLost
  BY <1>19, IdleLinks DEF GossipLost
<1> QED
  BY <1>12, <1>13, <1>14, <1>15, <1>16, <1>17, <1>18, <1>19 DEF ExitStep, ExitFault

LEMMA CmdKeepsLinks ==
  ASSUME RelayInv, StreamsAssigned, CircuitTypeOK, ApartInv, LinkInv, StageInv,
         CmdStep \/ CmdExpires
  PROVE  LinkInv' /\ StageInv'
<1>1. TypeOK /\ BindInv /\ OneCall /\ Owned /\ Rooms
  BY DEF ApartInv, RelayInv, StageInv
<1>2. "cmd" \in Asker /\ cmd \in CmdState /\ (cmd.pc # "idle" => cmd.at \in Node)
  BY DEF Asker, CircuitTypeOK, Server
<1>3. UNCHANGED <<user, entry, exit>>
  BY DEF CmdStep, CmdReceives, CmdFails, CmdIsEntry, CmdExpends, CmdExpended, CmdSent,
         CmdExpires, CmdAt
<1>4. \A w \in Asker : w \notin {"cmd", "gone"} =>
        /\ Target(w)' = Target(w)
        /\ \A my, other : EntryBound(w, my, other) => EntryBound(w, my, other)'
  BY <1>3 DEF Target, EntryBound, Asker
<1>5. \A m \in Node : MayAsk(m, "cmd") => m = cmd.at /\ cmd.pc \in {"get", "new", "send"}
  BY DEF MayAsk
<1>6. ASSUME cmd.at \in Node, NEW vals, Told(cmd.at, "cmd", vals)
      PROVE  \A m \in Node : ~ Pending(m, "cmd")
  BY <1>2, <1>5, <1>6, ToldIdle
<1>7. \A from, to : CmdAt(from, to) =>
        /\ cmd.pc = from /\ cmd'.pc = to
        /\ cmd'.at = cmd.at /\ cmd'.joint = cmd.joint
  BY <1>2 DEF CmdAt, CmdState
<1>8. ASSUME LinkInv', AnswerOne', Tied', Lighter, CmdRoom',
             \A m \in msgs' : m \in msgs \/ m.type = "ExpendAck",
             \A m, w, vals : w # "cmd" => (Told(m, w, vals) => Told(m, w, vals)'),
             \A m, w : w # "cmd" => (Fruit(m, w) => Fruit(m, w)')
      PROVE  LinkInv' /\ StageInv'
  <2>1. UserRoom' /\ EntryRoom' /\ GossipRoom' /\ ExitRoom'
    BY <1>1, <1>3, <1>8, UserKept, EntryKept, GossipKept, ExitKept DEF Rooms, MailOf
  <2> QED
    BY <2>1, <1>8 DEF StageInv, Rooms
<1>9. ASSUME \A m \in msgs' : m \in msgs \/ m.type = "ExpendAck", cmd'.pc # "get"
      PROVE  Lighter => CmdRoom'
  BY <1>1, <1>9, CmdKept DEF Rooms
<1>10. ASSUME NEW n \in Node, \A m \in Node : ~ Pending(m, "cmd"),
              \/ Still /\ Quiet /\ answers' \in {answers, Forget(n, "cmd")}
              \/ \E r : /\ Ask(n, "cmd", r) /\ Roomy(n, r)
                        /\ r.op = "New" => /\ r.who = "cmd" /\ r.peer = Target("cmd")'
                                           /\ EntryBound("cmd", r.my, r.other)',
              \A m \in msgs' : m \in msgs \/ m.type = "ExpendAck",
              Lighter => CmdRoom'
       PROVE  LinkInv' /\ StageInv'
  <2>1. /\ LinkInv' /\ AnswerOne' /\ Tied' /\ Lighter
        /\ \A m, w, vals : /\ Told(m, w, vals)' => Told(m, w, vals)
                           /\ w # "cmd" => (Told(m, w, vals) => Told(m, w, vals)')
        /\ \A m, w : w # "cmd" => (Fruit(m, w) => Fruit(m, w)')
    BY <1>2, <1>4, <1>10, ManagerLinks
  <2> QED
    BY <2>1, <1>8, <1>10
<1>11. \A ok : Expended(ok) => \A m \in msgs' : m \in msgs \/ m.type = "ExpendAck"
  BY DEF Expended, Mail
<1>12. CASE CmdReceives
  <2>1. PICK m \in msgs : /\ m.type = "Expend" /\ cmd.pc = "idle"
                          /\ cmd' = [pc |-> "get", at |-> m.to, joint |-> m.joint]
                          /\ Ask(m.to, "cmd", ReqGet(Sid, "cmd"))
                          /\ msgs' = msgs \ {m}
    BY <1>12 DEF CmdReceives
  <2>2. m.to \in Node /\ \A k \in Node : ~ Pending(k, "cmd")
    BY <2>1, <1>1, <1>2, <1>5 DEF Owned, CircuitTypeOK, ManagerMsg
  <2>3. Roomy(m.to, ReqGet(Sid, "cmd")) /\ ReqGet(Sid, "cmd").op # "New"
    BY DEF ReqGet, Roomy
  <2>4. PICK k, j : k = m.to /\ j = m.joint /\ cmd'.at = k /\ cmd'.joint = j
    BY <2>1
  <2>5. answers' = Forget(k, "cmd")
    BY <2>1, <2>4 DEF Ask
  <2>6. ~ Told(k, "cmd", {"half"})'
    BY <2>5 DEF Told, Forget
  <2>7. Light(j) /\ \A e \in msgs : e.type = "Expend" => Light(e.joint)
    BY <2>1, <2>4, <1>1 DEF Rooms, CmdRoom
  <2>8. Lighter => CmdRoom'
    <3> SUFFICES ASSUME Lighter
                 PROVE  CmdRoom'
      OBVIOUS
    <3>1. Light(j)' /\ \A e \in msgs' : e.type = "Expend" => Light(e.joint)'
      BY <2>1, <2>7 DEF Lighter
    <3> QED
      BY <3>1, <2>4, <2>6 DEF CmdRoom, Told
  <2> QED
    BY <2>1, <2>2, <2>3, <2>8, <1>10
<1>13. CASE CmdFails("get", "absent") \/ CmdFails("new", "err") \/ CmdIsEntry
  <2>1. /\ Roomy(cmd.at, ReqClose(Sid)) /\ ReqClose(Sid).op # "New"
        /\ Roomy(cmd.at, ReqSend(Sid, "cmd", "Succ"))
        /\ ReqSend(Sid, "cmd", "Succ").op # "New"
    BY DEF ReqSend, ReqClose, Roomy
  <2>2. /\ \E from \in {"get", "new"}, to \in {"send", "end"} : CmdAt(from, to)
        /\ \/ Ask(cmd.at, "cmd", ReqSend(Sid, "cmd", "Succ"))
           \/ Ask(cmd.at, "cmd", ReqClose(Sid))
        /\ \E vals : Told(cmd.at, "cmd", vals)
        /\ \E ok : Expended(ok)
    BY <1>13 DEF CmdFails, CmdIsEntry
  <2>3. cmd.pc # "idle" /\ cmd'.pc # "get"
    BY <2>2, <1>7
  <2>4. cmd.at \in Node /\ \A m \in Node : ~ Pending(m, "cmd")
    BY <2>2, <2>3, <1>2, <1>6
  <2>5. \A m \in msgs' : m \in msgs \/ m.type = "ExpendAck"
    BY <2>2, <1>11
  <2>6. Lighter => CmdRoom'
    BY <2>3, <2>5, <1>9
  <2> QED
    BY <2>1, <2>2, <2>4, <2>5, <2>6, <1>10
<1>14. CASE CmdExpended \/ CmdSent
  <2>1. /\ \E from \in {"new", "send"} : CmdAt(from, "end")
        /\ ReadAnswer(cmd.at, "cmd")
        /\ \E vals : Told(cmd.at, "cmd", vals)
        /\ msgs' = msgs \/ \E ok : Expended(ok)
    BY <1>14 DEF CmdExpended, CmdSent
  <2>2. cmd.pc # "idle" /\ cmd'.pc # "get"
    BY <2>1, <1>7
  <2>3. cmd.at \in Node /\ \A m \in Node : ~ Pending(m, "cmd")
    BY <2>1, <2>2, <1>2, <1>6
  <2>4. UNCHANGED <<up, wire, sessionMap>> /\ answers' = Forget(cmd.at, "cmd")
    BY <2>1 DEF ReadAnswer, netVars
  <2>5. Still /\ Quiet
    BY <2>1, <2>3, <2>4, StillQuiet, QuietSteps
  <2>6. \A m \in msgs' : m \in msgs \/ m.type = "ExpendAck"
    BY <2>1, <1>11
  <2>7. Lighter => CmdRoom'
    BY <2>2, <2>6, <1>9
  <2> QED
    BY <2>3, <2>4, <2>5, <2>6, <2>7, <1>10
<1>15. CASE CmdExpends
  <2>0. PICK r : r = ReqNew(Sid, "cmd", cmd.joint, "Relay", "Joint")
    OBVIOUS
  <2>1. /\ cmd.pc = "get" /\ cmd'.pc = "new" /\ cmd'.joint = cmd.joint /\ msgs' = msgs
        /\ Told(cmd.at, "cmd", {"half"}) /\ Ask(cmd.at, "cmd", r)
    BY <2>0, <1>7, <1>15 DEF CmdExpends
  <2>2. r.who = "cmd" /\ r.peer = cmd.joint /\ r.sid = Sid
    BY <2>0 DEF ReqNew
  <2>3. cmd.at \in Node /\ \A m \in Node : ~ Pending(m, "cmd")
    BY <2>1, <1>2, <1>6
  <2>4. Light(cmd.joint) /\ Light(cmd.at)
    BY <2>1, <1>1 DEF Rooms, CmdRoom
  <2>5. Roomy(cmd.at, r)
    BY <2>2, <2>3, <2>4 DEF Roomy, RoomFor, Light
  <2>6. r.peer = Target("cmd")' /\ EntryBound("cmd", r.my, r.other)'
    BY <2>1, <2>2 DEF Target, EntryBound
  <2>7. Lighter => CmdRoom'
    BY <2>1, <1>9
  <2> QED
    BY <2>1, <2>2, <2>3, <2>5, <2>6, <2>7, <1>10
<1>16. CASE CmdExpires
  <2>1. /\ Disown(cmd.at, "cmd") /\ cmd'.pc = "end" /\ cmd'.joint = cmd.joint
        /\ msgs' = msgs /\ cmd.at \in Node
    BY <1>2, <1>7, <1>16 DEF CmdExpires
  <2>2. \A w \in Asker : w # "cmd" =>
          /\ Target(w)' = Target(w)
          /\ \A my, other : EntryBound(w, my, other) => EntryBound(w, my, other)'
    BY <2>1, <1>3 DEF Target, EntryBound, Asker
  <2>3. /\ LinkInv' /\ AnswerOne' /\ Tied' /\ Lighter
        /\ \A m, w, vals : Told(m, w, vals)' <=> Told(m, w, vals)
        /\ \A m, w : Fruit(m, w) => Fruit(m, w)'
    BY <2>1, <2>2, <1>2, <1>5, DisownLinks
  <2>4. CmdRoom'
    BY <2>1, <2>3, <1>9
  <2> QED
    BY <2>1, <2>3, <2>4, <1>8
<1> QED
  BY <1>12, <1>13, <1>14, <1>15, <1>16 DEF CmdStep

LEMMA EndKeepsLinks ==
  ASSUME RelayInv, StreamsAssigned, CircuitTypeOK, ApartInv, LinkInv, StageInv,
         \/ EntryFindsNoJoint \/ UnexpectedCircuitAck \/ UnexpectedEncryptAck
         \/ GossipEndsNode \/ UnexpectedExpendAck \/ LateExpendAck \/ CmdSendExpires
         \/ \E n \in Node : UnexpectedSetSessionAck(n) \/ NodeCrash(n)
  PROVE  LinkInv' /\ StageInv'
<1>1. CASE LateExpendAck
  <2>1. UNCHANGED <<relayVars, user, entry, exit, cmd>> /\ msgs' \subseteq msgs
    BY <1>1 DEF LateExpendAck
  <2> QED
    BY <2>1, IdleLinks
<1>2. CASE \E n : Kill(n)
  BY <1>2, KillKeepsLinks
<1> QED
  BY <1>1, <1>2 DEF EntryFindsNoJoint, UnexpectedCircuitAck, UnexpectedEncryptAck,
         GossipEndsNode, UnexpectedExpendAck, CmdSendExpires, UnexpectedSetSessionAck, NodeCrash

LEMMA LinkInit ==
  ASSUME CircuitInit
  PROVE  LinkInv /\ StageInv
<1>1. /\ \A n \in Node : waiting[n] = {} /\ mailbox[n] = <<>> /\ up[n] = {}
      /\ \A n \in Node, x \in Stream : wire[n][x] = <<>>
      /\ \A n \in Node : sessionMap[n][Sid] = NoSession
      /\ acks = {} /\ answers = {} /\ alive = Node
  BY Roles DEF CircuitInit, RelayInit
<1>2. LinkInv
  <2>1. NewRoom /\ SetRoom /\ TaskRoom
    BY <1>1 DEF NewRoom, SetRoom, TaskRoom
  <2>2. DeadIdle /\ TaskDials /\ TaskAck /\ AckAgrees
    BY <1>1 DEF DeadIdle, TaskDials, TaskAck, AckAgrees
  <2>3. AllAgreed
    BY <1>1 DEF AllAgreed
  <2> QED
    BY <2>1, <2>2, <2>3 DEF LinkInv
<1>3. AnswerOne /\ Tied
  BY <1>1 DEF AnswerOne, Tied
<1>4. /\ user = "idle" /\ entry.pc = "idle" /\ entry.joint = NoNode
      /\ exit.pc = "idle" /\ exit.relay = NoNode /\ cmd.pc = "idle" /\ msgs = {}
  BY DEF CircuitInit
<1>5. OnlyIn({}) /\ Started
  <2>1. \A n \in Node : Empty(n)
    BY <1>1 DEF Empty, Load, NoSession
  <2>2. Light(EntryNode) /\ EntryRole
    BY <2>1, <1>1, EmptyLight, Roles DEF EntryRole, Has
  <2> QED
    BY <2>1, <2>2 DEF OnlyIn, Started
<1>6. Rooms
  BY <1>4, <1>5, Roles, NoNodeAssumption
     DEF Rooms, UserRoom, EntryRoom, GossipRoom, ExitRoom, CmdRoom, MailOf
<1> QED
  BY <1>2, <1>3, <1>6 DEF StageInv

LEMMA LinkNext ==
  ASSUME "ack" \notin FaultKinds, RelayInv, StreamsAssigned, CircuitTypeOK, ApartInv, LinkInv,
         StageInv, [CircuitNext]_vars
  PROVE  LinkInv' /\ StageInv'
<1>1. CASE UNCHANGED vars
  <2>1. UNCHANGED <<relayVars, user, entry, exit, cmd>> /\ msgs' \subseteq msgs
    BY <1>1 DEF vars
  <2> QED
    BY <2>1, IdleLinks
<1>2. CASE UserStep \/ UserFault
  BY <1>2, UserKeepsLinks
<1>3. CASE EntryStep \/ EntryFault
  BY <1>3, EntryKeepsLinks
<1>4. CASE ExitStep \/ ExitFault
  BY <1>4, ExitKeepsLinks
<1>5. CASE CmdStep \/ CmdExpires
  BY <1>5, CmdKeepsLinks
<1>6. CASE \/ EntryFindsNoJoint \/ UnexpectedCircuitAck \/ UnexpectedEncryptAck
           \/ GossipEndsNode \/ UnexpectedExpendAck \/ LateExpendAck \/ CmdSendExpires
           \/ \E n \in Node : UnexpectedSetSessionAck(n) \/ NodeCrash(n)
  BY <1>6, EndKeepsLinks
<1>7. CASE AnswerDisconnects \/ \E n \in Node : LayerStep(n) \/ LayerFault(n)
  BY <1>7, LayerKeepsLinks
<1> QED
  BY <1>1, <1>2, <1>3, <1>4, <1>5, <1>6, <1>7 DEF CircuitNext

\* Two neighbours on a circuit agree on the stream between them (SetSessionId,
\* handleSetSession, SwapJoint and the closing paths run at the two nodes in any
\* order), whatever fails, as long as a SetSessionId gives up only when its
\* acknowledgement cannot come any more.
THEOREM CircuitLinkAgreement ==
  ASSUME "ack" \notin FaultKinds
  PROVE  CircuitSpec => []LinkAgreement
<1>1. CircuitInit => ApartInv /\ LinkInv /\ StageInv
  BY ApartInit, LinkInit
<1>2. /\ RelayInv /\ StreamsAssigned /\ TypeOK' /\ CircuitTypeOK /\ ApartInv /\ LinkInv /\ StageInv
      /\ [CircuitNext]_vars
      => ApartInv' /\ LinkInv' /\ StageInv'
  BY ApartNext, LinkNext
<1>3. RelayInv /\ LinkInv => LinkAgreement
  BY LinkImplies DEF RelayInv
<1>4. RelayInit => RelayInv /\ StreamsAssigned
  BY InitInv, AssignedInit
<1>5. RelayInv /\ StreamsAssigned /\ [RelayNext]_relayVars => RelayInv' /\ StreamsAssigned'
  BY NextInv, AssignedNext
<1>6. RelaySpec => [](RelayInv /\ StreamsAssigned)
  BY <1>4, <1>5, PTL DEF RelaySpec
<1> QED
  BY <1>1, <1>2, <1>3, <1>6, CircuitRefinesRelay, CircuitTypeCorrect, PTL DEF CircuitSpec
=============================================================================
