---------------------------- MODULE RelayProofs ----------------------------
(***************************************************************************)
(* Proofs about the relay layer under any managers, any failures and any   *)
(* number of nodes, sessions and streams.                                  *)
(***************************************************************************)
EXTENDS Relay, SequenceTheorems, TLAPS

WireType == [Node -> [Stream -> Seq(Message)]]

-----------------------------------------------------------------------------
(* What the shared operators return *)

\* The messages the handlers build are messages.
LEMMA MsgType ==
  ASSUME NEW s \in SessionId
  PROVE  /\ \A type \in {"Probe", "Disc", "Succ"} : Msg(type, s) \in Message
         /\ \A role \in Role : SetMsg(s, role) \in Message
         /\ \A d \in Payload : DataMsg(s, d) \in Message
BY DEF Msg, SetMsg, DataMsg, Message

\* Writing a message keeps the wires well typed.
LEMMA EmitType ==
  ASSUME NEW w \in WireType, NEW n \in Node, NEW X, NEW msg \in Message
  PROVE  Emit(w, n, X, msg) \in WireType
BY DEF WireType, Emit

\* A stream's reader takes one message off its wire.
LEMMA PopType ==
  ASSUME TypeOK, NEW n \in Node, NEW x \in Stream, wire[n][x] # <<>>
  PROVE  /\ Pop(n, x) \in WireType
         /\ Head(wire[n][x]) \in Message
BY DEF TypeOK, WireType, Pop

\* AddStream keeps a session well formed.
LEMMA AddStreamType ==
  ASSUME NEW sess \in SessionType(Stream), NEW x \in Stream
  PROVE  AddStream(sess, x) \in SessionType(Stream)
BY DEF AddStream, SessionType, IsReady

LEMMA NewSessionType ==
  /\ NoSession \in SessionType(Stream)
  /\ \A role \in Role : NewSession(role) \in SessionType(Stream)
BY DEF NoSession, NewSession, SessionType

LEMMA PairType ==
  ASSUME TypeOK, NEW n \in Node, NEW s \in SessionId
  PROVE  Pair(n, s) \subseteq Stream
BY DEF TypeOK, Pair, StreamsIn, SessionType

LEMMA GetPatternType ==
  ASSUME NEW sess \in SessionType(Stream), NEW x, IsReady(sess)
  PROVE  GetPattern(sess, x) \in Stream
BY DEF GetPattern, SessionType, IsReady

LEMMA ReadyType ==
  ASSUME NEW sess \in SessionType(Stream), NEW x \in Stream, IsReady(sess)
  PROVE  /\ sess.pair[1] \in Stream
         /\ sess.pair[2] \in Stream
         /\ [sess EXCEPT !.pair = <<@[1], x>>] \in SessionType(Stream)
<1>1. sess.pair[1] \in Stream /\ sess.pair[2] \in Stream
  BY DEF SessionType, IsReady
<1> DEFINE q == <<sess.pair[1], x>>
<1>2. q \in Seq(Stream) /\ Len(q) = 2
  BY <1>1
<1> HIDE DEF q
<1>3. [sess EXCEPT !.pair = q] \in SessionType(Stream)
  <2> DEFINE r == [sess EXCEPT !.pair = q]
  <2>1. r \in [role : Role \cup {"None"}, pair : Seq(Stream)]
    BY <1>2 DEF SessionType
  <2>2. r.pair = q
    BY DEF SessionType
  <2> HIDE DEF r
  <2>3. Len(r.pair) <= 2
    BY <2>2, <1>2
  <2>4. r \in SessionType(Stream)
    BY <2>1, <2>3 DEF SessionType
  <2> QED
    BY <2>4 DEF r
<1> QED
  BY <1>1, <1>3 DEF q

-----------------------------------------------------------------------------
(* Type correctness *)

\* The part of TypeOK that RemoveSession and its callers change.
TableType ==
  /\ up \in [Node -> SUBSET Stream]
  /\ wire \in WireType
  /\ sessionMap \in [Node -> [SessionId -> SessionType(Stream)]]
  /\ probeMap \in [Node -> SUBSET SessionId]
  /\ circuitConnMap \in [Node -> [SessionId -> {"none", "building", "ready"}]]
  /\ inbox \in [Node -> [SessionId -> Seq(Payload)]]
  /\ secureConnMap \in [Node -> SUBSET SessionId]

\* The rest of TypeOK.
RestType ==
  /\ alive \subseteq Node
  /\ dialer \in [Stream -> Node \cup {NoNode}]
  /\ listener \in [Stream -> Node \cup {NoNode}]
  /\ streamMap \in [Node -> [Stream -> SessionId \cup {NoSid, NotHeld}]]
  /\ spawned \in [Node -> SUBSET Goroutine]
  /\ mailbox \in [Node -> Seq(Request)]
  /\ noticed \in [Node -> SUBSET Stream]
  /\ waiting \in [Node -> SUBSET Task]
  /\ acks \subseteq AckMsg
  /\ answers \subseteq Answer

LEMMA TypeSplit == TypeOK <=> TableType /\ RestType
BY DEF TypeOK, TableType, RestType, WireType

LEMMA TypeJoin ==
  ASSUME TableType', RestType'
  PROVE  TypeOK'
BY DEF TypeOK, TableType, RestType, WireType

LEMMA OnlyWriteType ==
  ASSUME TypeOK, NEW w \in WireType, OnlyWrite(w)
  PROVE  TableType'
BY DEF TypeOK, TableType, OnlyWrite

LEMMA CloseEndsType ==
  ASSUME TypeOK, NEW n \in Node, NEW X, NEW w \in WireType, CloseEnds(n, X, w)
  PROVE  up' \in [Node -> SUBSET Stream] /\ wire' \in WireType
BY DEF TypeOK, CloseEnds, WireType

LEMMA RemoveSessionType ==
  ASSUME TypeOK, NEW n \in Node, NEW s \in SessionId, NEW w \in WireType,
         RemoveSession(n, s, w)
  PROVE  TableType'
<1>1. up' \in [Node -> SUBSET Stream] /\ wire' \in WireType
  BY CloseEndsType DEF RemoveSession
<1>2. sessionMap' \in [Node -> [SessionId -> SessionType(Stream)]]
  BY NewSessionType DEF RemoveSession, TypeOK
<1> QED
  BY <1>1, <1>2 DEF RemoveSession, TypeOK, TableType

LEMMA CloseCircuitType ==
  ASSUME TypeOK, NEW n \in Node, NEW s \in SessionId, NEW w \in WireType,
         CloseCircuit(n, s, w)
  PROVE  TableType'
BY MsgType, EmitType, RemoveSessionType DEF CloseCircuit

LEMMA SendRelayType ==
  ASSUME TypeOK, NEW n \in Node, NEW s \in SessionId, NEW w \in WireType,
         NEW msg \in Message, SendRelay(n, s, msg, w)
  PROVE  TableType'
<1> DEFINE w1 == Emit(w, n, Written(n, s, Pair(n, s)), msg)
<1>1. w1 \in WireType
  BY EmitType
<1> QED
  BY <1>1, OnlyWriteType, CloseCircuitType DEF SendRelay

LEMMA JoinedType ==
  ASSUME TypeOK, NEW n \in Node, NEW s \in SessionId, NEW x \in Stream, NEW role \in Role
  PROVE  Joined(n, s, x, role) \in SessionType(Stream)
BY AddStreamType, NewSessionType DEF Joined, TypeOK
\* One message handled by the reader of a stream.
LEMMA ReaderType ==
  ASSUME TypeOK, NEW n \in Node, NEW x \in Stream,
         \/ HandleSetSession(n, x) \/ HandleRelayMsg(n, x) \/ HandleRelayProbe(n, x)
         \/ HandleDisconnect(n, x) \/ SpawnCircuitSuccess(n, x)
  PROVE  TypeOK'
<1> DEFINE m == Head(wire[n][x])
           sess == sessionMap[n][m.sid]
<1>1. wire[n][x] # <<>> /\ x \in up[n]
  BY DEF HandleSetSession, HandleRelayMsg, HandleRelayProbe, HandleDisconnect,
         SpawnCircuitSuccess, Reads
<1>2. Pop(n, x) \in WireType /\ m \in Message /\ m.sid \in SessionId
  BY <1>1, PopType DEF Message
<1>3. sess \in SessionType(Stream)
  BY <1>2 DEF TypeOK
<1>4. CASE HandleSetSession(n, x)
  <2>1. m.role \in Role
    BY <1>2, <1>4 DEF HandleSetSession, Reads, Message
  <2>2. Remote(n, x) \in alive => Remote(n, x) \in Node
    BY DEF TypeOK
  <2>3. ASSUME NEW ok \in BOOLEAN, Acked(n, x, m, ok)
        PROVE  acks' \subseteq AckMsg
    BY <2>1, <2>2, <2>3, <1>2 DEF Acked, AckMsg, TypeOK
  <2>4. CASE RejectSetSession(n, x, m)
    BY <2>3, <2>4, <1>2, <1>4, OnlyWriteType, TypeSplit, TypeJoin
    DEF RejectSetSession, HandleSetSession, RestType, streamVars
  <2>5. CASE SwapJoint(n, x, m)
    <3> DEFINE j == sess.pair[2]
    <3>1. j \in Stream
      BY <1>3, <2>5, ReadyType DEF SwapJoint
    <3>2. wire' \in WireType
      BY <1>2, <2>5, EmitType, MsgType DEF SwapJoint, TellJoint
    <3>3. sessionMap' \in [Node -> [SessionId -> SessionType(Stream)]]
      <4>1. [sess EXCEPT !.pair = <<@[1], x>>] \in SessionType(Stream)
        BY <1>3, <2>5, ReadyType DEF SwapJoint
      <4> QED
        BY <4>1, <1>2, <2>5 DEF SwapJoint, TypeOK
    <3>4. streamMap' \in [Node -> [Stream -> SessionId \cup {NoSid, NotHeld}]]
      BY <3>1, <1>2, <2>5 DEF SwapJoint, TypeOK
    <3> QED
      BY <3>2, <3>3, <3>4, <2>3, <2>5, <1>4, TypeSplit, TypeJoin
      DEF SwapJoint, HandleSetSession, RestType, TableType, streamVars, connVars
  <2>6. CASE RefuseHalfEntry(n, x, m)
    BY <2>6, <1>2, <1>4, CloseCircuitType, TypeSplit, TypeJoin
    DEF RefuseHalfEntry, HandleSetSession, RestType, streamVars
  <2>7. CASE JoinSession(n, x, m)
    <3>1. sessionMap' \in [Node -> [SessionId -> SessionType(Stream)]]
      BY <2>7, <2>1, <1>2, JoinedType DEF JoinSession, TypeOK
    <3>2. streamMap' \in [Node -> [Stream -> SessionId \cup {NoSid, NotHeld}]]
      BY <2>7, <1>2 DEF JoinSession, Bound, TypeOK
    <3>3. circuitConnMap' \in [Node -> [SessionId -> {"none", "building", "ready"}]]
      BY <2>7, <1>2 DEF JoinSession, TypeOK
    <3> QED
      BY <3>1, <3>2, <3>3, <2>3, <2>7, <1>2, <1>4, TypeSplit, TypeJoin
      DEF JoinSession, HandleSetSession, RestType, TableType, streamVars
  <2> QED
    BY <2>4, <2>5, <2>6, <2>7, <1>4 DEF HandleSetSession
<1>5. CASE HandleRelayMsg(n, x)
  <2>0. m.data \in Payload
    BY <1>2, <1>5 DEF HandleRelayMsg, Reads, Message
  <2>1. RestType'
    BY <1>5, TypeSplit DEF HandleRelayMsg, RestType, streamVars, callVars
  <2>2. CASE IsEnd(sess)
    <3>1. /\ wire' = Pop(n, x)
          /\ inbox' = IF circuitConnMap[n][m.sid] = "none" THEN inbox
                      ELSE [inbox EXCEPT ![n][m.sid] = Append(@, m.data)]
          /\ UNCHANGED <<up, sessionMap, probeMap, circuitConnMap, secureConnMap>>
      BY <2>2, <1>5 DEF HandleRelayMsg
    <3>2. inbox' \in [Node -> [SessionId -> Seq(Payload)]]
      <4>1. inbox \in [Node -> [SessionId -> Seq(Payload)]] /\ m.sid \in SessionId
        BY <1>2 DEF TypeOK
      <4>2. Append(inbox[n][m.sid], m.data) \in Seq(Payload)
        <5>1. inbox[n][m.sid] \in Seq(Payload)
          BY <4>1
        <5> HIDE DEF m
        <5> QED
          BY <5>1, <2>0
      <4> HIDE DEF m
      <4> QED
        BY <3>1, <4>1, <4>2
    <3> QED
      BY <3>1, <3>2, <2>1, <1>2, TypeSplit, TypeJoin DEF TableType
  <2>3. CASE ~ IsEnd(sess) /\ ~ IsReady(sess)
    BY <2>1, <2>3, <1>2, <1>5, OnlyWriteType, TypeSplit, TypeJoin DEF HandleRelayMsg
  <2>4. CASE ~ IsEnd(sess) /\ IsReady(sess)
    BY <2>1, <2>4, <1>2, <1>5, OnlyWriteType, EmitType, CloseCircuitType, TypeSplit, TypeJoin
    DEF HandleRelayMsg
  <2> QED
    BY <2>2, <2>3, <2>4
<1>6. CASE HandleRelayProbe(n, x)
  <2>1. RestType'
    BY <1>6, TypeSplit DEF HandleRelayProbe, RestType, streamVars, callVars
  <2>2. CASE sess.role = "Joint" /\ ~ SecondProbe(n, m.sid)
    <3>1. /\ probeMap' = [probeMap EXCEPT ![n] = @ \cup {m.sid}]
          /\ wire' = Pop(n, x)
          /\ UNCHANGED <<up, sessionMap, circuitConnMap, inbox, secureConnMap>>
      BY <2>2, <1>6 DEF HandleRelayProbe
    <3>2. probeMap' \in [Node -> SUBSET SessionId]
      BY <3>1, <1>2 DEF TypeOK
    <3> QED
      BY <3>1, <3>2, <2>1, <1>2, TypeSplit, TypeJoin DEF TableType
  <2>3. CASE sess.role = "Joint" /\ SecondProbe(n, m.sid)
    <3>1. SendRelay(n, m.sid, Msg("Succ", m.sid), Pop(n, x))
      BY <2>3, <1>6 DEF HandleRelayProbe
    <3> QED
      BY <3>1, <2>1, <1>2, MsgType, SendRelayType, TypeSplit, TypeJoin
  <2>4. CASE sess.role # "Joint"
    BY <2>1, <2>4, <1>2, <1>6, OnlyWriteType, EmitType, TypeSplit, TypeJoin DEF HandleRelayProbe
  <2> QED
    BY <2>2, <2>3, <2>4
<1>7. CASE HandleDisconnect(n, x)
  <2>1. RestType'
    BY <1>7, TypeSplit DEF HandleDisconnect, RestType, streamVars, callVars
  <2> QED
    BY <2>1, <1>2, <1>7, EmitType, RemoveSessionType, CloseCircuitType, TypeSplit, TypeJoin
    DEF HandleDisconnect
<1>8. CASE SpawnCircuitSuccess(n, x)
  <2>1. spawned' \in [Node -> SUBSET Goroutine]
    BY <1>2, <1>8 DEF SpawnCircuitSuccess, TypeOK, Goroutine
  <2> QED
    BY <2>1, <1>2, <1>8, OnlyWriteType, TypeSplit, TypeJoin
    DEF SpawnCircuitSuccess, RestType, streamVars, callVars
<1> QED
  BY <1>4, <1>5, <1>6, <1>7, <1>8

\* A closed stream end changes nothing but the wires and the open ends.
LEMMA ReadErrType ==
  ASSUME TypeOK, NEW n \in Node, NEW x \in Stream, ReadErr(n, x) \/ StreamReset(n, x)
  PROVE  TypeOK'
<1>1. wire \in WireType
  BY DEF TypeOK, WireType
<1>2. up' \in [Node -> SUBSET Stream] /\ wire' \in WireType
  BY <1>1, CloseEndsType DEF ReadErr, StreamReset
<1> QED
  BY <1>2, TypeSplit, TypeJoin
  DEF ReadErr, StreamReset, TableType, RestType, streamVars, connVars, callVars

\* One step of a goroutine that handles a Success signal.
LEMMA GoroutineType ==
  ASSUME TypeOK, NEW n \in Node, NEW g \in spawned[n],
         \/ ForwardSuccess(n, g) \/ StartHandshake(n, g) \/ Handshake(n, g)
         \/ HandshakeCancelled(n, g) \/ StoreSecureConn(n, g)
  PROVE  TypeOK'
<1> DEFINE sess == sessionMap[n][g.sid]
<1>1. wire \in WireType /\ g \in Goroutine /\ g.sid \in SessionId /\ g.stream \in Stream
  BY DEF TypeOK, WireType, Goroutine
<1>2. sess \in SessionType(Stream)
  BY <1>1 DEF TypeOK
<1>3. \A pc \in {"start", "wait1", "wait2", "wait3", "done"} :
        [g EXCEPT !.pc = pc] \in Goroutine
  BY <1>1 DEF Goroutine
<1>4. /\ Dies(n, g) => spawned' \in [Node -> SUBSET Goroutine]
      /\ \A pc \in {"start", "wait1", "wait2", "wait3", "done"} :
           Goes(n, g, pc) => spawned' \in [Node -> SUBSET Goroutine]
  <2>1. spawned \in [Node -> SUBSET Goroutine]
    BY DEF TypeOK
  <2>2. Dies(n, g) => spawned' \in [Node -> SUBSET Goroutine]
    BY <2>1 DEF Dies
  <2>3. ASSUME NEW pc \in {"start", "wait1", "wait2", "wait3", "done"}, Goes(n, g, pc)
        PROVE  spawned' \in [Node -> SUBSET Goroutine]
    <3> DEFINE h == [g EXCEPT !.pc = pc]
    <3>1. h \in Goroutine
      BY <1>3
    <3> HIDE DEF h
    <3>2. spawned' = [spawned EXCEPT ![n] = (@ \ {g}) \cup {h}]
      BY <2>3 DEF Goes, h
    <3> QED
      BY <3>1, <3>2, <2>1
  <2> QED
    BY <2>2, <2>3
<1>5. ASSUME TableType', spawned' \in [Node -> SUBSET Goroutine],
             UNCHANGED <<alive, streamVars, noticed, streamMap, callVars>>
      PROVE  TypeOK'
  BY <1>5, TypeSplit, TypeJoin DEF RestType, streamVars, callVars
<1>6. CASE ForwardSuccess(n, g)
  BY <1>1, <1>2, <1>4, <1>5, <1>6, MsgType, EmitType, OnlyWriteType DEF ForwardSuccess
<1>7. CASE StartHandshake(n, g)
  <2>1. CASE circuitConnMap[n][g.sid] = "none" \/ g.sid \in secureConnMap[n]
    BY <2>1, <1>1, <1>4, <1>5, <1>7, OnlyWriteType DEF StartHandshake
  <2>2. CASE /\ ~ (circuitConnMap[n][g.sid] = "none" \/ g.sid \in secureConnMap[n])
             /\ \/ sess.role = "Answer"
                \/ SendOK(n, g.sid)
    <3>1. /\ circuitConnMap' = [circuitConnMap EXCEPT ![n][g.sid] = "ready"]
          /\ UNCHANGED <<up, sessionMap, probeMap, inbox, secureConnMap>>
          /\ UNCHANGED <<alive, streamVars, noticed, streamMap, callVars>>
          /\ \/ wire' = wire /\ Goes(n, g, "wait1")
             \/ /\ wire' = Emit(wire, n, Pair(n, g.sid), DataMsg(g.sid, "h1"))
                /\ Goes(n, g, "wait2")
      BY <2>2, <1>7 DEF StartHandshake, netVars
    <3>2. DataMsg(g.sid, "h1") \in Message
      BY <1>1, MsgType DEF Payload
    <3>3. wire' \in WireType /\ spawned' \in [Node -> SUBSET Goroutine]
      BY <3>1, <3>2, <1>1, <1>4, EmitType
    <3>4. TableType'
      BY <3>1, <3>3, <1>1, TypeSplit DEF TableType
    <3> QED
      BY <3>1, <3>3, <3>4, <1>5
  <2>3. CASE /\ ~ (circuitConnMap[n][g.sid] = "none" \/ g.sid \in secureConnMap[n])
             /\ sess.role # "Answer" /\ ~ SendOK(n, g.sid)
    <3>1. SendRelay(n, g.sid, DataMsg(g.sid, "h1"), wire) /\ Dies(n, g)
      BY <2>3, <1>7 DEF StartHandshake
    <3>2. DataMsg(g.sid, "h1") \in Message
      BY <1>1, MsgType DEF Payload
    <3> QED
      BY <3>1, <3>2, <1>1, <1>4, <1>5, <1>7, SendRelayType DEF StartHandshake
  <2> QED
    BY <2>1, <2>2, <2>3
<1>8. CASE Handshake(n, g)
  <2> DEFINE rest == [inbox EXCEPT ![n][g.sid] = Tail(@)]
             out == DataMsg(g.sid, IF g.pc = "wait1" THEN "h2" ELSE "h3")
  <2>1. inbox[n][g.sid] # <<>> /\ UNCHANGED <<alive, streamVars, noticed, streamMap, callVars>>
    BY <1>8 DEF Handshake
  <2>2. rest \in [Node -> [SessionId -> Seq(Payload)]]
    BY <2>1, <1>1 DEF TypeOK
  <2>3. out \in Message
    BY <1>1, MsgType DEF Payload
  <2>4. Emit(wire, n, Pair(n, g.sid), out) \in WireType
    BY <2>3, <1>1, EmitType
  <2>5. CASE /\ inbox' = rest
             /\ UNCHANGED <<up, sessionMap, probeMap, circuitConnMap, secureConnMap>>
             /\ wire' = wire \/ wire' = Emit(wire, n, Pair(n, g.sid), out)
             /\ Dies(n, g) \/ Goes(n, g, "wait3") \/ Goes(n, g, "done")
    <3> HIDE DEF rest, out
    <3>1. TableType'
      BY <2>2, <2>4, <2>5, <1>1, TypeSplit DEF TableType
    <3> QED
      BY <3>1, <2>1, <2>5, <1>4, <1>5
  <2>6. CASE SendRelay(n, g.sid, out, wire) /\ Dies(n, g)
    <3> HIDE DEF out
    <3> QED
      BY <2>1, <2>3, <2>6, <1>1, <1>4, <1>5, SendRelayType
  <2> QED
    BY <2>5, <2>6, <1>8 DEF Handshake, netVars
<1>9. CASE HandshakeCancelled(n, g)
  BY <1>1, <1>4, <1>5, <1>9, OnlyWriteType DEF HandshakeCancelled
<1>10. CASE StoreSecureConn(n, g)
  <2>1. secureConnMap' \in [Node -> SUBSET SessionId]
    BY <1>1, <1>10 DEF StoreSecureConn, TypeOK
  <2>2. TableType'
    BY <2>1, <1>10, TypeSplit DEF StoreSecureConn, TableType, netVars
  <2> QED
    BY <2>2, <1>4, <1>5, <1>10 DEF StoreSecureConn
<1> QED
  BY <1>6, <1>7, <1>8, <1>9, <1>10

LEMMA ReplyType ==
  ASSUME TypeOK, NEW n \in Node, NEW who \in Asker,
         NEW val \in {"ok", "err", "absent", "half", "ready"}, Reply(n, who, val)
  PROVE  answers' \subseteq Answer
BY DEF TypeOK, Reply, Answer

\* NewSessionToPeer, in the actor or in the user's goroutine.
LEMMA DialAndSetType ==
  ASSUME TypeOK, NEW n \in Node, NEW p, NEW s \in SessionId, NEW my \in Role,
         NEW other \in Role, NEW proc \in {"actor", "user"}, NEW who \in Asker,
         DialAndSet(n, p, s, my, other, proc, who), mailbox' \in [Node -> Seq(Request)]
  PROVE  TypeOK'
<1>1. p \in Node
  BY DEF DialAndSet, TypeOK
<1>2. PICK x \in Stream :
        /\ dialer' = [dialer EXCEPT ![x] = n]
        /\ listener' = [listener EXCEPT ![x] = p]
        /\ up' = [up EXCEPT ![n] = @ \cup {x}, ![p] = @ \cup {x}]
        /\ wire' = [wire EXCEPT ![p][x] = <<SetMsg(s, other)>>]
        /\ streamMap' = [streamMap EXCEPT ![n][x] = NoSid, ![p][x] = NoSid]
        /\ waiting' = [waiting EXCEPT ![n] = @ \cup
             {[proc |-> proc, sid |-> s, stream |-> x, my |-> my, other |-> other,
               who |-> who]}]
  BY DEF DialAndSet
<1>3. wire' \in WireType
  <2> DEFINE q == <<SetMsg(s, other)>>
  <2>1. q \in Seq(Message)
    BY MsgType
  <2> HIDE DEF q
  <2>2. wire' = [wire EXCEPT ![p][x] = q]
    BY <1>2 DEF q
  <2> QED
    BY <2>1, <2>2, <1>1 DEF WireType, TypeOK
<1>4. up' \in [Node -> SUBSET Stream]
  BY <1>1, <1>2 DEF TypeOK
<1>5. streamMap' \in [Node -> [Stream -> SessionId \cup {NoSid, NotHeld}]]
  BY <1>1, <1>2 DEF TypeOK
<1>6. waiting' \in [Node -> SUBSET Task]
  <2> DEFINE t == [proc |-> proc, sid |-> s, stream |-> x, my |-> my, other |-> other,
                   who |-> who]
  <2>1. t \in Task
    BY DEF Task
  <2> HIDE DEF t
  <2>2. waiting' = [waiting EXCEPT ![n] = @ \cup {t}]
    BY <1>2 DEF t
  <2> QED
    BY <2>1, <2>2 DEF TypeOK
<1>7. dialer' \in [Stream -> Node \cup {NoNode}] /\ listener' \in [Stream -> Node \cup {NoNode}]
  BY <1>1, <1>2 DEF TypeOK
<1> QED
  BY <1>3, <1>4, <1>5, <1>6, <1>7, TypeSplit, TypeJoin
  DEF DialAndSet, TableType, RestType, connVars

\* The acknowledgement of a SetSessionId arrives, or does not.
LEMMA AckType ==
  ASSUME TypeOK, NEW n \in Node, NEW t \in waiting[n],
         SetSessionTimeout(n, t) \/ (\E a \in acks : AckArrives(n, a, t))
  PROVE  TypeOK'
<1>1. /\ t \in Task /\ t.sid \in SessionId /\ t.stream \in Stream
      /\ t.my \in Role /\ t.who \in Asker
  BY DEF TypeOK, Task
<1>2. waiting' \in [Node -> SUBSET Task]
  <2>1. waiting' = [waiting EXCEPT ![n] = @ \ {t}]
    BY DEF SetSessionTimeout, AckArrives
  <2> QED
    BY <2>1 DEF TypeOK
<1>3. CASE SetSessionTimeout(n, t)
  BY <1>1, <1>2, <1>3, ReplyType, TypeSplit, TypeJoin
  DEF SetSessionTimeout, RestType, TableType, streamVars, netVars, connVars
<1>4. ASSUME NEW a \in acks, AckArrives(n, a, t)
      PROVE  TypeOK'
  <2>1. /\ acks' \subseteq AckMsg
        /\ UNCHANGED <<alive, streamVars, noticed, netVars, connVars, spawned, mailbox>>
    BY <1>4 DEF AckArrives, TypeOK
  <2>2. /\ streamMap' \in [Node -> [Stream -> SessionId \cup {NoSid, NotHeld}]]
        /\ sessionMap' \in [Node -> [SessionId -> SessionType(Stream)]]
        /\ answers' \subseteq Answer
    <3>1. CASE a.ok
      <4>1. SessionSet(n, t)
        BY <3>1, <1>4 DEF AckArrives
      <4>2. Joined(n, t.sid, t.stream, t.my) \in SessionType(Stream)
        BY <1>1, JoinedType
      <4>3. sessionMap' \in [Node -> [SessionId -> SessionType(Stream)]]
        BY <4>1, <4>2, <1>1 DEF SessionSet, TypeOK
      <4>4. streamMap' \in [Node -> [Stream -> SessionId \cup {NoSid, NotHeld}]]
        BY <4>1, <1>1 DEF SessionSet, Bound, TypeOK
      <4> QED
        BY <4>1, <4>3, <4>4, <1>1, ReplyType DEF SessionSet
    <3>2. CASE ~ a.ok
      BY <3>2, <1>1, <1>4, ReplyType DEF AckArrives, TypeOK
    <3> QED
      BY <3>1, <3>2
  <2> QED
    BY <2>1, <2>2, <1>2, TypeSplit, TypeJoin
    DEF RestType, TableType, streamVars, netVars, connVars
<1> QED
  BY <1>3, <1>4

\* The request at the head of a mailbox.
LEMMA ServesType ==
  ASSUME TypeOK, NEW n \in Node, NEW op, Serves(n, op)
  PROVE  /\ mailbox' \in [Node -> Seq(Request)]
         /\ Head(mailbox[n]) \in Request
         /\ Head(mailbox[n]).op = op
         /\ Head(mailbox[n]).sid \in SessionId
         /\ Head(mailbox[n]).who \in Asker
<1>1. mailbox[n] \in Seq(Request) /\ mailbox[n] # <<>>
  BY DEF TypeOK, Serves
<1>2. Head(mailbox[n]) \in Request /\ Tail(mailbox[n]) \in Seq(Request)
  BY <1>1
<1>3. mailbox' \in [Node -> Seq(Request)]
  BY <1>2 DEF Serves, TypeOK
<1> QED
  BY <1>2, <1>3 DEF Serves, Request

\* One request or notification served by the actor.
LEMMA ActorType ==
  ASSUME TypeOK, NEW n \in Node,
         \/ ServeNew(n) \/ ServeNewFails(n) \/ ServeSend(n) \/ ServeClose(n) \/ ServeGet(n)
         \/ \E x \in Stream : HandleStreamClosed(n, x)
  PROVE  TypeOK'
<1> DEFINE r == Head(mailbox[n])
<1>0. wire \in WireType
  BY DEF TypeOK, WireType
<1>1. CASE ServeNew(n)
  <2>1. Serves(n, "New") /\ DialAndSet(n, r.peer, r.sid, r.my, r.other, "actor", r.who)
    BY <1>1 DEF ServeNew
  <2>2. r \in Request /\ r.op = "New" /\ r.sid \in SessionId /\ r.who \in Asker
        /\ mailbox' \in [Node -> Seq(Request)]
    BY <2>1, ServesType
  <2>3. r.my \in Role /\ r.other \in Role
    BY <2>2 DEF Request
  <2> HIDE DEF r
  <2> QED
    BY <2>1, <2>2, <2>3, DialAndSetType
<1>2. CASE ServeNewFails(n)
  <2>1. r.who \in Asker /\ mailbox' \in [Node -> Seq(Request)]
    BY <1>2, ServesType DEF ServeNewFails
  <2>2. answers' \subseteq Answer
    BY <2>1, <1>2, ReplyType DEF ServeNewFails
  <2> QED
    BY <2>1, <2>2, <1>2, TypeSplit, TypeJoin
    DEF ServeNewFails, RestType, TableType, streamVars, netVars, connVars
<1>3. CASE ServeSend(n)
  <2>1. /\ r \in Request /\ r.op = "Send" /\ r.sid \in SessionId /\ r.who \in Asker
        /\ mailbox' \in [Node -> Seq(Request)]
    BY <1>3, ServesType DEF ServeSend
  <2>2. Msg(r.type, r.sid) \in Message
    BY <2>1, MsgType DEF Request
  <2>3. TableType'
    BY <2>1, <2>2, <1>0, <1>3, SendRelayType DEF ServeSend
  <2>4. answers' \subseteq Answer
    BY <2>1, <1>3, ReplyType DEF ServeSend
  <2> QED
    BY <2>1, <2>3, <2>4, <1>3, TypeSplit, TypeJoin DEF ServeSend, RestType, streamVars
<1>4. CASE ServeClose(n)
  <2>1. r.sid \in SessionId /\ mailbox' \in [Node -> Seq(Request)]
    BY <1>4, ServesType DEF ServeClose
  <2>2. TableType'
    BY <2>1, <1>0, <1>4, CloseCircuitType DEF ServeClose
  <2> QED
    BY <2>1, <2>2, <1>4, TypeSplit, TypeJoin DEF ServeClose, RestType, streamVars
<1>5. CASE ServeGet(n)
  <2>1. r.who \in Asker /\ mailbox' \in [Node -> Seq(Request)]
    BY <1>5, ServesType DEF ServeGet
  <2>2. answers' \subseteq Answer
    BY <2>1, <1>5, ReplyType DEF ServeGet
  <2> QED
    BY <2>1, <2>2, <1>5, TypeSplit, TypeJoin
    DEF ServeGet, RestType, TableType, streamVars, netVars, connVars
<1>6. ASSUME NEW x \in Stream, HandleStreamClosed(n, x)
      PROVE  TypeOK'
  <2>1. TableType'
    BY <1>0, <1>6, CloseCircuitType, OnlyWriteType DEF HandleStreamClosed
  <2>2. streamMap' \in [Node -> [Stream -> SessionId \cup {NoSid, NotHeld}]]
    BY <1>6 DEF HandleStreamClosed, TypeOK
  <2>3. noticed' \in [Node -> SUBSET Stream]
    BY <1>6 DEF HandleStreamClosed, TypeOK
  <2> QED
    BY <2>1, <2>2, <2>3, <1>6, TypeSplit, TypeJoin
    DEF HandleStreamClosed, RestType, streamVars, callVars
<1> QED
  BY <1>1, <1>2, <1>3, <1>4, <1>5, <1>6

\* One step of the user's goroutine.
LEMMA UserType ==
  ASSUME TypeOK, NEW n \in Node, NEW s \in SessionId,
         \/ \E p \in Node : UserDial(n, p, s)
         \/ AddCircuitConnCaller(n, s) \/ UserClose(n, s) \/ UserSend(n, s) \/ UserRead(n, s)
  PROVE  TypeOK'
<1>0. wire \in WireType
  BY DEF TypeOK, WireType
<1>1. ASSUME NEW p \in Node, UserDial(n, p, s)
      PROVE  TypeOK'
  <2>1. mailbox' \in [Node -> Seq(Request)]
    BY <1>1 DEF UserDial, TypeOK
  <2>2. "Caller" \in Role /\ "Entry" \in Role /\ "user" \in Asker
    BY DEF Role, Asker
  <2> QED
    BY <2>1, <2>2, <1>1, DialAndSetType DEF UserDial
<1>2. CASE AddCircuitConnCaller(n, s)
  <2>1. circuitConnMap' \in [Node -> [SessionId -> {"none", "building", "ready"}]]
    BY <1>2 DEF AddCircuitConnCaller, TypeOK
  <2> QED
    BY <2>1, <1>2, TypeSplit, TypeJoin
    DEF AddCircuitConnCaller, RestType, TableType, streamVars, netVars, callVars
<1>3. CASE UserClose(n, s)
  BY <1>0, <1>3, CloseCircuitType, TypeSplit, TypeJoin
  DEF UserClose, RestType, streamVars, callVars
<1>4. CASE UserSend(n, s)
  <2>1. DataMsg(s, "app") \in Message
    BY MsgType DEF Payload
  <2> QED
    BY <2>1, <1>0, <1>4, SendRelayType, TypeSplit, TypeJoin
    DEF UserSend, RestType, streamVars, callVars
<1>5. CASE UserRead(n, s)
  <2>1. inbox' \in [Node -> [SessionId -> Seq(Payload)]]
    BY <1>5 DEF UserRead, TypeOK
  <2> QED
    BY <2>1, <1>5, TypeSplit, TypeJoin
    DEF UserRead, RestType, TableType, streamVars, netVars, callVars
<1> QED
  BY <1>1, <1>2, <1>3, <1>4, <1>5

\* A process ends, whatever ends it, or starts again.
LEMMA CrashType ==
  ASSUME TypeOK, NEW n \in Node, Crash(n) \/ Restart(n)
  PROVE  TypeOK'
<1>1. CASE Crash(n)
  <2>1. sessionMap' \in [Node -> [SessionId -> SessionType(Stream)]]
    BY <1>1, NewSessionType DEF Crash, TypeOK
  <2>2. /\ wire' \in WireType
        /\ inbox' \in [Node -> [SessionId -> Seq(Payload)]]
        /\ mailbox' \in [Node -> Seq(Request)]
    BY <1>1 DEF Crash, TypeOK, WireType
  <2>3. /\ up' \in [Node -> SUBSET Stream]
        /\ noticed' \in [Node -> SUBSET Stream]
        /\ probeMap' \in [Node -> SUBSET SessionId]
        /\ secureConnMap' \in [Node -> SUBSET SessionId]
        /\ spawned' \in [Node -> SUBSET Goroutine]
        /\ waiting' \in [Node -> SUBSET Task]
    BY <1>1 DEF Crash, TypeOK
  <2>4. /\ streamMap' \in [Node -> [Stream -> SessionId \cup {NoSid, NotHeld}]]
        /\ circuitConnMap' \in [Node -> [SessionId -> {"none", "building", "ready"}]]
    BY <1>1 DEF Crash, TypeOK
  <2>5. alive' \subseteq Node /\ acks' \subseteq AckMsg /\ answers' \subseteq Answer
    BY <1>1 DEF Crash, TypeOK
  <2> QED
    BY <2>1, <2>2, <2>3, <2>4, <2>5, <1>1, TypeSplit, TypeJoin
    DEF Crash, RestType, TableType, streamVars
<1>2. CASE Restart(n)
  <2>1. alive' \subseteq Node
    BY <1>2 DEF Restart, TypeOK
  <2> QED
    BY <2>1, <1>2, TypeSplit, TypeJoin
    DEF Restart, RestType, TableType, streamVars, netVars, connVars, callVars
<1> QED
  BY <1>1, <1>2

\* The requests the managers may post are requests.
LEMMA AskType ==
  ASSUME TypeOK, NEW n \in Node, NEW who \in Asker,
         AskAny(n, who) \/ ReadAnswer(n, who)
  PROVE  TypeOK'
<1>1. answers' \subseteq Answer
  BY DEF AskAny, Ask, ReadAnswer, Forget, TypeOK
<1>2. CASE AskAny(n, who)
  <2>1. PICK r \in Request : Ask(n, who, r)
    <3>1. PICK s \in SessionId :
            \/ \E p \in Node \cup {NoNode}, rp \in RolePair :
                 Ask(n, who, ReqNew(s, who, p, rp[1], rp[2]))
            \/ \E type \in {"Probe", "Succ"} : Ask(n, who, ReqSend(s, who, type))
            \/ Ask(n, who, ReqGet(s, who))
            \/ Ask(n, who, ReqClose(s))
      BY <1>2 DEF AskAny
    <3>2. \A p \in Node \cup {NoNode}, rp \in RolePair :
            ReqNew(s, who, p, rp[1], rp[2]) \in Request
      BY DEF RolePair, Role, ReqNew, Request
    <3>3. \A type \in {"Probe", "Succ"} : ReqSend(s, who, type) \in Request
      BY DEF ReqSend, Request
    <3>4. ReqGet(s, who) \in Request /\ ReqClose(s) \in Request
      BY DEF ReqGet, ReqClose, Request, Asker
    <3> QED
      BY <3>1, <3>2, <3>3, <3>4
  <2>2. mailbox' \in [Node -> Seq(Request)]
    BY <2>1 DEF Ask, TypeOK
  <2> QED
    BY <2>1, <2>2, <1>1, TypeSplit, TypeJoin
    DEF Ask, RestType, TableType, streamVars, netVars, connVars
<1>3. CASE ReadAnswer(n, who)
  BY <1>1, <1>3, TypeSplit, TypeJoin
  DEF ReadAnswer, RestType, TableType, streamVars, netVars, connVars
<1> QED
  BY <1>2, <1>3

\* An expired future leaves requests and calls well typed.
LEMMA DisownType ==
  ASSUME TypeOK, NEW n \in Node, NEW who \in Asker, Disown(n, who)
  PROVE  TypeOK'
<1>1. mailbox' \in [Node -> Seq(Request)]
  <2> DEFINE old == mailbox[n]
             q == [i \in DOMAIN old |->
                     IF old[i].who = who THEN [old[i] EXCEPT !.who = "gone"] ELSE old[i]]
  <2>1. old \in Seq(Request) /\ mailbox \in [Node -> Seq(Request)]
    BY DEF TypeOK
  <2>2. mailbox' = [mailbox EXCEPT ![n] = q]
    BY DEF Disown
  <2>3. DOMAIN old = 1..Len(old) /\ Len(old) \in Nat
    BY <2>1, LenProperties
  <2>4. \A i \in DOMAIN old : q[i] \in Request
    <3> SUFFICES ASSUME NEW i \in DOMAIN old
                 PROVE  q[i] \in Request
      OBVIOUS
    <3>1. old[i] \in Request
      BY <2>1, <2>3, ElementOfSeq
    <3>2. [old[i] EXCEPT !.who = "gone"] \in Request
      BY <3>1 DEF Request, Asker
    <3> QED
      BY <3>1, <3>2
  <2>5. q \in [1..Len(old) -> Request]
    BY <2>3, <2>4
  <2>6. q \in Seq(Request)
    <3> HIDE DEF q
    <3> QED
      BY <2>5, <2>3, SeqDef
  <2> HIDE DEF q
  <2> QED
    BY <2>1, <2>2, <2>6
<1>2. waiting' \in [Node -> SUBSET Task]
  <2> DEFINE T == {IF t.who = who THEN [t EXCEPT !.who = "gone"] ELSE t : t \in waiting[n]}
  <2>1. \A t \in Task : [t EXCEPT !.who = "gone"] \in Task
    BY DEF Task, Asker
  <2>2. T \subseteq Task
    BY <2>1 DEF TypeOK
  <2>3. waiting' = [waiting EXCEPT ![n] = T]
    BY DEF Disown
  <2> HIDE DEF T
  <2> QED
    BY <2>2, <2>3 DEF TypeOK
<1> QED
  BY <1>1, <1>2, TypeSplit, TypeJoin
  DEF Disown, RestType, TableType, streamVars, netVars, connVars

LEMMA InitType == RelayInit => TypeOK
<1> SUFFICES ASSUME RelayInit
             PROVE  TypeOK
  OBVIOUS
<1>1. sessionMap \in [Node -> [SessionId -> SessionType(Stream)]]
  BY NewSessionType DEF RelayInit
<1> QED
  BY <1>1 DEF RelayInit, TypeOK

\* Every step of the relay layer, of its environment and of its failures keeps
\* the tables well typed.
LEMMA NextType == TypeOK /\ [RelayNext]_relayVars => TypeOK'
<1> SUFFICES ASSUME TypeOK, [RelayNext]_relayVars
             PROVE  TypeOK'
  OBVIOUS
<1>1. CASE UNCHANGED relayVars
  BY <1>1, TypeSplit, TypeJoin DEF relayVars, RestType, TableType
<1>2. ASSUME NEW n \in Node, RelayStep(n)
      PROVE  TypeOK'
  BY <1>2, ReaderType, ReadErrType, GoroutineType, AckType,
     ActorType DEF RelayStep
<1>3. ASSUME NEW n \in Node, RelayPanic(n)
      PROVE  TypeOK'
  BY <1>3, CrashType DEF RelayPanic, AckWithoutTask
<1>4. ASSUME NEW n \in Node, RelayFault(n)
      PROVE  TypeOK'
  BY <1>4, ReadErrType, AckType, ActorType, CrashType DEF RelayFault
<1>5. ASSUME NEW n \in Node, RelayInput(n)
      PROVE  TypeOK'
  BY <1>5, AskType, DisownType, UserType DEF RelayInput
<1> QED
  BY <1>1, <1>2, <1>3, <1>4, <1>5 DEF RelayNext

\* The tables of every node keep their types whatever the managers ask, in any
\* order, and whatever fails: no handler ever stores a session with more than
\* two streams or sends a message another handler does not know.
THEOREM TypeCorrect == RelaySpec => []TypeOK
BY InitType, NextType, PTL DEF RelaySpec

-----------------------------------------------------------------------------
(* What the handlers do to the wires: no SetSessionId is ever added *)

\* Every SetSessionId on the wires w2 is where it was on the wires w1.
SetsFrom(w2, w1) ==
  \A m \in Node, x \in Stream : \A i \in 1..Len(w2[m][x]) :
    w2[m][x][i].type = "Set" => i \in 1..Len(w1[m][x]) /\ w1[m][x][i] = w2[m][x][i]

\* Nothing lies on the wire of a closed end.
Silent(w) == \A m \in Node, x \in Stream : x \notin up[m] => w[m][x] = <<>>

\* Wires a handler may have written on.
CalmWire(w) == w \in WireType /\ SetsFrom(w, wire) /\ Silent(w)

LEMMA CalmStart ==
  ASSUME RelayInv
  PROVE  CalmWire(wire)
BY DEF RelayInv, TypeOK, EndsKnown, CalmWire, WireType, SetsFrom, Silent

LEMMA CalmPop ==
  ASSUME RelayInv, NEW n \in Node, NEW x \in Stream, wire[n][x] # <<>>
  PROVE  /\ CalmWire(Pop(n, x))
         /\ \A i \in 1..Len(Pop(n, x)[n][x]) : Pop(n, x)[n][x][i].type # "Set"
<1> DEFINE w == Pop(n, x)
<1>1. TypeOK /\ w \in WireType /\ wire \in WireType /\ wire[n][x] \in Seq(Message)
  BY PopType DEF RelayInv, TypeOK, WireType
<1>2. /\ w[n][x] = Tail(wire[n][x])
      /\ \A m \in Node, y \in Stream : m # n \/ y # x => w[m][y] = wire[m][y]
  BY <1>1 DEF Pop, WireType
<1>3. /\ Len(Tail(wire[n][x])) = Len(wire[n][x]) - 1
      /\ \A i \in 1..Len(Tail(wire[n][x])) : Tail(wire[n][x])[i] = wire[n][x][i + 1]
  BY <1>1
<1>4. \A i \in 1..Len(w[n][x]) : w[n][x][i].type # "Set"
  <2> SUFFICES ASSUME NEW i \in 1..Len(w[n][x]), w[n][x][i].type = "Set"
               PROVE  FALSE
    OBVIOUS
  <2>1. Len(wire[n][x]) \in Nat
    BY <1>1
  <2>2. i + 1 \in 1..Len(wire[n][x]) /\ wire[n][x][i + 1].type = "Set" /\ i + 1 # 1
    BY <1>2, <1>3, <2>1
  <2> QED
    BY <2>2 DEF RelayInv, SetFirst
<1> HIDE DEF w
<1>5. SetsFrom(w, wire)
  BY <1>2, <1>4 DEF SetsFrom
<1>6. Silent(w)
  <2> SUFFICES ASSUME NEW m \in Node, NEW y \in Stream, y \notin up[m]
               PROVE  w[m][y] = <<>>
    BY DEF Silent
  <2>1. wire[m][y] = <<>>
    BY DEF RelayInv, EndsKnown
  <2> QED
    BY <2>1, <1>2
<1> QED
  BY <1>1, <1>4, <1>5, <1>6 DEF w, CalmWire

\* Any other message may be written.
LEMMA CalmEmit ==
  ASSUME NEW w, CalmWire(w), NEW n \in Node, NEW X, NEW msg \in Message, msg.type # "Set"
  PROVE  /\ CalmWire(Emit(w, n, X, msg))
         /\ SetsFrom(Emit(w, n, X, msg), w)
<1> DEFINE v == Emit(w, n, X, msg)
<1>1. w \in WireType /\ v \in WireType
  BY EmitType DEF CalmWire
<1>2. \A m \in Node, x \in Stream :
        \/ v[m][x] = w[m][x]
        \/ v[m][x] = Append(w[m][x], msg) /\ x \in up[m]
  BY DEF Emit
<1> HIDE DEF v
<1>3. SetsFrom(v, w)
  <2> SUFFICES ASSUME NEW m \in Node, NEW x \in Stream, NEW i \in 1..Len(v[m][x]),
                      v[m][x][i].type = "Set"
               PROVE  i \in 1..Len(w[m][x]) /\ w[m][x][i] = v[m][x][i]
    BY DEF SetsFrom
  <2>1. CASE v[m][x] = w[m][x]
    BY <2>1
  <2>2. CASE v[m][x] = Append(w[m][x], msg)
    <3>1. w[m][x] \in Seq(Message)
      BY <1>1 DEF WireType
    <3>2. /\ Len(v[m][x]) = Len(w[m][x]) + 1 /\ Len(w[m][x]) \in Nat
          /\ v[m][x][Len(w[m][x]) + 1] = msg
          /\ \A j \in 1..Len(w[m][x]) : v[m][x][j] = w[m][x][j]
      BY <2>2, <3>1
    <3>3. i # Len(w[m][x]) + 1
      BY <3>2
    <3>4. i \in 1..Len(w[m][x])
      BY <3>2, <3>3
    <3> QED
      BY <3>2, <3>4
  <2> QED
    BY <2>1, <2>2, <1>2
<1>4. SetsFrom(v, wire)
  BY <1>3 DEF CalmWire, SetsFrom
<1>5. Silent(v)
  BY <1>2 DEF CalmWire, Silent
<1> QED
  BY <1>1, <1>3, <1>4, <1>5 DEF v, CalmWire

\* A calm step closes streams, removes sessions and writes messages other than
\* SetSessionId; it neither opens nor binds anything.
Calm ==
  /\ \A m \in Node : up'[m] \subseteq up[m]
  /\ SetsFrom(wire', wire)
  /\ \A m \in Node, x \in Stream : x \notin up'[m] => wire'[m][x] = <<>>
  /\ \A m \in Node, s \in SessionId : sessionMap'[m][s] \in {sessionMap[m][s], NoSession}

LEMMA OnlyWriteCalm ==
  ASSUME TypeOK, NEW w, CalmWire(w), OnlyWrite(w)
  PROVE  Calm
BY DEF OnlyWrite, CalmWire, Silent, Calm

LEMMA CloseEndsCalm ==
  ASSUME TypeOK, NEW w, CalmWire(w), NEW n \in Node, NEW X, CloseEnds(n, X, w)
  PROVE  /\ \A m \in Node : up'[m] \subseteq up[m]
         /\ SetsFrom(wire', wire)
         /\ \A m \in Node, x \in Stream : x \notin up'[m] => wire'[m][x] = <<>>
<1>1. /\ \A m \in Node : up'[m] = IF m = n THEN up[m] \ X ELSE up[m]
      /\ \A m \in Node, x \in Stream :
           wire'[m][x] = IF m = n /\ x \in X THEN <<>> ELSE w[m][x]
  BY DEF CloseEnds, CalmWire, WireType, TypeOK
<1>2. SetsFrom(wire', wire)
  <2> SUFFICES ASSUME NEW m \in Node, NEW x \in Stream, NEW i \in 1..Len(wire'[m][x]),
                      wire'[m][x][i].type = "Set"
               PROVE  i \in 1..Len(wire[m][x]) /\ wire[m][x][i] = wire'[m][x][i]
    BY DEF SetsFrom
  <2>1. wire'[m][x] = w[m][x]
    BY <1>1
  <2> QED
    BY <2>1 DEF CalmWire, SetsFrom
<1>3. ASSUME NEW m \in Node, NEW x \in Stream, x \notin up'[m]
      PROVE  wire'[m][x] = <<>>
  <2>1. CASE m = n /\ x \in X
    BY <2>1, <1>1
  <2>2. CASE ~ (m = n /\ x \in X)
    <3>1. wire'[m][x] = w[m][x] /\ x \notin up[m]
      BY <2>2, <1>1, <1>3
    <3> QED
      BY <3>1 DEF CalmWire, Silent
  <2> QED
    BY <2>1, <2>2
<1>4. \A m \in Node : up'[m] \subseteq up[m]
  BY <1>1
<1> QED
  BY <1>2, <1>3, <1>4

LEMMA RemoveSessionCalm ==
  ASSUME TypeOK, NEW w, CalmWire(w), NEW n \in Node, NEW s \in SessionId,
         RemoveSession(n, s, w)
  PROVE  Calm /\ sessionMap'[n][s] = NoSession
<1>1. /\ \A m \in Node, r \in SessionId : sessionMap'[m][r] \in {sessionMap[m][r], NoSession}
      /\ sessionMap'[n][s] = NoSession
  BY DEF RemoveSession, TypeOK
<1> QED
  BY <1>1, CloseEndsCalm DEF RemoveSession, Calm

LEMMA CloseCircuitCalm ==
  ASSUME TypeOK, NEW w, CalmWire(w), NEW n \in Node, NEW s \in SessionId,
         CloseCircuit(n, s, w)
  PROVE  Calm /\ sessionMap'[n][s] = NoSession
<1>1. Msg("Disc", s) \in Message /\ Msg("Disc", s).type # "Set"
  BY MsgType DEF Msg
<1> QED
  BY <1>1, CalmEmit, RemoveSessionCalm DEF CloseCircuit

LEMMA SendRelayCalm ==
  ASSUME TypeOK, NEW w, CalmWire(w), NEW n \in Node, NEW s \in SessionId,
         NEW msg \in Message, msg.type # "Set", SendRelay(n, s, msg, w)
  PROVE  Calm
<1> DEFINE w1 == Emit(w, n, Written(n, s, Pair(n, s)), msg)
<1>1. CalmWire(w1)
  BY CalmEmit
<1>2. OnlyWrite(w1) \/ CloseCircuit(n, s, w1)
  BY DEF SendRelay
<1> HIDE DEF w1
<1> QED
  BY <1>1, <1>2, OnlyWriteCalm, CloseCircuitCalm

\* A calm step that binds nothing and starts no call keeps the invariant.
LEMMA CalmKeeps ==
  ASSUME RelayInv, TypeOK', Calm, UNCHANGED <<dialer, listener, streamMap, noticed>>,
         \A m \in Node : waiting'[m] \subseteq waiting[m]
  PROVE  RelayInv'
<1>1. EndsDiffer'
  BY DEF RelayInv, EndsDiffer
<1>2. EndsKnown'
  BY DEF RelayInv, EndsKnown, IsEndOf, Calm
<1>3. HeldUnnoticed'
  BY DEF RelayInv, HeldUnnoticed, IsEndOf
<1>4. StreamsIn(NoSession) = {} /\ Len(NoSession.pair) = 0
  BY DEF StreamsIn, NoSession
<1>5. PairBound'
  <2> SUFFICES ASSUME NEW n \in Server, NEW s \in SessionId, NEW x \in Pair(n, s)'
               PROVE  streamMap'[n][x] = s
    BY DEF PairBound
  <2>1. n \in Node
    BY DEF Server
  <2>2. x \in Pair(n, s)
    BY <2>1, <1>4 DEF Calm, Pair
  <2> QED
    BY <2>2 DEF RelayInv, PairBound
<1>6. PairDistinct'
  <2> SUFFICES ASSUME NEW n \in Server, NEW s \in SessionId, Len(sessionMap'[n][s].pair) = 2
               PROVE  sessionMap'[n][s].pair[1] # sessionMap'[n][s].pair[2]
    BY DEF PairDistinct
  <2>1. n \in Node
    BY DEF Server
  <2>2. sessionMap'[n][s] = sessionMap[n][s]
    BY <2>1, <1>4 DEF Calm
  <2> QED
    BY <2>2 DEF RelayInv, PairDistinct
<1>7. TaskUnbound'
  BY DEF RelayInv, TaskUnbound, Server
<1>8. SetFirst'
  BY DEF RelayInv, SetFirst, Calm, SetsFrom
<1> QED
  BY <1>1, <1>2, <1>3, <1>5, <1>6, <1>7, <1>8 DEF RelayInv

-----------------------------------------------------------------------------
(* The steps that bind no stream *)

\* The readers, for every message but SetSessionId.
LEMMA ReaderCalm ==
  ASSUME RelayInv, NEW n \in Node, NEW x \in Stream,
         \/ HandleRelayMsg(n, x) \/ HandleRelayProbe(n, x)
         \/ HandleDisconnect(n, x) \/ SpawnCircuitSuccess(n, x)
  PROVE  Calm
<1> DEFINE m == Head(wire[n][x])
           sess == sessionMap[n][m.sid]
<1>0. TypeOK
  BY DEF RelayInv
<1>1. wire[n][x] # <<>> /\ m.type # "Set"
  BY DEF HandleRelayMsg, HandleRelayProbe, HandleDisconnect, SpawnCircuitSuccess, Reads
<1>2. CalmWire(Pop(n, x)) /\ m \in Message /\ m.sid \in SessionId
  BY <1>0, <1>1, CalmPop, PopType DEF Message
<1>3. \A X : CalmWire(Emit(Pop(n, x), n, X, m))
  BY <1>1, <1>2, CalmEmit
<1>4. CASE HandleRelayMsg(n, x)
  <2>1. CASE IsEnd(sess)
    <3>1. wire' = Pop(n, x) /\ UNCHANGED <<up, sessionMap>>
      BY <2>1, <1>4 DEF HandleRelayMsg
    <3> QED
      BY <3>1, <1>2 DEF Calm, CalmWire, Silent
  <2>2. CASE ~ IsEnd(sess)
    BY <2>2, <1>0, <1>2, <1>3, <1>4, OnlyWriteCalm, CloseCircuitCalm DEF HandleRelayMsg
  <2> QED
    BY <2>1, <2>2
<1>5. CASE HandleRelayProbe(n, x)
  <2>1. CASE sess.role = "Joint" /\ ~ SecondProbe(n, m.sid)
    <3>1. wire' = Pop(n, x) /\ UNCHANGED <<up, sessionMap>>
      BY <2>1, <1>5 DEF HandleRelayProbe
    <3> QED
      BY <3>1, <1>2 DEF Calm, CalmWire, Silent
  <2>2. CASE sess.role = "Joint" /\ SecondProbe(n, m.sid)
    <3>1. SendRelay(n, m.sid, Msg("Succ", m.sid), Pop(n, x))
      BY <2>2, <1>5 DEF HandleRelayProbe
    <3>2. Msg("Succ", m.sid) \in Message /\ Msg("Succ", m.sid).type # "Set"
      BY <1>2, MsgType DEF Msg
    <3> QED
      BY <3>1, <3>2, <1>0, <1>2, SendRelayCalm
  <2>3. CASE sess.role # "Joint"
    BY <2>3, <1>0, <1>2, <1>3, <1>5, OnlyWriteCalm DEF HandleRelayProbe
  <2> QED
    BY <2>1, <2>2, <2>3
<1>6. CASE HandleDisconnect(n, x)
  BY <1>0, <1>2, <1>3, <1>6, RemoveSessionCalm, CloseCircuitCalm DEF HandleDisconnect
<1>7. CASE SpawnCircuitSuccess(n, x)
  BY <1>0, <1>2, <1>7, OnlyWriteCalm DEF SpawnCircuitSuccess
<1> QED
  BY <1>4, <1>5, <1>6, <1>7

LEMMA ReaderKeeps ==
  ASSUME RelayInv, TypeOK', NEW n \in Node, NEW x \in Stream,
         \/ HandleRelayMsg(n, x) \/ HandleRelayProbe(n, x)
         \/ HandleDisconnect(n, x) \/ SpawnCircuitSuccess(n, x)
  PROVE  RelayInv'
<1>1. UNCHANGED <<dialer, listener, streamMap, noticed, waiting>>
  BY DEF HandleRelayMsg, HandleRelayProbe, HandleDisconnect, SpawnCircuitSuccess,
         streamVars, callVars
<1> QED
  BY <1>1, ReaderCalm, CalmKeeps

LEMMA ReadErrKeeps ==
  ASSUME RelayInv, TypeOK', NEW n \in Node, NEW x \in Stream,
         ReadErr(n, x) \/ StreamReset(n, x)
  PROVE  RelayInv'
<1>1. CloseEnds(n, {x}, wire) /\ UNCHANGED sessionMap
  BY DEF ReadErr, StreamReset
<1>2. Calm
  BY <1>1, CalmStart, CloseEndsCalm DEF Calm, RelayInv
<1> QED
  BY <1>2, CalmKeeps DEF ReadErr, StreamReset, streamVars, callVars

\* The goroutines.
LEMMA GoroutineCalm ==
  ASSUME RelayInv, NEW n \in Node, NEW g \in spawned[n],
         \/ ForwardSuccess(n, g) \/ StartHandshake(n, g) \/ Handshake(n, g)
         \/ HandshakeCancelled(n, g) \/ StoreSecureConn(n, g)
  PROVE  Calm
<1> DEFINE sess == sessionMap[n][g.sid]
<1>0. TypeOK /\ CalmWire(wire)
  BY CalmStart DEF RelayInv
<1>1. g.sid \in SessionId
  BY <1>0 DEF TypeOK, Goroutine
<1>2. \A d \in Payload : DataMsg(g.sid, d) \in Message /\ DataMsg(g.sid, d).type # "Set"
  BY <1>1, MsgType DEF DataMsg
<1>3. \A X : \A d \in Payload : CalmWire(Emit(wire, n, X, DataMsg(g.sid, d)))
  BY <1>0, <1>2, CalmEmit
<1>4. ASSUME UNCHANGED <<up, sessionMap>>, CalmWire(wire')
      PROVE  Calm
  BY <1>4 DEF Calm, CalmWire, Silent
<1>5. \A d \in Payload : SendRelay(n, g.sid, DataMsg(g.sid, d), wire) => Calm
  BY <1>0, <1>1, <1>2, SendRelayCalm
<1>6. CASE ForwardSuccess(n, g)
  <2>1. Msg("Succ", g.sid) \in Message /\ Msg("Succ", g.sid).type # "Set"
    BY <1>1, MsgType DEF Msg
  <2> QED
    BY <2>1, <1>0, <1>6, CalmEmit, OnlyWriteCalm DEF ForwardSuccess
<1>7. CASE StartHandshake(n, g)
  <2>1. \/ OnlyWrite(wire)
        \/ /\ UNCHANGED <<up, sessionMap>>
           /\ wire' = wire \/ wire' = Emit(wire, n, Pair(n, g.sid), DataMsg(g.sid, "h1"))
        \/ SendRelay(n, g.sid, DataMsg(g.sid, "h1"), wire)
    BY <1>7 DEF StartHandshake, netVars
  <2>2. "h1" \in Payload
    BY DEF Payload
  <2> QED
    BY <2>1, <2>2, <1>0, <1>3, <1>4, <1>5, OnlyWriteCalm
<1>8. CASE Handshake(n, g)
  <2>1. PICK d \in {"h2", "h3"} :
          \/ /\ UNCHANGED <<up, sessionMap>>
             /\ wire' = wire \/ wire' = Emit(wire, n, Pair(n, g.sid), DataMsg(g.sid, d))
          \/ SendRelay(n, g.sid, DataMsg(g.sid, d), wire)
    BY <1>8 DEF Handshake, netVars
  <2>2. d \in Payload
    BY DEF Payload
  <2> QED
    BY <2>1, <2>2, <1>0, <1>3, <1>4, <1>5
<1>9. CASE HandshakeCancelled(n, g) \/ StoreSecureConn(n, g)
  BY <1>0, <1>4, <1>9, OnlyWriteCalm DEF HandshakeCancelled, StoreSecureConn, netVars
<1> QED
  BY <1>6, <1>7, <1>8, <1>9

LEMMA GoroutineKeeps ==
  ASSUME RelayInv, TypeOK', NEW n \in Node, NEW g \in spawned[n],
         \/ ForwardSuccess(n, g) \/ StartHandshake(n, g) \/ Handshake(n, g)
         \/ HandshakeCancelled(n, g) \/ StoreSecureConn(n, g)
  PROVE  RelayInv'
<1>1. UNCHANGED <<dialer, listener, streamMap, noticed, waiting>>
  BY DEF ForwardSuccess, StartHandshake, Handshake, HandshakeCancelled,
         StoreSecureConn, streamVars, callVars
<1> QED
  BY <1>1, GoroutineCalm, CalmKeeps

\* The actor and the user's goroutine, where they bind nothing; the expiry of a
\* SetSessionId; the managers' requests.
LEMMA QuietKeeps ==
  ASSUME RelayInv, TypeOK', NEW n \in Node,
         \/ ServeNewFails(n) \/ ServeSend(n) \/ ServeClose(n) \/ ServeGet(n)
         \/ \E t \in waiting[n] : SetSessionTimeout(n, t)
         \/ \E s \in SessionId : \/ AddCircuitConnCaller(n, s) \/ UserClose(n, s)
                                 \/ UserSend(n, s) \/ UserRead(n, s)
         \/ \E who \in Asker : AskAny(n, who) \/ ReadAnswer(n, who)
         \/ Restart(n)
  PROVE  RelayInv'
<1> DEFINE r == Head(mailbox[n])
<1>0. TypeOK /\ CalmWire(wire)
  BY CalmStart DEF RelayInv
<1>1. ASSUME UNCHANGED <<up, wire, sessionMap>>
      PROVE  Calm
  BY <1>0, <1>1 DEF Calm, CalmWire, Silent
<1>2. CASE ServeSend(n)
  <2>1. r \in Request /\ r.op = "Send" /\ r.sid \in SessionId
    BY <1>0, <1>2, ServesType DEF ServeSend
  <2>2. Msg(r.type, r.sid) \in Message /\ Msg(r.type, r.sid).type # "Set"
    BY <2>1, MsgType DEF Request, Msg
  <2>3. Calm
    BY <2>1, <2>2, <1>0, <1>2, SendRelayCalm DEF ServeSend
  <2> QED
    BY <2>3, <1>2, CalmKeeps DEF ServeSend, streamVars
<1>3. CASE ServeClose(n)
  <2>1. r.sid \in SessionId
    BY <1>0, <1>3, ServesType DEF ServeClose
  <2>2. Calm
    BY <2>1, <1>0, <1>3, CloseCircuitCalm DEF ServeClose
  <2> QED
    BY <2>2, <1>3, CalmKeeps DEF ServeClose, streamVars
<1>4. CASE ServeNewFails(n) \/ ServeGet(n)
  BY <1>1, <1>4, CalmKeeps DEF ServeNewFails, ServeGet, streamVars, netVars
<1>5. ASSUME NEW t \in waiting[n], SetSessionTimeout(n, t)
      PROVE  RelayInv'
  <2>1. \A m \in Node : waiting'[m] \subseteq waiting[m]
    BY <1>0, <1>5 DEF SetSessionTimeout, TypeOK
  <2> QED
    BY <2>1, <1>1, <1>5, CalmKeeps DEF SetSessionTimeout, streamVars, netVars
<1>6. ASSUME NEW s \in SessionId, UserClose(n, s)
      PROVE  RelayInv'
  <2>1. Calm
    BY <1>0, <1>6, CloseCircuitCalm DEF UserClose
  <2> QED
    BY <2>1, <1>6, CalmKeeps DEF UserClose, streamVars, callVars
<1>7. ASSUME NEW s \in SessionId, UserSend(n, s)
      PROVE  RelayInv'
  <2>1. DataMsg(s, "app") \in Message /\ DataMsg(s, "app").type # "Set"
    BY MsgType DEF Payload, DataMsg
  <2>2. Calm
    BY <2>1, <1>0, <1>7, SendRelayCalm DEF UserSend
  <2> QED
    BY <2>2, <1>7, CalmKeeps DEF UserSend, streamVars, callVars
<1>8. ASSUME NEW s \in SessionId, AddCircuitConnCaller(n, s) \/ UserRead(n, s)
      PROVE  RelayInv'
  BY <1>1, <1>8, CalmKeeps DEF AddCircuitConnCaller, UserRead, streamVars, netVars, callVars
<1>9. ASSUME NEW who \in Asker, AskAny(n, who) \/ ReadAnswer(n, who)
      PROVE  RelayInv'
  BY <1>1, <1>9, CalmKeeps DEF AskAny, Ask, ReadAnswer, streamVars, netVars
<1>10. CASE Restart(n)
  BY <1>1, <1>10, CalmKeeps DEF Restart, streamVars, netVars, callVars
<1> QED
  BY <1>2, <1>3, <1>4, <1>5, <1>6, <1>7, <1>8, <1>9, <1>10

\* An expired future renames the asker of a call and nothing else.
LEMMA DisownKeeps ==
  ASSUME RelayInv, TypeOK', NEW n \in Node, NEW who \in Asker, Disown(n, who)
  PROVE  RelayInv'
<1> DEFINE f(t) == IF t.who = who THEN [t EXCEPT !.who = "gone"] ELSE t
<1>1. TypeOK /\ waiting \in [Node -> SUBSET Task]
  BY DEF RelayInv, TypeOK
<1>2. UNCHANGED <<dialer, listener, up, wire, streamMap, sessionMap, noticed>>
  BY DEF Disown, streamVars, netVars
<1>3. \A t \in Task : f(t).proc = t.proc /\ f(t).stream = t.stream
  BY DEF Task
<1>4. /\ waiting'[n] = {f(t) : t \in waiting[n]}
      /\ \A m \in Node : m # n => waiting'[m] = waiting[m]
  BY <1>1 DEF Disown
<1> HIDE DEF f
<1>5. TaskUnbound'
  <2> SUFFICES ASSUME NEW m \in Server, NEW t \in waiting'[m]
               PROVE  /\ t.proc = "actor"
                      /\ \A u \in waiting'[m] : u = t
                      /\ dialer[t.stream] = m
                      /\ streamMap[m][t.stream] = NoSid
    BY <1>2 DEF TaskUnbound
  <2>0. m \in Node
    BY DEF Server
  <2>1. CASE m # n
    BY <2>0, <2>1, <1>4 DEF RelayInv, TaskUnbound
  <2>2. CASE m = n
    <3>1. PICK t0 \in waiting[n] : t = f(t0)
      BY <2>2, <1>4
    <3>2. t0 \in Task /\ waiting[n] = {t0}
      BY <3>1, <2>2, <1>1 DEF RelayInv, TaskUnbound
    <3>3. \A u \in waiting'[n] : u = t
      BY <3>1, <3>2, <1>4
    <3> QED
      BY <3>1, <3>2, <3>3, <2>2, <1>3 DEF RelayInv, TaskUnbound
  <2> QED
    BY <2>1, <2>2
<1>6. /\ EndsDiffer' /\ EndsKnown' /\ HeldUnnoticed' /\ PairBound' /\ PairDistinct'
      /\ SetFirst'
  BY <1>2 DEF RelayInv, EndsDiffer, EndsKnown, HeldUnnoticed, PairBound, PairDistinct,
              SetFirst, IsEndOf, Pair
<1> QED
  BY <1>5, <1>6 DEF RelayInv

\* A process that ends forgets its streams together with its sessions.
LEMMA CrashKeeps ==
  ASSUME RelayInv, TypeOK', NEW n \in Node, Crash(n)
  PROVE  RelayInv'
<1>0. TypeOK
  BY DEF RelayInv
<1>1. UNCHANGED <<dialer, listener>>
  BY DEF Crash, streamVars
<1>2. /\ up'[n] = {}
      /\ noticed'[n] = {x \in Stream : n \in {dialer[x], listener[x]}}
      /\ waiting'[n] = {}
      /\ \A x \in Stream : wire'[n][x] = <<>> /\ streamMap'[n][x] = NotHeld
      /\ \A s \in SessionId : sessionMap'[n][s] = NoSession
  BY <1>0 DEF Crash, TypeOK
<1>3. \A m \in Node : m # n =>
        /\ up'[m] = up[m] /\ noticed'[m] = noticed[m] /\ waiting'[m] = waiting[m]
        /\ wire'[m] = wire[m] /\ streamMap'[m] = streamMap[m]
        /\ sessionMap'[m] = sessionMap[m]
  BY <1>0 DEF Crash, TypeOK
<1>4. StreamsIn(NoSession) = {} /\ Len(NoSession.pair) = 0
  BY DEF StreamsIn, NoSession
<1>5. EndsDiffer'
  BY <1>1 DEF RelayInv, EndsDiffer
<1>6. EndsKnown'
  BY <1>1, <1>2, <1>3 DEF RelayInv, EndsKnown, IsEndOf
<1>7. HeldUnnoticed'
  BY <1>1, <1>2, <1>3 DEF RelayInv, HeldUnnoticed, IsEndOf
<1>8. PairBound'
  BY <1>2, <1>3, <1>4 DEF RelayInv, PairBound, Pair, Server
<1>9. PairDistinct'
  BY <1>2, <1>3, <1>4 DEF RelayInv, PairDistinct, Server
<1>10. TaskUnbound'
  BY <1>1, <1>2, <1>3 DEF RelayInv, TaskUnbound, Server
<1>11. SetFirst'
  BY <1>1, <1>2, <1>3 DEF RelayInv, SetFirst
<1> QED
  BY <1>5, <1>6, <1>7, <1>8, <1>9, <1>10, <1>11 DEF RelayInv

-----------------------------------------------------------------------------
(* The steps that bind a stream or forget one *)

\* The notification of a closed stream: the circuit that the streamMap names is
\* the only one that can hold the stream.
LEMMA StreamClosedKeeps ==
  ASSUME RelayInv, TypeOK', NEW n \in Node, NEW x \in Stream, HandleStreamClosed(n, x)
  PROVE  RelayInv'
<1>0. TypeOK /\ CalmWire(wire)
  BY CalmStart DEF RelayInv
<1>1. /\ IsEndOf(n, x) /\ x \notin up[n] /\ x \notin noticed[n] /\ ActorIdle(n)
      /\ UNCHANGED <<dialer, listener, waiting>>
  BY DEF HandleStreamClosed, Notes, IsEndOf, streamVars, callVars
<1>2. /\ noticed'[n] = noticed[n] \cup {x}
      /\ streamMap'[n][x] = NotHeld
      /\ \A m \in Node : m # n => noticed'[m] = noticed[m]
      /\ \A m \in Node, y \in Stream : m # n \/ y # x => streamMap'[m][y] = streamMap[m][y]
  BY <1>0 DEF HandleStreamClosed, TypeOK
<1>3. Calm /\ (streamMap[n][x] \in SessionId => sessionMap'[n][streamMap[n][x]] = NoSession)
  BY <1>0, OnlyWriteCalm, CloseCircuitCalm DEF HandleStreamClosed
<1>4. StreamsIn(NoSession) = {} /\ Len(NoSession.pair) = 0
  BY DEF StreamsIn, NoSession
<1>5. EndsDiffer'
  BY <1>1 DEF RelayInv, EndsDiffer
<1>6. EndsKnown'
  BY <1>1, <1>2, <1>3 DEF RelayInv, EndsKnown, IsEndOf, Calm
<1>7. HeldUnnoticed'
  BY <1>1, <1>2 DEF RelayInv, HeldUnnoticed, IsEndOf
<1>8. PairBound'
  <2> SUFFICES ASSUME NEW m \in Server, NEW s \in SessionId, NEW y \in Pair(m, s)'
               PROVE  streamMap'[m][y] = s
    BY DEF PairBound
  <2>1. m \in Node /\ Pair(m, s) \subseteq Stream
    BY <1>0, PairType DEF Server
  <2>2. y \in Pair(m, s) /\ sessionMap'[m][s] # NoSession
    BY <2>1, <1>3, <1>4 DEF Calm, Pair
  <2>3. streamMap[m][y] = s
    BY <2>2 DEF RelayInv, PairBound
  <2>4. m # n \/ y # x
    BY <2>2, <2>3, <1>3
  <2> QED
    BY <2>1, <2>2, <2>3, <2>4, <1>2
<1>9. PairDistinct'
  <2> SUFFICES ASSUME NEW m \in Server, NEW s \in SessionId, Len(sessionMap'[m][s].pair) = 2
               PROVE  sessionMap'[m][s].pair[1] # sessionMap'[m][s].pair[2]
    BY DEF PairDistinct
  <2>1. sessionMap'[m][s] = sessionMap[m][s]
    BY <1>3, <1>4 DEF Calm, Server
  <2> QED
    BY <2>1 DEF RelayInv, PairDistinct
<1>10. TaskUnbound'
  <2> SUFFICES ASSUME NEW m \in Server, NEW t \in waiting[m]
               PROVE  streamMap'[m][t.stream] = NoSid
    BY <1>1 DEF RelayInv, TaskUnbound
  <2>1. m \in Node /\ t.stream \in Stream
    BY <1>0 DEF Server, TypeOK, Task
  <2>2. m # n
    BY <1>1 DEF RelayInv, TaskUnbound, ActorIdle
  <2> QED
    BY <2>1, <2>2, <1>2 DEF RelayInv, TaskUnbound
<1>11. SetFirst'
  <2> SUFFICES ASSUME NEW m \in Node, NEW y \in Stream, NEW i \in 1..Len(wire'[m][y]),
                      wire'[m][y][i].type = "Set"
               PROVE  i = 1 /\ m = listener[y] /\ (m \in Server => streamMap'[m][y] = NoSid)
    BY <1>1 DEF SetFirst
  <2>1. m # n \/ y # x
    BY <1>1, <1>3 DEF Calm
  <2>2. i \in 1..Len(wire[m][y]) /\ wire[m][y][i].type = "Set"
    BY <1>3 DEF Calm, SetsFrom
  <2> QED
    BY <2>1, <2>2, <1>2 DEF RelayInv, SetFirst
<1> QED
  BY <1>5, <1>6, <1>7, <1>8, <1>9, <1>10, <1>11 DEF RelayInv

\* A stream that was never opened is known to nobody.
LEMMA FreshUnknown ==
  ASSUME RelayInv, NEW x \in Stream, dialer[x] = NoNode
  PROVE  \A m \in Node : /\ x \notin up[m] /\ x \notin noticed[m]
                         /\ streamMap[m][x] = NotHeld /\ wire[m][x] = <<>>
<1>1. listener[x] = NoNode /\ \A m \in Node : ~ IsEndOf(m, x)
  BY NoNodeAssumption DEF RelayInv, EndsDiffer, IsEndOf
<1> QED
  BY <1>1 DEF RelayInv, EndsKnown, HeldUnnoticed

\* NewSessionToPeer opens a stream of its own; on a server only one call waits.
LEMMA DialKeeps ==
  ASSUME RelayInv, TypeOK', NEW n \in Node, NEW p, NEW s \in SessionId, NEW my, NEW other,
         NEW proc, NEW who, DialAndSet(n, p, s, my, other, proc, who),
         n \in Server => proc = "actor" /\ waiting[n] = {}
  PROVE  RelayInv'
<1>0. TypeOK
  BY DEF RelayInv
<1>1. p \in Node /\ p # n /\ UNCHANGED <<noticed, sessionMap>>
  BY <1>0 DEF DialAndSet, TypeOK
<1> DEFINE task(y) == [proc |-> proc, sid |-> s, stream |-> y, my |-> my, other |-> other,
                       who |-> who]
<1>2. PICK x \in Stream :
        /\ dialer[x] = NoNode
        /\ dialer' = [dialer EXCEPT ![x] = n]
        /\ listener' = [listener EXCEPT ![x] = p]
        /\ up' = [up EXCEPT ![n] = @ \cup {x}, ![p] = @ \cup {x}]
        /\ wire' = [wire EXCEPT ![p][x] = <<SetMsg(s, other)>>]
        /\ streamMap' = [streamMap EXCEPT ![n][x] = NoSid, ![p][x] = NoSid]
        /\ waiting' = [waiting EXCEPT ![n] = @ \cup {task(x)}]
  BY DEF DialAndSet, Fresh
<1>3. \A m \in Node : /\ x \notin up[m] /\ x \notin noticed[m]
                      /\ streamMap[m][x] = NotHeld /\ wire[m][x] = <<>>
  BY <1>2, FreshUnknown
<1>4. /\ dialer'[x] = n /\ listener'[x] = p
      /\ \A y \in Stream : y # x => dialer'[y] = dialer[y] /\ listener'[y] = listener[y]
  BY <1>0, <1>2 DEF TypeOK
<1>5. \A m \in Node : up'[m] = IF m \in {n, p} THEN up[m] \cup {x} ELSE up[m]
  BY <1>0, <1>1, <1>2 DEF TypeOK
<1>6. /\ Len(wire'[p][x]) = 1
      /\ \A m \in Node, y \in Stream : m # p \/ y # x => wire'[m][y] = wire[m][y]
  BY <1>0, <1>1, <1>2 DEF TypeOK
<1>7. /\ \A m \in {n, p} : streamMap'[m][x] = NoSid
      /\ \A m \in Node, y \in Stream :
           m \notin {n, p} \/ y # x => streamMap'[m][y] = streamMap[m][y]
  <2>1. streamMap \in [Node -> [Stream -> SessionId \cup {NoSid, NotHeld}]]
    BY <1>0 DEF TypeOK
  <2>2. streamMap' = [streamMap EXCEPT ![n][x] = NoSid, ![p][x] = NoSid]
    BY <1>2
  <2>3. /\ streamMap'[n] = [streamMap[n] EXCEPT ![x] = NoSid]
        /\ streamMap'[p] = [streamMap[p] EXCEPT ![x] = NoSid]
        /\ \A m \in Node : m \notin {n, p} => streamMap'[m] = streamMap[m]
    BY <2>1, <2>2, <1>1
  <2> QED
    BY <2>1, <2>3, <1>1
<1>8. /\ waiting'[n] = waiting[n] \cup {task(x)}
      /\ \A m \in Node : m # n => waiting'[m] = waiting[m]
  BY <1>0, <1>2 DEF TypeOK
<1>9. task(x).proc = proc /\ task(x).stream = x
  OBVIOUS
<1> HIDE DEF task
<1>10. EndsDiffer'
  BY <1>1, <1>4 DEF RelayInv, EndsDiffer
<1>11. EndsKnown'
  <2> SUFFICES ASSUME NEW m \in Node, NEW y \in Stream
               PROVE  /\ y \in up'[m] => m \in {dialer'[y], listener'[y]} /\ y \notin noticed[m]
                      /\ y \in noticed[m] => m \in {dialer'[y], listener'[y]}
                      /\ y \notin up'[m] => wire'[m][y] = <<>>
    BY <1>1 DEF EndsKnown, IsEndOf
  <2>1. CASE y = x
    BY <2>1, <1>1, <1>3, <1>4, <1>5, <1>6
  <2>2. CASE y # x
    <3>1. wire'[m][y] = wire[m][y] /\ (y \in up'[m] <=> y \in up[m])
      BY <2>2, <1>5, <1>6
    <3> QED
      BY <3>1, <2>2, <1>4 DEF RelayInv, EndsKnown, IsEndOf
  <2> QED
    BY <2>1, <2>2
<1>12. HeldUnnoticed'
  BY <1>1, <1>3, <1>4, <1>7 DEF RelayInv, HeldUnnoticed, IsEndOf
<1>13. PairBound'
  <2> SUFFICES ASSUME NEW m \in Server, NEW r \in SessionId, NEW y \in Pair(m, r)
               PROVE  streamMap'[m][y] = r
    BY <1>1 DEF PairBound, Pair
  <2>1. m \in Node /\ y \in Stream /\ streamMap[m][y] = r
    BY <1>0, PairType DEF Server, RelayInv, PairBound
  <2>2. y # x
    BY <2>1, <1>3, NoSidAssumption
  <2> QED
    BY <2>1, <2>2, <1>7
<1>14. PairDistinct'
  BY <1>1 DEF RelayInv, PairDistinct
<1>15. TaskUnbound'
  <2> SUFFICES ASSUME NEW m \in Server, NEW t \in waiting'[m]
               PROVE  /\ t.proc = "actor"
                      /\ \A u \in waiting'[m] : u = t
                      /\ dialer'[t.stream] = m
                      /\ streamMap'[m][t.stream] = NoSid
    BY DEF TaskUnbound
  <2>0. m \in Node
    BY DEF Server
  <2>1. CASE m = n
    BY <2>1, <1>4, <1>7, <1>8, <1>9
  <2>2. CASE m # n
    <3>1. t \in waiting[m] /\ waiting'[m] = waiting[m]
      BY <2>0, <2>2, <1>8
    <3>2. t.stream \in Stream
      BY <3>1, <2>0, <1>0 DEF TypeOK, Task
    <3>3. /\ t.proc = "actor" /\ \A u \in waiting[m] : u = t
          /\ dialer[t.stream] = m /\ streamMap[m][t.stream] = NoSid
      BY <3>1 DEF RelayInv, TaskUnbound
    <3>4. t.stream # x
      BY <3>3, <2>0, <1>3, NoSidAssumption
    <3> QED
      BY <3>1, <3>2, <3>3, <3>4, <2>0, <1>4, <1>7
  <2> QED
    BY <2>1, <2>2
<1>16. SetFirst'
  <2> SUFFICES ASSUME NEW m \in Node, NEW y \in Stream, NEW i \in 1..Len(wire'[m][y]),
                      wire'[m][y][i].type = "Set"
               PROVE  i = 1 /\ m = listener'[y] /\ (m \in Server => streamMap'[m][y] = NoSid)
    BY DEF SetFirst
  <2>1. CASE m = p /\ y = x
    BY <2>1, <1>4, <1>6, <1>7
  <2>2. CASE m # p \/ y # x
    <3>1. wire'[m][y] = wire[m][y]
      BY <2>2, <1>6
    <3>2. y # x
      BY <3>1, <1>3
    <3> QED
      BY <3>1, <3>2, <1>4, <1>7 DEF RelayInv, SetFirst
  <2> QED
    BY <2>1, <2>2
<1> QED
  BY <1>10, <1>11, <1>12, <1>13, <1>14, <1>15, <1>16 DEF RelayInv

\* What AddStream adds to a session that does not hold x yet.
LEMMA AddStreamPair ==
  ASSUME NEW sess \in SessionType(Stream), NEW x \in Stream, x \notin StreamsIn(sess),
         Len(sess.pair) = 2 => sess.pair[1] # sess.pair[2]
  PROVE  LET q == AddStream(sess, x)
         IN  /\ StreamsIn(q) \subseteq StreamsIn(sess) \cup {x}
             /\ Len(q.pair) = 2 => q.pair[1] # q.pair[2]
<1> DEFINE q == AddStream(sess, x)
<1>1. sess.pair \in Seq(Stream) /\ Len(sess.pair) \in 0..2
  <2>1. sess.pair \in Seq(Stream) /\ Len(sess.pair) <= 2
    BY DEF SessionType
  <2> DEFINE k == Len(sess.pair)
  <2>2. k \in Nat
    BY <2>1
  <2>3. k <= 2
    BY <2>1
  <2> HIDE DEF k
  <2>4. k \in 0..2
    BY <2>2, <2>3
  <2> QED
    BY <2>1, <2>4 DEF k
<1>2. CASE IsReady(sess)
  BY <1>2 DEF AddStream
<1>3. CASE ~ IsReady(sess)
  <2>1. Len(sess.pair) \in 0..1
    BY <1>1, <1>3 DEF IsReady
  <2>2. /\ Append(sess.pair, x) \in Seq(Stream)
        /\ Len(Append(sess.pair, x)) = Len(sess.pair) + 1
        /\ Append(sess.pair, x)[Len(sess.pair) + 1] = x
        /\ \A i \in 1..Len(sess.pair) : Append(sess.pair, x)[i] = sess.pair[i]
    BY <1>1
  <2>3. q.pair = Append(sess.pair, x)
    BY <2>1, <2>2, <1>3 DEF AddStream, SessionType
  <2> HIDE DEF q
  <2>4. StreamsIn(q) \subseteq StreamsIn(sess) \cup {x}
    <3> SUFFICES ASSUME NEW i \in 1..Len(q.pair)
                 PROVE  q.pair[i] \in StreamsIn(sess) \cup {x}
      BY DEF StreamsIn
    <3>1. i = Len(sess.pair) + 1 \/ i \in 1..Len(sess.pair)
      BY <2>1, <2>2, <2>3
    <3> QED
      BY <3>1, <2>2, <2>3 DEF StreamsIn
  <2>5. ASSUME Len(q.pair) = 2
        PROVE  q.pair[1] # q.pair[2]
    <3>1. Len(sess.pair) = 1
      BY <2>1, <2>2, <2>3, <2>5
    <3>2. q.pair[2] = x /\ q.pair[1] = sess.pair[1] /\ sess.pair[1] \in StreamsIn(sess)
      BY <3>1, <2>2, <2>3 DEF StreamsIn
    <3> QED
      BY <3>2
  <2> QED
    BY <2>4, <2>5 DEF q
<1> QED
  BY <1>2, <1>3

\* The session that results when an unbound stream joins.
LEMMA JoinedPair ==
  ASSUME RelayInv, NEW n \in Server, NEW s \in SessionId, NEW x \in Stream, NEW role \in Role,
         streamMap[n][x] \notin SessionId
  PROVE  LET q == Joined(n, s, x, role)
         IN  /\ StreamsIn(q) \subseteq Pair(n, s) \cup {x}
             /\ Len(q.pair) = 2 => q.pair[1] # q.pair[2]
<1> DEFINE old == IF Has(n, s) THEN sessionMap[n][s] ELSE NewSession(role)
<1>1. n \in Node /\ TypeOK
  BY DEF Server, RelayInv
<1>2. sessionMap[n][s] \in SessionType(Stream)
  BY <1>1 DEF TypeOK
<1>3. /\ StreamsIn(NewSession(role)) = {} /\ Len(NewSession(role).pair) = 0
      /\ NewSession(role) \in SessionType(Stream)
  BY NewSessionType DEF StreamsIn, NewSession
<1>4. /\ old \in SessionType(Stream)
      /\ StreamsIn(old) \subseteq Pair(n, s)
      /\ Len(old.pair) = 2 => old.pair[1] # old.pair[2]
  BY <1>2, <1>3 DEF Pair, RelayInv, PairDistinct
<1>5. x \notin StreamsIn(old)
  BY <1>4 DEF RelayInv, PairBound
<1>6. Joined(n, s, x, role) = AddStream(old, x)
  BY DEF Joined
<1> HIDE DEF old
<1> QED
  BY <1>4, <1>5, <1>6, AddStreamPair

\* Stream x of node n, on a server so far unbound, is bound to session s, and
\* the session becomes sess.
Binds(n, s, x, sess) ==
  /\ UNCHANGED <<dialer, listener, up, noticed>>
  /\ sessionMap' = [sessionMap EXCEPT ![n][s] = sess]
  /\ \A m \in Node, y \in Stream : m # n \/ y # x => streamMap'[m][y] = streamMap[m][y]
  /\ streamMap'[n][x] # NotHeld => IsEndOf(n, x) /\ x \notin noticed[n]
  /\ n \in Server => /\ streamMap[n][x] = NoSid /\ streamMap'[n][x] = s
                     /\ StreamsIn(sess) \subseteq Pair(n, s) \cup {x}
                     /\ Len(sess.pair) = 2 => sess.pair[1] # sess.pair[2]
                     /\ \A i \in 1..Len(wire'[n][x]) : wire'[n][x][i].type # "Set"
                     /\ \A t \in waiting'[n] : t.stream # x
  /\ CalmWire(wire')
  /\ \A m \in Node : waiting'[m] \subseteq waiting[m]

LEMMA BindKeeps ==
  ASSUME RelayInv, TypeOK', NEW n \in Node, NEW s \in SessionId, NEW x \in Stream, NEW sess,
         Binds(n, s, x, sess)
  PROVE  RelayInv'
<1> USE DEF Binds
<1>0. TypeOK
  BY DEF RelayInv
<1>1. /\ sessionMap'[n][s] = sess
      /\ \A m \in Node, r \in SessionId : m # n \/ r # s => sessionMap'[m][r] = sessionMap[m][r]
  BY <1>0 DEF TypeOK
<1>2. EndsDiffer'
  BY DEF RelayInv, EndsDiffer
<1>3. EndsKnown'
  BY DEF RelayInv, EndsKnown, IsEndOf, CalmWire, Silent
<1>4. HeldUnnoticed'
  BY DEF RelayInv, HeldUnnoticed, IsEndOf
<1>5. PairBound'
  <2> SUFFICES ASSUME NEW m \in Server, NEW r \in SessionId, NEW y \in Pair(m, r)'
               PROVE  streamMap'[m][y] = r
    BY DEF PairBound
  <2>1. m \in Node /\ Pair(m, r) \subseteq Stream
    BY <1>0, PairType DEF Server
  <2>2. CASE m = n /\ r = s
    <3>1. y \in Pair(n, s) \cup {x}
      BY <2>2, <1>1 DEF Pair
    <3>2. y = x \/ streamMap[n][y] = s
      BY <3>1, <2>2 DEF RelayInv, PairBound
    <3> QED
      BY <3>1, <3>2, <2>1, <2>2
  <2>3. CASE m # n \/ r # s
    <3>1. y \in Pair(m, r)
      BY <2>1, <2>3, <1>1 DEF Pair
    <3>2. streamMap[m][y] = r
      BY <3>1 DEF RelayInv, PairBound
    <3>3. m # n \/ y # x
      BY <3>2, NoSidAssumption
    <3> QED
      BY <3>1, <3>2, <3>3, <2>1
  <2> QED
    BY <2>2, <2>3
<1>6. PairDistinct'
  BY <1>1 DEF RelayInv, PairDistinct, Server
<1>7. TaskUnbound'
  <2> SUFFICES ASSUME NEW m \in Server, NEW t \in waiting'[m]
               PROVE  /\ t.proc = "actor"
                      /\ \A u \in waiting'[m] : u = t
                      /\ dialer[t.stream] = m
                      /\ streamMap'[m][t.stream] = NoSid
    BY DEF TaskUnbound
  <2>1. m \in Node /\ t \in waiting[m] /\ t.stream \in Stream
    BY <1>0 DEF Server, TypeOK, Task
  <2>2. m # n \/ t.stream # x
    OBVIOUS
  <2> QED
    BY <2>1, <2>2 DEF RelayInv, TaskUnbound
<1>8. SetFirst'
  <2> SUFFICES ASSUME NEW m \in Node, NEW y \in Stream, NEW i \in 1..Len(wire'[m][y]),
                      wire'[m][y][i].type = "Set"
               PROVE  i = 1 /\ m = listener[y] /\ (m \in Server => streamMap'[m][y] = NoSid)
    BY DEF SetFirst
  <2>1. m \in Server => m # n \/ y # x
    OBVIOUS
  <2>2. i \in 1..Len(wire[m][y]) /\ wire[m][y][i].type = "Set"
    BY DEF CalmWire, SetsFrom
  <2> QED
    BY <2>1, <2>2 DEF RelayInv, SetFirst
<1> QED
  BY <1>2, <1>3, <1>4, <1>5, <1>6, <1>7, <1>8 DEF RelayInv

\* The dialer binds its stream when the acknowledgement arrives.
LEMMA AckKeeps ==
  ASSUME RelayInv, TypeOK', NEW n \in Node, NEW a \in acks, NEW t \in waiting[n],
         AckArrives(n, a, t)
  PROVE  RelayInv'
<1>0. TypeOK /\ CalmWire(wire)
  BY CalmStart DEF RelayInv
<1>1. t.sid \in SessionId /\ t.stream \in Stream /\ t.my \in Role
  BY <1>0 DEF TypeOK, Task
<1>2. /\ UNCHANGED <<dialer, listener, up, wire, noticed>>
      /\ waiting'[n] = waiting[n] \ {t}
      /\ \A m \in Node : waiting'[m] \subseteq waiting[m]
  BY <1>0 DEF AckArrives, TypeOK, streamVars, netVars
<1>3. CASE ~ a.ok
  <2>1. Calm
    BY <1>0, <1>2, <1>3 DEF AckArrives, Calm, CalmWire, Silent
  <2> QED
    BY <2>1, <1>2, <1>3, CalmKeeps DEF AckArrives
<1>4. CASE a.ok
  <2> DEFINE sess == Joined(n, t.sid, t.stream, t.my)
  <2>1. SessionSet(n, t)
    BY <1>4 DEF AckArrives
  <2>2. sessionMap' = [sessionMap EXCEPT ![n][t.sid] = sess]
    BY <2>1 DEF SessionSet
  <2>3. /\ \A m \in Node, y \in Stream :
             m # n \/ y # t.stream => streamMap'[m][y] = streamMap[m][y]
        /\ IF streamMap[n][t.stream] = NotHeld THEN streamMap' = streamMap
           ELSE streamMap'[n][t.stream] = t.sid
    BY <2>1, <1>0, <1>1 DEF SessionSet, Bound, TypeOK
  <2>4. ASSUME n \in Server
        PROVE  /\ streamMap[n][t.stream] = NoSid /\ dialer[t.stream] = n
               /\ waiting'[n] = {}
               /\ StreamsIn(sess) \subseteq Pair(n, t.sid) \cup {t.stream}
               /\ Len(sess.pair) = 2 => sess.pair[1] # sess.pair[2]
    <3>1. streamMap[n][t.stream] = NoSid /\ dialer[t.stream] = n /\ waiting[n] = {t}
      BY <2>4 DEF RelayInv, TaskUnbound
    <3> QED
      BY <3>1, <2>4, <1>1, <1>2, JoinedPair, NoSidAssumption
  <2>5. \A i \in 1..Len(wire[n][t.stream]) : n \in Server => wire[n][t.stream][i].type # "Set"
    <3> SUFFICES ASSUME n \in Server, NEW i \in 1..Len(wire[n][t.stream]),
                        wire[n][t.stream][i].type = "Set"
                 PROVE  FALSE
      OBVIOUS
    <3>1. n = listener[t.stream] /\ n = dialer[t.stream]
      BY <2>4, <1>1 DEF RelayInv, SetFirst
    <3> QED
      BY <3>1, <1>1, NoNodeAssumption DEF RelayInv, EndsDiffer
  <2>6. n \in Server => streamMap'[n][t.stream] = t.sid
    BY <2>3, <2>4, NoSidAssumption
  <2>7. CalmWire(wire')
    BY <1>0, <1>2 DEF CalmWire, SetsFrom, Silent
  <2> HIDE DEF sess
  <2>8. streamMap'[n][t.stream] # NotHeld =>
          IsEndOf(n, t.stream) /\ t.stream \notin noticed[n]
    BY <2>3, <1>1 DEF RelayInv, HeldUnnoticed
  <2>9. n \in Server => \A i \in 1..Len(wire'[n][t.stream]) :
                          wire'[n][t.stream][i].type # "Set"
    BY <2>5, <1>2
  <2>10. n \in Server => \A u \in waiting'[n] : u.stream # t.stream
    BY <2>4
  <2>11. Binds(n, t.sid, t.stream, sess)
    BY <2>2, <2>3, <2>4, <2>6, <2>7, <2>8, <2>9, <2>10, <1>2 DEF Binds
  <2> QED
    BY <2>11, <1>1, BindKeeps
<1> QED
  BY <1>3, <1>4

\* An entry node that is also the relay node gives up its stream to the joint
\* node for the one from the exit node.
LEMMA SwapKeeps ==
  ASSUME RelayInv, TypeOK', NEW n \in Node, NEW x \in Stream, NEW m \in Message,
         wire[n][x] # <<>>, m = Head(wire[n][x]), m.type = "Set", SwapJoint(n, x, m),
         UNCHANGED <<dialer, listener, noticed, waiting>>
  PROVE  RelayInv'
<1> DEFINE s == m.sid
           p == sessionMap[n][s].pair
           j == p[2]
<1>0. TypeOK
  BY DEF RelayInv
<1>1. n \in Server /\ m.role = "Relay" /\ IsReady(sessionMap[n][s])
  BY DEF SwapJoint, EntryIsRelay, Server
<1>2. s \in SessionId /\ sessionMap[n][s] \in SessionType(Stream)
  BY <1>0 DEF Message, TypeOK
<1>3. p[1] \in Stream /\ j \in Stream /\ Len(p) = 2
  BY <1>1, <1>2, ReadyType DEF IsReady
<1>4. /\ p[1] \in Pair(n, s) /\ j \in Pair(n, s)
      /\ streamMap[n][p[1]] = s /\ streamMap[n][j] = s /\ p[1] # j
  <2>1. p[1] \in Pair(n, s) /\ j \in Pair(n, s)
    <3>1. Pair(n, s) = {p[i] : i \in 1..Len(p)}
      BY DEF Pair, StreamsIn
    <3> HIDE DEF p
    <3>2. 1 \in 1..Len(p) /\ 2 \in 1..Len(p)
      BY <1>3
    <3> QED
      BY <3>1, <3>2
  <2> QED
    BY <2>1, <1>1, <1>2, <1>3 DEF RelayInv, PairBound, PairDistinct
<1>5. n = listener[x] /\ streamMap[n][x] = NoSid /\ IsEndOf(n, x) /\ x \notin noticed[n]
  <2>1. wire[n][x] \in Seq(Message)
    BY <1>0 DEF TypeOK
  <2>2. 1 \in 1..Len(wire[n][x]) /\ wire[n][x][1].type = "Set"
    BY <2>1
  <2>3. n = listener[x] /\ streamMap[n][x] = NoSid
    BY <2>2, <1>1 DEF RelayInv, SetFirst
  <2> QED
    BY <2>3, NoSidAssumption DEF RelayInv, HeldUnnoticed
<1>6. x # j /\ x # p[1]
  BY <1>2, <1>4, <1>5, NoSidAssumption
<1>7. /\ CalmWire(wire') /\ UNCHANGED up
      /\ \A i \in 1..Len(wire'[n][x]) : wire'[n][x][i].type # "Set"
  <2> DEFINE w == Pop(n, x)
  <2>1. CalmWire(w) /\ \A i \in 1..Len(w[n][x]) : w[n][x][i].type # "Set"
    BY CalmPop
  <2>2. Msg("Disc", s) \in Message /\ Msg("Disc", s).type # "Set"
    BY <1>2, MsgType DEF Msg
  <2>3. wire' = Emit(w, n, {j}, Msg("Disc", s)) /\ UNCHANGED up
    BY DEF SwapJoint, TellJoint
  <2> HIDE DEF w
  <2>4. CalmWire(wire') /\ SetsFrom(wire', w)
    BY <2>1, <2>2, <2>3, CalmEmit
  <2>5. ASSUME NEW i \in 1..Len(wire'[n][x]), wire'[n][x][i].type = "Set"
        PROVE  FALSE
    <3>1. i \in 1..Len(w[n][x]) /\ w[n][x][i] = wire'[n][x][i]
      BY <2>4, <2>5, <1>1 DEF SetsFrom
    <3> QED
      BY <3>1, <2>1, <2>5
  <2> QED
    BY <2>3, <2>4, <2>5
<1>8. /\ streamMap'[n][j] = NotHeld /\ streamMap'[n][x] = s
      /\ \A k \in Node, y \in Stream :
           k # n \/ y \notin {x, j} => streamMap'[k][y] = streamMap[k][y]
  <2>1. streamMap \in [Node -> [Stream -> SessionId \cup {NoSid, NotHeld}]]
    BY <1>0 DEF TypeOK
  <2>2. streamMap' = [streamMap EXCEPT ![n][j] = NotHeld, ![n][x] = s]
    BY DEF SwapJoint
  <2>3. /\ streamMap'[n] = [streamMap[n] EXCEPT ![j] = NotHeld, ![x] = s]
        /\ \A k \in Node : k # n => streamMap'[k] = streamMap[k]
    BY <2>1, <2>2
  <2> HIDE DEF s, p, j
  <2>4. streamMap[n] \in [Stream -> SessionId \cup {NoSid, NotHeld}]
    BY <2>1
  <2>5. /\ streamMap'[n][j] = NotHeld /\ streamMap'[n][x] = s
        /\ \A y \in Stream : y \notin {x, j} => streamMap'[n][y] = streamMap[n][y]
    BY <2>3, <2>4, <1>3, <1>6
  <2> QED
    BY <2>3, <2>5
<1>9. /\ sessionMap'[n][s].pair = <<p[1], x>>
      /\ \A k \in Node, r \in SessionId : k # n \/ r # s => sessionMap'[k][r] = sessionMap[k][r]
  <2> DEFINE q == [sessionMap[n][s] EXCEPT !.pair = <<p[1], x>>]
  <2>1. sessionMap' = [sessionMap EXCEPT ![n][s] = q]
    BY DEF SwapJoint
  <2>2. sessionMap[n][s] \in [role : Role \cup {"None"}, pair : Seq(Stream)]
    BY <1>2 DEF SessionType
  <2>3. q.pair = <<p[1], x>>
    BY <2>2
  <2> HIDE DEF q, s, p
  <2>4. /\ sessionMap'[n][s] = q
        /\ \A k \in Node, r \in SessionId :
             k # n \/ r # s => sessionMap'[k][r] = sessionMap[k][r]
    BY <2>1, <1>0, <1>2 DEF TypeOK
  <2> QED
    BY <2>3, <2>4
<1> HIDE DEF s, p, j
<1>10. EndsDiffer'
  BY DEF RelayInv, EndsDiffer
<1>11. EndsKnown'
  BY <1>7 DEF RelayInv, EndsKnown, IsEndOf, CalmWire, Silent
<1>12. HeldUnnoticed'
  BY <1>5, <1>8 DEF RelayInv, HeldUnnoticed, IsEndOf
<1>13. PairBound'
  <2> SUFFICES ASSUME NEW k \in Server, NEW r \in SessionId, NEW y \in Pair(k, r)'
               PROVE  streamMap'[k][y] = r
    BY DEF PairBound
  <2>1. k \in Node /\ Pair(k, r) \subseteq Stream
    BY <1>0, PairType DEF Server
  <2>2. CASE k = n /\ r = s
    <3>1. y \in {p[1], x}
      BY <2>2, <1>9 DEF Pair, StreamsIn
    <3> QED
      BY <3>1, <2>2, <1>3, <1>4, <1>6, <1>8
  <2>3. CASE k # n \/ r # s
    <3>1. y \in Pair(k, r) /\ y \in Stream
      BY <2>1, <2>3, <1>9 DEF Pair
    <3>2. streamMap[k][y] = r
      BY <3>1 DEF RelayInv, PairBound
    <3>3. k # n \/ y \notin {x, j}
      BY <3>2, <2>3, <1>4, <1>5, NoSidAssumption
    <3> QED
      BY <3>1, <3>2, <3>3, <2>1, <1>8
  <2> QED
    BY <2>2, <2>3
<1>14. PairDistinct'
  <2> SUFFICES ASSUME NEW k \in Server, NEW r \in SessionId, Len(sessionMap'[k][r].pair) = 2
               PROVE  sessionMap'[k][r].pair[1] # sessionMap'[k][r].pair[2]
    BY DEF PairDistinct
  <2>1. CASE k = n /\ r = s
    BY <2>1, <1>6, <1>9
  <2>2. CASE k # n \/ r # s
    BY <2>2, <1>9 DEF RelayInv, PairDistinct, Server
  <2> QED
    BY <2>1, <2>2
<1>15. TaskUnbound'
  <2> SUFFICES ASSUME NEW k \in Server, NEW t \in waiting[k]
               PROVE  streamMap'[k][t.stream] = NoSid
    BY DEF RelayInv, TaskUnbound
  <2>1. k \in Node /\ t.stream \in Stream
    BY <1>0 DEF Server, TypeOK, Task
  <2>2. dialer[t.stream] = k /\ streamMap[k][t.stream] = NoSid
    BY DEF RelayInv, TaskUnbound
  <2>3. k # n \/ t.stream # x
    BY <2>2, <1>5, NoNodeAssumption DEF RelayInv, EndsDiffer
  <2>4. k # n \/ t.stream # j
    BY <2>2, <1>2, <1>4, NoSidAssumption
  <2> QED
    BY <2>1, <2>2, <2>3, <2>4, <1>8
<1>16. SetFirst'
  <2> SUFFICES ASSUME NEW k \in Node, NEW y \in Stream, NEW i \in 1..Len(wire'[k][y]),
                      wire'[k][y][i].type = "Set"
               PROVE  i = 1 /\ k = listener[y] /\ (k \in Server => streamMap'[k][y] = NoSid)
    BY DEF SetFirst
  <2>1. i \in 1..Len(wire[k][y]) /\ wire[k][y][i].type = "Set"
    BY <1>7 DEF CalmWire, SetsFrom
  <2>2. i = 1 /\ k = listener[y] /\ (k \in Server => streamMap[k][y] = NoSid)
    BY <2>1 DEF RelayInv, SetFirst
  <2>3. k # n \/ y \notin {x, j}
    BY <2>2, <1>1, <1>2, <1>4, <1>7, NoSidAssumption
  <2> QED
    BY <2>2, <2>3, <1>8
<1> QED
  BY <1>10, <1>11, <1>12, <1>13, <1>14, <1>15, <1>16 DEF RelayInv

\* The listener binds a stream when its first message, SetSessionId, is read.
LEMMA SetSessionKeeps ==
  ASSUME RelayInv, TypeOK', NEW n \in Node, NEW x \in Stream, HandleSetSession(n, x)
  PROVE  RelayInv'
<1> DEFINE m == Head(wire[n][x])
<1>0. TypeOK
  BY DEF RelayInv
<1>1. /\ wire[n][x] # <<>> /\ m.type = "Set"
      /\ UNCHANGED <<dialer, listener, noticed, waiting>>
  BY DEF HandleSetSession, Reads, streamVars
<1>2. m \in Message /\ m.sid \in SessionId /\ m.role \in Role
  BY <1>0, <1>1, PopType DEF Message
<1>3. /\ CalmWire(Pop(n, x))
      /\ \A i \in 1..Len(Pop(n, x)[n][x]) : Pop(n, x)[n][x][i].type # "Set"
  BY <1>1, CalmPop
<1>4. CASE RejectSetSession(n, x, m)
  BY <1>0, <1>1, <1>3, <1>4, OnlyWriteCalm, CalmKeeps DEF RejectSetSession
<1>5. CASE RefuseHalfEntry(n, x, m)
  BY <1>0, <1>1, <1>2, <1>3, <1>5, CloseCircuitCalm, CalmKeeps DEF RefuseHalfEntry
<1>6. CASE SwapJoint(n, x, m)
  BY <1>1, <1>2, <1>6, SwapKeeps
<1>7. CASE JoinSession(n, x, m)
  <2> DEFINE sess == Joined(n, m.sid, x, m.role)
  <2>1. 1 \in 1..Len(wire[n][x]) /\ wire[n][x][1].type = "Set"
    <3>1. wire[n][x] \in Seq(Message)
      BY <1>0 DEF TypeOK
    <3> QED
      BY <3>1, <1>1
  <2>2. x \in up[n] /\ n = listener[x] /\ (n \in Server => streamMap[n][x] = NoSid)
    BY <2>1 DEF RelayInv, SetFirst, HandleSetSession, Reads
  <2>3. IsEndOf(n, x) /\ x \notin noticed[n]
    BY <2>2 DEF RelayInv, EndsKnown
  <2>4. /\ sessionMap' = [sessionMap EXCEPT ![n][m.sid] = sess]
        /\ streamMap'[n][x] = m.sid
        /\ \A k \in Node, y \in Stream : k # n \/ y # x => streamMap'[k][y] = streamMap[k][y]
        /\ wire' = Pop(n, x) /\ UNCHANGED up
    BY <1>0, <1>7 DEF JoinSession, Bound, TypeOK
  <2>5. ASSUME n \in Server
        PROVE  /\ StreamsIn(sess) \subseteq Pair(n, m.sid) \cup {x}
               /\ Len(sess.pair) = 2 => sess.pair[1] # sess.pair[2]
    <3>1. streamMap[n][x] \notin SessionId
      BY <2>2, <2>5, NoSidAssumption
    <3>2. m.sid \in SessionId /\ m.role \in Role
      BY <1>2
    <3> HIDE DEF m
    <3> QED
      BY <2>5, <3>1, <3>2, JoinedPair
  <2>6. ASSUME n \in Server, NEW t \in waiting[n]
        PROVE  t.stream # x
    BY <2>2, <2>6, NoNodeAssumption DEF RelayInv, TaskUnbound, EndsDiffer
  <2> HIDE DEF sess
  <2>7. Binds(n, m.sid, x, sess)
    BY <2>2, <2>3, <2>4, <2>5, <2>6, <1>1, <1>3 DEF Binds
  <2> QED
    BY <2>7, <1>2, BindKeeps
<1> QED
  BY <1>4, <1>5, <1>6, <1>7 DEF HandleSetSession

-----------------------------------------------------------------------------
(* The theorems *)

LEMMA InitInv == RelayInit => RelayInv
<1> SUFFICES ASSUME RelayInit
             PROVE  RelayInv
  OBVIOUS
<1>1. TypeOK
  BY InitType
<1>2. StreamsIn(NoSession) = {} /\ Len(NoSession.pair) = 0
  BY DEF StreamsIn, NoSession
<1>3. PairBound /\ PairDistinct
  BY <1>2 DEF RelayInit, PairBound, PairDistinct, Pair, Server
<1>4. EndsDiffer /\ EndsKnown /\ HeldUnnoticed /\ TaskUnbound /\ SetFirst
  BY DEF RelayInit, EndsDiffer, EndsKnown, HeldUnnoticed, TaskUnbound, SetFirst, Server
<1> QED
  BY <1>1, <1>3, <1>4 DEF RelayInv

LEMMA NextInv == RelayInv /\ [RelayNext]_relayVars => RelayInv'
<1> SUFFICES ASSUME RelayInv, [RelayNext]_relayVars
             PROVE  RelayInv'
  OBVIOUS
<1>0. TypeOK /\ TypeOK'
  BY NextType DEF RelayInv
<1>1. CASE UNCHANGED relayVars
  <2>1. Calm
    BY <1>1, CalmStart DEF relayVars, Calm, CalmWire, Silent
  <2> QED
    BY <2>1, <1>0, <1>1, CalmKeeps DEF relayVars
<1>2. ASSUME NEW n \in Node, ServeNew(n)
      PROVE  RelayInv'
  <2> DEFINE r == Head(mailbox[n])
  <2>1. r.sid \in SessionId
    BY <1>0, <1>2, ServesType DEF ServeNew
  <2>2. n \in Server => waiting[n] = {}
    BY <1>2 DEF ServeNew, Serves, ActorIdle, RelayInv, TaskUnbound
  <2> QED
    BY <2>1, <2>2, <1>0, <1>2, DialKeeps DEF ServeNew
<1>3. ASSUME NEW n \in Node, RelayStep(n)
      PROVE  RelayInv'
  BY <1>0, <1>2, <1>3, SetSessionKeeps, ReaderKeeps, ReadErrKeeps, StreamClosedKeeps,
     GoroutineKeeps, AckKeeps, QuietKeeps DEF RelayStep
<1>4. ASSUME NEW n \in Node, RelayPanic(n) \/ RelayFault(n)
      PROVE  RelayInv'
  BY <1>0, <1>4, ReadErrKeeps, QuietKeeps, CrashKeeps
  DEF RelayPanic, AckWithoutTask, RelayFault
<1>5. ASSUME NEW n \in Node, NEW p \in Node, NEW s \in SessionId, UserDial(n, p, s)
      PROVE  RelayInv'
  BY <1>0, <1>5, DialKeeps DEF UserDial, Server
<1>6. ASSUME NEW n \in Node, RelayInput(n)
      PROVE  RelayInv'
  BY <1>0, <1>5, <1>6, QuietKeeps, DisownKeeps DEF RelayInput
<1> QED
  BY <1>1, <1>3, <1>4, <1>6 DEF RelayNext

\* The invariant of the relay layer holds under every sequence of requests and
\* failures, for any number of nodes, circuits and streams.
THEOREM RelayInvariant == RelaySpec => []RelayInv
BY InitInv, NextInv, PTL DEF RelaySpec

\* A server never keeps a dead stream in a circuit unawares: the notification
\* that HandleStreamClosed needs in order to close the circuit is still to
\* come, and the streamMap leads it to the right session.
THEOREM DeadStreams == RelaySpec => []DeadStreamNoticed
<1>1. RelayInv => DeadStreamNoticed
  <2> SUFFICES ASSUME RelayInv, NEW n \in Server, NEW s \in SessionId, NEW x \in Pair(n, s),
                      x \notin up[n]
               PROVE  x \in Notes(n) /\ streamMap[n][x] = s
    BY DEF DeadStreamNoticed
  <2>1. n \in Node /\ x \in Stream
    BY PairType DEF Server, RelayInv
  <2>2. streamMap[n][x] = s /\ s # NotHeld
    BY NoSidAssumption DEF RelayInv, PairBound
  <2>3. IsEndOf(n, x) /\ x \notin noticed[n]
    BY <2>1, <2>2 DEF RelayInv, HeldUnnoticed
  <2> QED
    BY <2>1, <2>2, <2>3 DEF Notes, IsEndOf
<1> QED
  BY <1>1, RelayInvariant, PTL
-----------------------------------------------------------------------------
(* One circuit per stream *)

\* The circuit that a stream was opened for, as far as the streams that carry it,
\* the sessions that hold it and the calls that wait for it can tell.
Assignment == [Stream -> SessionId \cup {NoSid}]

WireOf(c, w) ==
  \A m \in Node, x \in Stream : \A i \in 1..Len(w[m][x]) : w[m][x][i].sid = c[x]
PairsOf(c) == \A m \in Node, s \in SessionId : \A x \in Pair(m, s) : c[x] = s
TasksOf(c) == \A m \in Node : \A t \in waiting[m] : c[t.stream] = t.sid
OpenedOf(c) == \A x \in Stream : dialer[x] = NoNode => c[x] = NoSid

Agrees(c) == WireOf(c, wire) /\ PairsOf(c) /\ TasksOf(c) /\ OpenedOf(c)

StreamsAssigned == \E c \in Assignment : Agrees(c)

\* A step that writes messages of the right circuit, and removes sessions at most.
Tidy(c) ==
  /\ WireOf(c, wire')
  /\ \A m \in Node, s \in SessionId : sessionMap'[m][s] \in {sessionMap[m][s], NoSession}

LEMMA TidyKeeps ==
  ASSUME NEW c \in Assignment, Agrees(c), Tidy(c), UNCHANGED dialer,
         \A m \in Node : waiting'[m] \subseteq waiting[m]
  PROVE  StreamsAssigned'
<1>1. StreamsIn(NoSession) = {}
  BY DEF StreamsIn, NoSession
<1>2. \A m \in Node, s \in SessionId : Pair(m, s)' \subseteq Pair(m, s)
  BY <1>1 DEF Tidy, Pair
<1>3. PairsOf(c)'
  BY <1>2 DEF Agrees, PairsOf
<1>4. TasksOf(c)' /\ OpenedOf(c)'
  BY DEF Agrees, TasksOf, OpenedOf
<1>5. Agrees(c)'
  BY <1>3, <1>4 DEF Tidy, Agrees, WireOf
<1> QED
  BY <1>5 DEF StreamsAssigned, Assignment

LEMMA PopOf ==
  ASSUME TypeOK, NEW c, WireOf(c, wire), NEW n \in Node, NEW x \in Stream, wire[n][x] # <<>>
  PROVE  WireOf(c, Pop(n, x)) /\ Head(wire[n][x]).sid = c[x]
<1>1. wire \in WireType /\ wire[n][x] \in Seq(Message)
  BY DEF TypeOK, WireType
<1>2. Head(wire[n][x]) = wire[n][x][1] /\ 1 \in 1..Len(wire[n][x])
  BY <1>1
<1>3. \A m \in Node, y \in Stream : Pop(n, x)[m][y] = IF m = n /\ y = x THEN Tail(wire[n][x])
                                                                      ELSE wire[m][y]
  BY <1>1 DEF Pop, WireType
<1>4. \A i \in 1..Len(Tail(wire[n][x])) :
        i + 1 \in 1..Len(wire[n][x]) /\ Tail(wire[n][x])[i] = wire[n][x][i + 1]
  BY <1>1
<1> DEFINE v == Pop(n, x)
<1> HIDE DEF v
<1>5. ASSUME NEW m \in Node, NEW y \in Stream, NEW i \in 1..Len(v[m][y])
      PROVE  v[m][y][i].sid = c[y]
  <2>1. CASE m = n /\ y = x
    <3>1. v[m][y] = Tail(wire[n][x])
      BY <1>3, <2>1 DEF v
    <3>2. i + 1 \in 1..Len(wire[n][x]) /\ v[m][y][i] = wire[n][x][i + 1]
      BY <1>4, <3>1
    <3> QED
      BY <2>1, <3>2 DEF WireOf
  <2>2. CASE ~ (m = n /\ y = x)
    BY <1>3, <2>2 DEF WireOf, v
  <2> QED
    BY <2>1, <2>2
<1>6. Head(wire[n][x]).sid = c[x]
  BY <1>2 DEF WireOf
<1> QED
  BY <1>5, <1>6 DEF WireOf, v

\* What is written on the streams of its own circuit.
LEMMA EmitOf ==
  ASSUME NEW c, NEW w \in WireType, WireOf(c, w), NEW n \in Node, NEW X, NEW msg \in Message,
         \A x \in X : c[x] = msg.sid
  PROVE  WireOf(c, Emit(w, n, X, msg))
<1> DEFINE v == Emit(w, n, X, msg)
<1>1. \A m \in Node, x \in Stream :
        \/ v[m][x] = w[m][x]
        \/ v[m][x] = Append(w[m][x], msg) /\ x \in X
  BY DEF Emit
<1> HIDE DEF v
<1>2. ASSUME NEW m \in Node, NEW x \in Stream, NEW i \in 1..Len(v[m][x])
      PROVE  v[m][x][i].sid = c[x]
  <2>1. w[m][x] \in Seq(Message)
    BY DEF WireType
  <2>2. CASE v[m][x] = w[m][x]
    BY <2>2 DEF WireOf
  <2>3. CASE v[m][x] = Append(w[m][x], msg) /\ x \in X
    <3>1. \/ i \in 1..Len(w[m][x]) /\ v[m][x][i] = w[m][x][i]
          \/ v[m][x][i] = msg
      BY <2>1, <2>3
    <3> QED
      BY <2>3, <3>1 DEF WireOf
  <2> QED
    BY <1>1, <2>2, <2>3
<1> QED
  BY <1>2 DEF WireOf, v

LEMMA WrittenPair ==
  ASSUME NEW n \in Node, NEW s \in SessionId, NEW X
  PROVE  Written(n, s, X) \subseteq Pair(n, s)
BY DEF Written, Pair, StreamsIn

LEMMA OnlyWriteOf ==
  ASSUME NEW c, NEW w, WireOf(c, w), OnlyWrite(w)
  PROVE  Tidy(c)
BY DEF OnlyWrite, Tidy

LEMMA CloseEndsOf ==
  ASSUME NEW c, NEW w \in WireType, WireOf(c, w), NEW n \in Node, NEW X, CloseEnds(n, X, w)
  PROVE  WireOf(c, wire')
<1>1. \A m \in Node, x \in Stream : wire'[m][x] = <<>> \/ wire'[m][x] = w[m][x]
  BY DEF CloseEnds, WireType
<1> QED
  BY <1>1 DEF WireOf

LEMMA RemoveSessionOf ==
  ASSUME TypeOK, NEW c, NEW w \in WireType, WireOf(c, w), NEW n \in Node, NEW s \in SessionId,
         RemoveSession(n, s, w)
  PROVE  Tidy(c)
<1>1. \A m \in Node, r \in SessionId : sessionMap'[m][r] \in {sessionMap[m][r], NoSession}
  BY DEF RemoveSession, TypeOK
<1> QED
  BY <1>1, CloseEndsOf DEF RemoveSession, Tidy

LEMMA CloseCircuitOf ==
  ASSUME TypeOK, NEW c, Agrees(c), NEW w \in WireType, WireOf(c, w), NEW n \in Node,
         NEW s \in SessionId, CloseCircuit(n, s, w)
  PROVE  Tidy(c)
<1> DEFINE v == Emit(w, n, Pair(n, s), Msg("Disc", s))
<1>1. Msg("Disc", s) \in Message /\ Msg("Disc", s).sid = s
  BY MsgType DEF Msg
<1>2. v \in WireType /\ WireOf(c, v)
  BY <1>1, EmitType, EmitOf DEF Agrees, PairsOf
<1>3. RemoveSession(n, s, v)
  BY DEF CloseCircuit
<1> HIDE DEF v
<1> QED
  BY <1>2, <1>3, RemoveSessionOf

LEMMA SendRelayOf ==
  ASSUME TypeOK, NEW c, Agrees(c), NEW w \in WireType, WireOf(c, w), NEW n \in Node,
         NEW s \in SessionId, NEW msg \in Message, msg.sid = s, SendRelay(n, s, msg, w)
  PROVE  Tidy(c)
<1> DEFINE w1 == Emit(w, n, Written(n, s, Pair(n, s)), msg)
<1>1. w1 \in WireType /\ WireOf(c, w1)
  BY EmitType, EmitOf, WrittenPair DEF Agrees, PairsOf
<1>2. OnlyWrite(w1) \/ CloseCircuit(n, s, w1)
  BY DEF SendRelay
<1> HIDE DEF w1
<1> QED
  BY <1>1, <1>2, OnlyWriteOf, CloseCircuitOf

\* The other stream of a pair belongs to the same circuit.
LEMMA OnwardOf ==
  ASSUME TypeOK, NEW c, Agrees(c), NEW n \in Node, NEW s \in SessionId, NEW x,
         HasPattern(sessionMap[n][s], x)
  PROVE  \A y \in Onward(sessionMap[n][s], x) : c[y] = s
<1> DEFINE p == sessionMap[n][s].pair
<1>1. Len(p) = 2
  BY DEF HasPattern, IsReady
<1>2. Pair(n, s) = {p[i] : i \in 1..Len(p)}
  BY DEF Pair, StreamsIn
<1>3. Onward(sessionMap[n][s], x) \subseteq {p[1], p[2]}
  BY DEF Onward, GetPattern
<1> HIDE DEF p
<1>4. 1 \in 1..Len(p) /\ 2 \in 1..Len(p)
  BY <1>1
<1>5. p[1] \in Pair(n, s) /\ p[2] \in Pair(n, s)
  BY <1>2, <1>4
<1> QED
  BY <1>3, <1>5 DEF Agrees, PairsOf

\* The readers, for every message but SetSessionId.
LEMMA ReaderTidy ==
  ASSUME TypeOK, NEW c, Agrees(c), NEW n \in Node, NEW x \in Stream,
         \/ HandleRelayMsg(n, x) \/ HandleRelayProbe(n, x)
         \/ HandleDisconnect(n, x) \/ SpawnCircuitSuccess(n, x)
  PROVE  Tidy(c)
<1> DEFINE m == Head(wire[n][x])
           sess == sessionMap[n][m.sid]
           w == Pop(n, x)
<1>1. wire[n][x] # <<>>
  BY DEF HandleRelayMsg, HandleRelayProbe, HandleDisconnect, SpawnCircuitSuccess, Reads
<1>2. m \in Message /\ m.sid \in SessionId /\ w \in WireType /\ WireOf(c, w)
  BY <1>1, PopType, PopOf DEF Agrees, Message
<1>3. ASSUME HasPattern(sess, x)
      PROVE  WireOf(c, Emit(w, n, Onward(sess, x), m))
  <2>0. \A s \in SessionId : HasPattern(sessionMap[n][s], x) =>
          \A y \in Onward(sessionMap[n][s], x) : c[y] = s
    BY OnwardOf
  <2>1. \A y \in Onward(sess, x) : c[y] = m.sid
    BY <1>2, <1>3, <2>0, Zenon
  <2> HIDE DEF m, w, sess
  <2> QED
    BY <1>2, <2>1, EmitOf
<1>4. ASSUME wire' = w, UNCHANGED sessionMap
      PROVE  Tidy(c)
  BY <1>2, <1>4 DEF Tidy
<1>5. ASSUME CloseCircuit(n, m.sid, w)
      PROVE  Tidy(c)
  BY <1>2, <1>5, CloseCircuitOf
<1>6. CASE HandleRelayMsg(n, x)
  <2>1. \/ wire' = w /\ UNCHANGED sessionMap
        \/ OnlyWrite(w)
        \/ HasPattern(sess, x) /\ OnlyWrite(Emit(w, n, Onward(sess, x), m))
        \/ CloseCircuit(n, m.sid, w)
    BY <1>6 DEF HandleRelayMsg
  <2> QED
    BY <2>1, <1>2, <1>3, <1>4, <1>5, OnlyWriteOf
<1>7. CASE HandleRelayProbe(n, x)
  <2>1. \/ wire' = w /\ UNCHANGED sessionMap
        \/ OnlyWrite(w)
        \/ HasPattern(sess, x) /\ OnlyWrite(Emit(w, n, Onward(sess, x), m))
        \/ SendRelay(n, m.sid, Msg("Succ", m.sid), w)
    BY <1>7 DEF HandleRelayProbe
  <2>2. Msg("Succ", m.sid) \in Message /\ Msg("Succ", m.sid).sid = m.sid
    BY <1>2, MsgType DEF Msg
  <2> QED
    BY <2>1, <2>2, <1>2, <1>3, <1>4, OnlyWriteOf, SendRelayOf
<1>8. CASE HandleDisconnect(n, x)
  <2> DEFINE onward == {y \in Pair(n, m.sid) : Remote(n, y) # Remote(n, x)}
             v == Emit(w, n, Written(n, m.sid, onward), m)
  <2>1. RemoveSession(n, m.sid, v) \/ CloseCircuit(n, m.sid, v)
    BY <1>8 DEF HandleDisconnect
  <2>2. Written(n, m.sid, onward) \subseteq Pair(n, m.sid)
    BY <1>2, WrittenPair
  <2>3. v \in WireType /\ WireOf(c, v)
    <3> HIDE DEF m, w, onward
    <3>1. \A y \in Written(n, m.sid, onward) : c[y] = m.sid
      BY <1>2, <2>2 DEF Agrees, PairsOf
    <3> QED
      BY <1>2, <3>1, EmitType, EmitOf
  <2> HIDE DEF m, w, v
  <2> QED
    BY <1>2, <2>1, <2>3, RemoveSessionOf, CloseCircuitOf
<1>9. CASE SpawnCircuitSuccess(n, x)
  BY <1>2, <1>9, OnlyWriteOf DEF SpawnCircuitSuccess
<1> QED
  BY <1>6, <1>7, <1>8, <1>9

\* The goroutines.
LEMMA GoroutineTidy ==
  ASSUME TypeOK, NEW c, Agrees(c), NEW n \in Node, NEW g \in spawned[n],
         \/ ForwardSuccess(n, g) \/ StartHandshake(n, g) \/ Handshake(n, g)
         \/ HandshakeCancelled(n, g) \/ StoreSecureConn(n, g)
  PROVE  Tidy(c)
<1> DEFINE sess == sessionMap[n][g.sid]
<1>0. wire \in WireType /\ WireOf(c, wire) /\ g.sid \in SessionId
  BY DEF TypeOK, WireType, Agrees, Goroutine
<1>1. ASSUME wire' = wire, UNCHANGED sessionMap
      PROVE  Tidy(c)
  BY <1>0, <1>1 DEF Tidy
<1>2. \A d \in Payload : DataMsg(g.sid, d) \in Message /\ DataMsg(g.sid, d).sid = g.sid
  BY <1>0, MsgType DEF DataMsg
<1>3. ASSUME NEW d \in Payload,
             \/ /\ wire' = Emit(wire, n, Pair(n, g.sid), DataMsg(g.sid, d))
                /\ UNCHANGED sessionMap
             \/ SendRelay(n, g.sid, DataMsg(g.sid, d), wire)
      PROVE  Tidy(c)
  <2>1. WireOf(c, Emit(wire, n, Pair(n, g.sid), DataMsg(g.sid, d)))
    BY <1>0, <1>2, EmitOf DEF Agrees, PairsOf
  <2> QED
    BY <1>0, <1>2, <1>3, <2>1, SendRelayOf DEF Tidy
<1>4. CASE ForwardSuccess(n, g)
  <2>1. Msg("Succ", g.sid) \in Message /\ Msg("Succ", g.sid).sid = g.sid
    BY <1>0, MsgType DEF Msg
  <2>2. HasPattern(sess, g.stream) =>
          WireOf(c, Emit(wire, n, Onward(sess, g.stream), Msg("Succ", g.sid)))
    <3>1. ASSUME HasPattern(sess, g.stream)
          PROVE  \A y \in Onward(sess, g.stream) : c[y] = g.sid
      BY <1>0, <3>1, OnwardOf
    <3> QED
      BY <2>1, <3>1, <1>0, EmitOf
  <2> QED
    BY <2>2, <1>0, <1>4, OnlyWriteOf DEF ForwardSuccess
<1>5. CASE StartHandshake(n, g)
  <2>1. \/ OnlyWrite(wire)
        \/ wire' = wire /\ UNCHANGED sessionMap
        \/ /\ wire' = Emit(wire, n, Pair(n, g.sid), DataMsg(g.sid, "h1"))
           /\ UNCHANGED sessionMap
        \/ SendRelay(n, g.sid, DataMsg(g.sid, "h1"), wire)
    BY <1>5 DEF StartHandshake, netVars
  <2>2. "h1" \in Payload
    BY DEF Payload
  <2> QED
    BY <2>1, <2>2, <1>0, <1>1, <1>3, OnlyWriteOf
<1>6. CASE Handshake(n, g)
  <2>1. PICK d \in {"h2", "h3"} :
          \/ wire' = wire /\ UNCHANGED sessionMap
          \/ /\ wire' = Emit(wire, n, Pair(n, g.sid), DataMsg(g.sid, d))
             /\ UNCHANGED sessionMap
          \/ SendRelay(n, g.sid, DataMsg(g.sid, d), wire)
    BY <1>6 DEF Handshake, netVars
  <2>2. d \in Payload
    BY DEF Payload
  <2> QED
    BY <2>1, <2>2, <1>1, <1>3
<1>7. CASE HandshakeCancelled(n, g) \/ StoreSecureConn(n, g)
  BY <1>0, <1>1, <1>7, OnlyWriteOf DEF HandshakeCancelled, StoreSecureConn, netVars
<1> QED
  BY <1>4, <1>5, <1>6, <1>7

\* The actor, the user's goroutine, the managers and the failures, where they
\* open and join nothing.
LEMMA QuietTidy ==
  ASSUME TypeOK, NEW c, Agrees(c), NEW n \in Node,
         \/ ServeNewFails(n) \/ ServeSend(n) \/ ServeClose(n) \/ ServeGet(n)
         \/ \E x \in Stream : ReadErr(n, x) \/ StreamReset(n, x) \/ HandleStreamClosed(n, x)
         \/ \E t \in waiting[n] : SetSessionTimeout(n, t)
         \/ \E s \in SessionId : \/ AddCircuitConnCaller(n, s) \/ UserClose(n, s)
                                 \/ UserSend(n, s) \/ UserRead(n, s)
         \/ \E who \in Asker : AskAny(n, who) \/ ReadAnswer(n, who)
         \/ Crash(n) \/ Restart(n)
  PROVE  Tidy(c) /\ UNCHANGED dialer /\ \A m \in Node : waiting'[m] \subseteq waiting[m]
<1> DEFINE r == Head(mailbox[n])
           Rest == UNCHANGED dialer /\ \A m \in Node : waiting'[m] \subseteq waiting[m]
<1>0. /\ wire \in WireType /\ WireOf(c, wire) /\ waiting \in [Node -> SUBSET Task]
      /\ sessionMap \in [Node -> [SessionId -> SessionType(Stream)]]
  BY DEF TypeOK, WireType, Agrees
<1>1. ASSUME UNCHANGED <<wire, sessionMap>>
      PROVE  Tidy(c)
  BY <1>0, <1>1 DEF Tidy
<1>2. CASE ServeSend(n)
  <2>1. r \in Request /\ r.op = "Send" /\ r.sid \in SessionId
    BY <1>2, ServesType DEF ServeSend
  <2>2. Msg(r.type, r.sid) \in Message /\ Msg(r.type, r.sid).sid = r.sid
    BY <2>1, MsgType DEF Request, Msg
  <2>3. Tidy(c)
    BY <2>1, <2>2, <1>0, <1>2, SendRelayOf DEF ServeSend
  <2> QED
    BY <2>3, <1>2 DEF ServeSend, streamVars
<1>3. CASE ServeClose(n)
  <2>1. r.sid \in SessionId
    BY <1>3, ServesType DEF ServeClose
  <2> QED
    BY <2>1, <1>0, <1>3, CloseCircuitOf DEF ServeClose, streamVars
<1>4. CASE ServeNewFails(n) \/ ServeGet(n)
  BY <1>1, <1>4 DEF ServeNewFails, ServeGet, streamVars, netVars
<1>5. ASSUME NEW t \in waiting[n], SetSessionTimeout(n, t)
      PROVE  Tidy(c) /\ Rest
  BY <1>0, <1>1, <1>5 DEF SetSessionTimeout, streamVars, netVars
<1>6. ASSUME NEW x \in Stream, ReadErr(n, x) \/ StreamReset(n, x)
      PROVE  Tidy(c) /\ Rest
  <2>1. CloseEnds(n, {x}, wire) /\ UNCHANGED <<sessionMap, dialer, waiting>>
    BY <1>6 DEF ReadErr, StreamReset, streamVars, callVars
  <2> QED
    BY <2>1, <1>0, CloseEndsOf DEF Tidy
<1>7. ASSUME NEW x \in Stream, HandleStreamClosed(n, x)
      PROVE  Tidy(c) /\ Rest
  <2>1. UNCHANGED <<dialer, waiting>>
    BY <1>7 DEF HandleStreamClosed, streamVars, callVars
  <2> QED
    BY <2>1, <1>0, <1>7, CloseCircuitOf, OnlyWriteOf DEF HandleStreamClosed
<1>8. ASSUME NEW s \in SessionId, UserClose(n, s) \/ UserSend(n, s)
      PROVE  Tidy(c) /\ Rest
  <2>1. DataMsg(s, "app") \in Message /\ DataMsg(s, "app").sid = s
    BY MsgType DEF Payload, DataMsg
  <2>2. UNCHANGED <<dialer, waiting>>
    BY <1>8 DEF UserClose, UserSend, streamVars, callVars
  <2> QED
    BY <2>1, <2>2, <1>0, <1>8, CloseCircuitOf, SendRelayOf DEF UserClose, UserSend
<1>9. ASSUME NEW s \in SessionId, AddCircuitConnCaller(n, s) \/ UserRead(n, s)
      PROVE  Tidy(c) /\ Rest
  BY <1>1, <1>9 DEF AddCircuitConnCaller, UserRead, streamVars, netVars, callVars
<1>10. ASSUME NEW who \in Asker, AskAny(n, who) \/ ReadAnswer(n, who)
      PROVE  Tidy(c) /\ Rest
  BY <1>1, <1>10 DEF AskAny, Ask, ReadAnswer, streamVars, netVars
<1>11. CASE Restart(n)
  BY <1>1, <1>11 DEF Restart, streamVars, netVars, callVars
<1>12. CASE Crash(n)
  <2>1. Rest
    BY <1>0, <1>12 DEF Crash, streamVars
  <2>2. \A m \in Node, x \in Stream : wire'[m][x] = <<>> \/ wire'[m][x] = wire[m][x]
    BY <1>0, <1>12 DEF Crash, WireType
  <2>3. \A m \in Node, s \in SessionId : sessionMap'[m][s] \in {sessionMap[m][s], NoSession}
    BY <1>0, <1>12 DEF Crash
  <2> QED
    BY <2>1, <2>2, <2>3, <1>0 DEF Tidy, WireOf
<1> QED
  BY <1>2, <1>3, <1>4, <1>5, <1>6, <1>7, <1>8, <1>9, <1>10, <1>11, <1>12

LEMMA AddStreamIn ==
  ASSUME NEW sess \in SessionType(Stream), NEW x \in Stream
  PROVE  StreamsIn(AddStream(sess, x)) \subseteq StreamsIn(sess) \cup {x}
<1> DEFINE q == AddStream(sess, x)
           p == sess.pair
<1>1. p \in Seq(Stream) /\ Len(p) \in Nat /\ Len(p) <= 2
  BY DEF SessionType
<1>2. CASE IsReady(sess)
  BY <1>2 DEF AddStream
<1>3. CASE ~ IsReady(sess)
  <2>1. Len(p) # 2
    BY <1>3 DEF IsReady
  <2>2. /\ Len(Append(p, x)) = Len(p) + 1 /\ Append(p, x)[Len(p) + 1] = x
        /\ \A i \in 1..Len(p) : Append(p, x)[i] = p[i]
    BY <1>1
  <2>3. ~ (Len(Append(p, x)) > 2)
    <3>1. \A k \in Nat : k <= 2 /\ k # 2 => ~ (k + 1 > 2)
      OBVIOUS
    <3> HIDE DEF p
    <3> QED
      BY <1>1, <2>1, <2>2, <3>1
  <2>4. q.pair = Append(p, x)
    BY <1>3, <2>3 DEF AddStream, SessionType
  <2> HIDE DEF q, p
  <2>5. \A i \in 1..Len(q.pair) : i = Len(p) + 1 \/ i \in 1..Len(p)
    BY <1>1, <2>2, <2>4
  <2>6. StreamsIn(sess) = {p[i] : i \in 1..Len(p)}
    BY DEF StreamsIn, p
  <2>7. \A i \in 1..Len(q.pair) : q.pair[i] \in StreamsIn(sess) \cup {x}
    BY <2>2, <2>4, <2>5, <2>6
  <2> QED
    BY <2>7 DEF StreamsIn, q
<1> QED
  BY <1>2, <1>3

LEMMA JoinedIn ==
  ASSUME TypeOK, NEW n \in Node, NEW s \in SessionId, NEW x \in Stream, NEW role \in Role
  PROVE  StreamsIn(Joined(n, s, x, role)) \subseteq Pair(n, s) \cup {x}
<1>1. sessionMap[n][s] \in SessionType(Stream) /\ NewSession(role) \in SessionType(Stream)
  BY NewSessionType DEF TypeOK
<1>2. StreamsIn(NewSession(role)) = {} /\ Pair(n, s) = StreamsIn(sessionMap[n][s])
  BY DEF StreamsIn, NewSession, Pair
<1>3. /\ StreamsIn(AddStream(sessionMap[n][s], x)) \subseteq Pair(n, s) \cup {x}
      /\ StreamsIn(AddStream(NewSession(role), x)) \subseteq {x}
  BY <1>1, <1>2, AddStreamIn
<1> QED
  BY <1>3 DEF Joined

\* A stream joins the session of its circuit.
LEMMA JoinKeeps ==
  ASSUME TypeOK, NEW c \in Assignment, Agrees(c), NEW n \in Node, NEW s \in SessionId,
         NEW x \in Stream, c[x] = s, NEW q, sessionMap' = [sessionMap EXCEPT ![n][s] = q],
         StreamsIn(q) \subseteq Pair(n, s) \cup {x}, WireOf(c, wire'), UNCHANGED dialer,
         \A m \in Node : waiting'[m] \subseteq waiting[m]
  PROVE  StreamsAssigned'
<1>1. /\ sessionMap'[n][s] = q
      /\ \A m \in Node, r \in SessionId : m # n \/ r # s => sessionMap'[m][r] = sessionMap[m][r]
  BY DEF TypeOK
<1>2. Pair(n, s)' \subseteq Pair(n, s) \cup {x}
  BY <1>1 DEF Pair
<1>3. \A m \in Node, r \in SessionId : m # n \/ r # s => Pair(m, r)' = Pair(m, r)
  BY <1>1 DEF Pair
<1>4. PairsOf(c)'
  BY <1>2, <1>3 DEF Agrees, PairsOf
<1>5. TasksOf(c)' /\ OpenedOf(c)'
  BY DEF Agrees, TasksOf, OpenedOf
<1>6. Agrees(c)'
  BY <1>4, <1>5 DEF Agrees, WireOf
<1> QED
  BY <1>6 DEF StreamsAssigned, Assignment

\* The listener of a stream joins the circuit that the SetSessionId names.
LEMMA SetSessionAssigned ==
  ASSUME TypeOK, NEW c \in Assignment, Agrees(c), NEW n \in Node, NEW x \in Stream,
         HandleSetSession(n, x)
  PROVE  StreamsAssigned'
<1> DEFINE m == Head(wire[n][x])
           s == m.sid
           w == Pop(n, x)
<1>1. wire[n][x] # <<>> /\ m.type = "Set" /\ UNCHANGED <<dialer, waiting>>
  BY DEF HandleSetSession, Reads, streamVars
<1>2. m \in Message /\ s \in SessionId /\ m.role \in Role /\ w \in WireType
  BY <1>1, PopType DEF Message
<1>3. WireOf(c, w) /\ c[x] = s
  BY <1>1, PopOf DEF Agrees
<1>4. CASE RejectSetSession(n, x, m)
  <2>1. Tidy(c)
    BY <1>3, <1>4, OnlyWriteOf DEF RejectSetSession
  <2> QED
    BY <2>1, <1>1, TidyKeeps
<1>5. CASE RefuseHalfEntry(n, x, m)
  <2>1. Tidy(c)
    BY <1>2, <1>3, <1>5, CloseCircuitOf DEF RefuseHalfEntry
  <2> QED
    BY <2>1, <1>1, TidyKeeps
<1>6. CASE SwapJoint(n, x, m)
  <2> DEFINE p == sessionMap[n][s].pair
             q == [sessionMap[n][s] EXCEPT !.pair = <<p[1], x>>]
  <2>1. IsReady(sessionMap[n][s]) /\ sessionMap[n][s] \in SessionType(Stream)
    BY <1>2, <1>6 DEF SwapJoint, TypeOK
  <2>2. p[1] \in Pair(n, s) /\ p[2] \in Pair(n, s)
    <3>1. Pair(n, s) = {p[i] : i \in 1..Len(p)} /\ Len(p) = 2
      BY <2>1 DEF Pair, StreamsIn, IsReady
    <3> HIDE DEF p
    <3>2. 1 \in 1..Len(p) /\ 2 \in 1..Len(p)
      BY <3>1
    <3> QED
      BY <3>1, <3>2
  <2>3. sessionMap' = [sessionMap EXCEPT ![n][s] = q]
    BY <1>6 DEF SwapJoint
  <2>4. q.pair = <<p[1], x>>
    BY <2>1 DEF SessionType
  <2>5. wire' = Emit(w, n, {p[2]}, Msg("Disc", s))
    BY <1>6 DEF SwapJoint, TellJoint
  <2>6. Msg("Disc", s) \in Message /\ Msg("Disc", s).sid = s
    BY <1>2, MsgType DEF Msg
  <2> HIDE DEF m, s, w, p, q
  <2>7. StreamsIn(q) \subseteq Pair(n, s) \cup {x}
    <3>1. \A i \in 1..Len(<<p[1], x>>) : <<p[1], x>>[i] \in {p[1], x}
      OBVIOUS
    <3> QED
      BY <2>2, <2>4, <3>1 DEF StreamsIn
  <2>8. c[p[2]] = s
    BY <1>2, <2>2 DEF Agrees, PairsOf
  <2>9. WireOf(c, wire')
    BY <1>2, <1>3, <2>5, <2>6, <2>8, EmitOf
  <2> QED
    BY <1>1, <1>2, <1>3, <2>3, <2>7, <2>9, JoinKeeps
<1>7. CASE JoinSession(n, x, m)
  <2> DEFINE q == Joined(n, s, x, m.role)
  <2>1. sessionMap' = [sessionMap EXCEPT ![n][s] = q] /\ wire' = w
    BY <1>7 DEF JoinSession
  <2>2. StreamsIn(q) \subseteq Pair(n, s) \cup {x}
    <3> HIDE DEF m
    <3> QED
      BY <1>2, JoinedIn
  <2> HIDE DEF m, s, w, q
  <2> QED
    BY <1>1, <1>2, <1>3, <2>1, <2>2, JoinKeeps
<1> QED
  BY <1>4, <1>5, <1>6, <1>7 DEF HandleSetSession

\* The dialer of a stream joins the circuit that it opened the stream for.
LEMMA AckAssigned ==
  ASSUME TypeOK, NEW c \in Assignment, Agrees(c), NEW n \in Node, NEW a \in acks,
         NEW t \in waiting[n], AckArrives(n, a, t)
  PROVE  StreamsAssigned'
<1>1. t.sid \in SessionId /\ t.stream \in Stream /\ t.my \in Role /\ c[t.stream] = t.sid
  BY DEF TypeOK, Task, Agrees, TasksOf
<1>2. /\ \A m \in Node : waiting'[m] \subseteq waiting[m]
      /\ UNCHANGED <<dialer, wire>> /\ WireOf(c, wire)
  BY DEF AckArrives, TypeOK, streamVars, netVars, Agrees
<1>3. CASE a.ok
  <2> DEFINE q == Joined(n, t.sid, t.stream, t.my)
  <2>1. sessionMap' = [sessionMap EXCEPT ![n][t.sid] = q]
    BY <1>3 DEF AckArrives, SessionSet
  <2>2. StreamsIn(q) \subseteq Pair(n, t.sid) \cup {t.stream}
    BY <1>1, JoinedIn
  <2> HIDE DEF q
  <2> QED
    BY <1>1, <1>2, <2>1, <2>2, JoinKeeps
<1>4. CASE ~ a.ok
  <2>1. Tidy(c)
    BY <1>2, <1>4 DEF AckArrives, Tidy
  <2> QED
    BY <1>2, <2>1, TidyKeeps
<1> QED
  BY <1>3, <1>4

\* A new stream is opened for the circuit of its SetSessionId: nobody knew it.
LEMMA DialAssigned ==
  ASSUME RelayInv, NEW c \in Assignment, Agrees(c), NEW n \in Node, NEW p, NEW s \in SessionId,
         NEW my, NEW other, NEW proc, NEW who, DialAndSet(n, p, s, my, other, proc, who)
  PROVE  StreamsAssigned'
<1>0. TypeOK
  BY DEF RelayInv
<1>1. p \in Node /\ UNCHANGED sessionMap
  BY <1>0 DEF DialAndSet, TypeOK
<1> DEFINE task(y) == [proc |-> proc, sid |-> s, stream |-> y, my |-> my, other |-> other,
                       who |-> who]
           set == SetMsg(s, other)
<1>2. PICK x \in Stream :
        /\ dialer[x] = NoNode
        /\ dialer' = [dialer EXCEPT ![x] = n]
        /\ wire' = [wire EXCEPT ![p][x] = <<set>>]
        /\ waiting' = [waiting EXCEPT ![n] = @ \cup {task(x)}]
  BY DEF DialAndSet, Fresh
<1> DEFINE d == [c EXCEPT ![x] = s]
<1>3. /\ d \in Assignment /\ d[x] = s /\ c[x] = NoSid
      /\ \A y \in Stream : y # x => d[y] = c[y]
  BY <1>2 DEF Agrees, OpenedOf, Assignment
<1>4. set.sid = s /\ task(x).sid = s /\ task(x).stream = x
  BY DEF SetMsg
<1> HIDE DEF task, set, d
<1>5. WireOf(d, wire')
  <2> SUFFICES ASSUME NEW m \in Node, NEW y \in Stream, NEW i \in 1..Len(wire'[m][y])
               PROVE  wire'[m][y][i].sid = d[y]
    BY DEF WireOf
  <2>1. /\ wire'[p][x] = <<set>>
        /\ \A k \in Node, z \in Stream : k # p \/ z # x => wire'[k][z] = wire[k][z]
    BY <1>0, <1>1, <1>2 DEF TypeOK
  <2>2. wire[m][x] = <<>>
    BY <1>2, FreshUnknown
  <2>3. CASE m = p /\ y = x
    <3>1. wire'[m][y] = <<set>>
      BY <2>1, <2>3
    <3>2. Len(<<set>>) = 1 /\ <<set>>[1] = set
      OBVIOUS
    <3>3. i = 1
      BY <3>1, <3>2
    <3> QED
      BY <2>3, <3>1, <3>2, <3>3, <1>3, <1>4
  <2>4. CASE m # p \/ y # x
    <3>1. wire'[m][y] = wire[m][y]
      BY <2>1, <2>4
    <3>2. y # x
      BY <2>2, <3>1
    <3> QED
      BY <3>1, <3>2, <1>3 DEF Agrees, WireOf
  <2> QED
    BY <2>3, <2>4
<1>6. PairsOf(d)'
  <2> SUFFICES ASSUME NEW m \in Node, NEW r \in SessionId, NEW y \in Pair(m, r)
               PROVE  d[y] = r
    BY <1>1 DEF PairsOf, Pair
  <2>1. c[y] = r /\ y \in Stream
    BY <1>0, PairType DEF Agrees, PairsOf
  <2>2. y # x
    BY <2>1, <1>3, NoSidAssumption
  <2> QED
    BY <2>1, <2>2, <1>3
<1>7. TasksOf(d)'
  <2> SUFFICES ASSUME NEW m \in Node, NEW t \in waiting'[m]
               PROVE  d[t.stream] = t.sid
    BY DEF TasksOf
  <2>1. t = task(x) \/ t \in waiting[m]
    BY <1>0, <1>2 DEF TypeOK
  <2>2. CASE t = task(x)
    BY <2>2, <1>3, <1>4
  <2>3. CASE t \in waiting[m]
    <3>1. c[t.stream] = t.sid /\ t.stream \in Stream /\ t.sid \in SessionId
      BY <2>3, <1>0 DEF Agrees, TasksOf, TypeOK, Task
    <3>2. t.stream # x
      BY <3>1, <1>3, NoSidAssumption
    <3> QED
      BY <3>1, <3>2, <1>3
  <2> QED
    BY <2>1, <2>2, <2>3
<1>8. OpenedOf(d)'
  <2> SUFFICES ASSUME NEW y \in Stream, dialer'[y] = NoNode
               PROVE  d[y] = NoSid
    BY DEF OpenedOf
  <2>1. y # x /\ dialer[y] = NoNode
    BY <1>0, <1>2, NoNodeAssumption DEF TypeOK
  <2> QED
    BY <2>1, <1>3 DEF Agrees, OpenedOf
<1>9. ASSUME NEW e \in Assignment, e = d
      PROVE  Agrees(e)'
  BY <1>5, <1>6, <1>7, <1>8, <1>9 DEF Agrees, WireOf, PairsOf, TasksOf, OpenedOf
<1> QED
  BY <1>3, <1>9 DEF StreamsAssigned, Assignment

\* An expired future leaves every call to its stream.
LEMMA DisownAssigned ==
  ASSUME TypeOK, NEW c \in Assignment, Agrees(c), NEW n \in Node, NEW who \in Asker,
         Disown(n, who)
  PROVE  StreamsAssigned'
<1> DEFINE f(t) == IF t.who = who THEN [t EXCEPT !.who = "gone"] ELSE t
<1>1. UNCHANGED <<dialer, wire, sessionMap>> /\ waiting \in [Node -> SUBSET Task]
  BY DEF Disown, streamVars, netVars, TypeOK
<1>2. \A t \in Task : f(t).sid = t.sid /\ f(t).stream = t.stream
  BY DEF Task
<1>3. /\ waiting'[n] = {f(t) : t \in waiting[n]}
      /\ \A m \in Node : m # n => waiting'[m] = waiting[m]
  BY <1>1 DEF Disown
<1> HIDE DEF f
<1>4. TasksOf(c)'
  <2> SUFFICES ASSUME NEW m \in Node, NEW t \in waiting'[m]
               PROVE  c[t.stream] = t.sid
    BY DEF TasksOf
  <2>1. CASE m # n
    BY <2>1, <1>3 DEF Agrees, TasksOf
  <2>2. CASE m = n
    <3>1. PICK u \in waiting[n] : t = f(u)
      BY <2>2, <1>3
    <3> QED
      BY <3>1, <1>1, <1>2 DEF Agrees, TasksOf
  <2> QED
    BY <2>1, <2>2
<1>5. Agrees(c)'
  BY <1>1, <1>4 DEF Agrees, WireOf, PairsOf, OpenedOf, Pair
<1> QED
  BY <1>5 DEF StreamsAssigned, Assignment

LEMMA AssignedInit == RelayInit => StreamsAssigned
<1> SUFFICES ASSUME RelayInit
             PROVE  StreamsAssigned
  OBVIOUS
<1> DEFINE c == [x \in Stream |-> NoSid]
<1>1. c \in Assignment /\ \A x \in Stream : c[x] = NoSid
  BY DEF Assignment
<1> HIDE DEF c
<1>2. StreamsIn(NoSession) = {}
  BY DEF StreamsIn, NoSession
<1>3. PairsOf(c)
  BY <1>2 DEF RelayInit, PairsOf, Pair
<1>4. WireOf(c, wire) /\ TasksOf(c) /\ OpenedOf(c)
  BY <1>1 DEF RelayInit, WireOf, TasksOf, OpenedOf
<1> QED
  BY <1>1, <1>3, <1>4 DEF StreamsAssigned, Agrees

LEMMA AssignedNext ==
  ASSUME RelayInv, StreamsAssigned, [RelayNext]_relayVars
  PROVE  StreamsAssigned'
<1>0. TypeOK
  BY DEF RelayInv
<1>1. PICK c \in Assignment : Agrees(c)
  BY DEF StreamsAssigned
<1>2. CASE UNCHANGED relayVars
  <2>1. UNCHANGED <<wire, sessionMap, dialer, waiting>>
    BY <1>2 DEF relayVars
  <2>2. Tidy(c)
    BY <2>1, <1>1 DEF Tidy, Agrees
  <2> QED
    BY <2>1, <2>2, <1>1, TidyKeeps
<1>3. ASSUME NEW n \in Node, NEW x \in Stream,
             \/ HandleRelayMsg(n, x) \/ HandleRelayProbe(n, x)
             \/ HandleDisconnect(n, x) \/ SpawnCircuitSuccess(n, x)
      PROVE  StreamsAssigned'
  <2>1. UNCHANGED <<dialer, waiting>>
    BY <1>3 DEF HandleRelayMsg, HandleRelayProbe, HandleDisconnect, SpawnCircuitSuccess, streamVars,
       callVars
  <2> QED
    BY <2>1, <1>0, <1>1, <1>3, ReaderTidy, TidyKeeps
<1>4. ASSUME NEW n \in Node, NEW g \in spawned[n],
             \/ ForwardSuccess(n, g) \/ StartHandshake(n, g) \/ Handshake(n, g)
             \/ HandshakeCancelled(n, g) \/ StoreSecureConn(n, g)
      PROVE  StreamsAssigned'
  <2>1. UNCHANGED <<dialer, waiting>>
    BY <1>4 DEF ForwardSuccess, StartHandshake, Handshake, HandshakeCancelled, StoreSecureConn,
       streamVars, callVars
  <2> QED
    BY <2>1, <1>0, <1>1, <1>4, GoroutineTidy, TidyKeeps
<1>5. ASSUME NEW n \in Node,
             \/ ServeNewFails(n) \/ ServeSend(n) \/ ServeClose(n) \/ ServeGet(n)
             \/ \E x \in Stream : ReadErr(n, x) \/ StreamReset(n, x) \/ HandleStreamClosed(n, x)
             \/ \E t \in waiting[n] : SetSessionTimeout(n, t)
             \/ \E s \in SessionId : \/ AddCircuitConnCaller(n, s) \/ UserClose(n, s)
                                     \/ UserSend(n, s) \/ UserRead(n, s)
             \/ \E who \in Asker : AskAny(n, who) \/ ReadAnswer(n, who)
             \/ Crash(n) \/ Restart(n)
      PROVE  StreamsAssigned'
  BY <1>0, <1>1, <1>5, QuietTidy, TidyKeeps
<1>6. ASSUME NEW n \in Node, ServeNew(n)
      PROVE  StreamsAssigned'
  <2> DEFINE r == Head(mailbox[n])
  <2>1. r.sid \in SessionId
    BY <1>0, <1>6, ServesType DEF ServeNew
  <2> QED
    BY <2>1, <1>1, <1>6, DialAssigned DEF ServeNew
<1>7. ASSUME NEW n \in Node, RelayStep(n)
      PROVE  StreamsAssigned'
  BY <1>0, <1>1, <1>3, <1>4, <1>5, <1>6, <1>7, SetSessionAssigned, AckAssigned DEF RelayStep
<1>8. ASSUME NEW n \in Node, RelayPanic(n) \/ RelayFault(n)
      PROVE  StreamsAssigned'
  BY <1>5, <1>8 DEF RelayPanic, AckWithoutTask, RelayFault
<1>9. ASSUME NEW n \in Node, NEW p \in Node, NEW s \in SessionId, UserDial(n, p, s)
      PROVE  StreamsAssigned'
  BY <1>1, <1>9, DialAssigned DEF UserDial
<1>10. ASSUME NEW n \in Node, RelayInput(n)
       PROVE  StreamsAssigned'
  BY <1>0, <1>1, <1>5, <1>9, <1>10, DisownAssigned DEF RelayInput
<1> QED
  BY <1>2, <1>7, <1>8, <1>10 DEF RelayNext

\* For any number of nodes, circuits and streams, any requests of the managers and
\* any failures: what is under way on a stream belongs to one circuit, the one that
\* its SetSessionId named.
THEOREM OneCircuit == RelaySpec => []OneCircuitPerStream
<1>1. StreamsAssigned => OneCircuitPerStream
  BY DEF StreamsAssigned, Agrees, WireOf, OneCircuitPerStream
<1>2. RelayInv /\ StreamsAssigned /\ [RelayNext]_relayVars => RelayInv' /\ StreamsAssigned'
  BY NextInv, AssignedNext
<1> QED
  BY <1>1, <1>2, InitInv, AssignedInit, PTL DEF RelaySpec
=============================================================================
