---------------------------- MODULE LookupProofs ----------------------------
(***************************************************************************)
(* Theorems about what is asked of other nodes: the lookups of a client    *)
(* (Discovery) and the negotiations that reach a proxy (Negotiation).      *)
(***************************************************************************)
EXTENDS Discovery, Negotiation, FiniteSetTheorems, TLAPS

-----------------------------------------------------------------------------
(* Negotiation *)

Cypher == [key : Destination, sid : Circuit, joint : JointNode]

\* A negotiation as the entry node of its circuit had it encrypted.
Genuine == {g \in [des : Destination, cypher : Cypher] :
              /\ circuitTask[g.cypher.sid] = g.des
              /\ joint[g.cypher.sid] = g.cypher.joint}

ActorRequest == [op : {"GetClient", "Decrypt"}, g : Genuine]

NegotiationTypeOK ==
  /\ circuitTask \in [Circuit -> Destination]
  /\ joint \in [Circuit -> JointNode]
  /\ gossips \subseteq Genuine /\ toDecrypt \subseteq Genuine
  /\ noiseLoop \in [pc : {"next", "asked"}, g : Genuine \cup {NoGossip}, timer : Nat,
                    behind : Nat]
  /\ handlers \subseteq [pc : {"new", "asked"}, g : Genuine, timer : Nat]
  /\ actorBox \in Seq(ActorRequest)
  /\ decrypting \in [g : Genuine \cup {NoGossip}, timer : 0..1]

\* The actor waits for a genuine negotiation.
DecryptsGenuine == ActorFree \/ decrypting.g \in Genuine

\* An acknowledgement says what the cypher of its request does.
AcksRight ==
  \A a \in decrypted : a.sid = a.id.cypher.sid /\ a.joint = a.id.cypher.joint

\* The request of the loop is the only one of its kind; those before it are decryptions.
LoopAt(p) ==
  /\ p \in 1..Len(actorBox)
  /\ \A i \in 1..Len(actorBox) : actorBox[i].op = "GetClient" <=> i = p

\* The request of the loop is served before its future expires, if it has at most
\* one decryption before it: each of them takes one unit of time at most.
LoopInTime ==
  /\ noiseLoop.pc = "next" => \A i \in 1..Len(actorBox) : actorBox[i].op = "Decrypt"
  /\ noiseLoop.pc = "asked" =>
       \E p \in 1..Len(actorBox) :
         /\ LoopAt(p)
         /\ noiseLoop.behind <= 1 => noiseLoop.timer >= p + decrypting.timer

NegotiationInv ==
  /\ NegotiationTypeOK /\ DecryptsGenuine /\ AcksRight /\ LoopInTime
  /\ RightNegotiation /\ OneSilentClientSurvived

LEMMA NegotiationInitInv == NegotiationInit => NegotiationInv
BY DEF NegotiationInit, NegotiationInv, NegotiationTypeOK, DecryptsGenuine, AcksRight, LoopInTime,
       RightNegotiation, OneSilentClientSurvived, ActorFree, AtNext, NoDecryption

\* Nobody changes what a circuit is for.
LEMMA CircuitsStay ==
  ASSUME NegotiationNext
  PROVE  UNCHANGED <<circuitTask, joint>> /\ Genuine' = Genuine
<1>1. UNCHANGED <<circuitTask, joint>>
  BY DEF NegotiationNext, callerVars, EncryptGossip, EncryptTimeout, GossipJoint, Encrypts,
     NextGossip, GetClient, GetClientExpires, DecryptGossip, DecryptTimeout, DecryptFails, GivesUp,
     Tick, HandleGossipMsg, DecryptExpires, HandleDecrypt, DecryptAcked, LateDecryptAck
<1> QED
  BY <1>1 DEF Genuine

\* What the actor takes from its box.
LEMMA ActorTakesFirst ==
  ASSUME NegotiationTypeOK, NEW op, ActorTakes(op)
  PROVE  /\ Head(actorBox) = actorBox[1] /\ Head(actorBox) \in ActorRequest
         /\ Head(actorBox).g \in Genuine /\ Head(actorBox).op = op
         /\ actorBox' \in Seq(ActorRequest) /\ Len(actorBox') = Len(actorBox) - 1
         /\ Len(actorBox) \in Nat \ {0}
         /\ \A i \in 1..Len(actorBox') : actorBox'[i] = actorBox[i + 1]
<1>1. actorBox \in Seq(ActorRequest) /\ actorBox # <<>>
  BY DEF NegotiationTypeOK, ActorTakes
<1>2. Head(actorBox) = actorBox[1] /\ Head(actorBox) \in ActorRequest
  BY <1>1
<1>3. Head(actorBox).g \in Genuine
  BY <1>2 DEF ActorRequest
<1> QED
  BY <1>1, <1>2, <1>3 DEF ActorTakes

LEMMA NegotiationTypeStep ==
  ASSUME NegotiationTypeOK, NegotiationNext
  PROVE  NegotiationTypeOK'
<1> DEFINE LoopState == [pc : {"next", "asked"}, g : Genuine \cup {NoGossip}, timer : Nat,
                         behind : Nat]
           Handler == [pc : {"new", "asked"}, g : Genuine, timer : Nat]
           Decryption == [g : Genuine \cup {NoGossip}, timer : 0..1]
           Kept == /\ gossips' \subseteq Genuine /\ toDecrypt' \subseteq Genuine
                   /\ noiseLoop' \in LoopState /\ handlers' \subseteq Handler
                   /\ actorBox' \in Seq(ActorRequest) /\ decrypting' \in Decryption
<1>0. /\ UNCHANGED <<circuitTask, joint>> /\ Genuine' = Genuine
      /\ ActorRequest' = ActorRequest
  BY CircuitsStay DEF ActorRequest
<1>1. SUFFICES Kept
  BY <1>0 DEF NegotiationTypeOK
<1>2. /\ gossips \subseteq Genuine /\ toDecrypt \subseteq Genuine
      /\ noiseLoop \in LoopState /\ handlers \subseteq Handler
      /\ actorBox \in Seq(ActorRequest) /\ decrypting \in Decryption
      /\ AtNext \in LoopState /\ NoDecryption \in Decryption
  BY DEF NegotiationTypeOK, AtNext, NoDecryption
<1> USE DEF exitVars
<1>3. ASSUME NEW c \in Circuit, GossipJoint(c)
      PROVE  gossips' \subseteq Genuine
  <2> DEFINE g == [des |-> circuitTask[c], cypher |-> HandleEncrypt(c)]
  <2>1. g \in Genuine
    BY DEF NegotiationTypeOK, HandleEncrypt, Genuine, Cypher
  <2> QED
    BY <1>2, <1>3, <2>1 DEF GossipJoint
<1>4. ASSUME NEW c \in Circuit, EncryptGossip(c) \/ EncryptTimeout(c) \/ GossipJoint(c)
      PROVE  Kept
  <2>1. gossips' \subseteq Genuine
    BY <1>2, <1>3, <1>4 DEF EncryptGossip, EncryptTimeout
  <2> QED
    BY <1>2, <1>4, <2>1 DEF EncryptGossip, EncryptTimeout, GossipJoint, Encrypts
<1>5. ASSUME NEW g \in gossips, NextGossip(g)
      PROVE  Kept
  <2>1. ReqGetClient(g) \in ActorRequest
    BY <1>2 DEF ReqGetClient, ActorRequest
  <2>2. actorBox' \in Seq(ActorRequest)
    BY <1>2, <1>5, <2>1 DEF NextGossip
  <2>3. Ahead \in Nat
    <3>1. Len(actorBox) \in Nat
      BY <1>2
    <3>2. IsFiniteSet(1..Len(actorBox))
      BY <3>1, FS_Interval
    <3>3. IsFiniteSet({i \in 1..Len(actorBox) : actorBox[i].op = "Decrypt"})
      BY <3>2, FS_Subset
    <3>4. Cardinality({i \in 1..Len(actorBox) : actorBox[i].op = "Decrypt"}) \in Nat
      BY <3>3, FS_CardinalityType
    <3> QED
      BY <3>4 DEF Ahead
  <2>4. noiseLoop' \in LoopState
    BY <1>2, <1>5, <2>3 DEF NextGossip, RequestFutureDuration
  <2> QED
    BY <1>2, <1>5, <2>2, <2>4 DEF NextGossip
<1>6. CASE GetClient
  <2>1. Head(actorBox).g \in Genuine /\ actorBox' \in Seq(ActorRequest)
    BY <1>6, ActorTakesFirst DEF GetClient
  <2>2. handlers' \subseteq Handler
    BY <1>2, <1>6, <2>1 DEF GetClient
  <2> QED
    BY <1>2, <1>6, <2>1, <2>2 DEF GetClient
<1>7. CASE GetClientExpires
  BY <1>2, <1>7 DEF GetClientExpires
<1>8. CASE DecryptGossip
  <2>1. Head(actorBox).g \in Genuine /\ actorBox' \in Seq(ActorRequest)
    BY <1>8, ActorTakesFirst DEF DecryptGossip
  <2>2. decrypting' \in Decryption
    BY <1>8, <2>1 DEF DecryptGossip, DecryptReqTimeout
  <2> QED
    BY <1>2, <1>8, <2>1, <2>2 DEF DecryptGossip
<1>9. CASE DecryptTimeout \/ DecryptFails
  BY <1>2, <1>9 DEF DecryptTimeout, DecryptFails, GivesUp, Answered
<1>10. CASE Tick
  <2>1. \A t \in Nat : Less(t) \in Nat
    BY DEF Less
  <2>2. noiseLoop' \in LoopState
    <3>1. noiseLoop' = [noiseLoop EXCEPT !.timer = Less(noiseLoop.timer)]
      BY <1>10 DEF Tick
    <3>2. Less(noiseLoop.timer) \in Nat
      BY <1>2, <2>1
    <3> QED
      BY <1>2, <3>1, <3>2
  <2>3. handlers' \subseteq Handler
    <3>1. ASSUME NEW h \in handlers
          PROVE  [h EXCEPT !.timer = Less(h.timer)] \in Handler
      <4>1. h \in Handler /\ Less(h.timer) \in Nat
        BY <1>2, <2>1
      <4> QED
        BY <4>1
    <3> QED
      BY <1>10, <3>1 DEF Tick
  <2>4. decrypting' \in Decryption
    BY <1>2, <1>10 DEF Tick, Less
  <2> QED
    BY <1>2, <1>10, <2>2, <2>3, <2>4 DEF Tick
<1>11. ASSUME NEW h \in handlers, HandleGossipMsg(h)
       PROVE  Kept
  <2>1. ReqDecrypt(h.g) \in ActorRequest
    BY <1>2 DEF ReqDecrypt, ActorRequest
  <2>2. actorBox' \in Seq(ActorRequest)
    BY <1>2, <1>11, <2>1 DEF HandleGossipMsg
  <2>3. handlers' \subseteq Handler
    <3>1. h \in Handler
      BY <1>2
    <3>2. [h EXCEPT !.pc = "asked", !.timer = RequestFutureDuration] \in Handler
      BY <3>1 DEF RequestFutureDuration
    <3> QED
      BY <1>2, <1>11, <3>2 DEF HandleGossipMsg
  <2> QED
    BY <1>2, <1>11, <2>2, <2>3 DEF HandleGossipMsg
<1>12. ASSUME NEW h \in handlers, DecryptExpires(h)
       PROVE  Kept
  BY <1>2, <1>12 DEF DecryptExpires
<1>13. ASSUME NEW g \in toDecrypt, HandleDecrypt(g)
       PROVE  Kept
  BY <1>2, <1>13 DEF HandleDecrypt
<1>14. ASSUME NEW a \in decrypted, DecryptAcked(a) \/ LateDecryptAck(a)
       PROVE  Kept
  BY <1>2, <1>14 DEF DecryptAcked, LateDecryptAck, Answered
<1> QED
  BY <1>4, <1>5, <1>6, <1>7, <1>8, <1>9, <1>10, <1>11, <1>12, <1>13, <1>14 DEF NegotiationNext

\* What is learned is genuine.
LEMMA GenuineStep ==
  ASSUME NegotiationInv, NegotiationNext
  PROVE  DecryptsGenuine' /\ AcksRight' /\ RightNegotiation'
<1>0. UNCHANGED <<circuitTask, joint>> /\ Genuine' = Genuine /\ NegotiationTypeOK
  BY CircuitsStay DEF NegotiationInv
<1> USE DEF exitVars
<1>1. CASE UNCHANGED <<decrypting, decrypted, learned>>
  BY <1>0, <1>1 DEF NegotiationInv, DecryptsGenuine, AcksRight, RightNegotiation, ActorFree,
     NoDecryption
<1>2. CASE DecryptGossip
  <2>1. Head(actorBox).g \in Genuine
    BY <1>0, <1>2, ActorTakesFirst DEF DecryptGossip
  <2>2. decrypting'.g \in Genuine
    BY <1>2, <2>1 DEF DecryptGossip
  <2>3. UNCHANGED <<decrypted, learned>>
    BY <1>2 DEF DecryptGossip
  <2> QED
    BY <1>0, <2>2, <2>3 DEF NegotiationInv, DecryptsGenuine, AcksRight, RightNegotiation
<1>3. CASE DecryptTimeout \/ DecryptFails
  <2>1. ActorFree' /\ UNCHANGED <<decrypted, learned>>
    BY <1>3 DEF DecryptTimeout, DecryptFails, GivesUp, ActorFree, NoDecryption
  <2> QED
    BY <1>0, <2>1 DEF NegotiationInv, DecryptsGenuine, AcksRight, RightNegotiation
<1>4. CASE Tick
  <2>1. decrypting'.g = decrypting.g /\ (ActorFree => ActorFree')
    BY <1>0, <1>4 DEF Tick, NegotiationTypeOK, ActorFree, NoDecryption, Less
  <2>2. UNCHANGED <<decrypted, learned>>
    BY <1>4 DEF Tick
  <2> QED
    BY <1>0, <2>1, <2>2 DEF NegotiationInv, DecryptsGenuine, AcksRight, RightNegotiation
<1>5. ASSUME NEW g \in toDecrypt, HandleDecrypt(g)
      PROVE  DecryptsGenuine' /\ AcksRight' /\ RightNegotiation'
  <2> DEFINE ok == g.cypher.key = g.des
             a == [id |-> TaskId(g), ok |-> ok, sid |-> g.cypher.sid, joint |-> g.cypher.joint]
  <2>1. ok \in BOOLEAN
    OBVIOUS
  <2> HIDE DEF ok
  <2>2. a.sid = a.id.cypher.sid /\ a.joint = a.id.cypher.joint
    BY DEF TaskId
  <2>3. decrypted' = decrypted \cup {a} /\ UNCHANGED <<decrypting, learned>>
    BY <1>5 DEF HandleDecrypt, ok
  <2> HIDE DEF a
  <2> QED
    BY <1>0, <2>2, <2>3 DEF NegotiationInv, DecryptsGenuine, AcksRight, RightNegotiation, ActorFree,
       NoDecryption
<1>6. ASSUME NEW a \in decrypted, DecryptAcked(a)
      PROVE  DecryptsGenuine' /\ AcksRight' /\ RightNegotiation'
  <2>1. ActorFree' /\ decrypted' = decrypted \ {a}
    BY <1>6 DEF DecryptAcked, ActorFree, NoDecryption
  <2> DEFINE g == decrypting.g
             n == [g |-> g, sid |-> a.sid, joint |-> a.joint]
  <2>2. learned' = learned \cup {n} \/ learned' = learned
    BY <1>6 DEF DecryptAcked
  <2>3. g \in Genuine /\ a.id = TaskId(g)
    BY <1>6 DEF DecryptAcked, IsExpected, NegotiationInv, DecryptsGenuine
  <2>4. /\ n.sid = n.g.cypher.sid
        /\ n.joint = joint[n.sid] /\ circuitTask[n.sid] = n.g.des
    BY <2>3 DEF NegotiationInv, AcksRight, TaskId, Genuine
  <2> HIDE DEF n
  <2> QED
    BY <1>0, <2>1, <2>2, <2>4 DEF NegotiationInv, DecryptsGenuine, AcksRight, RightNegotiation
<1> QED
  BY <1>1, <1>2, <1>3, <1>4, <1>5, <1>6
  DEF NegotiationNext, EncryptGossip, EncryptTimeout, GossipJoint, Encrypts, NextGossip, GetClient,
      GetClientExpires, HandleGossipMsg, DecryptExpires, LateDecryptAck

\* The loop asks behind as many decryptions as there are requests.
LEMMA AheadIsAll ==
  ASSUME NegotiationTypeOK, \A i \in 1..Len(actorBox) : actorBox[i].op = "Decrypt"
  PROVE  Ahead = Len(actorBox) + (IF ActorFree THEN 0 ELSE 1) /\ Len(actorBox) \in Nat
<1>1. Len(actorBox) \in Nat
  BY DEF NegotiationTypeOK
<1>2. {i \in 1..Len(actorBox) : actorBox[i].op = "Decrypt"} = 1..Len(actorBox)
  OBVIOUS
<1>3. ASSUME NEW n \in Nat
      PROVE  Cardinality(1..n) = n
  <2>1. 1 \in Int /\ n \in Int
    OBVIOUS
  <2>2. Cardinality(1..n) = IF 1 > n THEN 0 ELSE n - 1 + 1
    BY <2>1, FS_Interval, Zenon
  <2> QED
    BY <2>2
<1> QED
  BY <1>1, <1>2, <1>3 DEF Ahead

LEMMA LoopStep ==
  ASSUME NegotiationInv, NegotiationNext
  PROVE  LoopInTime'
<1>0. /\ NegotiationTypeOK /\ actorBox \in Seq(ActorRequest) /\ Len(actorBox) \in Nat
      /\ noiseLoop.timer \in Nat /\ noiseLoop.behind \in Nat /\ decrypting.timer \in 0..1
      /\ ActorFree => decrypting.timer = 0
  BY DEF NegotiationInv, NegotiationTypeOK, ActorFree, NoDecryption
<1> USE DEF exitVars
<1>1. CASE /\ UNCHANGED <<noiseLoop, actorBox>>
           /\ decrypting' = NoDecryption \/ UNCHANGED decrypting
  <2>1. decrypting'.timer <= decrypting.timer /\ decrypting'.timer \in Nat
    BY <1>0, <1>1 DEF NoDecryption
  <2>2. \A p : LoopAt(p)' <=> LoopAt(p)
    BY <1>1 DEF LoopAt
  <2> QED
    BY <1>0, <1>1, <2>1, <2>2 DEF NegotiationInv, LoopInTime
<1>2. ASSUME NEW g \in gossips, NextGossip(g)
      PROVE  LoopInTime'
  <2> DEFINE m == Len(actorBox)
  <2>1. \A i \in 1..m : actorBox[i].op = "Decrypt"
    BY <1>2 DEF NextGossip, NegotiationInv, LoopInTime
  <2>2. /\ noiseLoop'.pc = "asked" /\ noiseLoop'.timer = 2
        /\ noiseLoop'.behind = m + (IF ActorFree THEN 0 ELSE 1)
        /\ actorBox' = Append(actorBox, ReqGetClient(g)) /\ UNCHANGED decrypting
    BY <1>0, <1>2, <2>1, AheadIsAll DEF NextGossip, RequestFutureDuration
  <2>3. /\ Len(actorBox') = m + 1 /\ actorBox'[m + 1].op = "GetClient"
        /\ \A i \in 1..m : actorBox'[i] = actorBox[i]
    <3>1. ReqGetClient(g).op = "GetClient"
      BY DEF ReqGetClient
    <3> HIDE DEF m
    <3> QED
      BY <1>0, <2>2, <3>1 DEF m
  <2>4. ASSUME NEW q, q = m + 1
        PROVE  q \in 1..Len(actorBox') /\ LoopAt(q)'
    <3>1. q \in 1..Len(actorBox') /\ 1..Len(actorBox') = 1..m \cup {q}
      BY <1>0, <2>3, <2>4
    <3>2. \A i \in 1..m : actorBox'[i].op # "GetClient" /\ i # q
      BY <1>0, <2>1, <2>3, <2>4
    <3> QED
      BY <2>3, <2>4, <3>1, <3>2 DEF LoopAt
  <2>5. noiseLoop'.behind <= 1 => noiseLoop'.timer >= (m + 1) + decrypting'.timer
    BY <1>0, <2>2
  <2> QED
    BY <2>2, <2>4, <2>5 DEF LoopInTime
<1>3. CASE GetClient
  <2>1. noiseLoop'.pc = "next"
    BY <1>3 DEF GetClient, AtNext
  <2>2. /\ actorBox[1].op = "GetClient" /\ Len(actorBox') = Len(actorBox) - 1
        /\ \A i \in 1..Len(actorBox') : actorBox'[i] = actorBox[i + 1]
        /\ Len(actorBox) \in Nat \ {0}
    BY <1>0, <1>3, ActorTakesFirst DEF GetClient
  <2>3. PICK p \in 1..Len(actorBox) : LoopAt(p)
    BY <1>0, <2>2 DEF NegotiationInv, LoopInTime, NegotiationTypeOK
  <2>4. p = 1
    BY <2>2, <2>3 DEF LoopAt
  <2>5. \A i \in 1..Len(actorBox') : actorBox'[i].op = "Decrypt"
    <3> SUFFICES ASSUME NEW i \in 1..Len(actorBox')
                 PROVE  actorBox'[i].op = "Decrypt"
      OBVIOUS
    <3>1. i + 1 \in 1..Len(actorBox) /\ i + 1 # 1 /\ actorBox'[i] = actorBox[i + 1]
      BY <2>2
    <3>2. actorBox[i + 1].op # "GetClient"
      BY <2>3, <2>4, <3>1 DEF LoopAt
    <3>3. actorBox[i + 1] \in ActorRequest
      BY <1>0, <3>1
    <3> QED
      BY <3>1, <3>2, <3>3 DEF ActorRequest
  <2> QED
    BY <2>1, <2>5 DEF LoopInTime
<1>4. CASE DecryptGossip
  <2>1. /\ actorBox[1].op = "Decrypt" /\ Len(actorBox') = Len(actorBox) - 1
        /\ \A i \in 1..Len(actorBox') : actorBox'[i] = actorBox[i + 1]
        /\ Len(actorBox) \in Nat \ {0}
    BY <1>0, <1>4, ActorTakesFirst DEF DecryptGossip
  <2>2. decrypting.timer = 0 /\ decrypting'.timer = 1 /\ UNCHANGED noiseLoop
    BY <1>0, <1>4 DEF DecryptGossip, DecryptReqTimeout, ActorTakes
  <2>3. CASE noiseLoop.pc = "next"
    BY <2>1, <2>2, <2>3 DEF NegotiationInv, LoopInTime
  <2>4. CASE noiseLoop.pc = "asked"
    <3>1. PICK p \in 1..Len(actorBox) :
            /\ LoopAt(p)
            /\ noiseLoop.behind <= 1 => noiseLoop.timer >= p + decrypting.timer
      BY <2>4 DEF NegotiationInv, LoopInTime
    <3>2. p # 1 /\ p - 1 \in 1..Len(actorBox')
      BY <2>1, <3>1 DEF LoopAt
    <3>3. \A i \in 1..Len(actorBox') : actorBox'[i].op = "GetClient" <=> i = p - 1
      <4> SUFFICES ASSUME NEW i \in 1..Len(actorBox')
                   PROVE  actorBox'[i].op = "GetClient" <=> i = p - 1
        OBVIOUS
      <4>1. i + 1 \in 1..Len(actorBox) /\ actorBox'[i] = actorBox[i + 1]
        BY <2>1
      <4>2. actorBox[i + 1].op = "GetClient" <=> i + 1 = p
        BY <3>1, <4>1 DEF LoopAt
      <4> QED
        BY <3>1, <4>1, <4>2
    <3>4. LoopAt(p - 1)'
      BY <3>2, <3>3 DEF LoopAt
    <3>5. noiseLoop'.behind <= 1 => noiseLoop'.timer >= (p - 1) + decrypting'.timer
      BY <1>0, <2>2, <3>1
    <3> QED
      BY <2>2, <2>4, <3>2, <3>4, <3>5 DEF LoopInTime
  <2> QED
    BY <1>0, <2>3, <2>4 DEF NegotiationTypeOK
<1>5. CASE Tick
  <2>1. ~ Busy /\ UNCHANGED actorBox
    BY <1>5 DEF Tick
  <2>2. /\ noiseLoop'.pc = noiseLoop.pc /\ noiseLoop'.behind = noiseLoop.behind
        /\ noiseLoop'.timer = Less(noiseLoop.timer) /\ decrypting'.timer = Less(decrypting.timer)
    BY <1>0, <1>5 DEF Tick, NegotiationTypeOK
  <2>3. CASE noiseLoop.pc = "next"
    BY <2>1, <2>2, <2>3 DEF NegotiationInv, LoopInTime
  <2>4. CASE noiseLoop.pc = "asked"
    <3>1. PICK p \in 1..Len(actorBox) :
            /\ LoopAt(p)
            /\ noiseLoop.behind <= 1 => noiseLoop.timer >= p + decrypting.timer
      BY <2>4 DEF NegotiationInv, LoopInTime
    <3>2. decrypting.timer = 1
      <4>1. actorBox # <<>>
        BY <1>0, <3>1
      <4>2. ~ ActorFree /\ decrypting.timer # 0
        BY <2>1, <4>1 DEF Busy
      <4> QED
        BY <1>0, <4>2
    <3>3. noiseLoop'.behind <= 1 => noiseLoop'.timer >= p + decrypting'.timer
      BY <1>0, <2>2, <3>1, <3>2 DEF Less
    <3>4. LoopAt(p)'
      BY <2>1, <3>1 DEF LoopAt
    <3> QED
      BY <2>1, <2>2, <2>4, <3>1, <3>3, <3>4 DEF LoopInTime
  <2> QED
    BY <1>0, <2>3, <2>4 DEF NegotiationTypeOK
<1>6. ASSUME NEW h \in handlers, HandleGossipMsg(h)
      PROVE  LoopInTime'
  <2> DEFINE m == Len(actorBox)
  <2>1. actorBox' = Append(actorBox, ReqDecrypt(h.g)) /\ UNCHANGED <<noiseLoop, decrypting>>
    BY <1>6 DEF HandleGossipMsg
  <2>2. /\ Len(actorBox') = m + 1 /\ actorBox'[m + 1].op = "Decrypt"
        /\ \A i \in 1..m : actorBox'[i] = actorBox[i]
    <3>1. ReqDecrypt(h.g).op = "Decrypt"
      BY DEF ReqDecrypt
    <3> QED
      BY <1>0, <2>1, <3>1
  <2>3. \A p \in 1..m : LoopAt(p) => p \in 1..Len(actorBox') /\ LoopAt(p)'
    BY <1>0, <2>2 DEF LoopAt
  <2>4. CASE noiseLoop.pc = "next"
    BY <1>0, <2>1, <2>2, <2>4 DEF NegotiationInv, LoopInTime
  <2>5. CASE noiseLoop.pc = "asked"
    BY <1>0, <2>1, <2>3, <2>5 DEF NegotiationInv, LoopInTime
  <2> QED
    BY <1>0, <2>4, <2>5 DEF NegotiationTypeOK
<1> QED
  BY <1>1, <1>2, <1>3, <1>4, <1>5, <1>6
  DEF NegotiationNext, EncryptGossip, EncryptTimeout, GossipJoint, Encrypts, GetClientExpires,
      DecryptTimeout, DecryptFails, GivesUp, DecryptExpires, HandleDecrypt, DecryptAcked,
      LateDecryptAck

LEMMA NegotiationStep ==
  ASSUME NegotiationInv, [NegotiationNext]_negotiationVars
  PROVE  NegotiationInv'
<1>1. CASE NegotiationNext
  <2>1. OneSilentClientSurvived'
    <3>1. CASE GetClientExpires
      <4>1. noiseLoop.timer = 0 /\ noiseLoop.pc = "asked" /\ UNCHANGED noiseLoop
        BY <3>1 DEF GetClientExpires, exitVars
      <4>2. PICK p \in 1..Len(actorBox) :
              noiseLoop.behind <= 1 => noiseLoop.timer >= p + decrypting.timer
        BY <4>1 DEF NegotiationInv, LoopInTime
      <4>3. noiseLoop.behind \in Nat /\ decrypting.timer \in Nat
        BY DEF NegotiationInv, NegotiationTypeOK
      <4> QED
        BY <4>1, <4>2, <4>3 DEF OneSilentClientSurvived
    <3>2. CASE proxyEnds' \in {"no", "late"}
      BY <3>2 DEF OneSilentClientSurvived
    <3>3. proxyEnds = "no"
      BY <1>1 DEF NegotiationNext
    <3> QED
      BY <1>1, <3>1, <3>2, <3>3
      DEF NegotiationNext, EncryptGossip, EncryptTimeout, GossipJoint, Encrypts, NextGossip,
          GetClient, DecryptGossip, DecryptTimeout, DecryptFails, GivesUp, Tick, HandleGossipMsg,
          DecryptExpires, HandleDecrypt, DecryptAcked, LateDecryptAck
  <2> QED
    BY <1>1, <2>1, NegotiationTypeStep, GenuineStep, LoopStep DEF NegotiationInv
<1>2. CASE UNCHANGED negotiationVars
  <2>1. /\ UNCHANGED <<circuitTask, joint, gossips, toDecrypt, noiseLoop, handlers, actorBox>>
        /\ UNCHANGED <<decrypting, decrypted, learned, proxyEnds>>
    BY <1>2 DEF negotiationVars, callerVars, exitVars
  <2>2. Genuine' = Genuine /\ ActorRequest' = ActorRequest
    BY <2>1 DEF Genuine, ActorRequest
  <2>3. NegotiationTypeOK' /\ DecryptsGenuine' /\ AcksRight'
    BY <2>1, <2>2 DEF NegotiationInv, NegotiationTypeOK, DecryptsGenuine, AcksRight, ActorFree,
       NoDecryption
  <2>4. LoopInTime' /\ RightNegotiation' /\ OneSilentClientSurvived'
    BY <2>1 DEF NegotiationInv, LoopInTime, LoopAt, RightNegotiation, OneSilentClientSurvived
  <2> QED
    BY <2>3, <2>4 DEF NegotiationInv
<1> QED
  BY <1>1, <1>2

\* For any number of circuits, clients and late answers: what the proxy learns of a
\* circuit is what its entry node sent (TaskId in DecryptGossip, HandleEncrypt).
THEOREM NegotiatedRight == NegotiationSpec => []RightNegotiation
<1>1. NegotiationInv => RightNegotiation
  BY DEF NegotiationInv
<1> QED
  BY <1>1, NegotiationInitInv, NegotiationStep, PTL DEF NegotiationSpec

\* For any number of negotiations: a single client that does not answer does not
\* make the future of the gossip loop expire (RequestFutureDuration is two units,
\* DecryptReqTimeout one, and the actor serves its box in order).
THEOREM ProxySurvivesOne == NegotiationSpec => []OneSilentClientSurvived
<1>1. NegotiationInv => OneSilentClientSurvived
  BY DEF NegotiationInv
<1> QED
  BY <1>1, NegotiationInitInv, NegotiationStep, PTL DEF NegotiationSpec
-----------------------------------------------------------------------------
(* Discovery *)

Call == [pc : {"idle", "sent", "waiting", "closing", "deleting", "returned"}, chan : Nat,
         max : Ids, ok : BOOLEAN, peers : SUBSET Table]

PeerList == SUBSET [id : Table, addrs : BOOLEAN]

DiscoveryTypeOK ==
  /\ lookup \in [Lookup -> Call] /\ lookups \in Nat
  /\ taskMap \in [Ids -> Nat] /\ closedChans \subseteq 1..lookups
  /\ queries \subseteq [id : MaxWanted, max : MaxWanted, chan : Nat]
  /\ replies \subseteq [id : MaxWanted, chan : Nat, ok : BOOLEAN, peers : PeerList]
  /\ deliveries \subseteq [chan : 1..lookups, by : Nat, ok : BOOLEAN, peers : PeerList]
  /\ clientUp \in BOOLEAN /\ hazarded \in BOOLEAN

\* Every call that is under way has a channel of its own.
ChansApart ==
  \A k \in Lookup :
    /\ Underway(k) => Chan(k) \in 1..lookups
    /\ \A j \in Lookup : Underway(k) /\ Underway(j) /\ Chan(k) = Chan(j) => j = k

Fits(peers, max) == Cardinality(Addressed(peers)) <= max

\* An answer fits every call that has its request id, and on its way to a channel
\* the call that waits on it.
AnswersFit ==
  /\ \A q \in queries : q.id = q.max
  /\ \A a \in replies : Fits(a.peers, a.id)
  /\ \A d \in deliveries, k \in Lookup :
       Underway(k) /\ Chan(k) = d.chan => Fits(d.peers, lookup[k].max)

Lone(S) == \A x, y \in S : x = y

\* One request, acknowledgement or delivery at a time.
OneAnswer ==
  \/ replies = {} /\ deliveries = {} /\ Lone(queries)
  \/ queries = {} /\ deliveries = {} /\ Lone(replies)
  \/ queries = {} /\ replies = {} /\ Lone(deliveries)

\* As long as nothing has gone out of order, there is one call, one answer for it at
\* most, and its entry and its channel are there from AddTask to DeletTask.
OrderlyCalls ==
  /\ \A j, k \in Lookup : Underway(j) /\ Underway(k) => j = k
  /\ OneAnswer
  /\ \A m \in queries \cup replies :
       \E k \in Lookup : (Is(k, "sent") \/ Is(k, "waiting")) /\ m.id = lookup[k].max
  /\ \A d \in deliveries : \E k \in Lookup : Is(k, "waiting") /\ d.chan = Chan(k)
  /\ \A k \in Lookup :
       /\ Is(k, "waiting") \/ Is(k, "closing") => taskMap[lookup[k].max] = Chan(k)
       /\ Is(k, "sent") \/ Is(k, "waiting") \/ Is(k, "closing") => Chan(k) \notin closedChans

DiscoveryInv ==
  /\ DiscoveryTypeOK /\ ChansApart /\ TasksBelong
  /\ AnswersFit /\ WithinMax
  /\ hazarded \/ OrderlyCalls
  /\ OrderlyLookupsSurvive

LEMMA DiscoveryInitInv == DiscoveryInit => DiscoveryInv
<1> SUFFICES ASSUME DiscoveryInit
             PROVE  DiscoveryInv
  OBVIOUS
<1>1. Resting \in Call /\ Resting.peers = {} /\ Resting.pc = "idle" /\ Resting.max = 0
  BY DEF Resting, Call, Ids, NoTask
<1>2. \A k \in Lookup : lookup[k] = Resting
  BY DEF DiscoveryInit
<1>3. DiscoveryTypeOK
  <2>1. lookup \in [Lookup -> Call] /\ taskMap \in [Ids -> Nat]
    BY <1>1 DEF DiscoveryInit, NoTask
  <2> QED
    BY <2>1 DEF DiscoveryInit, DiscoveryTypeOK
<1>4. WithinMax
  BY <1>1, <1>2, FS_EmptySet DEF WithinMax
<1>5. ChansApart /\ TasksBelong /\ AnswersFit
  BY <1>1, <1>2 DEF DiscoveryInit, ChansApart, TasksBelong, AnswersFit, Underway, NoTask
<1>6. OrderlyCalls
  BY <1>1, <1>2 DEF DiscoveryInit, OrderlyCalls, OneAnswer, Lone, Underway, Is
<1>7. OrderlyLookupsSurvive
  BY DEF DiscoveryInit, OrderlyLookupsSurvive
<1> QED
  BY <1>3, <1>4, <1>5, <1>6, <1>7 DEF DiscoveryInv

\* A call that goes on keeps its channel, its request and what it returns.
LEMMA CallGoesOn ==
  ASSUME DiscoveryTypeOK, NEW k \in Lookup,
         NEW pc \in {"waiting", "closing", "deleting", "returned"},
         lookup' = [lookup EXCEPT ![k].pc = pc]
  PROVE  /\ lookup' \in [Lookup -> Call] /\ lookup'[k].pc = pc
         /\ \A j \in Lookup \ {k} : lookup'[j] = lookup[j]
         /\ \A j \in Lookup : /\ lookup'[j].chan = lookup[j].chan /\ lookup'[j].max = lookup[j].max
                              /\ lookup'[j].peers = lookup[j].peers
<1>1. lookup \in [Lookup -> Call] /\ lookup[k] \in Call
  BY DEF DiscoveryTypeOK
<1> DEFINE r == [lookup[k] EXCEPT !.pc = pc]
<1>2. /\ r \in Call /\ r.pc = pc
      /\ r.chan = lookup[k].chan /\ r.max = lookup[k].max /\ r.peers = lookup[k].peers
  BY <1>1 DEF Call
<1>3. lookup' = [lookup EXCEPT ![k] = r]
  OBVIOUS
<1> HIDE DEF r
<1> QED
  BY <1>1, <1>2, <1>3

\* A call that is replaced leaves the others alone.
LEMMA CallReplaced ==
  ASSUME DiscoveryTypeOK, NEW k \in Lookup, NEW r \in Call, lookup' = [lookup EXCEPT ![k] = r]
  PROVE  /\ lookup' \in [Lookup -> Call] /\ lookup'[k] = r
         /\ \A j \in Lookup \ {k} : lookup'[j] = lookup[j]
BY DEF DiscoveryTypeOK
\* A new call: its channel is new, and its request id is the number of peers.
LEMMA CallSent ==
  ASSUME DiscoveryTypeOK, NEW k \in Lookup, NEW max \in MaxWanted, WriteRequest(k, max)
  PROVE  /\ lookup' \in [Lookup -> Call]
         /\ \A j \in Lookup \ {k} : lookup'[j] = lookup[j]
         /\ lookup'[k].pc = "sent" /\ lookup'[k].chan = lookups + 1
         /\ lookup'[k].max = max /\ lookup'[k].peers = {}
         /\ \E q \in [id : {max}, max : {max}, chan : Nat] : queries' = queries \cup {q}
<1> DEFINE n == lookups + 1
           r == [Resting EXCEPT !.pc = "sent", !.max = max, !.chan = n]
<1>1. n \in Nat
  BY DEF DiscoveryTypeOK
<1>2. lookup' = [lookup EXCEPT ![k] = r]
  BY DEF WriteRequest
<1> HIDE DEF n
<1>3. r \in Call /\ r.pc = "sent" /\ r.chan = n /\ r.max = max /\ r.peers = {}
  BY <1>1 DEF Resting, Call, Ids
<1> HIDE DEF r
<1>4. /\ lookup' \in [Lookup -> Call] /\ lookup'[k] = r
      /\ \A j \in Lookup \ {k} : lookup'[j] = lookup[j]
  BY <1>2, <1>3, CallReplaced
<1>5. ReqId(k)' = max /\ Chan(k)' = n
  BY <1>3, <1>4 DEF ReqId, Chan
<1>6. \E q \in [id : {max}, max : {max}, chan : Nat] : queries' = queries \cup {q}
  <2> DEFINE q == [id |-> max, max |-> max, chan |-> n]
  <2>1. queries' = queries \cup {q}
    BY <1>5 DEF WriteRequest
  <2>2. q \in [id : {max}, max : {max}, chan : Nat]
    BY <1>1
  <2> HIDE DEF q
  <2> QED
    BY <2>1, <2>2
<1> QED
  BY <1>3, <1>4, <1>6 DEF n

LEMMA RestingCall ==
  Resting \in Call /\ Resting.pc = "idle" /\ Resting.peers = {} /\ Resting.max = 0
BY DEF Resting, Call, Ids, NoTask

\* DeletTask lets the call return its peers, or end.
LEMMA CallDeletes ==
  ASSUME DiscoveryTypeOK, NEW k \in Lookup, DeleteTask(k)
  PROVE  \/ lookup' = [lookup EXCEPT ![k].pc = "returned"]
         \/ lookup' = [lookup EXCEPT ![k] = Resting]
BY DEF DeleteTask

\* What SendResult gives to the call.
LEMMA ResultTaken ==
  ASSUME DiscoveryTypeOK, NEW k \in Lookup, NEW d \in deliveries, SendResult(k, d)
  PROVE  /\ lookup' \in [Lookup -> Call] /\ lookup'[k].pc = "closing"
         /\ \A j \in Lookup \ {k} : lookup'[j] = lookup[j]
         /\ \A j \in Lookup : lookup'[j].chan = lookup[j].chan /\ lookup'[j].max = lookup[j].max
         /\ lookup'[k].peers = Addressed(d.peers)
<1>1. lookup \in [Lookup -> Call] /\ lookup[k] \in Call
  BY DEF DiscoveryTypeOK
<1>2. d.peers \in PeerList /\ d.ok \in BOOLEAN
  BY DEF DiscoveryTypeOK
<1>3. Addressed(d.peers) \in SUBSET Table
  BY <1>2 DEF Addressed, PeerList
<1> DEFINE r == [lookup[k] EXCEPT !.pc = "closing", !.ok = d.ok, !.peers = Addressed(d.peers)]
<1>4. lookup' = [lookup EXCEPT ![k] = r]
  BY DEF SendResult
<1>5. /\ r \in Call /\ r.pc = "closing" /\ r.chan = lookup[k].chan /\ r.max = lookup[k].max
      /\ r.peers = Addressed(d.peers)
  BY <1>1, <1>2, <1>3 DEF Call
<1> HIDE DEF r
<1> QED
  BY <1>1, <1>4, <1>5

LEMMA DiscoveryTypeStep ==
  ASSUME DiscoveryInv, DiscoveryNext
  PROVE  DiscoveryTypeOK'
<1>0. /\ lookup \in [Lookup -> Call] /\ lookups \in Nat
      /\ taskMap \in [Ids -> Nat] /\ closedChans \subseteq 1..lookups
      /\ queries \subseteq [id : MaxWanted, max : MaxWanted, chan : Nat]
      /\ replies \subseteq [id : MaxWanted, chan : Nat, ok : BOOLEAN, peers : PeerList]
      /\ deliveries \subseteq [chan : 1..lookups, by : Nat, ok : BOOLEAN, peers : PeerList]
      /\ DiscoveryTypeOK
  BY DEF DiscoveryInv, DiscoveryTypeOK
<1>1. clientUp' \in BOOLEAN /\ hazarded' \in BOOLEAN
  BY Zenon
  DEF DiscoveryInv, DiscoveryTypeOK, DiscoveryNext, WriteRequest, AddTask, LookupTimeout,
      ReceiveClosed, CloseChannel, DeleteTask, NoPeersExist, UsePeers, SendResult,
      HandleMainNetPeers, DHTPeersExpire, LoadTask, SendOnClosed, ClientPanics
<1> DEFINE Q == [id : MaxWanted, max : MaxWanted, chan : Nat]
           R == [id : MaxWanted, chan : Nat, ok : BOOLEAN, peers : PeerList]
           D(n) == [chan : 1..n, by : Nat, ok : BOOLEAN, peers : PeerList]
           Kept == /\ lookup' \in [Lookup -> Call] /\ lookups' \in Nat
                   /\ taskMap' \in [Ids -> Nat] /\ closedChans' \subseteq 1..lookups'
                   /\ queries' \subseteq Q /\ replies' \subseteq R
                   /\ deliveries' \subseteq D(lookups')
<1>2. SUFFICES Kept
  BY <1>1 DEF DiscoveryTypeOK
<1>tasks. \A i \in Ids : taskMap[i] # NoTask => taskMap[i] \in 1..lookups
  BY DEF DiscoveryInv, TasksBelong, ChansApart, Underway
<1>3. ASSUME NEW k \in Lookup, NEW max \in MaxWanted, WriteRequest(k, max)
      PROVE  Kept
  <2>1. lookup' \in [Lookup -> Call]
    BY <1>0, <1>3, CallSent
  <2>2. queries' \subseteq Q
    <3>1. PICK q \in [id : {max}, max : {max}, chan : Nat] : queries' = queries \cup {q}
      BY <1>0, <1>3, CallSent
    <3>2. q \in Q
      OBVIOUS
    <3> QED
      BY <1>0, <3>1, <3>2
  <2>3. 1..lookups \subseteq 1..lookups' /\ lookups' \in Nat
    BY <1>0, <1>3 DEF WriteRequest
  <2>4. D(lookups) \subseteq D(lookups')
    BY <2>3
  <2> QED
    BY <1>0, <1>3, <2>1, <2>2, <2>3, <2>4 DEF WriteRequest, taskVars
<1>4. ASSUME NEW k \in Lookup, AddTask(k)
      PROVE  Kept
  <2>1. lookup' \in [Lookup -> Call]
    BY <1>0, <1>4, CallGoesOn DEF AddTask
  <2>2. taskMap' \in [Ids -> Nat]
    BY <1>0, <1>4 DEF AddTask, Chan, Call
  <2> QED
    BY <1>0, <1>4, <2>1, <2>2 DEF AddTask, serverVars
<1>5. ASSUME NEW k \in Lookup, LookupTimeout(k) \/ ReceiveClosed(k)
      PROVE  Kept
  <2>1. lookup' \in [Lookup -> Call]
    BY <1>0, <1>5, CallGoesOn DEF LookupTimeout, ReceiveClosed
  <2> QED
    BY <1>0, <1>5, <2>1 DEF LookupTimeout, ReceiveClosed, taskVars, serverVars
<1>6. ASSUME NEW k \in Lookup, CloseChannel(k)
      PROVE  Kept
  <2>1. lookup' \in [Lookup -> Call]
    BY <1>0, <1>6, CallGoesOn DEF CloseChannel
  <2>2. closedChans' \subseteq 1..lookups
    <3>1. ReqId(k) \in Ids
      BY <1>0 DEF ReqId, Call
    <3> QED
      BY <1>0, <1>6, <1>tasks, <3>1 DEF CloseChannel
  <2> QED
    BY <1>0, <1>6, <2>1, <2>2 DEF CloseChannel, serverVars
<1>7. ASSUME NEW k \in Lookup, DeleteTask(k)
      PROVE  Kept
  <2>1. lookup' \in [Lookup -> Call]
    BY <1>0, <1>7, CallDeletes, RestingCall, CallGoesOn, CallReplaced
  <2>2. taskMap' \in [Ids -> Nat]
    BY <1>0, <1>7 DEF DeleteTask, DeleteEntry, NoTask
  <2> QED
    BY <1>0, <1>7, <2>1, <2>2 DEF DeleteTask, serverVars
<1>8. ASSUME NEW k \in Lookup, NoPeersExist(k) \/ UsePeers(k)
      PROVE  Kept
  <2>1. lookup' \in [Lookup -> Call]
    BY <1>0, <1>8, RestingCall, CallReplaced DEF NoPeersExist, UsePeers
  <2> QED
    BY <1>0, <1>8, <2>1 DEF NoPeersExist, UsePeers, taskVars, serverVars
<1>9. ASSUME NEW k \in Lookup, NEW d \in deliveries, SendResult(k, d)
      PROVE  Kept
  BY <1>0, <1>9, ResultTaken DEF SendResult, serverVars
<1>10. ASSUME NEW q \in queries, HandleMainNetPeers(q)
       PROVE  Kept
  <2>1. PICK s \in SUBSET Table :
          Acknowledge(q, TRUE, {[id |-> x, addrs |-> x \in known] : x \in s})
    BY <1>10 DEF HandleMainNetPeers, GetDHTPeers
  <2> DEFINE peers == {[id |-> x, addrs |-> x \in known] : x \in s}
             a == [id |-> q.id, chan |-> q.chan, ok |-> TRUE, peers |-> peers]
  <2>2. peers \in PeerList
    <3>1. ASSUME NEW x \in s
          PROVE  [id |-> x, addrs |-> x \in known] \in [id : Table, addrs : BOOLEAN]
      <4> DEFINE b == x \in known
      <4>1. b \in BOOLEAN
        OBVIOUS
      <4> HIDE DEF b
      <4>2. [id |-> x, addrs |-> b] \in [id : Table, addrs : BOOLEAN]
        BY <4>1
      <4> QED
        BY <4>2 DEF b
    <3> QED
      BY <3>1, Zenon DEF PeerList
  <2> HIDE DEF peers
  <2>3. a \in R
    BY <1>0, <2>2
  <2>4. replies' = replies \cup {a}
    BY <2>1 DEF Acknowledge, peers
  <2> HIDE DEF a
  <2> QED
    BY <1>0, <1>10, <2>3, <2>4 DEF HandleMainNetPeers, taskVars
<1>11. ASSUME NEW q \in queries, DHTPeersExpire(q)
       PROVE  Kept
  <2> DEFINE a == [id |-> q.id, chan |-> q.chan, ok |-> FALSE, peers |-> {}]
  <2>1. a \in R
    BY <1>0 DEF PeerList
  <2>2. replies' = replies \cup {a}
    BY <1>11 DEF DHTPeersExpire, RefusePeers, Acknowledge
  <2> HIDE DEF a
  <2> QED
    BY <1>0, <1>11, <2>1, <2>2 DEF DHTPeersExpire, taskVars
<1>12. ASSUME NEW a \in replies, LoadTask(a)
       PROVE  Kept
  <2>1. a.id \in Ids /\ a \in R
    BY <1>0 DEF Ids
  <2>2. deliveries' \subseteq D(lookups)
    <3>1. CASE taskMap[a.id] = NoTask
      BY <1>0, <1>12, <3>1 DEF LoadTask
    <3>2. CASE taskMap[a.id] # NoTask
      <4> DEFINE d == [chan |-> taskMap[a.id], by |-> a.chan, ok |-> a.ok, peers |-> a.peers]
      <4>1. d \in D(lookups)
        BY <1>tasks, <2>1, <3>2
      <4>2. deliveries' = deliveries \cup {d}
        BY <1>12, <3>2 DEF LoadTask
      <4> HIDE DEF d
      <4> QED
        BY <1>0, <4>1, <4>2
    <3> QED
      BY <3>1, <3>2
  <2> QED
    BY <1>0, <1>12, <2>2 DEF LoadTask, serverVars
<1>13. ASSUME NEW d \in deliveries, SendOnClosed(d)
       PROVE  Kept
  BY <1>0, <1>13 DEF SendOnClosed, taskVars, serverVars
<1> QED
  BY <1>3, <1>4, <1>5, <1>6, <1>7, <1>8, <1>9, <1>10, <1>11, <1>12, <1>13 DEF DiscoveryNext
\* No call but a new one changes its channel or its request.
LEMMA CallsContinue ==
  ASSUME DiscoveryTypeOK, DiscoveryNext
  PROVE  \/ \E k \in Lookup, max \in MaxWanted : WriteRequest(k, max)
         \/ /\ UNCHANGED lookups
            /\ \A j \in Lookup : Underway(j)' => /\ Underway(j) /\ Chan(j)' = Chan(j)
                                                 /\ lookup'[j].max = lookup[j].max
<1> DEFINE Continues ==
      /\ UNCHANGED lookups
      /\ \A j \in Lookup : Underway(j)' => /\ Underway(j) /\ Chan(j)' = Chan(j)
                                           /\ lookup'[j].max = lookup[j].max
<1>1. ASSUME UNCHANGED <<lookup, lookups>>
      PROVE  Continues
  BY <1>1 DEF Underway, Chan
<1>2. ASSUME NEW k \in Lookup, NEW pc \in {"waiting", "closing", "deleting", "returned"},
             lookup' = [lookup EXCEPT ![k].pc = pc], UNCHANGED lookups, Underway(k)
      PROVE  Continues
  BY <1>2, CallGoesOn DEF Underway, Chan
<1>3. ASSUME NEW k \in Lookup, lookup' = [lookup EXCEPT ![k] = Resting], UNCHANGED lookups
      PROVE  Continues
  BY <1>3, CallReplaced, RestingCall DEF Underway, Chan
<1>4. ASSUME NEW k \in Lookup, NEW d \in deliveries, SendResult(k, d)
      PROVE  Continues
  <2>1. Underway(k) /\ UNCHANGED lookups
    BY <1>4 DEF SendResult, Is, Underway
  <2> QED
    BY <1>4, <2>1, ResultTaken DEF Underway, Chan
<1>5. ASSUME NEW k \in Lookup,
             \/ AddTask(k) \/ LookupTimeout(k) \/ ReceiveClosed(k) \/ CloseChannel(k)
             \/ NoPeersExist(k) \/ UsePeers(k)
      PROVE  Continues
  <2>1. CASE AddTask(k)
    BY <1>2, <2>1 DEF AddTask, Is, Underway
  <2>2. CASE LookupTimeout(k) \/ ReceiveClosed(k)
    BY <1>2, <2>2 DEF LookupTimeout, ReceiveClosed, Is, Underway
  <2>3. CASE CloseChannel(k)
    BY <1>1, <1>2, <2>3 DEF CloseChannel, Is, Underway
  <2>4. CASE NoPeersExist(k)
    BY <1>1, <2>4 DEF NoPeersExist
  <2>5. CASE UsePeers(k)
    BY <1>3, <2>5 DEF UsePeers
  <2> QED
    BY <1>5, <2>1, <2>2, <2>3, <2>4, <2>5
<1>6. ASSUME NEW k \in Lookup, DeleteTask(k)
      PROVE  Continues
  <2>1. Underway(k) /\ UNCHANGED lookups
    BY <1>6 DEF DeleteTask, Is, Underway
  <2> QED
    BY <1>2, <1>3, <1>6, <2>1, CallDeletes
<1>7. ASSUME NEW q \in queries, HandleMainNetPeers(q) \/ DHTPeersExpire(q)
      PROVE  Continues
  BY <1>1, <1>7 DEF HandleMainNetPeers, DHTPeersExpire
<1>8. ASSUME NEW a \in replies, LoadTask(a)
      PROVE  Continues
  BY <1>1, <1>8 DEF LoadTask
<1>9. ASSUME NEW d \in deliveries, SendOnClosed(d)
      PROVE  Continues
  BY <1>1, <1>9 DEF SendOnClosed
<1> HIDE DEF Continues
<1>10. Continues \/ \E k \in Lookup, max \in MaxWanted : WriteRequest(k, max)
  BY <1>4, <1>5, <1>6, <1>7, <1>8, <1>9 DEF DiscoveryNext
<1> QED
  BY <1>10 DEF Continues

LEMMA ChansStep ==
  ASSUME DiscoveryInv, DiscoveryNext
  PROVE  ChansApart'
<1>0. DiscoveryTypeOK /\ lookups \in Nat /\ ChansApart
  BY DEF DiscoveryInv, DiscoveryTypeOK
<1>1. ASSUME NEW k \in Lookup, NEW max \in MaxWanted, WriteRequest(k, max)
      PROVE  ChansApart'
  <2>1. lookups' = lookups + 1 /\ Chan(k)' = lookups'
    BY <1>0, <1>1, CallSent DEF WriteRequest, Chan
  <2>2. \A j \in Lookup \ {k} : (Underway(j)' <=> Underway(j)) /\ Chan(j)' = Chan(j)
    BY <1>0, <1>1, CallSent DEF Underway, Chan
  <2>3. \A j \in Lookup \ {k} : Underway(j)' => Chan(j)' \in 1..lookups /\ Chan(j)' # Chan(k)'
    BY <1>0, <2>1, <2>2 DEF ChansApart
  <2>4. \A j \in Lookup : Underway(j)' => Chan(j)' \in 1..lookups'
    BY <1>0, <2>1, <2>3
  <2>5. \A i, j \in Lookup : Underway(i)' /\ Underway(j)' /\ Chan(i)' = Chan(j)' => j = i
    BY <1>0, <2>2, <2>3 DEF ChansApart
  <2> QED
    BY <2>4, <2>5 DEF ChansApart
<1> QED
  BY <1>0, <1>1, CallsContinue DEF ChansApart

LEMMA TasksStep ==
  ASSUME DiscoveryInv, DiscoveryNext
  PROVE  TasksBelong'
<1>0. /\ DiscoveryTypeOK /\ lookup \in [Lookup -> Call] /\ taskMap \in [Ids -> Nat] /\ TasksBelong
  BY DEF DiscoveryInv, DiscoveryTypeOK
<1> DEFINE Owns(k) == lookup[k].pc \in {"waiting", "closing", "deleting"}
\* A step that keeps the map and the owners.
<1>1. ASSUME UNCHANGED taskMap,
             \A j \in Lookup : Owns(j) => /\ lookup'[j].pc \in {"waiting", "closing", "deleting"}
                                          /\ lookup'[j].chan = lookup[j].chan
                                          /\ lookup'[j].max = lookup[j].max
      PROVE  TasksBelong'
  BY <1>0, <1>1 DEF TasksBelong, Chan
<1>2. CASE UNCHANGED <<lookup, taskMap>>
  BY <1>1, <1>2
<1>3. ASSUME NEW k \in Lookup, NEW max \in MaxWanted, WriteRequest(k, max)
      PROVE  TasksBelong'
  <2>1. UNCHANGED taskMap /\ ~ Owns(k)
    BY <1>3 DEF WriteRequest, taskVars, Is
  <2> QED
    BY <1>0, <1>1, <1>3, <2>1, CallSent
<1>4. ASSUME NEW k \in Lookup, AddTask(k)
      PROVE  TasksBelong'
  <2>1. /\ lookup'[k].pc = "waiting" /\ \A j \in Lookup \ {k} : lookup'[j] = lookup[j]
        /\ lookup'[k].chan = lookup[k].chan /\ lookup'[k].max = lookup[k].max
    BY <1>0, <1>4, CallGoesOn DEF AddTask
  <2>2. lookup[k].max \in Ids /\ ~ Owns(k)
    BY <1>0, <1>4 DEF Call, AddTask, Is
  <2>3. taskMap' = [taskMap EXCEPT ![lookup[k].max] = lookup[k].chan]
    BY <1>4 DEF AddTask, ReqId, Chan
  <2> QED
    BY <1>0, <2>1, <2>2, <2>3 DEF TasksBelong, Chan
<1>5. ASSUME NEW k \in Lookup, LookupTimeout(k) \/ ReceiveClosed(k)
      PROVE  TasksBelong'
  <2>1. UNCHANGED taskMap /\ lookup' = [lookup EXCEPT ![k].pc = "closing"]
    BY <1>5 DEF LookupTimeout, ReceiveClosed, taskVars
  <2> QED
    BY <1>0, <1>1, <2>1, CallGoesOn
<1>6. ASSUME NEW k \in Lookup, CloseChannel(k)
      PROVE  TasksBelong'
  <2>1. UNCHANGED taskMap
    BY <1>6 DEF CloseChannel
  <2>2. CASE lookup' = [lookup EXCEPT ![k].pc = "deleting"]
    BY <1>0, <1>1, <2>1, <2>2, CallGoesOn
  <2> QED
    BY <1>2, <1>6, <2>1, <2>2 DEF CloseChannel
<1>7. ASSUME NEW k \in Lookup, DeleteTask(k)
      PROVE  TasksBelong'
  <2>1. \A j \in Lookup \ {k} : lookup'[j] = lookup[j]
    BY <1>0, <1>7, CallDeletes, CallGoesOn, CallReplaced, RestingCall
  <2>2. taskMap' = [taskMap EXCEPT ![lookup[k].max] = NoTask] /\ lookup[k].max \in Ids
    BY <1>0, <1>7 DEF DeleteTask, DeleteEntry, ReqId, Call
  <2> QED
    BY <1>0, <2>1, <2>2 DEF TasksBelong, Chan
<1>8. ASSUME NEW k \in Lookup, UsePeers(k)
      PROVE  TasksBelong'
  <2>1. UNCHANGED taskMap /\ ~ Owns(k)
    BY <1>8 DEF UsePeers, taskVars, Is
  <2> QED
    BY <1>0, <1>1, <1>8, <2>1, CallReplaced, RestingCall DEF UsePeers
<1>9. ASSUME NEW k \in Lookup, NEW d \in deliveries, SendResult(k, d)
      PROVE  TasksBelong'
  <2>1. UNCHANGED taskMap
    BY <1>9 DEF SendResult
  <2> QED
    BY <1>0, <1>1, <1>9, <2>1, ResultTaken
<1> QED
  BY <1>2, <1>3, <1>4, <1>5, <1>6, <1>7, <1>8, <1>9
  DEF DiscoveryNext, NoPeersExist, HandleMainNetPeers, DHTPeersExpire, LoadTask, SendOnClosed,
      taskVars

\* The list that GetDHTPeers takes fits the number that was asked for.
LEMMA TableFits ==
  ASSUME NEW max \in MaxWanted, NEW s \in GetDHTPeers(max), NEW K
  PROVE  Fits({[id |-> x, addrs |-> x \in K] : x \in s}, max)
<1>1. IsFiniteSet(Table) /\ max \in Nat
  BY DiscoveryAssumption
<1>2. s \in SUBSET Table /\ Cardinality(s) = IF max < Cardinality(Table) THEN max
                                                                         ELSE Cardinality(Table)
  BY DEF GetDHTPeers
<1>3. Cardinality(Table) \in Nat
  BY <1>1, FS_CardinalityType
<1>4. Cardinality(s) <= max /\ Cardinality(s) \in Nat
  BY <1>1, <1>2, <1>3
<1>5. IsFiniteSet(s)
  BY <1>1, <1>2, FS_Subset
<1> DEFINE A == Addressed({[id |-> x, addrs |-> x \in K] : x \in s})
<1>6. A \in SUBSET s
  BY DEF Addressed
<1> HIDE DEF A
<1>7. IsFiniteSet(A) /\ Cardinality(A) <= Cardinality(s)
  BY <1>5, <1>6, FS_Subset
<1>8. Cardinality(A) \in Nat
  BY <1>7, FS_CardinalityType
<1>9. Cardinality(A) <= max
  BY <1>1, <1>4, <1>7, <1>8
<1> QED
  BY <1>9 DEF Fits, A

LEMMA FitsStep ==
  ASSUME DiscoveryInv, DiscoveryNext
  PROVE  AnswersFit' /\ WithinMax'
<1>0. /\ DiscoveryTypeOK /\ lookup \in [Lookup -> Call] /\ lookups \in Nat
      /\ ChansApart /\ TasksBelong /\ AnswersFit /\ WithinMax
  BY DEF DiscoveryInv, DiscoveryTypeOK
<1>1. \A m \in Ids : m \in Nat
  BY DiscoveryAssumption DEF Ids
<1>2. Fits({}, 0) /\ \A m \in Ids : Fits({}, m) /\ Cardinality({}) <= m
  <2>1. Addressed({}) = {}
    BY DEF Addressed
  <2>2. Cardinality({}) = 0
    BY FS_EmptySet
  <2> QED
    BY <1>1, <2>1, <2>2 DEF Fits
<1>3. WithinMax'
  <2>1. ASSUME NEW k \in Lookup, NEW max \in MaxWanted, WriteRequest(k, max)
        PROVE  WithinMax'
    <3>1. max \in Ids
      BY DEF Ids
    <3>2. /\ \A j \in Lookup \ {k} : lookup'[j] = lookup[j]
          /\ lookup'[k].max = max /\ lookup'[k].peers = {}
      BY <1>0, <2>1, CallSent
    <3>3. Cardinality({}) <= max
      BY <1>2, <3>1
    <3> QED
      BY <1>0, <3>2, <3>3 DEF WithinMax
  <2>2. ASSUME NEW k \in Lookup,
               NEW pc \in {"waiting", "closing", "deleting", "returned"},
               lookup' = [lookup EXCEPT ![k].pc = pc]
        PROVE  WithinMax'
    BY <1>0, <2>2, CallGoesOn DEF WithinMax
  <2>3. ASSUME NEW k \in Lookup, lookup' = [lookup EXCEPT ![k] = Resting]
        PROVE  WithinMax'
    <3>1. Cardinality(Resting.peers) <= Resting.max
      BY <1>2, RestingCall DEF Ids
    <3> QED
      BY <1>0, <2>3, <3>1, CallReplaced, RestingCall DEF WithinMax
  <2>4. ASSUME NEW k \in Lookup, NEW d \in deliveries, SendResult(k, d)
        PROVE  WithinMax'
    <3>1. Underway(k) /\ Chan(k) = d.chan
      BY <2>4 DEF SendResult, Is, Underway
    <3>2. Cardinality(Addressed(d.peers)) <= lookup[k].max
      BY <1>0, <3>1 DEF AnswersFit, Fits
    <3> QED
      BY <1>0, <2>4, <3>2, ResultTaken DEF WithinMax
  <2>5. CASE UNCHANGED lookup
    BY <1>0, <2>5 DEF WithinMax
  <2>6. ASSUME NEW k \in Lookup, DeleteTask(k)
        PROVE  WithinMax'
    BY <1>0, <2>2, <2>3, <2>6, CallDeletes
  <2> QED
    BY <2>1, <2>2, <2>3, <2>4, <2>5, <2>6
    DEF DiscoveryNext, AddTask, LookupTimeout, ReceiveClosed, CloseChannel, NoPeersExist, UsePeers,
        HandleMainNetPeers, DHTPeersExpire, LoadTask, SendOnClosed
\* A delivery stays what it is, whatever its call does.
<1>4. ASSUME NEW d \in deliveries, NEW k \in Lookup, Underway(k)', Chan(k)' = d.chan
      PROVE  Fits(d.peers, lookup'[k].max)
  <2>1. CASE Underway(k) /\ Chan(k)' = Chan(k) /\ lookup'[k].max = lookup[k].max
    BY <1>0, <1>4, <2>1 DEF AnswersFit
  <2>2. ASSUME NEW j \in Lookup, NEW max \in MaxWanted, WriteRequest(j, max)
        PROVE  Fits(d.peers, lookup'[k].max)
    <3>1. d.chan \in 1..lookups
      BY <1>0 DEF DiscoveryTypeOK
    <3>2. k # j
      BY <1>0, <1>4, <2>2, <3>1, CallSent DEF Chan
    <3> QED
      BY <1>0, <1>4, <2>1, <2>2, <3>2, CallSent DEF Underway, Chan
  <2> QED
    BY <1>0, <1>4, <2>1, <2>2, CallsContinue
<1>5. ASSUME queries' \subseteq queries, replies' \subseteq replies,
             deliveries' \subseteq deliveries
      PROVE  AnswersFit'
  BY <1>0, <1>4, <1>5 DEF AnswersFit
<1>6. ASSUME NEW k \in Lookup, NEW max \in MaxWanted, WriteRequest(k, max)
      PROVE  AnswersFit'
  <2>1. PICK q \in [id : {max}, max : {max}, chan : Nat] : queries' = queries \cup {q}
    BY <1>0, <1>6, CallSent
  <2>2. UNCHANGED <<replies, deliveries>>
    BY <1>6 DEF WriteRequest, taskVars
  <2> QED
    BY <1>0, <1>4, <2>1, <2>2 DEF AnswersFit
<1>7. ASSUME NEW q \in queries, NEW a, Fits(a.peers, q.max), a.id = q.id,
             replies' = replies \cup {a}, queries' = queries \ {q}, UNCHANGED deliveries
      PROVE  AnswersFit'
  BY <1>0, <1>4, <1>7 DEF AnswersFit
<1>8. ASSUME NEW q \in queries, HandleMainNetPeers(q)
      PROVE  AnswersFit'
  <2>1. PICK s \in GetDHTPeers(q.max) :
          Acknowledge(q, TRUE, {[id |-> x, addrs |-> x \in known] : x \in s})
    BY <1>8 DEF HandleMainNetPeers
  <2> DEFINE peers == {[id |-> x, addrs |-> x \in known] : x \in s}
             a == [id |-> q.id, chan |-> q.chan, ok |-> TRUE, peers |-> peers]
  <2>2. Fits(peers, q.max)
    <3>1. q.max \in MaxWanted
      BY <1>0 DEF DiscoveryTypeOK
    <3> QED
      BY <3>1, TableFits
  <2>3. replies' = replies \cup {a} /\ queries' = queries \ {q} /\ UNCHANGED deliveries
    BY <1>8, <2>1 DEF HandleMainNetPeers, Acknowledge, taskVars
  <2> HIDE DEF peers
  <2>4. a.id = q.id /\ a.peers = peers
    OBVIOUS
  <2> HIDE DEF a
  <2> QED
    BY <1>7, <2>2, <2>3, <2>4
<1>9. ASSUME NEW q \in queries, DHTPeersExpire(q)
      PROVE  AnswersFit'
  <2> DEFINE a == [id |-> q.id, chan |-> q.chan, ok |-> FALSE, peers |-> {}]
  <2>1. replies' = replies \cup {a} /\ queries' = queries \ {q} /\ UNCHANGED deliveries
    BY <1>9 DEF DHTPeersExpire, RefusePeers, Acknowledge, taskVars
  <2>2. a.id = q.id /\ a.peers = {}
    OBVIOUS
  <2>3. q.max \in Ids
    BY <1>0 DEF DiscoveryTypeOK, Ids
  <2> HIDE DEF a
  <2> QED
    BY <1>2, <1>7, <2>1, <2>2, <2>3
<1>10. ASSUME NEW a \in replies, LoadTask(a)
       PROVE  AnswersFit'
  <2>1. UNCHANGED <<lookup, queries>> /\ replies' \subseteq replies
    BY <1>10 DEF LoadTask, serverVars
  <2>2. CASE taskMap[a.id] = NoTask
    BY <1>5, <1>10, <2>1, <2>2 DEF LoadTask
  <2>3. CASE taskMap[a.id] # NoTask
    <3> DEFINE d == [chan |-> taskMap[a.id], by |-> a.chan, ok |-> a.ok, peers |-> a.peers]
    <3>1. deliveries' = deliveries \cup {d}
      BY <1>10, <2>3 DEF LoadTask
    <3>2. d.chan = taskMap[a.id] /\ d.peers = a.peers
      OBVIOUS
    <3> HIDE DEF d
    <3>3. a.id \in Ids
      BY <1>0 DEF DiscoveryTypeOK, Ids
    <3>4. PICK k \in Lookup : taskMap[a.id] = Chan(k) /\ lookup[k].max = a.id /\ Underway(k)
      BY <1>0, <2>3, <3>3 DEF TasksBelong, Underway
    <3>5. \A j \in Lookup : Underway(j) /\ Chan(j) = d.chan => Fits(d.peers, lookup[j].max)
      BY <1>0, <3>2, <3>4 DEF ChansApart, AnswersFit
    <3>6. \A j \in Lookup : (Underway(j)' <=> Underway(j)) /\ Chan(j)' = Chan(j)
      BY <2>1 DEF Underway, Chan
    <3> QED
      BY <1>0, <1>4, <2>1, <3>1, <3>5, <3>6 DEF AnswersFit
  <2> QED
    BY <2>2, <2>3
<1>11. ASSUME NEW d \in deliveries, NEW k \in Lookup, SendResult(k, d)
       PROVE  AnswersFit'
  BY <1>5, <1>11 DEF SendResult, serverVars
<1> QED
  BY <1>3, <1>5, <1>6, <1>8, <1>9, <1>10, <1>11
  DEF DiscoveryNext, AddTask, LookupTimeout, ReceiveClosed, CloseChannel, DeleteTask, NoPeersExist,
      UsePeers, SendOnClosed, taskVars, serverVars
\* A step that leaves no hazard behind: what it says of the calls.
LEMMA NoHazard ==
  ASSUME DiscoveryInv, DiscoveryNext, ~ hazarded'
  PROVE  /\ OrderlyCalls /\ clientUp
         /\ \A k \in Lookup : ~ LookupTimeout(k) /\ ~ NoPeersExist(k)
         /\ \A k \in Lookup, max \in MaxWanted : WriteRequest(k, max) =>
              \A j \in Lookup : ~ Underway(j)
         /\ \A a \in replies : LoadTask(a) /\ taskMap[a.id] = NoTask =>
              \A k \in Lookup : ~ Is(k, "sent")
<1>1. ~ hazarded
  BY Zenon
  DEF DiscoveryInv, DiscoveryNext, WriteRequest, AddTask, LookupTimeout, ReceiveClosed,
      CloseChannel, DeleteTask, NoPeersExist, UsePeers, SendResult, HandleMainNetPeers,
      DHTPeersExpire, LoadTask, SendOnClosed
<1>2. OrderlyCalls /\ clientUp
  BY <1>1, Zenon DEF DiscoveryInv, DiscoveryNext
<1>3. \A k \in Lookup : ~ LookupTimeout(k) /\ ~ NoPeersExist(k)
  BY Zenon DEF LookupTimeout, NoPeersExist
<1>4. ASSUME NEW k \in Lookup, NEW max \in MaxWanted, WriteRequest(k, max), NEW j \in Lookup
      PROVE  ~ Underway(j)
  <2>1. ~ \E i \in Lookup \ {k} : Underway(i)
    BY <1>4, Zenon DEF WriteRequest
  <2>2. ~ Underway(k)
    BY <1>4, Zenon DEF WriteRequest, Is, Underway
  <2> QED
    BY <2>1, <2>2
<1>5. ASSUME NEW a \in replies, LoadTask(a), taskMap[a.id] = NoTask, NEW k \in Lookup
      PROVE  ~ Is(k, "sent")
  BY <1>5, Zenon DEF LoadTask, Is
<1> QED
  BY <1>2, <1>3, <1>4, <1>5

LEMMA OrderlyStep ==
  ASSUME DiscoveryInv, DiscoveryNext, ~ hazarded'
  PROVE  OrderlyCalls' /\ clientUp'
<1>0. /\ DiscoveryTypeOK /\ lookup \in [Lookup -> Call] /\ taskMap \in [Ids -> Nat]
      /\ lookups \in Nat /\ closedChans \subseteq 1..lookups
      /\ ChansApart /\ TasksBelong /\ OrderlyCalls /\ clientUp
      /\ \A k \in Lookup : lookup[k].max \in Ids
  BY NoHazard DEF DiscoveryInv, DiscoveryTypeOK, Call
\* The call that is under way, and its answer.
<1> DEFINE Asks(k) == Is(k, "sent") \/ Is(k, "waiting")
<1>1. ASSUME NEW k \in Lookup, Underway(k)
      PROVE  /\ \A j \in Lookup \ {k} : ~ Underway(j) /\ lookup[j].pc = "idle"
             /\ \A m \in queries \cup replies : Asks(k) /\ m.id = lookup[k].max
             /\ \A d \in deliveries : Is(k, "waiting") /\ d.chan = Chan(k)
  <2>1. \A j \in Lookup : j # k => ~ Underway(j)
    BY <1>0, <1>1 DEF OrderlyCalls
  <2> QED
    BY <1>0, <2>1 DEF OrderlyCalls, Underway, Is
<1>2. ASSUME NEW k \in Lookup, Underway(k),
             \A j \in Lookup \ {k} : lookup'[j] = lookup[j],
             queries' = {}, replies' = {}, deliveries' = {},
             lookup'[k].pc \in {"idle", "deleting", "returned"}
      PROVE  OrderlyCalls'
  <2>1. \A j \in Lookup : Underway(j)' => j = k
    BY <1>1, <1>2 DEF Underway
  <2>2. \A j \in Lookup : ~ Is(j, "sent")' /\ ~ Is(j, "waiting")' /\ ~ Is(j, "closing")'
    BY <1>1, <1>2 DEF Is
  <2> QED
    BY <1>2, <2>1, <2>2 DEF OrderlyCalls, OneAnswer, Lone
<1>3. ASSUME NEW k \in Lookup, Underway(k), ~ Asks(k)
      PROVE  queries = {} /\ replies = {} /\ deliveries = {}
  BY <1>1, <1>3
<1>4. ASSUME NEW k \in Lookup, NEW max \in MaxWanted, WriteRequest(k, max)
      PROVE  OrderlyCalls' /\ clientUp'
  <2>1. \A j \in Lookup : ~ Underway(j) /\ lookup[j].pc = "idle"
    BY <1>4, NoHazard DEF Underway
  <2>2. queries = {} /\ replies = {} /\ deliveries = {}
    BY <1>0, <2>1 DEF OrderlyCalls, Is
  <2>3. PICK q \in [id : {max}, max : {max}, chan : Nat] : queries' = queries \cup {q}
    BY <1>0, <1>4, CallSent
  <2>4. queries' = {q} /\ q.id = max
    BY <2>2, <2>3
  <2>5. replies' = {} /\ deliveries' = {} /\ clientUp' /\ UNCHANGED closedChans
    BY <1>0, <1>4, <2>2 DEF WriteRequest, taskVars
  <2>6. /\ lookup'[k].pc = "sent" /\ lookup'[k].max = max
        /\ \A j \in Lookup \ {k} : lookup'[j].pc = "idle"
        /\ Chan(k)' \notin closedChans
    BY <1>0, <1>4, <2>1, CallSent DEF Chan
  <2> QED
    BY <2>4, <2>5, <2>6 DEF OrderlyCalls, OneAnswer, Lone, Underway, Is
<1>5. ASSUME NEW k \in Lookup, AddTask(k)
      PROVE  OrderlyCalls' /\ clientUp'
  <2>1. Is(k, "sent") /\ Underway(k)
    BY <1>5 DEF AddTask, Is, Underway
  <2>2. /\ lookup'[k].pc = "waiting" /\ lookup'[k].max = lookup[k].max /\ Chan(k)' = Chan(k)
        /\ \A j \in Lookup \ {k} : lookup'[j].pc = "idle"
    BY <1>0, <1>1, <1>5, <2>1, CallGoesOn DEF AddTask, Chan
  <2>3. UNCHANGED <<closedChans, deliveries, queries, replies, clientUp>>
    BY <1>5 DEF AddTask, serverVars
  <2>4. taskMap'[lookup[k].max] = Chan(k)
    BY <1>0, <1>5 DEF AddTask, ReqId
  <2>5. Chan(k) \notin closedChans /\ OneAnswer' /\ deliveries = {}
    BY <1>0, <1>1, <2>1, <2>3 DEF OrderlyCalls, OneAnswer, Lone, Is
  <2> QED
    BY <1>0, <1>1, <2>1, <2>2, <2>3, <2>4, <2>5 DEF OrderlyCalls, Underway, Is
<1>6. ASSUME NEW k \in Lookup
      PROVE  ~ ReceiveClosed(k)
  BY <1>0 DEF OrderlyCalls, ReceiveClosed
<1>7. ASSUME NEW k \in Lookup, CloseChannel(k)
      PROVE  OrderlyCalls' /\ clientUp'
  <2>1. Is(k, "closing") /\ Underway(k) /\ ~ Asks(k)
    BY <1>7 DEF CloseChannel, Is, Underway
  <2>2. taskMap[ReqId(k)] \notin closedChans
    BY <1>0, <2>1 DEF OrderlyCalls, ReqId
  <2>3. /\ lookup' = [lookup EXCEPT ![k].pc = "deleting"] /\ UNCHANGED clientUp
        /\ UNCHANGED <<deliveries, queries, replies>>
    BY <1>7, <2>2 DEF CloseChannel, serverVars
  <2>4. lookup'[k].pc = "deleting" /\ \A j \in Lookup \ {k} : lookup'[j] = lookup[j]
    BY <1>0, <2>3, CallGoesOn
  <2> QED
    BY <1>0, <1>2, <1>3, <2>1, <2>3, <2>4
<1>8. ASSUME NEW k \in Lookup, DeleteTask(k) \/ UsePeers(k)
      PROVE  OrderlyCalls' /\ clientUp'
  <2>1. Underway(k) /\ ~ Asks(k)
    BY <1>8 DEF DeleteTask, UsePeers, Is, Underway
  <2>2. UNCHANGED <<deliveries, queries, replies, clientUp>>
    BY <1>8 DEF DeleteTask, UsePeers, taskVars, serverVars
  <2>3. /\ \A j \in Lookup \ {k} : lookup'[j] = lookup[j]
        /\ lookup'[k].pc \in {"idle", "returned"}
    <3>1. CASE lookup' = [lookup EXCEPT ![k].pc = "returned"]
      BY <1>0, <3>1, CallGoesOn
    <3>2. CASE lookup' = [lookup EXCEPT ![k] = Resting]
      BY <1>0, <3>2, CallReplaced, RestingCall
    <3> QED
      BY <1>0, <1>8, <3>1, <3>2, CallDeletes DEF UsePeers
  <2> QED
    BY <1>0, <1>2, <1>3, <2>1, <2>2, <2>3
<1>9. ASSUME NEW k \in Lookup, NEW d \in deliveries, SendResult(k, d)
      PROVE  OrderlyCalls' /\ clientUp'
  <2>1. Is(k, "waiting") /\ Underway(k)
    BY <1>9 DEF SendResult, Is, Underway
  <2>2. /\ lookup'[k].pc = "closing" /\ lookup'[k].max = lookup[k].max /\ Chan(k)' = Chan(k)
        /\ \A j \in Lookup \ {k} : lookup'[j].pc = "idle"
    BY <1>0, <1>1, <1>9, <2>1, ResultTaken DEF Chan
  <2>3. deliveries' = {} /\ queries' = {} /\ replies' = {}
    BY <1>0, <1>9 DEF OrderlyCalls, OneAnswer, Lone, SendResult, serverVars
  <2>4. UNCHANGED <<closedChans, taskMap, clientUp>>
    BY <1>9 DEF SendResult
  <2>5. taskMap[lookup[k].max] = Chan(k) /\ Chan(k) \notin closedChans
    BY <1>0, <2>1 DEF OrderlyCalls
  <2> QED
    BY <1>0, <2>2, <2>3, <2>4, <2>5 DEF OrderlyCalls, OneAnswer, Lone, Underway, Is
<1>10. ASSUME NEW q \in queries, HandleMainNetPeers(q) \/ DHTPeersExpire(q)
       PROVE  OrderlyCalls' /\ clientUp'
  <2>1. \E a : a.id = q.id /\ replies' = replies \cup {a}
    <3>1. \A ok, peers : [id |-> q.id, chan |-> q.chan, ok |-> ok, peers |-> peers].id = q.id
      OBVIOUS
    <3> QED
      BY <1>10, <3>1, Zenon
      DEF HandleMainNetPeers, DHTPeersExpire, RefusePeers, Acknowledge
  <2>2. PICK a : a.id = q.id /\ replies' = replies \cup {a}
    BY <2>1
  <2>3. UNCHANGED <<lookup, taskMap, closedChans, deliveries, clientUp>> /\ queries' = queries \ {q}
    BY <1>10 DEF HandleMainNetPeers, DHTPeersExpire, taskVars
  <2>4. queries' = {} /\ replies' = {a} /\ deliveries' = {}
    BY <1>0, <2>2, <2>3 DEF OrderlyCalls, OneAnswer, Lone
  <2>5. PICK k \in Lookup : Asks(k) /\ q.id = lookup[k].max
    BY <1>0 DEF OrderlyCalls
  <2>6. \A j \in Lookup : \A pc : Is(j, pc)' <=> Is(j, pc)
    BY <2>3 DEF Is
  <2>7. \A j \in Lookup : (Underway(j)' <=> Underway(j)) /\ Chan(j)' = Chan(j)
    BY <2>3 DEF Underway, Chan
  <2> QED
    BY <1>0, <2>2, <2>3, <2>4, <2>5, <2>6, <2>7 DEF OrderlyCalls, OneAnswer, Lone
<1>11. ASSUME NEW a \in replies, LoadTask(a)
       PROVE  OrderlyCalls' /\ clientUp'
  <2>1. PICK k \in Lookup : Asks(k) /\ a.id = lookup[k].max
    BY <1>0 DEF OrderlyCalls
  <2>2. Underway(k)
    BY <2>1 DEF Is, Underway
  <2>3. Is(k, "waiting")
    <3>1. CASE taskMap[a.id] = NoTask
      BY <1>11, <2>1, <3>1, NoHazard
    <3>2. CASE taskMap[a.id] # NoTask
      <4>1. PICK j \in Lookup : lookup[j].pc \in {"waiting", "closing", "deleting"}
        BY <1>0, <2>1, <3>2 DEF TasksBelong
      <4>2. j = k
        BY <1>1, <2>2, <4>1
      <4> QED
        BY <2>1, <4>1, <4>2 DEF Is
    <3> QED
      BY <3>1, <3>2
  <2>4. taskMap[a.id] = Chan(k) /\ Chan(k) \in 1..lookups
    BY <1>0, <2>1, <2>2, <2>3 DEF OrderlyCalls, ChansApart
  <2>5. taskMap[a.id] # NoTask
    BY <1>0, <2>4 DEF NoTask
  <2> DEFINE d == [chan |-> taskMap[a.id], by |-> a.chan, ok |-> a.ok, peers |-> a.peers]
  <2>6. deliveries' = deliveries \cup {d} /\ replies' = replies \ {a}
    BY <1>11, <2>5 DEF LoadTask
  <2>7. d.chan = Chan(k)
    BY <2>4
  <2> HIDE DEF d
  <2>8. UNCHANGED <<lookup, taskMap, closedChans, queries, clientUp>>
    BY <1>11, <2>5 DEF LoadTask, serverVars
  <2>9. queries' = {} /\ replies' = {} /\ deliveries' = {d}
    BY <1>0, <2>6, <2>8 DEF OrderlyCalls, OneAnswer, Lone
  <2>10. \A j \in Lookup : \A pc : Is(j, pc)' <=> Is(j, pc)
    BY <2>8 DEF Is
  <2>11. \A j \in Lookup : (Underway(j)' <=> Underway(j)) /\ Chan(j)' = Chan(j)
    BY <2>8 DEF Underway, Chan
  <2> QED
    BY <1>0, <2>3, <2>7, <2>8, <2>9, <2>10, <2>11 DEF OrderlyCalls, OneAnswer, Lone
<1>12. ASSUME NEW d \in deliveries
       PROVE  ~ SendOnClosed(d)
  BY <1>0 DEF OrderlyCalls, SendOnClosed
<1> QED
  BY <1>4, <1>5, <1>6, <1>7, <1>8, <1>9, <1>10, <1>11, <1>12, NoHazard DEF DiscoveryNext

LEMMA DiscoveryStep ==
  ASSUME DiscoveryInv, [DiscoveryNext]_discoveryVars
  PROVE  DiscoveryInv'
<1>1. CASE DiscoveryNext
  <2>1. hazarded' \/ (OrderlyCalls' /\ clientUp')
    BY <1>1, OrderlyStep
  <2>2. (hazarded \/ OrderlyCalls)' /\ OrderlyLookupsSurvive'
    BY <2>1, Zenon DEF OrderlyLookupsSurvive
  <2> QED
    BY <1>1, <2>2, DiscoveryTypeStep, ChansStep, TasksStep, FitsStep DEF DiscoveryInv
<1>2. CASE UNCHANGED discoveryVars
  <2>1. UNCHANGED <<lookup, lookups, taskMap, closedChans, deliveries, queries, replies, clientUp,
                    hazarded>>
    BY <1>2 DEF discoveryVars, taskVars, serverVars
  <2>2. DiscoveryTypeOK' /\ ChansApart' /\ TasksBelong'
    BY <2>1 DEF DiscoveryInv, DiscoveryTypeOK, ChansApart, TasksBelong, Underway, Chan
  <2>3. AnswersFit' /\ WithinMax'
    BY <2>1 DEF DiscoveryInv, AnswersFit, WithinMax, Underway, Chan
  <2>4. OrderlyCalls' = OrderlyCalls
    BY <2>1 DEF OrderlyCalls, OneAnswer, Lone, Underway, Chan, Is
  <2>5. (hazarded \/ OrderlyCalls)' /\ OrderlyLookupsSurvive'
    BY <2>1, <2>4, Zenon DEF DiscoveryInv, OrderlyLookupsSurvive
  <2> QED
    BY <2>2, <2>3, <2>5 DEF DiscoveryInv
<1> QED
  BY <1>1, <1>2

\* For any number of goroutines, calls and delays: no call returns more peers than
\* it asked for (the request id, TaskMap, GetDHTPeers).
THEOREM LookupsWithinMax == DiscoverySpec => []WithinMax
<1>1. DiscoveryInv => WithinMax
  BY DEF DiscoveryInv
<1> QED
  BY <1>1, DiscoveryInitInv, DiscoveryStep, PTL DEF DiscoverySpec

\* For any number of goroutines, calls and delays: every entry of the TaskMap is
\* that of a call that has yet to return (AddTask, DeletTask).
THEOREM TasksHaveCalls == DiscoverySpec => []TasksBelong
<1>1. DiscoveryInv => TasksBelong
  BY DEF DiscoveryInv
<1> QED
  BY <1>1, DiscoveryInitInv, DiscoveryStep, PTL DEF DiscoverySpec

\* For any number of calls: a client that makes them one at a time, and is answered
\* in time, is not ended by AckStreamHandler (its assertion, and its send on a channel
\* that DeletTask may have closed).
THEOREM OrderlyClientLives == DiscoverySpec => []OrderlyLookupsSurvive
<1>1. DiscoveryInv => OrderlyLookupsSurvive
  BY DEF DiscoveryInv
<1> QED
  BY <1>1, DiscoveryInitInv, DiscoveryStep, PTL DEF DiscoverySpec
=============================================================================
