-------------------------- MODULE HandshakeProofs --------------------------
(***************************************************************************)
(* Theorems about NewSecureSession: whom a session is with, and that its   *)
(* two ends have matching keys.                                            *)
(***************************************************************************)
EXTENDS Handshake, TLAPS

Payload == [key : Identity \cup {NoIdentity}, signer : Identity \cup {NoIdentity},
            static : End \cup {"none"}]

HandshakeTypeOK ==
  /\ wanted \in Identity
  /\ identity \in [End -> Identity]
  /\ remoteID \in [End -> Identity \cup {NoIdentity}]
  /\ stage \in [End -> {"send0", "send1", "send2", "read0", "read1", "read2", "done", "failed"}]
  /\ air \in [End -> Seq(Payload)]
  /\ ciphers \in [End -> [enc : {"none", "cs1", "cs2"}, dec : {"none", "cs1", "cs2"}]]
  /\ cancelled \subseteq End /\ closed \subseteq End
  /\ session \in [End -> {"none", "session", "error"}]

\* A message on its way to an end was made by the other end: it has no payload, or
\* the one the other end signs.  The caller signs one only when its handshake ends.
Sincere(e, payload) ==
  \/ payload.static = "none"
  \/ /\ payload = GenerateHandshakePayload(Other(e))
     /\ e = "answer" => stage["caller"] = "done"

MadeByOther == \A e \in End : \A i \in 1..Len(air[e]) : Sincere(e, air[e][i])

\* The caller knows from the start whom it wants, and signs only for that peer.
CallerKnows ==
  /\ remoteID["caller"] = wanted
  /\ stage["caller"] \in {"send2", "done"} => identity["answer"] = wanted

\* An answer that is done has read the payload of a caller that is done.
AnswerKnows ==
  stage["answer"] = "done" =>
    /\ stage["caller"] = "done"
    /\ remoteID["answer"] = identity["caller"]

\* The stages of one end.
StagesApart ==
  /\ stage["caller"] \notin {"read0", "send1", "read2"}
  /\ stage["answer"] \notin {"send0", "read1", "send2"}

\* Whoever is done has split the handshake state.
DoneHasCiphers == \A e \in End : stage[e] = "done" => ciphers[e] = SetCipherStates(e)

SessionsAreDone == \A e \in End : session[e] = "session" => stage[e] = "done"

HandshakeInv ==
  /\ HandshakeTypeOK /\ MadeByOther /\ CallerKnows /\ AnswerKnows
  /\ StagesApart /\ DoneHasCiphers /\ SessionsAreDone

-----------------------------------------------------------------------------
(* Each step keeps the invariant *)

LEMMA HandshakeInitInv == HandshakeInit => HandshakeInv
BY DEF HandshakeInit, HandshakeInv, HandshakeTypeOK, MadeByOther, CallerKnows, AnswerKnows,
       StagesApart, DoneHasCiphers, SessionsAreDone, End, NoIdentity, NoCiphers, Payload

\* What the send of a payload leaves in the air.
LEMMA SendKeepsAir ==
  ASSUME HandshakeInv, NEW e \in End, NEW from, NEW payload \in Payload, NEW next,
         Send(e, from, payload, next),
         \/ payload.static = "none"
         \/ payload = GenerateHandshakePayload(e) /\ (e = "caller" => next = "done"),
         stage["caller"] = "done" => stage'["caller"] = "done"
  PROVE  MadeByOther'
<1>0. /\ MadeByOther
      /\ \A f \in End : GenerateHandshakePayload(Other(f))' = GenerateHandshakePayload(Other(f))
  BY DEF HandshakeInv, Send, GenerateHandshakePayload, Other
<1> USE DEF HandshakeInv, HandshakeTypeOK, End, Other
<1>1. ASSUME NEW f \in End, NEW i \in 1..Len(air'[f])
      PROVE  Sincere(f, air[f][i])'
  <2>1. CASE f = Other(e) /\ air' # air /\ i = Len(air'[f])
    <3>1. air'[f][i] = payload
      BY <1>1, <2>1 DEF Send, SendHandshakeMessage
    <3> QED
      BY <2>1, <3>1 DEF Send, SendHandshakeMessage, Sincere, GenerateHandshakePayload
  <2>2. CASE ~(f = Other(e) /\ air' # air /\ i = Len(air'[f]))
    <3> HIDE DEF HandshakeInv, HandshakeTypeOK, End, Other
    <3>1. CASE air'[f] = air[f]
      BY <1>0, <1>1, <3>1 DEF MadeByOther, Sincere
    <3>2. CASE air'[f] # air[f]
      <4>1. f = Other(e) /\ air' # air /\ air'[f] = Append(air[f], payload)
        BY <3>2 DEF Send, SendHandshakeMessage, HandshakeInv, HandshakeTypeOK, End, Other
      <4>2. i \in 1..Len(air[f]) /\ air'[f][i] = air[f][i]
        BY <1>1, <2>2, <4>1 DEF HandshakeInv, HandshakeTypeOK, End, Other
      <4> QED
        BY <1>0, <1>1, <4>2 DEF MadeByOther, Sincere
    <3> QED
      BY <3>1, <3>2
  <2> QED
    BY <2>1, <2>2
<1> QED
  BY <1>1 DEF MadeByOther

\* What a read leaves in the air.
LEMMA ReadKeepsAir ==
  ASSUME HandshakeInv, NEW e \in End, air[e] # <<>>,
         air' = [air EXCEPT ![e] = Tail(@)], UNCHANGED identity,
         stage["caller"] = "done" => stage'["caller"] = "done"
  PROVE  MadeByOther'
<1>0. air \in [End -> Seq(Payload)] /\ MadeByOther
  BY DEF HandshakeInv, HandshakeTypeOK
<1>1. ASSUME NEW f \in End, NEW i \in 1..Len(air'[f])
      PROVE  Sincere(f, air[f][i])'
  <2>1. PICK j \in 1..Len(air[f]) : air'[f][i] = air[f][j]
    <3>1. CASE f = e
      BY <1>0, <1>1, <3>1
    <3>2. CASE f # e
      BY <1>0, <1>1, <3>2
    <3> QED
      BY <3>1, <3>2
  <2>2. Sincere(f, air[f][j])
    BY <1>0 DEF MadeByOther
  <2>3. GenerateHandshakePayload(Other(f))' = GenerateHandshakePayload(Other(f))
    BY DEF GenerateHandshakePayload, Other
  <2> QED
    BY <2>1, <2>2, <2>3 DEF Sincere
<1> QED
  BY <1>1 DEF MadeByOther

LEMMA SendKeepsType ==
  ASSUME HandshakeTypeOK, NEW e \in End, NEW from, NEW payload \in Payload,
         NEW next \in {"read1", "read2", "done"}, Send(e, from, payload, next)
  PROVE  HandshakeTypeOK'
<1>1. air' \in [End -> Seq(Payload)]
  <2>1. Other(e) \in End
    BY DEF End, Other
  <2>2. Append(air[Other(e)], payload) \in Seq(Payload)
    BY <2>1 DEF HandshakeTypeOK
  <2> QED
    BY <2>1, <2>2 DEF HandshakeTypeOK, Send, SendHandshakeMessage
<1>2. ciphers' \in [End -> [enc : {"none", "cs1", "cs2"}, dec : {"none", "cs1", "cs2"}]]
  BY DEF HandshakeTypeOK, Send, SendHandshakeMessage, SetCipherStates
<1>3. stage' \in [End -> {"send0", "send1", "send2", "read0", "read1", "read2", "done",
                         "failed"}]
  BY DEF HandshakeTypeOK, Send, SendHandshakeMessage
<1>4. UNCHANGED <<wanted, identity, remoteID, cancelled, closed, session>>
  BY DEF Send
<1> QED
  BY <1>1, <1>2, <1>3, <1>4 DEF HandshakeTypeOK

LEMMA ReadKeepsType ==
  ASSUME HandshakeTypeOK, NEW e \in End, NEW from, NEW next \in {"send2", "done"},
         Reads(e, from, next)
  PROVE  HandshakeTypeOK'
<1>1. air' \in [End -> Seq(Payload)] /\ Head(air[e]) \in Payload
  BY DEF HandshakeTypeOK, Reads
<1>2. ciphers' \in [End -> [enc : {"none", "cs1", "cs2"}, dec : {"none", "cs1", "cs2"}]]
  BY DEF HandshakeTypeOK, Reads, SetCipherStates
<1>3. remoteID' \in [End -> Identity \cup {NoIdentity}]
  BY <1>1 DEF HandshakeTypeOK, Reads, Aborts, Payload
<1>4. stage' \in [End -> {"send0", "send1", "send2", "read0", "read1", "read2", "done",
                         "failed"}]
  BY DEF HandshakeTypeOK, Reads, Aborts
<1>5. UNCHANGED <<wanted, identity, cancelled, closed, session>>
  BY DEF Reads
<1> QED
  BY <1>1, <1>2, <1>3, <1>4, <1>5 DEF HandshakeTypeOK

\* The part of the invariant that is about what the two ends know.
EndsInv == CallerKnows /\ AnswerKnows /\ StagesApart /\ DoneHasCiphers /\ SessionsAreDone

LEMMA SendKeepsEnds ==
  ASSUME HandshakeInv, CallerSends0 \/ AnswerSends1 \/ CallerSends2
  PROVE  EndsInv'
<1> USE DEF HandshakeInv, HandshakeTypeOK, End, CallerSends0, AnswerSends1, CallerSends2, Send,
            SendHandshakeMessage
<1>1. CallerKnows'
  BY DEF CallerKnows
<1>2. AnswerKnows'
  BY DEF AnswerKnows, StagesApart
<1>3. StagesApart'
  BY DEF StagesApart
<1>4. DoneHasCiphers'
  BY DEF DoneHasCiphers, SetCipherStates, Splits
<1>5. SessionsAreDone'
  BY DEF SessionsAreDone
<1> QED
  BY <1>1, <1>2, <1>3, <1>4, <1>5 DEF EndsInv

LEMMA ReadKeepsEnds ==
  ASSUME HandshakeInv, NEW e \in End,
         \/ e = "caller" /\ CallerReads1
         \/ e = "answer" /\ AnswerReads2
  PROVE  EndsInv'
<1> USE DEF HandshakeInv, HandshakeTypeOK, End, CallerReads1, AnswerReads2, Reads, Aborts
<1>1. Head(air[e]) = air[e][1] /\ Head(air[e]) \in Payload /\ 1 \in 1..Len(air[e])
  OBVIOUS
<1>2. Sincere(e, Head(air[e]))
  BY <1>1 DEF MadeByOther
<1>3. HandleRemotePayload(e, Head(air[e]), Other(e)) =>
        /\ Head(air[e]).key = identity[Other(e)]
        /\ e = "caller" => identity["answer"] = remoteID["caller"]
        /\ e = "answer" => stage["caller"] = "done"
  BY <1>1, <1>2 DEF HandleRemotePayload, Sincere, GenerateHandshakePayload, Other
<1>4. CallerKnows'
  BY <1>3 DEF CallerKnows, Other
<1>5. AnswerKnows'
  BY <1>3 DEF AnswerKnows, StagesApart, Other
<1>6. StagesApart'
  BY DEF StagesApart
<1>7. DoneHasCiphers'
  BY DEF DoneHasCiphers, SetCipherStates, Splits
<1>8. SessionsAreDone'
  BY DEF SessionsAreDone
<1> QED
  BY <1>4, <1>5, <1>6, <1>7, <1>8 DEF EndsInv

LEMMA HandshakeStep ==
  ASSUME HandshakeInv, [HandshakeNext]_handshakeVars
  PROVE  HandshakeInv'
<1>0. /\ \A e \in End : GenerateHandshakePayload(e) \in Payload
      /\ NoPayload \in Payload /\ NoPayload.static = "none"
  BY DEF GenerateHandshakePayload, NoPayload, Payload, HandshakeInv, HandshakeTypeOK
<1>1. CASE UNCHANGED handshakeVars
  BY <1>1 DEF handshakeVars, HandshakeInv, HandshakeTypeOK, MadeByOther, Sincere, CallerKnows,
     AnswerKnows, StagesApart, DoneHasCiphers, SessionsAreDone, GenerateHandshakePayload
<1>2. CASE CallerSends0 \/ AnswerSends1 \/ CallerSends2
  <2>1. HandshakeTypeOK'
    BY <1>0, <1>2, SendKeepsType
    DEF CallerSends0, AnswerSends1, CallerSends2, HandshakeInv, End
  <2>2. stage["caller"] = "done" => stage'["caller"] = "done"
    BY <1>2 DEF CallerSends0, AnswerSends1, CallerSends2, Send, SendHandshakeMessage,
       HandshakeInv, HandshakeTypeOK, End
  <2>3. MadeByOther'
    <3>1. CASE CallerSends0
      BY <1>0, <2>2, <3>1, SendKeepsAir DEF CallerSends0, End
    <3>2. CASE AnswerSends1
      BY <1>0, <2>2, <3>2, SendKeepsAir DEF AnswerSends1, End
    <3>3. CASE CallerSends2
      BY <1>0, <2>2, <3>3, SendKeepsAir DEF CallerSends2, End
    <3> QED
      BY <1>2, <3>1, <3>2, <3>3
  <2> QED
    BY <1>2, <2>1, <2>3, SendKeepsEnds DEF EndsInv, HandshakeInv
<1>3. CASE AnswerReads0
  <2>1. MadeByOther'
    BY <1>3, ReadKeepsAir DEF AnswerReads0, End, HandshakeInv, HandshakeTypeOK
  <2> QED
    BY <1>3, <2>1 DEF AnswerReads0, HandshakeInv, HandshakeTypeOK, CallerKnows, AnswerKnows,
       StagesApart, DoneHasCiphers, SessionsAreDone, SetCipherStates, End
<1>4. ASSUME NEW e \in End,
             \/ e = "caller" /\ CallerReads1
             \/ e = "answer" /\ AnswerReads2
      PROVE  HandshakeInv'
  <2>1. HandshakeTypeOK'
    BY <1>4, ReadKeepsType DEF CallerReads1, AnswerReads2, HandshakeInv
  <2>2. MadeByOther'
    BY <1>4, ReadKeepsAir
    DEF CallerReads1, AnswerReads2, Reads, Aborts, HandshakeInv, HandshakeTypeOK, End
  <2> QED
    BY <1>4, <2>1, <2>2, ReadKeepsEnds DEF EndsInv, HandshakeInv
<1>5. ASSUME NEW e \in End, HandshakeFails(e) \/ Cancel(e) \/ NoticeCancel(e) \/ Return(e)
      PROVE  HandshakeInv'
  <2>1. MadeByOther'
    BY <1>5 DEF MadeByOther, Sincere, GenerateHandshakePayload, HandshakeFails, Aborts, Cancel,
       NoticeCancel, Return, HandshakeInv, HandshakeTypeOK, End
  <2>2. HandshakeTypeOK'
    BY <1>5 DEF HandshakeFails, Aborts, Cancel, NoticeCancel, Return, HandshakeInv,
       HandshakeTypeOK
  <2>3. EndsInv'
    BY <1>5 DEF EndsInv, HandshakeFails, Aborts, Cancel, NoticeCancel, Return, Responds,
       HandshakeInv, HandshakeTypeOK, CallerKnows, AnswerKnows, StagesApart, DoneHasCiphers,
       SessionsAreDone, SetCipherStates, End
  <2> QED
    BY <2>1, <2>2, <2>3 DEF EndsInv, HandshakeInv
<1>6. "caller" \in End /\ "answer" \in End
  BY DEF End
<1>7. CASE CallerReads1
  BY <1>4, <1>6, <1>7
<1>8. CASE AnswerReads2
  BY <1>4, <1>6, <1>8
<1> QED
  BY <1>1, <1>2, <1>3, <1>5, <1>7, <1>8 DEF HandshakeNext

-----------------------------------------------------------------------------
(* The theorems *)

\* Whoever is at the far end, and whatever is lost or given up on the way: a session
\* is with the peer that holds the key, and a caller's with the peer it asked for
\* (handleRemoteHandshakePayload).
THEOREM SessionsAuthenticated == HandshakeSpec => []PeersAuthenticated
<1>1. HandshakeInv => PeersAuthenticated
  BY DEF HandshakeInv, PeersAuthenticated, SessionsAreDone, CallerKnows, AnswerKnows, End, Other
<1> QED
  BY <1>1, HandshakeInitInv, HandshakeStep, PTL DEF HandshakeSpec

\* An answer has a session only with a caller that accepted it, and their cipher
\* states match (setCipherStates at the two ends).
THEOREM AnswerHasCaller == HandshakeSpec => []AnswerImpliesCaller
<1>1. HandshakeInv => AnswerImpliesCaller
  BY DEF HandshakeInv, AnswerImpliesCaller, SessionsAreDone, AnswerKnows, DoneHasCiphers, End,
         Other, SetCipherStates
<1> QED
  BY <1>1, HandshakeInitInv, HandshakeStep, PTL DEF HandshakeSpec
=============================================================================
