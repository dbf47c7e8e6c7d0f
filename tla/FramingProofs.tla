--------------------------- MODULE FramingProofs ---------------------------
(***************************************************************************)
(* Theorems about the framing of a secure session: the bytes are all there *)
(* and in order, every frame decrypts, and the session is a byte stream.   *)
(***************************************************************************)
EXTENDS SecureFraming, TLAPS

Frame == [len : Nat, plain : Seq(Nat)]

FramingTypeOK ==
  /\ writeLock \in Writer \cup {NoOne} /\ readLock \in Reader \cup {NoOne}
  /\ todo \in [Writer -> Seq(Nat)]
  /\ given \in Nat /\ sent \in Nat
  /\ insecure \in Seq(Frame)
  /\ open \in BOOLEAN
  /\ buf \in [Reader -> Nat]
  /\ qbuf \in Seq(Nat) /\ qseek \in 0..Len(qbuf)
  /\ got \in Seq(Nat)
  /\ failed \in BOOLEAN

\* Only the holder of the write lock has bytes to send: those that follow the ones
\* sent so far, up to the last that was given.
WriterNext ==
  /\ \A w \in Writer : todo[w] # <<>> => writeLock = w
  /\ open /\ writeLock = NoOne => sent = given
  /\ open => \A w \in Writer : writeLock = w =>
       Consecutive(todo[w], sent) /\ sent + Len(todo[w]) = given

\* The length field of every frame is what it stands for.
FramesWhole == \A i \in 1..Len(insecure) : Decrypts(insecure[i]) /\ insecure[i].plain # <<>>

\* The number of bytes before the i-th frame under way.
Before(i) == IF i = 1 THEN Len(got) + Len(From(qbuf, qseek))
                      ELSE insecure[i - 1].plain[Len(insecure[i - 1].plain)]

\* The stream without its claim of the total, and with that claim for every frame:
\* when the circuit is closed any of them may be the last that is delivered.
InOrder ==
  /\ Consecutive(got, 0)
  /\ Consecutive(From(qbuf, qseek), Len(got))
  /\ \A i \in 1..Len(insecure) : Consecutive(insecure[i].plain, Before(i))
  /\ \A i \in 1..(Len(insecure) + 1) : Before(i) <= sent
  /\ open => Before(Len(insecure) + 1) = sent

FramingInv == FramingTypeOK /\ WriterNext /\ FramesWhole /\ InOrder /\ AllDecrypt

-----------------------------------------------------------------------------
(* The operators *)

LEMMA FirstFacts ==
  ASSUME NEW s \in Seq(Nat), NEW n \in Nat
  PROVE  /\ First(s, n) \in Seq(Nat)
         /\ Len(First(s, n)) = Min2(n, Len(s))
         /\ \A i \in 1..Len(First(s, n)) : First(s, n)[i] = s[i]
BY DEF First, Min2

LEMMA FromFacts ==
  ASSUME NEW s \in Seq(Nat), NEW n \in 0..Len(s)
  PROVE  /\ From(s, n) \in Seq(Nat)
         /\ Len(From(s, n)) = Len(s) - n
         /\ \A i \in 1..Len(From(s, n)) : From(s, n)[i] = s[n + i]
BY DEF From

\* The rest of consecutive bytes.
LEMMA RestConsecutive ==
  ASSUME NEW s \in Seq(Nat), NEW a \in Nat, NEW n \in 0..Len(s), Consecutive(s, a)
  PROVE  Consecutive(From(s, n), a + n)
<1> SUFFICES ASSUME NEW i \in 1..Len(From(s, n))
             PROVE  From(s, n)[i] = a + n + i
  BY DEF Consecutive
<1>1. From(s, n)[i] = s[n + i] /\ n + i \in 1..Len(s)
  BY FromFacts
<1> QED
  BY <1>1 DEF Consecutive

\* A frame takes the beginning of what is to be sent, and at least one byte of it.
LEMMA NextFrameFacts ==
  ASSUME NEW s \in Seq(Nat), s # <<>>
  PROVE  /\ NextFrame(s) \in Seq(Nat) /\ NextFrame(s) # <<>>
         /\ Len(NextFrame(s)) \in 1..Len(s)
         /\ \A i \in 1..Len(NextFrame(s)) : NextFrame(s)[i] = s[i]
         /\ LengthField(NextFrame(s)) = Len(NextFrame(s)) + TagSize
<1>1. MaxPlaintextLength \in Nat \ {0}
  BY FramingAssumption DEF MaxPlaintextLength
<1>2. /\ NextFrame(s) \in Seq(Nat)
      /\ Len(NextFrame(s)) = Min2(MaxPlaintextLength, Len(s))
      /\ \A i \in 1..Len(NextFrame(s)) : NextFrame(s)[i] = s[i]
  BY <1>1, FirstFacts DEF NextFrame
<1>3. Len(NextFrame(s)) \in 1..Len(s) /\ Len(NextFrame(s)) <= MaxPlaintextLength
  BY <1>1, <1>2 DEF Min2
<1>4. LengthField(NextFrame(s)) = Len(NextFrame(s)) + TagSize
  <2>1. Len(NextFrame(s)) + TagSize \in 0..MaxTransportMsgLength
    BY <1>3, FramingAssumption DEF MaxPlaintextLength
  <2>2. ASSUME NEW m \in Nat, NEW a \in 0..m
        PROVE  a % (m + 1) = a
    OBVIOUS
  <2> QED
    BY <2>1, <2>2, FramingAssumption DEF LengthField
<1> QED
  BY <1>2, <1>3, <1>4

\* Some bytes are read from the front of those that follow what was read before.
LEMMA ReadOn ==
  ASSUME NEW g \in Seq(Nat), NEW s \in Seq(Nat), NEW n \in Nat,
         Consecutive(g, 0), Consecutive(s, Len(g))
  PROVE  LET b == First(s, n)
         IN  /\ g \o b \in Seq(Nat) /\ Len(g \o b) = Len(g) + Len(b)
             /\ Len(b) \in 0..Len(s)
             /\ Consecutive(g \o b, 0)
             /\ Consecutive(From(s, Len(b)), Len(g \o b))
<1> DEFINE b == First(s, n)
<1>1. /\ b \in Seq(Nat) /\ Len(b) \in 0..Len(s)
      /\ \A i \in 1..Len(b) : b[i] = s[i]
  BY FirstFacts DEF Min2
<1> HIDE DEF b
<1>2. /\ g \o b \in Seq(Nat) /\ Len(g \o b) = Len(g) + Len(b)
      /\ \A i \in 1..Len(g \o b) : (g \o b)[i] = IF i <= Len(g) THEN g[i] ELSE b[i - Len(g)]
  BY <1>1
<1>3. Consecutive(g \o b, 0)
  <2> SUFFICES ASSUME NEW i \in 1..Len(g \o b)
               PROVE  (g \o b)[i] = 0 + i
    BY DEF Consecutive
  <2>1. CASE i <= Len(g)
    BY <1>2, <2>1 DEF Consecutive
  <2>2. CASE i > Len(g)
    <3>1. i - Len(g) \in 1..Len(b) /\ (g \o b)[i] = b[i - Len(g)]
      BY <1>1, <1>2, <2>2
    <3>2. b[i - Len(g)] = s[i - Len(g)] /\ s[i - Len(g)] = Len(g) + (i - Len(g))
      BY <1>1, <3>1 DEF Consecutive
    <3> QED
      BY <3>1, <3>2
  <2> QED
    BY <2>1, <2>2
<1>4. Consecutive(From(s, Len(b)), Len(g \o b))
  BY <1>1, <1>2, RestConsecutive
<1> QED
  BY <1>1, <1>2, <1>3, <1>4 DEF b

-----------------------------------------------------------------------------
(* Each step keeps the invariant *)

LEMMA BeforeNat ==
  ASSUME FramingTypeOK, FramesWhole
  PROVE  \A i \in 1..(Len(insecure) + 1) : Before(i) \in Nat
<1> SUFFICES ASSUME NEW i \in 1..(Len(insecure) + 1)
             PROVE  Before(i) \in Nat
  OBVIOUS
<1>1. CASE i = 1
  BY <1>1, FromFacts DEF Before, FramingTypeOK
<1>2. CASE i # 1
  <2>1. i - 1 \in 1..Len(insecure)
    BY <1>2 DEF FramingTypeOK
  <2>2. insecure[i - 1].plain \in Seq(Nat) /\ insecure[i - 1].plain # <<>>
    <3>1. insecure[i - 1] \in Frame
      BY <2>1 DEF FramingTypeOK
    <3> QED
      BY <2>1, <3>1 DEF FramesWhole, Frame
  <2> QED
    BY <1>2, <2>2 DEF Before
<1> QED
  BY <1>1, <1>2

LEMMA FramingInitInv == FramingInit => FramingInv
<1> SUFFICES ASSUME FramingInit PROVE FramingInv
  OBVIOUS
<1>1. FramingTypeOK
  <2>1. qseek \in 0..Len(qbuf)
    BY DEF FramingInit
  <2>2. open \in BOOLEAN /\ failed \in BOOLEAN
    BY DEF FramingInit
  <2> QED
    BY <2>1, <2>2 DEF FramingInit, FramingTypeOK
<1>2. Len(got) = 0 /\ Len(insecure) = 0 /\ Len(From(qbuf, qseek)) = 0
  <2>1. qbuf \in Seq(Nat) /\ qseek \in 0..Len(qbuf) /\ Len(qbuf) = 0 /\ qseek = 0
    BY DEF FramingInit
  <2>2. Len(From(qbuf, qseek)) = Len(qbuf) - qseek
    BY <2>1, FromFacts
  <2> QED
    BY <2>1, <2>2 DEF FramingInit
<1>3. WriterNext
  BY DEF FramingInit, WriterNext, Consecutive
<1>4. InOrder
  BY <1>2 DEF FramingInit, InOrder, Consecutive, Before
<1> QED
  BY <1>1, <1>2, <1>3, <1>4 DEF FramingInit, FramingInv, FramesWhole, AllDecrypt

LEMMA StartWriteStep ==
  ASSUME FramingInv, NEW w \in Writer, StartWrite(w)
  PROVE  FramingInv' /\ UNCHANGED <<sent, got, open>>
<1> USE DEF FramingInv, FramingTypeOK
<1>1. PICK total \in Totals :
        /\ todo' = [todo EXCEPT ![w] = [i \in 1..total |-> given + i]]
        /\ given' = given + total
  BY DEF StartWrite
<1> DEFINE bytes == [i \in 1..total |-> given + i]
<1>2. /\ total \in Nat /\ bytes \in Seq(Nat) /\ Len(bytes) = total
      /\ \A i \in 1..Len(bytes) : bytes[i] = given + i
  BY FramingAssumption
<1> HIDE DEF bytes
<1>3. /\ writeLock = NoOne /\ writeLock' = w /\ w # NoOne
      /\ UNCHANGED <<sent, insecure, open, readLock, buf, qbuf, qseek, got, failed>>
  BY FramingAssumption DEF StartWrite, TakeWriteLock, readVars
<1>4. todo' = [todo EXCEPT ![w] = bytes]
  BY <1>1 DEF bytes
<1>5. FramingTypeOK'
  BY <1>1, <1>2, <1>3, <1>4
<1>6. WriterNext'
  <2>1. \A v \in Writer : v # w => todo'[v] = <<>>
    BY <1>3, <1>4, FramingAssumption DEF WriterNext
  <2>2. open => Consecutive(bytes, sent) /\ sent + Len(bytes) = given'
    BY <1>1, <1>2, <1>3 DEF WriterNext, Consecutive
  <2>3. todo'[w] = bytes
    BY <1>4
  <2> QED
    BY <1>3, <2>1, <2>2, <2>3 DEF WriterNext
<1>7. FramesWhole' /\ InOrder' /\ AllDecrypt'
  BY <1>3 DEF FramesWhole, InOrder, AllDecrypt, Decrypts, Before
<1> QED
  BY <1>3, <1>5, <1>6, <1>7

LEMMA WriteFrameStep ==
  ASSUME FramingInv, NEW w \in Writer, WriteFrame(w)
  PROVE  FramingInv' /\ sent' \in Nat /\ sent' > sent /\ open /\ UNCHANGED <<got, open>>
<1> DEFINE plain == NextFrame(todo[w])
           frame == [len |-> LengthField(plain), plain |-> plain]
           k == Len(insecure)
<1>0. /\ todo \in [Writer -> Seq(Nat)] /\ insecure \in Seq(Frame)
      /\ sent \in Nat /\ k \in Nat /\ todo[w] \in Seq(Nat)
  BY DEF FramingInv, FramingTypeOK
<1>1. /\ plain \in Seq(Nat) /\ plain # <<>>
      /\ Len(plain) \in 1..Len(todo[w])
      /\ \A i \in 1..Len(plain) : plain[i] = todo[w][i]
      /\ LengthField(plain) = Len(plain) + TagSize
  BY <1>0, NextFrameFacts DEF WriteFrame
<1>2. /\ insecure' = Append(insecure, frame)
      /\ todo' = [todo EXCEPT ![w] = From(@, Len(plain))]
      /\ sent' = sent + Len(plain)
      /\ open /\ todo[w] # <<>>
      /\ UNCHANGED <<writeLock, given, open, readLock, buf, qbuf, qseek, got, failed>>
  BY DEF WriteFrame, readVars
<1> HIDE DEF plain
<1>3. frame \in Frame /\ Decrypts(frame) /\ frame.plain = plain
  BY <1>1, FramingAssumption DEF Decrypts, Frame
<1> HIDE DEF frame
<1>4. writeLock = w /\ Consecutive(todo[w], sent) /\ sent + Len(todo[w]) = given
  BY <1>2 DEF FramingInv, WriterNext
<1>5. /\ From(todo[w], Len(plain)) \in Seq(Nat)
      /\ Len(From(todo[w], Len(plain))) = Len(todo[w]) - Len(plain)
      /\ Consecutive(From(todo[w], Len(plain)), sent')
  <2>1. Len(plain) \in 0..Len(todo[w])
    BY <1>0, <1>1
  <2> QED
    BY <1>0, <1>2, <1>4, <2>1, FromFacts, RestConsecutive
<1>6. FramingTypeOK'
  <2>1. sent' \in Nat /\ insecure' \in Seq(Frame)
    BY <1>0, <1>1, <1>2, <1>3
  <2>2. todo' \in [Writer -> Seq(Nat)]
    BY <1>0, <1>2, <1>5
  <2> QED
    BY <1>2, <2>1, <2>2 DEF FramingInv, FramingTypeOK
<1>7. WriterNext'
  <2>1. \A v \in Writer : v # w => todo'[v] = <<>>
    BY <1>0, <1>2, <1>4 DEF FramingInv, WriterNext
  <2>2. writeLock' = w /\ w # NoOne
    BY <1>2, <1>4, FramingAssumption
  <2>3. todo'[w] = From(todo[w], Len(plain))
    BY <1>0, <1>2
  <2>4. Consecutive(todo'[w], sent')
    BY <1>5, <2>3
  <2>5. sent' + Len(todo'[w]) = given'
    <3>1. Len(todo'[w]) = Len(todo[w]) - Len(plain)
      BY <1>5, <2>3
    <3>2. Len(todo[w]) \in Nat /\ Len(plain) \in Nat
      BY <1>0, <1>1
    <3>3. sent' = sent + Len(plain) /\ given' = given /\ sent + Len(todo[w]) = given
      BY <1>2, <1>4
    <3>4. ASSUME NEW a \in Nat, NEW b \in Nat, NEW c \in Nat
          PROVE  (a + b) + (c - b) = a + c
      OBVIOUS
    <3> QED
      BY <1>0, <3>1, <3>2, <3>3, <3>4
  <2> QED
    BY <2>1, <2>2, <2>4, <2>5 DEF WriterNext
<1>8. /\ Len(insecure') = k + 1
      /\ \A i \in 1..k : insecure'[i] = insecure[i]
      /\ insecure'[k + 1] = frame
  BY <1>0, <1>2, <1>3
<1> HIDE DEF k
<1>9. FramesWhole'
  <2> SUFFICES ASSUME NEW i \in 1..(k + 1)
               PROVE  Decrypts(insecure'[i]) /\ insecure'[i].plain # <<>>
    BY <1>8 DEF FramesWhole, Decrypts
  <2>1. CASE i = k + 1
    BY <1>1, <1>3, <1>8, <2>1
  <2>2. CASE i # k + 1
    <3>1. i \in 1..Len(insecure) /\ insecure'[i] = insecure[i]
      BY <1>0, <1>8, <2>2 DEF k
    <3> QED
      BY <3>1 DEF FramingInv, FramesWhole
  <2> QED
    BY <2>1, <2>2
<1>10. \A i \in 1..(k + 1) : Before(i)' = Before(i)
  BY <1>0, <1>2, <1>8 DEF Before
<1>11. Before(k + 1) = sent
  BY <1>2 DEF FramingInv, InOrder, k
<1>12. Consecutive(plain, sent)
  BY <1>1, <1>4 DEF Consecutive
<1>13. \A i : i = k + 2 => Before(i)' = sent'
  <2>1. plain[Len(plain)] = sent + Len(plain)
    BY <1>1, <1>12 DEF Consecutive
  <2> QED
    BY <1>0, <1>2, <1>3, <1>8, <2>1 DEF Before
<1>14. InOrder'
  <2>1. Consecutive(got, 0)' /\ Consecutive(From(qbuf, qseek), Len(got))'
    BY <1>2 DEF FramingInv, InOrder
  <2>2. ASSUME NEW i \in 1..(k + 1)
        PROVE  Consecutive(insecure[i].plain, Before(i))'
    <3>1. CASE i = k + 1
      BY <1>3, <1>8, <1>10, <1>11, <1>12, <3>1 DEF Consecutive
    <3>2. CASE i # k + 1
      <4>1. /\ insecure'[i] = insecure[i] /\ Before(i)' = Before(i)
            /\ Consecutive(insecure[i].plain, Before(i))
        BY <1>0, <1>8, <1>10, <3>2 DEF FramingInv, InOrder, k
      <4> QED
        BY <4>1 DEF Consecutive
    <3> QED
      BY <3>1, <3>2
  <2>3. ASSUME NEW i \in 1..(k + 2)
        PROVE  Before(i)' <= sent'
    <3>1. CASE i = k + 2
      BY <1>0, <1>1, <1>2, <1>13, <3>1
    <3>2. CASE i # k + 2
      <4>1. Before(i)' = Before(i) /\ Before(i) <= sent
        BY <1>0, <1>10, <3>2 DEF FramingInv, InOrder, k
      <4> QED
        <5>1. Before(i) \in Nat /\ Len(plain) \in Nat
          BY <1>0, <1>1, <3>2, BeforeNat DEF FramingInv, k
        <5> QED
          BY <1>0, <1>2, <4>1, <5>1
    <3> QED
      BY <3>1, <3>2
  <2>4. Before(Len(insecure) + 1)' = sent'
    BY <1>0, <1>8, <1>13 
  <2> QED
    BY <1>0, <1>8, <2>1, <2>2, <2>3, <2>4 DEF InOrder
<1> QED
  BY <1>0, <1>1, <1>2, <1>6, <1>7, <1>9, <1>14 DEF AllDecrypt, FramingInv

LEMMA EndWriteStep ==
  ASSUME FramingInv, NEW w \in Writer, EndWrite(w)
  PROVE  FramingInv' /\ UNCHANGED <<sent, got, open>>
<1>1. /\ writeLock = w /\ writeLock' = NoOne /\ (todo[w] = <<>> \/ ~ open)
      /\ todo' = [todo EXCEPT ![w] = <<>>]
      /\ UNCHANGED <<given, sent, insecure, open, readLock, buf, qbuf, qseek, got, failed>>
  BY DEF EndWrite, readVars
<1>2. FramingTypeOK'
  BY <1>1 DEF FramingInv, FramingTypeOK
<1>3. WriterNext'
  <2>1. \A v \in Writer : todo'[v] = <<>>
    BY <1>1 DEF FramingInv, FramingTypeOK, WriterNext
  <2>2. open => sent = given
    BY <1>1 DEF FramingInv, FramingTypeOK, WriterNext
  <2> QED
    BY <1>1, <2>1, <2>2, FramingAssumption DEF WriterNext
<1>4. FramesWhole' /\ InOrder' /\ AllDecrypt'
  BY <1>1 DEF FramingInv, FramesWhole, InOrder, AllDecrypt, Decrypts, Before
<1> QED
  BY <1>1, <1>2, <1>3, <1>4 DEF FramingInv

LEMMA LockStep ==
  ASSUME FramingInv, NEW r \in Reader, StartRead(r) \/ ReadFails(r)
  PROVE  FramingInv' /\ UNCHANGED <<sent, got, open>>
<1>1. UNCHANGED <<writeLock, todo, given, sent, insecure, open, qbuf, qseek, got, failed>>
  BY DEF StartRead, ReadFails, writeVars
<1>2. readLock' \in Reader \cup {NoOne} /\ buf' \in [Reader -> Nat]
  BY FramingAssumption DEF StartRead, ReadFails, FramingInv, FramingTypeOK
<1>3. FramingTypeOK'
  BY <1>1, <1>2 DEF FramingInv, FramingTypeOK
<1> QED
  BY <1>1, <1>3 DEF FramingInv, WriterNext, FramesWhole, InOrder, AllDecrypt, Decrypts, Before

\* A Read that takes from the queue only.
LEMMA QueueStep ==
  ASSUME FramingInv, NEW r \in Reader, ReadQueue(r)
  PROVE  /\ FramingInv' /\ UNCHANGED <<sent, open>>
         /\ Len(got') \in Len(got)..sent
<1> DEFINE rest == From(qbuf, qseek)
           bytes == First(rest, buf[r])
           m == Len(bytes)
<1>0. /\ qbuf \in Seq(Nat) /\ qseek \in 0..Len(qbuf) /\ got \in Seq(Nat) /\ buf[r] \in Nat
      /\ sent \in Nat /\ insecure \in Seq(Frame)
  BY DEF FramingInv, FramingTypeOK
<1>1. /\ rest \in Seq(Nat) /\ Len(rest) = Len(qbuf) - qseek
      /\ \A i \in 1..Len(rest) : rest[i] = qbuf[qseek + i]
  BY <1>0, FromFacts
<1>2. Consecutive(got, 0) /\ Consecutive(rest, Len(got)) /\ Len(got) + Len(rest) <= sent
  BY <1>0 DEF FramingInv, InOrder, Before
<1>3. /\ got' = got \o bytes /\ readLock' = NoOne
      /\ IF qseek + m = Len(qbuf) THEN qbuf' = <<>> /\ qseek' = 0
                                  ELSE qbuf' = qbuf /\ qseek' = qseek + m
      /\ UNCHANGED <<writeLock, todo, given, sent, insecure, open, buf, failed>>
  BY DEF ReadQueue, Returns, QueueRead, Unread, writeVars
<1> HIDE DEF rest
<1>4. /\ got' \in Seq(Nat) /\ Len(got') = Len(got) + m
      /\ m \in 0..Len(rest)
      /\ Consecutive(got', 0)
  BY <1>0, <1>1, <1>2, <1>3, ReadOn
<1> HIDE DEF bytes, m
<1>5. qbuf' \in Seq(Nat) /\ qseek' \in 0..Len(qbuf')
  <2>1. CASE qseek + m = Len(qbuf)
    <3>1. qbuf' = <<>> /\ qseek' = 0
      BY <1>3, <2>1
    <3> QED
      BY <3>1
  <2>2. CASE qseek + m # Len(qbuf)
    <3>1. qbuf' = qbuf /\ qseek' = qseek + m
      BY <1>3, <2>2
    <3> QED
      BY <1>0, <1>1, <1>4, <3>1
  <2> QED
    BY <2>1, <2>2
<1>6. FramingTypeOK'
  BY <1>3, <1>4, <1>5 DEF FramingInv, FramingTypeOK
<1>7. /\ Len(From(qbuf', qseek')) = Len(rest) - m
      /\ Consecutive(From(qbuf', qseek'), Len(got'))
  <2>1. /\ Len(From(qbuf', qseek')) = Len(qbuf') - qseek'
        /\ \A i \in 1..Len(From(qbuf', qseek')) : From(qbuf', qseek')[i] = qbuf'[qseek' + i]
    BY <1>5, FromFacts
  <2>2. CASE qseek + m = Len(qbuf)
    <3>1. Len(qbuf') = 0 /\ qseek' = 0
      BY <1>3, <2>2
    <3>2. Len(From(qbuf', qseek')) = 0
      BY <2>1, <3>1
    <3>3. Len(qbuf) \in Nat /\ qseek \in Nat /\ m \in Nat /\ Len(rest) = Len(qbuf) - qseek
      BY <1>0, <1>1, <1>4
    <3>4. Len(rest) - m = 0
      BY <2>2, <3>3
    <3> QED
      BY <3>2, <3>4 DEF Consecutive
  <2>3. CASE qseek + m # Len(qbuf)
    <3>1. qbuf' = qbuf /\ qseek' = qseek + m
      BY <1>3, <2>3
    <3>2. Len(From(qbuf', qseek')) = Len(rest) - m
      BY <1>0, <1>1, <1>4, <2>1, <3>1
    <3>3. ASSUME NEW i \in 1..Len(From(qbuf', qseek'))
          PROVE  From(qbuf', qseek')[i] = Len(got') + i
      <4>1. m + i \in 1..Len(rest) /\ From(qbuf', qseek')[i] = qbuf[qseek + (m + i)]
        <5>1. m + i \in 1..Len(rest) /\ qseek' + i = qseek + (m + i)
          BY <1>0, <1>1, <1>4, <3>1, <3>2
        <5> QED
          BY <2>1, <3>1, <5>1
      <4>2. qbuf[qseek + (m + i)] = rest[m + i] /\ rest[m + i] = Len(got) + (m + i)
        BY <1>1, <1>2, <4>1 DEF Consecutive
      <4> QED
        BY <1>0, <1>1, <1>4, <4>1, <4>2
    <3> QED
      BY <3>2, <3>3 DEF Consecutive
  <2> QED
    BY <2>2, <2>3
<1>8. \A i \in 1..(Len(insecure) + 1) : Before(i)' = Before(i)
  <2>1. Len(got') + Len(From(qbuf', qseek')) = Len(got) + Len(rest)
    BY <1>0, <1>1, <1>4, <1>7
  <2> QED
    BY <1>3, <2>1 DEF Before, rest
<1>9. InOrder'
  <2>1. ASSUME NEW i \in 1..Len(insecure)
        PROVE  Consecutive(insecure[i].plain, Before(i))'
    <3>1. Consecutive(insecure[i].plain, Before(i)) /\ Before(i)' = Before(i)
      BY <1>0, <1>8 DEF FramingInv, InOrder
    <3> QED
      BY <1>3, <3>1 DEF Consecutive
  <2>2. Before(Len(insecure) + 1)' = Before(Len(insecure) + 1)
    <3>1. ASSUME NEW k, k = Len(insecure) + 1
          PROVE  Before(k)' = Before(k) /\ k = (Len(insecure) + 1)'
      BY <1>0, <1>3, <1>8, <3>1
    <3> QED
      BY <3>1 DEF Before
  <2>3. Consecutive(got, 0)' /\ Consecutive(From(qbuf, qseek), Len(got))'
    BY <1>4, <1>7
  <2>4. ASSUME NEW i \in 1..(Len(insecure) + 1)
        PROVE  Before(i)' <= sent
    BY <1>8 DEF FramingInv, InOrder
  <2> QED
    BY <1>3, <2>1, <2>2, <2>3, <2>4 DEF FramingInv, InOrder
<1>10. WriterNext' /\ FramesWhole' /\ AllDecrypt'
  BY <1>3 DEF FramingInv, WriterNext, FramesWhole, AllDecrypt, Decrypts
<1>11. FramingInv'
  BY <1>6, <1>9, <1>10 DEF FramingInv
<1>12. Len(got') \in Len(got)..sent
  <2>1. Len(got') = Len(got) + m /\ m \in 0..Len(rest)
    BY <1>1, <1>4
  <2>2. Len(got) \in Nat /\ Len(rest) \in Nat
    BY <1>0, <1>1
  <2> QED
    BY <1>0, <1>2, <2>1, <2>2
<1> QED
  BY <1>3, <1>11, <1>12

\* The next frame is taken from those under way, and Read and the queue have it all.
LEMMA FrameTaken ==
  ASSUME FramingInv, insecure # <<>>, insecure' = Tail(insecure),
         UNCHANGED <<sent, open>>,
         Consecutive(got', 0), Consecutive(From(qbuf', qseek'), Len(got')),
         Len(got') + Len(From(qbuf', qseek')) = Before(2)
  PROVE  FramesWhole' /\ InOrder'
<1> DEFINE k == Len(insecure)
<1>0. insecure \in Seq(Frame) /\ k \in Nat \ {0}
  BY DEF FramingInv, FramingTypeOK
<1>1. Len(insecure') = k - 1 /\ \A i \in 1..(k - 1) : insecure'[i] = insecure[i + 1]
  BY <1>0
<1>2. FramesWhole'
  <2> SUFFICES ASSUME NEW i \in 1..(k - 1)
               PROVE  Decrypts(insecure'[i]) /\ insecure'[i].plain # <<>>
    BY <1>1 DEF FramesWhole, Decrypts
  <2>1. i + 1 \in 1..k
    BY <1>0
  <2> QED
    BY <1>1, <2>1 DEF FramingInv, FramesWhole
<1> HIDE DEF k
<1>3. ASSUME NEW i \in 1..k
      PROVE  Before(i)' = Before(i + 1)
  <2>1. CASE i = 1
    BY <2>1 DEF Before
  <2>2. CASE i # 1
    <3>1. i - 1 \in 1..(k - 1) /\ (i - 1) + 1 = i /\ (i + 1) - 1 = i /\ i + 1 # 1
      BY <1>0, <2>2
    <3>2. insecure'[i - 1] = insecure[i]
      BY <1>1, <3>1
    <3> QED
      BY <2>2, <3>1, <3>2 DEF Before
  <2> QED
    BY <2>1, <2>2
<1>4. ASSUME NEW i \in 1..(k - 1)
      PROVE  Consecutive(insecure[i].plain, Before(i))'
  <2>1. i + 1 \in 1..k /\ i \in 1..k
    BY <1>0
  <2>2. /\ insecure'[i] = insecure[i + 1] /\ Before(i)' = Before(i + 1)
        /\ Consecutive(insecure[i + 1].plain, Before(i + 1))
    BY <1>1, <1>3, <2>1 DEF FramingInv, InOrder, k
  <2> QED
    BY <2>2 DEF Consecutive
<1>5. ASSUME NEW i \in 1..k
      PROVE  Before(i)' <= sent
  <2>1. i + 1 \in 1..(k + 1)
    BY <1>0
  <2> QED
    BY <1>3, <2>1 DEF FramingInv, InOrder, k
<1>6. Before(Len(insecure) + 1)' = Before(Len(insecure) + 1)
  <2>1. ASSUME NEW j, j = k
        PROVE  Before(j)' = Before(j + 1) /\ j = (Len(insecure) + 1)'
    BY <1>0, <1>1, <1>3, <2>1
  <2> QED
    BY <2>1 DEF Before, k
<1>7. InOrder'
  <2>1. (Len(insecure) + 1)' = k /\ Len(insecure)' = k - 1
    BY <1>0, <1>1
  <2> QED
    BY <1>4, <1>5, <1>6, <2>1 DEF FramingInv, InOrder
<1> QED
  BY <1>2, <1>7

\* The first frame under way follows what was read, if the queue is empty.
LEMMA FirstFrame ==
  ASSUME FramingInv, insecure # <<>>, qbuf = <<>>
  PROVE  LET f == Head(insecure)
         IN  /\ f \in Frame /\ Decrypts(f)
             /\ Consecutive(got, 0) /\ Consecutive(f.plain, Len(got))
             /\ qseek = 0 /\ Len(From(qbuf, qseek)) = 0
             /\ Before(2) = Len(got) + Len(f.plain) /\ Before(2) <= sent
<1> DEFINE f == Head(insecure)
<1>1. /\ insecure \in Seq(Frame) /\ f = insecure[1] /\ f \in Frame
      /\ 1 \in 1..Len(insecure) /\ 2 \in 1..(Len(insecure) + 1)
  BY DEF FramingInv, FramingTypeOK
<1>2. Decrypts(f) /\ f.plain # <<>> /\ f.plain \in Seq(Nat)
  BY <1>1 DEF FramingInv, FramesWhole, Frame
<1>3. qbuf \in Seq(Nat) /\ qseek = 0 /\ Len(qbuf) = 0 /\ got \in Seq(Nat)
  BY DEF FramingInv, FramingTypeOK
<1>4. Len(From(qbuf, qseek)) = Len(qbuf) - qseek
  <2>1. qseek \in 0..Len(qbuf)
    BY DEF FramingInv, FramingTypeOK
  <2> QED
    BY <1>3, <2>1, FromFacts
<1>5. Len(From(qbuf, qseek)) = 0
  BY <1>3, <1>4
<1>6. Before(1) = Len(got)
  BY <1>3, <1>5 DEF Before
<1>7. Consecutive(f.plain, Len(got)) /\ Consecutive(got, 0)
  BY <1>1, <1>6 DEF FramingInv, InOrder
<1>8. Before(2) = f.plain[Len(f.plain)]
  BY <1>1 DEF Before
<1>9. Before(2) = Len(got) + Len(f.plain)
  BY <1>2, <1>7, <1>8 DEF Consecutive
<1>10. Before(2) <= sent
  BY <1>1 DEF FramingInv, InOrder
<1> QED
  BY <1>1, <1>2, <1>3, <1>5, <1>7, <1>9, <1>10

LEMMA ReadFrameStep ==
  ASSUME FramingInv, NEW r \in Reader, ReadFrame(r)
  PROVE  /\ FramingInv' /\ UNCHANGED <<sent, open>>
         /\ Len(got') \in Len(got)..sent
<1> DEFINE f == Head(insecure)
<1>1. /\ insecure # <<>> /\ qbuf = <<>> /\ insecure' = Tail(insecure)
      /\ readLock' = NoOne /\ UNCHANGED <<writeLock, todo, given, sent, open, buf>>
  BY DEF ReadFrame, Returns, writeVars
<1>2. /\ f \in Frame /\ Decrypts(f)
      /\ Consecutive(got, 0) /\ Consecutive(f.plain, Len(got))
      /\ qseek = 0 /\ Len(From(qbuf, qseek)) = 0
      /\ Before(2) = Len(got) + Len(f.plain) /\ Before(2) <= sent
  BY <1>1, FirstFrame
<1>3. /\ \/ /\ got' = got \o f.plain /\ UNCHANGED <<qbuf, qseek>>
         \/ /\ got' = got \o First(f.plain, buf[r])
            /\ qbuf' = f.plain /\ qseek' = Len(First(f.plain, buf[r]))
      /\ UNCHANGED failed
  BY <1>2 DEF ReadFrame, Returns
<1> HIDE DEF f
<1>4. /\ f.plain \in Seq(Nat) /\ got \in Seq(Nat) /\ buf[r] \in Nat /\ sent \in Nat
      /\ qbuf \in Seq(Nat) /\ insecure \in Seq(Frame)
  BY <1>2 DEF FramingInv, FramingTypeOK, Frame
<1>5. /\ got' \in Seq(Nat) /\ Len(got') \in Len(got)..(Len(got) + Len(f.plain))
      /\ qbuf' \in Seq(Nat) /\ qseek' \in 0..Len(qbuf')
      /\ Consecutive(got', 0) /\ Consecutive(From(qbuf', qseek'), Len(got'))
      /\ Len(got') + Len(From(qbuf', qseek')) = Before(2)
  <2>1. CASE got' = got \o f.plain /\ UNCHANGED <<qbuf, qseek>>
    <3>1. First(f.plain, Len(f.plain)) = f.plain
      BY <1>4 DEF First, Min2
    <3>2. /\ got' \in Seq(Nat) /\ Len(got') = Len(got) + Len(f.plain)
          /\ Consecutive(got', 0)
      BY <1>2, <1>4, <2>1, <3>1, ReadOn
    <3>3. Len(From(qbuf', qseek')) = 0 /\ Consecutive(From(qbuf', qseek'), Len(got'))
      BY <1>2, <2>1 DEF Consecutive
    <3>4. Len(got') \in Nat /\ Len(got) \in Nat /\ Len(f.plain) \in Nat
      BY <1>4, <3>2
    <3>5. qbuf' = <<>> /\ qseek' = 0
      BY <1>1, <1>2, <2>1
    <3> QED
      BY <1>2, <3>2, <3>3, <3>4, <3>5
  <2>2. CASE /\ got' = got \o First(f.plain, buf[r])
             /\ qbuf' = f.plain /\ qseek' = Len(First(f.plain, buf[r]))
    <3>1. /\ got' \in Seq(Nat) /\ Len(got') = Len(got) + qseek'
          /\ qseek' \in 0..Len(f.plain)
          /\ Consecutive(got', 0) /\ Consecutive(From(f.plain, qseek'), Len(got'))
      BY <1>2, <1>4, <2>2, ReadOn
    <3>2. Len(From(qbuf', qseek')) = Len(f.plain) - qseek'
      BY <1>4, <2>2, <3>1, FromFacts
    <3>3. Len(got) \in Nat /\ Len(f.plain) \in Nat
      BY <1>4
    <3>4. Len(got') + Len(From(qbuf', qseek')) = Before(2)
      BY <1>2, <3>1, <3>2, <3>3
    <3>5. Len(got') \in Len(got)..(Len(got) + Len(f.plain))
      BY <3>1, <3>3
    <3> QED
      BY <1>4, <2>2, <3>1, <3>4, <3>5
  <2> QED
    BY <1>3, <2>1, <2>2
<1>6. FramesWhole' /\ InOrder'
  BY <1>1, <1>5, FrameTaken
<1>7. FramingTypeOK'
  <2>1. insecure' \in Seq(Frame)
    BY <1>1, <1>4
  <2>2. UNCHANGED failed
    BY <1>3
  <2> QED
    BY <1>1, <1>5, <2>1, <2>2 DEF FramingInv, FramingTypeOK
<1>8. WriterNext' /\ AllDecrypt'
  BY <1>1, <1>3 DEF FramingInv, WriterNext, AllDecrypt
<1>9. Len(got') \in Len(got)..sent
  <2>1. Len(got') \in Nat /\ Len(got) \in Nat /\ Len(f.plain) \in Nat
    BY <1>4, <1>5
  <2> QED
    BY <1>2, <1>4, <1>5, <2>1
<1> QED
  BY <1>1, <1>6, <1>7, <1>8, <1>9 DEF FramingInv

LEMMA CloseStep ==
  ASSUME FramingInv, Close
  PROVE  FramingInv' /\ UNCHANGED <<sent, got>> /\ open /\ open' = FALSE
<1>0. insecure \in Seq(Frame)
  BY DEF FramingInv, FramingTypeOK
<1>1. PICK k \in 0..Len(insecure) : insecure' = SubSeq(insecure, 1, k)
  BY DEF Close
<1>2. /\ open /\ open' = FALSE
      /\ UNCHANGED <<writeLock, todo, given, sent, readLock, buf, qbuf, qseek, got, failed>>
  BY DEF Close, writeVars, readVars
<1>3. /\ insecure' \in Seq(Frame) /\ Len(insecure') = k
      /\ \A i \in 1..k : insecure'[i] = insecure[i] /\ i \in 1..Len(insecure)
      /\ \A i \in 1..(k + 1) : i \in 1..(Len(insecure) + 1)
  BY <1>0, <1>1
<1>4. FramingTypeOK'
  BY <1>2, <1>3 DEF FramingInv, FramingTypeOK
<1>5. WriterNext' /\ AllDecrypt'
  BY <1>2 DEF FramingInv, WriterNext, AllDecrypt
<1>6. FramesWhole'
  <2> SUFFICES ASSUME NEW i \in 1..k
               PROVE  Decrypts(insecure'[i]) /\ insecure'[i].plain # <<>>
    BY <1>3 DEF FramesWhole, Decrypts
  <2> QED
    BY <1>3 DEF FramingInv, FramesWhole
<1>7. ASSUME NEW i \in 1..(k + 1)
      PROVE  Before(i)' = Before(i)
  <2>1. CASE i = 1
    BY <1>2, <2>1 DEF Before
  <2>2. CASE i # 1
    <3>1. i - 1 \in 1..k
      BY <2>2
    <3> QED
      BY <1>3, <2>2, <3>1 DEF Before
  <2> QED
    BY <2>1, <2>2
<1>8. InOrder'
  <2>1. ASSUME NEW i \in 1..k
        PROVE  Consecutive(insecure[i].plain, Before(i))'
    <3>1. i \in 1..(k + 1)
      OBVIOUS
    <3>2. /\ insecure'[i] = insecure[i] /\ Before(i)' = Before(i)
          /\ Consecutive(insecure[i].plain, Before(i))
      BY <1>3, <1>7, <3>1 DEF FramingInv, InOrder
    <3> QED
      BY <3>2 DEF Consecutive
  <2>2. ASSUME NEW i \in 1..(k + 1)
        PROVE  Before(i)' <= sent
    BY <1>3, <1>7 DEF FramingInv, InOrder
  <2>3. (Len(insecure) + 1)' = k + 1
    BY <1>3
  <2> QED
    BY <1>2, <1>3, <2>1, <2>2, <2>3 DEF FramingInv, InOrder
<1> QED
  BY <1>2, <1>4, <1>5, <1>6, <1>8 DEF FramingInv

LEMMA FramingStep ==
  ASSUME FramingInv, [FramingNext]_framingVars
  PROVE  FramingInv'
<1>1. CASE UNCHANGED framingVars
  BY <1>1 DEF framingVars, FramingInv, FramingTypeOK, WriterNext, FramesWhole, InOrder, AllDecrypt,
     Decrypts, Before
<1> QED
  BY <1>1, StartWriteStep, WriteFrameStep, EndWriteStep, LockStep, QueueStep, ReadFrameStep,
     CloseStep
  DEF FramingNext

-----------------------------------------------------------------------------
(* The theorems *)

\* For every number of writers and readers, every length of a Write and of a buffer:
\* what was read, is queued and is under way is what was sent, once and in order
\* (Write, Read; their locks, the frames and qseek).
THEOREM BytesInOrder == FramingSpec => []StreamIntact
<1>1. FramingInv => StreamIntact
  <2> SUFFICES ASSUME FramingInv PROVE StreamIntact
    OBVIOUS
  <2>1. Len(insecure) + 1 \in 1..(Len(insecure) + 1)
    BY DEF FramingInv, FramingTypeOK
  <2>2. Before(Len(insecure) + 1) <= sent
    BY <2>1 DEF FramingInv, InOrder
  <2> QED
    BY <2>2 DEF FramingInv, FramesWhole, InOrder, StreamIntact, Before
<1> QED
  BY <1>1, FramingInitInv, FramingStep, PTL DEF FramingSpec

\* No length overflows the 16 bits of its field, whatever is written: every frame
\* is decrypted (MaxPlaintextLength leaves room for the tag).
THEOREM FramesDecrypt == FramingSpec => []AllDecrypt
<1>1. FramingInv => AllDecrypt
  BY DEF FramingInv
<1> QED
  BY <1>1, FramingInitInv, FramingStep, PTL DEF FramingSpec

\* Bytes that are consecutive from the first are known by their number.
LEMMA PrefixByLength ==
  ASSUME NEW g \in Seq(Nat), Consecutive(g, 0)
  PROVE  g = [i \in 1..Len(g) |-> i]
<1>1. \A i \in 1..Len(g) : g[i] = i
  BY DEF Consecutive
<1> QED
  BY <1>1

\* A secure session is the byte stream that ByteStream promises: StartWrite,
\* EndWrite, StartRead and ReadFails are stutters of it, WriteFrame writes the bytes
\* of a frame, the Reads that return something read them, Close is the cut.
THEOREM FramingIsByteStream == FramingSpec => IsByteStream
<1>1. FramingInit => Stream!StreamInit
  BY DEF FramingInit, Stream!StreamInit
<1>2. ASSUME FramingInv, FramingInv', [FramingNext]_framingVars
      PROVE  [Stream!StreamNext]_(Stream!streamVars)
  <2> USE <1>2
  <2>1. CASE UNCHANGED <<sent, got, open>>
    BY <2>1 DEF Stream!streamVars
  <2>2. CASE sent' \in Nat /\ sent' > sent /\ open /\ UNCHANGED <<got, open>>
    BY <2>2 DEF Stream!StreamNext, Stream!WriteBytes
  <2>3. CASE UNCHANGED <<sent, open>> /\ Len(got') \in Len(got)..sent
    <3>1. got' = [i \in 1..Len(got') |-> i]
      BY PrefixByLength DEF FramingInv, FramingTypeOK, InOrder
    <3> QED
      BY <2>3, <3>1 DEF Stream!StreamNext, Stream!ReadBytes
  <2>4. CASE UNCHANGED <<sent, got>> /\ open /\ open' = FALSE
    BY <2>4 DEF Stream!StreamNext, Stream!Cut
  <2>5. CASE UNCHANGED framingVars
    BY <2>1, <2>5 DEF framingVars
  <2> QED
    BY <2>1, <2>2, <2>3, <2>4, <2>5, StartWriteStep, WriteFrameStep, EndWriteStep, LockStep,
       QueueStep, ReadFrameStep, CloseStep
    DEF FramingNext
<1> QED
  BY <1>1, <1>2, FramingInitInv, FramingStep, PTL DEF FramingSpec, IsByteStream, Stream!StreamSpec
=============================================================================
