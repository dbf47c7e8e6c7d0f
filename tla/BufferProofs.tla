---------------------------- MODULE BufferProofs ----------------------------
(***************************************************************************)
(* Theorems about the receiving side of a CircuitConn: where its bytes     *)
(* are, and what a callback that nobody waits for takes to come about.     *)
(***************************************************************************)
EXTENDS CircuitBuffer, TLAPS

Callback == [channel : Nat, len : Nat]
ReadState == [pc : {"none", "empty", "subscribing", "waiting"}, len : Nat, channel : Nat,
              bytes : Seq(Nat)]
InboundState == [pc : {"none", "written", "running", "sending"}, left : Seq(Callback)]

BufferTypeOK ==
  /\ arrived \in Nat /\ buffer \in Seq(Nat) /\ returned \in Seq(Nat)
  /\ reading \in ReadState
  /\ callbacks \in Seq(Callback)
  /\ inbound \in InboundState
  /\ misplaced \subseteq 1..arrived /\ dropped \subseteq 1..arrived
  /\ reads \in Nat /\ timeouts \in Nat

\* The channels are new ones, and those who subscribe come in their order.
ChannelsNew ==
  /\ \A i, j \in 1..Len(callbacks) : i < j => callbacks[i].channel < callbacks[j].channel
  /\ \A i \in 1..Len(callbacks) : callbacks[i].channel <= reads
  /\ reading.pc \in {"empty", "subscribing"} =>
       /\ reading.channel = reads
       /\ \A i \in 1..Len(callbacks) : callbacks[i].channel < reads

\* A publication works through all callbacks there are: the bus is held meanwhile.
WorksThrough ==
  /\ inbound.pc = "running" => inbound.left = callbacks /\ callbacks # <<>>
  /\ inbound.pc = "sending" => inbound.left # <<>> /\ callbacks = Tail(inbound.left)

\* A Read holds bytes only while the callback that took them is about to wake it.
HoldsInSending ==
  reading.bytes # <<>> => reading.pc = "waiting" /\ inbound.pc = "sending"

\* As long as no Read has timed out, there is one callback at most, and its Read waits.
Orderly ==
  timeouts = 0 =>
    /\ Len(callbacks) <= 1
    /\ \A i \in 1..Len(callbacks) : Waits(callbacks[i].channel)
    /\ inbound.pc = "sending" => Len(inbound.left) = 1 /\ Waits(Head(inbound.left).channel)
    /\ misplaced = {}

Ascending(s) == \A i, j \in 1..Len(s) : i < j => s[i] < s[j]
Precede(s, t) == \A x \in SetOf(s), y \in SetOf(t) : x < y

\* BytesAccounted, for the three places a byte can be in.
Accounted ==
  /\ Ascending(returned) /\ Ascending(reading.bytes) /\ Ascending(buffer)
  /\ Precede(returned, reading.bytes) /\ Precede(returned, buffer)
  /\ Precede(reading.bytes, buffer)
  /\ SetOf(returned) \cup SetOf(reading.bytes) \cup SetOf(buffer)
       = (1..arrived) \ (misplaced \cup dropped)

BufferInv == BufferTypeOK /\ ChannelsNew /\ WorksThrough /\ HoldsInSending /\ Orderly /\ Accounted

-----------------------------------------------------------------------------
(* Sequences of bytes *)

LEMMA EmptyBytes == SetOf(<<>>) = {} /\ Ascending(<<>>)
BY DEF SetOf, Ascending

LEMMA SetOfIn ==
  ASSUME NEW s \in Seq(Nat)
  PROVE  SetOf(s) \subseteq Nat
BY DEF SetOf

LEMMA TailLeft ==
  ASSUME NEW S, NEW s \in Seq(S), s # <<>>, Len(s) # 1
  PROVE  Tail(s) # <<>>
<1>1. Len(s) \in Nat \ {0} /\ Len(Tail(s)) = Len(s) - 1
  OBVIOUS
<1>2. Len(Tail(s)) # 0
  BY <1>1
<1>3. Len(<<>>) = 0
  OBVIOUS
<1> QED
  BY <1>2, <1>3

LEMMA ConcatSet ==
  ASSUME NEW s \in Seq(Nat), NEW t \in Seq(Nat)
  PROVE  SetOf(s \o t) = SetOf(s) \cup SetOf(t)
<1>1. ASSUME NEW i \in 1..Len(s \o t)
      PROVE  (s \o t)[i] \in SetOf(s) \cup SetOf(t)
  <2>1. CASE i <= Len(s)
    BY <2>1 DEF SetOf
  <2>2. CASE i > Len(s)
    <3>1. i - Len(s) \in 1..Len(t) /\ (s \o t)[i] = t[i - Len(s)]
      BY <2>2
    <3> QED
      BY <3>1 DEF SetOf
  <2> QED
    BY <2>1, <2>2
<1>2. ASSUME NEW i \in 1..Len(s)
      PROVE  s[i] \in SetOf(s \o t)
  <2>1. i \in 1..Len(s \o t) /\ (s \o t)[i] = s[i]
    OBVIOUS
  <2> QED
    BY <2>1 DEF SetOf
<1>3. ASSUME NEW i \in 1..Len(t)
      PROVE  t[i] \in SetOf(s \o t)
  <2>1. Len(s) + i \in 1..Len(s \o t) /\ (s \o t)[Len(s) + i] = t[i]
    OBVIOUS
  <2> QED
    BY <2>1 DEF SetOf
<1>4. SetOf(s \o t) \subseteq SetOf(s) \cup SetOf(t)
  BY <1>1 DEF SetOf
<1>5. SetOf(s) \subseteq SetOf(s \o t) /\ SetOf(t) \subseteq SetOf(s \o t)
  BY <1>2, <1>3 DEF SetOf
<1> QED
  BY <1>4, <1>5

LEMMA ConcatAscending ==
  ASSUME NEW s \in Seq(Nat), NEW t \in Seq(Nat), Ascending(s), Ascending(t), Precede(s, t)
  PROVE  Ascending(s \o t)
<1> SUFFICES ASSUME NEW i \in 1..Len(s \o t), NEW j \in 1..Len(s \o t), i < j
             PROVE  (s \o t)[i] < (s \o t)[j]
  BY DEF Ascending
<1>1. CASE j <= Len(s)
  BY <1>1 DEF Ascending
<1>2. CASE i <= Len(s) /\ j > Len(s)
  <2>1. i \in 1..Len(s) /\ j - Len(s) \in 1..Len(t)
    BY <1>2
  <2>2. (s \o t)[i] = s[i] /\ (s \o t)[j] = t[j - Len(s)]
    BY <1>2, <2>1
  <2> QED
    BY <2>1, <2>2 DEF Precede, SetOf
<1>3. CASE i > Len(s)
  <2>1. i - Len(s) \in 1..Len(t) /\ j - Len(s) \in 1..Len(t) /\ i - Len(s) < j - Len(s)
    BY <1>3
  <2>2. (s \o t)[i] = t[i - Len(s)] /\ (s \o t)[j] = t[j - Len(s)]
    BY <1>3, <2>1
  <2> QED
    BY <2>1, <2>2 DEF Ascending
<1> QED
  BY <1>1, <1>2, <1>3

\* bytes.Buffer.Read splits the buffer.
LEMMA TakenFacts ==
  ASSUME buffer \in Seq(Nat), NEW n \in Nat
  PROVE  /\ Taken(n) \in Seq(Nat) /\ Left(n) \in Seq(Nat)
         /\ SetOf(Taken(n)) \cup SetOf(Left(n)) = SetOf(buffer)
         /\ Ascending(buffer) =>
              Ascending(Taken(n)) /\ Ascending(Left(n)) /\ Precede(Taken(n), Left(n))
<1> DEFINE m == IF n < Len(buffer) THEN n ELSE Len(buffer)
<1>1. m \in 0..Len(buffer)
  OBVIOUS
<1>2. /\ Taken(n) \in Seq(Nat) /\ Len(Taken(n)) = m
      /\ \A i \in 1..m : Taken(n)[i] = buffer[i]
  BY <1>1 DEF Taken
<1>3. /\ Left(n) \in Seq(Nat) /\ Len(Left(n)) = Len(buffer) - m
      /\ \A i \in 1..(Len(buffer) - m) : Left(n)[i] = buffer[m + i]
  <2>1. Left(n) = SubSeq(buffer, m + 1, Len(buffer))
    BY <1>2 DEF Left
  <2> HIDE DEF m
  <2> QED
    BY <1>1, <2>1
<1> HIDE DEF m
<1>4. ASSUME NEW i \in 1..Len(buffer)
      PROVE  buffer[i] \in SetOf(Taken(n)) \cup SetOf(Left(n))
  <2>1. CASE i <= m
    BY <1>1, <1>2, <2>1 DEF SetOf
  <2>2. CASE i > m
    <3>1. i - m \in 1..(Len(buffer) - m) /\ m + (i - m) = i
      BY <1>1, <2>2
    <3> QED
      BY <1>3, <3>1 DEF SetOf
  <2> QED
    BY <1>1, <2>1, <2>2
<1>5. SetOf(Taken(n)) \subseteq SetOf(buffer)
  BY <1>1, <1>2 DEF SetOf
<1>6. ASSUME NEW i \in 1..(Len(buffer) - m)
      PROVE  m + i \in 1..Len(buffer) /\ Left(n)[i] = buffer[m + i]
  BY <1>1, <1>3
<1>7. SetOf(Left(n)) \subseteq SetOf(buffer)
  BY <1>3, <1>6 DEF SetOf
<1>8. SetOf(Taken(n)) \cup SetOf(Left(n)) = SetOf(buffer)
  BY <1>4, <1>5, <1>7 DEF SetOf
<1>9. Ascending(buffer) => Ascending(Taken(n))
  <2>1. \A i \in 1..m : i \in 1..Len(buffer)
    BY <1>1
  <2> QED
    BY <1>2, <2>1 DEF Ascending
<1>10. Ascending(buffer) => Ascending(Left(n))
  <2> SUFFICES ASSUME Ascending(buffer), NEW i \in 1..(Len(buffer) - m),
                      NEW j \in 1..(Len(buffer) - m), i < j
               PROVE  Left(n)[i] < Left(n)[j]
    BY <1>3 DEF Ascending
  <2>1. m + i < m + j
    BY <1>1
  <2> QED
    BY <1>6, <2>1 DEF Ascending
<1>11. Ascending(buffer) => Precede(Taken(n), Left(n))
  <2> SUFFICES ASSUME Ascending(buffer), NEW i \in 1..m, NEW j \in 1..(Len(buffer) - m)
               PROVE  Taken(n)[i] < Left(n)[j]
    BY <1>2, <1>3 DEF Precede, SetOf
  <2>1. i < m + j /\ i \in 1..Len(buffer)
    BY <1>1
  <2> QED
    BY <1>2, <1>6, <2>1 DEF Ascending
<1> QED
  BY <1>2, <1>3, <1>8, <1>9, <1>10, <1>11

-----------------------------------------------------------------------------
(* Each step keeps the invariant *)

LEMMA BufferInitInv == BufferInit => BufferInv
<1> SUFFICES ASSUME BufferInit PROVE BufferInv
  OBVIOUS
<1>1. BufferTypeOK
  BY DEF BufferInit, BufferTypeOK, NotReading, NoInbound, ReadState, InboundState
<1>2. ChannelsNew /\ WorksThrough /\ HoldsInSending /\ Orderly
  BY DEF BufferInit, ChannelsNew, WorksThrough, HoldsInSending, Orderly, NotReading, NoInbound
<1>3. Accounted
  BY EmptyBytes DEF BufferInit, Accounted, Precede, NotReading
<1> QED
  BY <1>1, <1>2, <1>3 DEF BufferInv

\* The callback that runs is the first of those that are subscribed.
LEMMA UnsubscribesFirst ==
  ASSUME BufferInv, inbound.pc = "running"
  PROVE  /\ Unsubscribed(Head(inbound.left)) = Tail(callbacks)
         /\ inbound.left = callbacks /\ callbacks # <<>>
         /\ Head(inbound.left) = callbacks[1] /\ Head(inbound.left) \in Callback
<1>1. callbacks \in Seq(Callback) /\ inbound.left = callbacks /\ callbacks # <<>>
  BY DEF BufferInv, BufferTypeOK, WorksThrough
<1>2. Head(inbound.left) = callbacks[1] /\ 1 \in 1..Len(callbacks) /\ callbacks[1] \in Callback
  BY <1>1
<1> DEFINE k == CHOOSE i \in 1..Len(callbacks) : callbacks[i] = callbacks[1]
<1>3. k \in 1..Len(callbacks) /\ callbacks[k] = callbacks[1]
  BY <1>2
<1> HIDE DEF k
<1>4. k = 1
  <2>1. SUFFICES ASSUME 1 < k PROVE FALSE
    BY <1>3
  <2>2. callbacks[1].channel < callbacks[k].channel /\ callbacks[1].channel \in Nat
    BY <1>2, <1>3, <2>1 DEF BufferInv, ChannelsNew, Callback
  <2> QED
    BY <1>3, <2>2
<1>5. Unsubscribed(Head(inbound.left))
        = SubSeq(callbacks, 1, k - 1) \o SubSeq(callbacks, k + 1, Len(callbacks))
  BY <1>2 DEF Unsubscribed, k
<1>6. Unsubscribed(Head(inbound.left))
        = SubSeq(callbacks, 1, 0) \o SubSeq(callbacks, 2, Len(callbacks))
  BY <1>4, <1>5
<1>7. SubSeq(callbacks, 1, 0) \o SubSeq(callbacks, 2, Len(callbacks)) = Tail(callbacks)
  BY <1>1
<1> QED
  BY <1>1, <1>2, <1>6, <1>7

LEMMA BufferTypeStep ==
  ASSUME BufferInv, BufferNext
  PROVE  BufferTypeOK'
<1> USE BufferAssumption DEF BufferInv, BufferTypeOK, readerVars
<1>1. ASSUME NEW n \in ReadLens, ReadWhatIsThere(n)
      PROVE  BufferTypeOK'
  <2>1. Taken(n) \in Seq(Nat) /\ Left(n) \in Seq(Nat)
    BY TakenFacts
  <2> QED
    BY <1>1, <2>1 DEF ReadWhatIsThere
<1>2. ASSUME NEW n \in ReadLens, FindEmpty(n)
      PROVE  BufferTypeOK'
  <2>1. reading' \in ReadState /\ reads' \in Nat
    BY <1>2 DEF FindEmpty, ReadState
  <2> QED
    BY <1>2, <2>1 DEF FindEmpty
<1>3. CASE ResetEmpty
  <2>1. SetOf(buffer) \subseteq 1..arrived
    BY DEF Accounted
  <2>2. reading' = [reading EXCEPT !.pc = "subscribing"] /\ buffer' = <<>>
    BY <1>3 DEF ResetEmpty
  <2>3. reading' \in ReadState
    BY <2>2 DEF ReadState
  <2> QED
    BY <1>3, <2>1, <2>2, <2>3 DEF ResetEmpty
<1>4. CASE SubscribeOnce
  <2>1. [channel |-> reading.channel, len |-> reading.len] \in Callback
    BY DEF Callback, ReadState
  <2>2. callbacks' \in Seq(Callback) /\ reading' = [reading EXCEPT !.pc = "waiting"]
    BY <1>4, <2>1 DEF SubscribeOnce
  <2>3. reading' \in ReadState
    BY <2>2 DEF ReadState
  <2> QED
    BY <1>4, <2>2, <2>3 DEF SubscribeOnce
<1>5. CASE ReadTimesOut
  <2>1. reading' \in ReadState /\ returned' \in Seq(Nat) /\ timeouts' \in Nat
    BY <1>5 DEF ReadTimesOut, ReadReturns, NotReading, ReadState
  <2> QED
    BY <1>5, <2>1 DEF ReadTimesOut
<1>6. ASSUME NEW n \in MsgLens, InboundWrites(n)
      PROVE  BufferTypeOK'
  <2>1. n \in Nat /\ NewBytes(n) \in Seq(Nat)
    BY DEF NewBytes
  <2>2. buffer' \in Seq(Nat) /\ arrived' \in Nat /\ 1..arrived \subseteq 1..arrived'
    BY <1>6, <2>1 DEF InboundWrites, Written
  <2>3. inbound' \in InboundState
    BY <1>6 DEF InboundWrites, InboundState
  <2>4. UNCHANGED <<reading, reads, timeouts, callbacks, returned, misplaced, dropped>>
    BY <1>6 DEF InboundWrites
  <2> QED
    BY <2>2, <2>3, <2>4
<1>7. CASE Publish
  <2>1. inbound' \in InboundState
    BY <1>7 DEF Publish, NoInbound, InboundState
  <2> QED
    BY <1>7, <2>1 DEF Publish
<1>8. CASE RunCallback
  <2> DEFINE cb == Head(inbound.left)
             bytes == Taken(cb.len)
  <2>1. cb \in Callback /\ callbacks' = Tail(callbacks) /\ callbacks # <<>>
    BY <1>8, UnsubscribesFirst DEF RunCallback
  <2>2. cb.len \in Nat
    BY <2>1 DEF Callback
  <2>3. bytes \in Seq(Nat) /\ Left(cb.len) \in Seq(Nat) /\ SetOf(bytes) \subseteq 1..arrived
    BY <2>2, TakenFacts DEF Accounted
  <2>4. /\ buffer' = Left(cb.len)
        /\ reading' = IF Waits(cb.channel) THEN [reading EXCEPT !.bytes = bytes] ELSE reading
        /\ misplaced' = IF Waits(cb.channel) THEN misplaced ELSE misplaced \cup SetOf(bytes)
        /\ inbound' = [inbound EXCEPT !.pc = "sending"]
        /\ UNCHANGED <<arrived, reads, timeouts, returned, dropped>>
    BY <1>8 DEF RunCallback
  <2> HIDE DEF cb, bytes
  <2>5. reading' \in ReadState /\ inbound' \in InboundState
    BY <2>3, <2>4 DEF ReadState, InboundState
  <2>6. callbacks' \in Seq(Callback)
    BY <2>1
  <2> QED
    BY <2>3, <2>4, <2>5, <2>6
<1>9. CASE WakeReader
  <2>1. inbound.left # <<>> /\ Tail(inbound.left) \in Seq(Callback)
    BY <1>9 DEF WakeReader, WorksThrough, InboundState
  <2>2. reading' \in ReadState /\ inbound' \in InboundState /\ returned' \in Seq(Nat)
    BY <1>9, <2>1 DEF WakeReader, ReadReturns, NotReading, NoInbound, ReadState, InboundState
  <2> QED
    BY <1>9, <2>2 DEF WakeReader
<1> QED
  BY <1>1, <1>2, <1>3, <1>4, <1>5, <1>6, <1>7, <1>8, <1>9 DEF BufferNext

\* The part of the invariant that is about who waits for whom.
WaitInv == ChannelsNew /\ WorksThrough /\ HoldsInSending /\ Orderly

LEMMA WaitStep ==
  ASSUME BufferInv, BufferNext
  PROVE  WaitInv'
<1>0. /\ callbacks \in Seq(Callback) /\ Len(callbacks) \in Nat /\ inbound.left \in Seq(Callback)
      /\ \A i \in 1..Len(callbacks) : callbacks[i].channel \in Nat
  <2>1. callbacks \in Seq(Callback) /\ inbound.left \in Seq(Callback)
    BY DEF BufferInv, BufferTypeOK, InboundState
  <2>2. \A i \in 1..Len(callbacks) : callbacks[i] \in Callback
    BY <2>1
  <2> QED
    BY <2>1, <2>2 DEF Callback
<1> USE DEF BufferInv, BufferTypeOK, readerVars, ReadState, InboundState
<1>1. ASSUME NEW n \in ReadLens, ReadWhatIsThere(n)
      PROVE  WaitInv'
  BY <1>1 DEF ReadWhatIsThere, WaitInv, ChannelsNew, WorksThrough, HoldsInSending, Orderly, Waits
<1>2. ASSUME NEW n \in ReadLens, FindEmpty(n)
      PROVE  WaitInv'
  <2>1. /\ reading.pc = "none" /\ reads' = reads + 1
        /\ reading' = [pc |-> "empty", len |-> n, channel |-> reads + 1, bytes |-> <<>>]
        /\ UNCHANGED <<timeouts, callbacks, inbound, misplaced>>
    BY <1>2 DEF FindEmpty
  <2>2. ChannelsNew'
    <3>1. ChannelsNew /\ reads \in Nat /\ reads' \in Nat
      BY <2>1
    <3>2. reading'.channel = reads'
      BY <2>1
    <3>3. \A i \in 1..Len(callbacks) : callbacks[i].channel < reads'
      BY <1>0, <2>1, <3>1 DEF ChannelsNew
    <3> HIDE DEF BufferInv, BufferTypeOK, readerVars, ReadState, InboundState
    <3> QED
      BY <1>0, <2>1, <3>1, <3>2, <3>3 DEF ChannelsNew
  <2>3. WorksThrough' /\ HoldsInSending'
    BY <2>1 DEF WorksThrough, HoldsInSending
  <2>4. Orderly'
    BY <2>1 DEF Orderly, Waits
  <2> QED
    BY <2>2, <2>3, <2>4 DEF WaitInv
<1>3. CASE ResetEmpty
  BY <1>3 DEF ResetEmpty, WaitInv, ChannelsNew, WorksThrough, HoldsInSending, Orderly, Waits
<1>4. CASE SubscribeOnce
  <2> DEFINE cb == [channel |-> reading.channel, len |-> reading.len]
  <2>1. cb \in Callback /\ cb.channel = reading.channel
    BY DEF Callback
  <2> HIDE DEF cb
  <2>2. /\ reading.pc = "subscribing" /\ reading' = [reading EXCEPT !.pc = "waiting"]
        /\ inbound.pc \notin {"running", "sending"}
        /\ callbacks' = Append(callbacks, cb)
        /\ UNCHANGED <<arrived, buffer, reads, timeouts, inbound, returned, misplaced, dropped>>
    BY <1>4 DEF SubscribeOnce, BusIsFree, cb
  <2>3. /\ Len(callbacks') = Len(callbacks) + 1
        /\ \A i \in 1..Len(callbacks) : callbacks'[i] = callbacks[i]
        /\ callbacks'[Len(callbacks) + 1] = cb
    BY <2>1, <2>2
  <2>4. ChannelsNew'
    <3>1. /\ reading.channel = reads /\ cb.channel = reads
          /\ \A i \in 1..Len(callbacks) : callbacks[i].channel < reads
      BY <2>1, <2>2 DEF ChannelsNew
    <3>2. ASSUME NEW i \in 1..Len(callbacks'), NEW j \in 1..Len(callbacks'), i < j
          PROVE  callbacks'[i].channel < callbacks'[j].channel
      <4>1. CASE j = Len(callbacks) + 1
        <5>1. i \in 1..Len(callbacks)
          BY <1>0, <2>3, <3>2, <4>1
        <5> QED
          BY <2>3, <3>1, <4>1, <5>1
      <4>2. CASE j # Len(callbacks) + 1
        <5>1. i \in 1..Len(callbacks) /\ j \in 1..Len(callbacks)
          BY <1>0, <2>3, <3>2, <4>2
        <5> QED
          BY <2>3, <3>2, <5>1 DEF ChannelsNew
      <4> QED
        BY <4>1, <4>2
    <3>3. ASSUME NEW i \in 1..Len(callbacks')
          PROVE  callbacks'[i].channel <= reads'
      <4>1. CASE i = Len(callbacks) + 1
        BY <2>2, <2>3, <3>1, <4>1
      <4>2. CASE i # Len(callbacks) + 1
        BY <2>2, <2>3, <4>2 DEF ChannelsNew
      <4> QED
        BY <4>1, <4>2
    <3>4. reading'.pc = "waiting"
      BY <2>2
    <3> QED
      BY <3>2, <3>3, <3>4 DEF ChannelsNew
  <2>5. WorksThrough' /\ HoldsInSending'
    BY <2>2 DEF WorksThrough, HoldsInSending
  <2>6. Orderly'
    <3>1. timeouts = 0 => Len(callbacks) = 0
      BY <2>2 DEF Orderly, Waits
    <3> QED
      BY <2>1, <2>2, <2>3, <3>1 DEF Orderly, Waits
  <2> QED
    BY <2>4, <2>5, <2>6 DEF WaitInv
<1>5. CASE ReadTimesOut
  <2>1. /\ reading' = NotReading /\ timeouts' = timeouts + 1
        /\ UNCHANGED <<reads, callbacks, inbound, misplaced>>
    BY <1>5 DEF ReadTimesOut, ReadReturns
  <2>2. ChannelsNew' /\ WorksThrough' /\ HoldsInSending'
    BY <2>1 DEF ChannelsNew, WorksThrough, HoldsInSending, NotReading
  <2>3. Orderly'
    BY <2>1 DEF Orderly
  <2> QED
    BY <2>2, <2>3 DEF WaitInv
<1>6. ASSUME NEW n \in MsgLens, InboundWrites(n)
      PROVE  WaitInv'
  BY <1>6
  DEF InboundWrites, WaitInv, ChannelsNew, WorksThrough, HoldsInSending, Orderly, Waits
<1>7. CASE Publish
  BY <1>7
  DEF Publish, NoInbound, WaitInv, ChannelsNew, WorksThrough, HoldsInSending, Orderly, Waits
<1>8. CASE RunCallback
  <2> DEFINE cb == Head(inbound.left)
             bytes == Taken(cb.len)
  <2>1. /\ cb \in Callback /\ cb = callbacks[1] /\ callbacks' = Tail(callbacks)
        /\ callbacks # <<>> /\ inbound.left = callbacks
    BY <1>8, UnsubscribesFirst DEF RunCallback
  <2>2. /\ inbound.pc = "running"
        /\ reading' = IF Waits(cb.channel) THEN [reading EXCEPT !.bytes = bytes] ELSE reading
        /\ misplaced' = IF Waits(cb.channel) THEN misplaced ELSE misplaced \cup SetOf(bytes)
        /\ inbound' = [inbound EXCEPT !.pc = "sending"]
        /\ UNCHANGED <<reads, timeouts>>
    BY <1>8 DEF RunCallback
  <2>3. Head(inbound'.left) = cb
    BY <2>2
  <2> HIDE DEF cb, bytes
  <2>4. /\ Len(callbacks') = Len(callbacks) - 1
        /\ \A i \in 1..Len(callbacks') : callbacks'[i] = callbacks[i + 1]
                                         /\ i + 1 \in 1..Len(callbacks)
    BY <2>1
  <2>5. ChannelsNew'
    <3>1. ASSUME NEW i \in 1..Len(callbacks'), NEW j \in 1..Len(callbacks'), i < j
          PROVE  callbacks'[i].channel < callbacks'[j].channel
      <4>1. i + 1 < j + 1 /\ i + 1 \in 1..Len(callbacks) /\ j + 1 \in 1..Len(callbacks)
        BY <1>0, <2>4, <3>1
      <4> QED
        BY <2>4, <4>1 DEF ChannelsNew
    <3>2. ASSUME NEW i \in 1..Len(callbacks')
          PROVE  /\ callbacks'[i].channel <= reads
                 /\ reading.pc \in {"empty", "subscribing"} => callbacks'[i].channel < reads
      BY <2>4 DEF ChannelsNew
    <3>3. reading'.pc = reading.pc /\ reading'.channel = reading.channel
      BY <2>2
    <3> QED
      BY <2>2, <3>1, <3>2, <3>3 DEF ChannelsNew
  <2>6. WorksThrough' /\ HoldsInSending'
    BY <2>1, <2>2 DEF WorksThrough, HoldsInSending, Waits
  <2>7. Orderly'
    <3>1. reading'.pc = reading.pc /\ reading'.channel = reading.channel
      BY <2>2
    <3>2. timeouts = 0 =>
            /\ Len(callbacks) = 1 /\ Waits(cb.channel)
            /\ misplaced' = {}
      <4>1. 1 \in 1..Len(callbacks)
        BY <1>0, <2>1
      <4>2. timeouts = 0 => Waits(callbacks[1].channel) /\ Len(callbacks) <= 1 /\ misplaced = {}
        BY <4>1 DEF Orderly
      <4>3. Len(callbacks) <= 1 => Len(callbacks) = 1
        <5>1. \A n \in Nat : 1 \in 1..n /\ n <= 1 => n = 1
          OBVIOUS
        <5>2. Len(callbacks) \in Nat
          BY <1>0
        <5> QED
          BY ONLY <4>1, <5>1, <5>2
      <4> QED
        BY <2>1, <2>2, <4>2, <4>3
    <3>3. timeouts = 0 => Len(callbacks') = 0 /\ Len(inbound'.left) = 1
      <4>1. inbound'.left = callbacks
        BY <2>1, <2>2
      <4>2. Len(callbacks) = 1 => Len(callbacks') = 0
        BY <2>4
      <4> QED
        BY <3>2, <4>1, <4>2
    <3>4. timeouts = 0 => Waits(Head(inbound.left).channel)'
      BY <2>3, <3>1, <3>2 DEF Waits
    <3> QED
      BY <2>2, <3>2, <3>3, <3>4 DEF Orderly
  <2> QED
    BY <2>5, <2>6, <2>7 DEF WaitInv
<1>9. CASE WakeReader
  <2>1. /\ inbound.left # <<>> /\ callbacks = Tail(inbound.left) /\ inbound.pc = "sending"
        /\ Waits(Head(inbound.left).channel) /\ reading' = NotReading
        /\ inbound' = IF Len(inbound.left) = 1 THEN NoInbound
                                               ELSE [pc |-> "running", left |-> Tail(inbound.left)]
        /\ UNCHANGED <<reads, timeouts, callbacks, misplaced>>
    BY <1>9 DEF WakeReader, ReadReturns, WorksThrough
  <2>2. ChannelsNew' /\ HoldsInSending'
    BY <2>1 DEF ChannelsNew, HoldsInSending, NotReading
  <2>3. WorksThrough'
    <3>1. Len(inbound.left) # 1 => Tail(inbound.left) # <<>>
      BY <1>0, <2>1, TailLeft
    <3> QED
      BY <2>1, <3>1 DEF WorksThrough, NoInbound
  <2>4. Orderly'
    BY <2>1 DEF Orderly, NoInbound, NotReading
  <2> QED
    BY <2>2, <2>3, <2>4 DEF WaitInv
<1> QED
  BY <1>1, <1>2, <1>3, <1>4, <1>5, <1>6, <1>7, <1>8, <1>9 DEF BufferNext

\* A Read returns the bytes its callback took: they pass from one place to the next.
LEMMA ReturnAccounted ==
  ASSUME BufferInv, ReadReturns(reading.bytes),
         UNCHANGED <<arrived, buffer, misplaced, dropped>>
  PROVE  Accounted'
<1>1. /\ returned \in Seq(Nat) /\ reading.bytes \in Seq(Nat) /\ buffer \in Seq(Nat)
      /\ returned' = returned \o reading.bytes /\ reading'.bytes = <<>>
  BY DEF BufferInv, BufferTypeOK, ReadState, ReadReturns, NotReading
<1>2. SetOf(returned') = SetOf(returned) \cup SetOf(reading.bytes) /\ Ascending(returned')
  BY <1>1, ConcatSet, ConcatAscending DEF BufferInv, Accounted
<1>3. SetOf(reading'.bytes) = {} /\ Ascending(reading'.bytes)
  BY <1>1, EmptyBytes
<1>4. UNCHANGED <<arrived, buffer, misplaced, dropped>>
  OBVIOUS
<1>5. Precede(returned', reading'.bytes) /\ Precede(reading'.bytes, buffer')
  BY <1>3 DEF Precede
<1>6. Precede(returned', buffer')
  BY <1>2, <1>4 DEF Precede, BufferInv, Accounted
<1> QED
  BY <1>2, <1>3, <1>4, <1>5, <1>6 DEF BufferInv, Accounted

LEMMA AccountedStep ==
  ASSUME BufferInv, BufferNext
  PROVE  Accounted'
<1>0. /\ buffer \in Seq(Nat) /\ returned \in Seq(Nat) /\ reading.bytes \in Seq(Nat)
      /\ arrived \in Nat /\ misplaced \subseteq 1..arrived /\ dropped \subseteq 1..arrived
  BY DEF BufferInv, BufferTypeOK, ReadState
<1>1. ASSUME NEW n \in ReadLens, ReadWhatIsThere(n)
      PROVE  Accounted'
  <2>1. /\ reading.bytes = <<>> /\ returned' = returned \o Taken(n) /\ buffer' = Left(n)
        /\ UNCHANGED <<arrived, reading, misplaced, dropped>>
    BY <1>1 DEF ReadWhatIsThere, BufferInv, HoldsInSending, readerVars
  <2>2. /\ Taken(n) \in Seq(Nat) /\ Left(n) \in Seq(Nat)
        /\ SetOf(Taken(n)) \cup SetOf(Left(n)) = SetOf(buffer)
        /\ Ascending(Taken(n)) /\ Ascending(Left(n)) /\ Precede(Taken(n), Left(n))
    BY <1>0, TakenFacts, BufferAssumption DEF BufferInv, Accounted
  <2>3. Precede(returned, Taken(n)) /\ Precede(returned, Left(n))
    BY <2>2 DEF BufferInv, Accounted, Precede
  <2>4. SetOf(returned') = SetOf(returned) \cup SetOf(Taken(n)) /\ Ascending(returned')
    BY <1>0, <2>1, <2>2, <2>3, ConcatSet, ConcatAscending DEF BufferInv, Accounted
  <2>5. SetOf(reading.bytes) = {}
    BY <2>1, EmptyBytes
  <2>6. /\ Precede(returned', reading.bytes) /\ Precede(returned', buffer')
        /\ Precede(reading.bytes, buffer')
    BY <2>1, <2>2, <2>3, <2>4, <2>5 DEF Precede
  <2> QED
    BY <2>1, <2>2, <2>4, <2>5, <2>6 DEF BufferInv, Accounted
<1>2. ASSUME NEW n \in ReadLens, FindEmpty(n)
      PROVE  Accounted'
  <2>1. reading.bytes = <<>> /\ reading'.bytes = <<>>
    BY <1>2 DEF FindEmpty, BufferInv, HoldsInSending
  <2>2. UNCHANGED <<arrived, buffer, returned, misplaced, dropped>>
    BY <1>2 DEF FindEmpty
  <2> QED
    BY <2>1, <2>2 DEF BufferInv, Accounted, Precede
<1>3. CASE ResetEmpty
  <2>1. /\ buffer' = <<>> /\ dropped' = dropped \cup SetOf(buffer)
        /\ UNCHANGED <<arrived, returned, misplaced>>
    BY <1>3 DEF ResetEmpty
  <2>2. reading'.bytes = reading.bytes
    BY <1>3 DEF ResetEmpty, BufferInv, BufferTypeOK, ReadState
  <2>3. SetOf(buffer') = {} /\ Ascending(buffer')
    BY <2>1, EmptyBytes
  <2>4. \A x \in SetOf(returned) \cup SetOf(reading.bytes) : x \notin SetOf(buffer)
    <3>1. SetOf(buffer) \subseteq Nat
      BY <1>0, SetOfIn
    <3> QED
      BY <3>1 DEF BufferInv, Accounted, Precede
  <2>5. SetOf(returned) \cup SetOf(reading.bytes)
          = (1..arrived) \ (misplaced \cup dropped \cup SetOf(buffer))
    BY <2>4 DEF BufferInv, Accounted
  <2> QED
    BY <2>1, <2>2, <2>3, <2>5 DEF BufferInv, Accounted, Precede
<1>4. CASE SubscribeOnce
  <2>1. reading'.bytes = reading.bytes
    BY <1>4 DEF SubscribeOnce, BufferInv, BufferTypeOK, ReadState
  <2> QED
    BY <1>4, <2>1 DEF SubscribeOnce, BufferInv, Accounted, Precede
<1>5. CASE ReadTimesOut
  BY <1>5, ReturnAccounted DEF ReadTimesOut
<1>6. ASSUME NEW n \in MsgLens, InboundWrites(n)
      PROVE  Accounted'
  <2>1. /\ buffer' = buffer \o NewBytes(n) /\ arrived' = arrived + n
        /\ UNCHANGED <<reading, returned, misplaced, dropped>>
    BY <1>6 DEF InboundWrites, Written, readerVars
  <2>2. n \in Nat
    BY BufferAssumption
  <2>3. /\ NewBytes(n) \in Seq(Nat) /\ Len(NewBytes(n)) = n
        /\ \A i \in 1..n : NewBytes(n)[i] = arrived + i
    BY <1>0, <2>2 DEF NewBytes
  <2>4. Ascending(NewBytes(n))
    BY <1>0, <2>2, <2>3 DEF Ascending
  <2>5. SetOf(NewBytes(n)) = (arrived + 1)..(arrived + n)
    <3>1. SetOf(NewBytes(n)) = {arrived + i : i \in 1..n}
      BY <2>3 DEF SetOf
    <3>2. ASSUME NEW x \in (arrived + 1)..(arrived + n)
          PROVE  x \in {arrived + i : i \in 1..n}
      <4>1. x - arrived \in 1..n /\ x = arrived + (x - arrived)
        BY <1>0, <2>2
      <4> QED
        BY <4>1
    <3>3. ASSUME NEW i \in 1..n
          PROVE  arrived + i \in (arrived + 1)..(arrived + n)
      BY <1>0, <2>2
    <3> QED
      BY <3>1, <3>2, <3>3
  <2>6. SetOf(buffer) \subseteq 1..arrived /\ SetOf(returned) \subseteq 1..arrived
        /\ SetOf(reading.bytes) \subseteq 1..arrived
    BY DEF BufferInv, Accounted
  <2>7. \A x \in 1..arrived, y \in (arrived + 1)..(arrived + n) : x < y
    BY <1>0, <2>2
  <2>8. /\ Precede(buffer, NewBytes(n)) /\ Precede(returned, NewBytes(n))
        /\ Precede(reading.bytes, NewBytes(n))
    BY <2>5, <2>6, <2>7 DEF Precede
  <2>9. SetOf(buffer') = SetOf(buffer) \cup ((arrived + 1)..(arrived + n)) /\ Ascending(buffer')
    BY <1>0, <2>1, <2>3, <2>4, <2>5, <2>8, ConcatSet, ConcatAscending DEF BufferInv, Accounted
  <2>10. /\ 1..arrived' = (1..arrived) \cup ((arrived + 1)..(arrived + n))
         /\ \A x \in (arrived + 1)..(arrived + n) : x \notin misplaced \cup dropped
    BY <1>0, <2>1, <2>2
  <2>11. Precede(returned, buffer') /\ Precede(reading.bytes, buffer')
    BY <2>5, <2>8, <2>9 DEF Precede, BufferInv, Accounted
  <2>12. SetOf(returned) \cup SetOf(reading.bytes) \cup SetOf(buffer')
          = (1..arrived') \ (misplaced \cup dropped)
    BY <2>9, <2>10 DEF BufferInv, Accounted
  <2> QED
    BY <2>1, <2>9, <2>11, <2>12 DEF BufferInv, Accounted
<1>7. CASE Publish
  BY <1>7 DEF Publish, BufferInv, Accounted, Precede, readerVars
<1>8. CASE RunCallback
  <2> DEFINE cb == Head(inbound.left)
             bytes == Taken(cb.len)
  <2>1. reading.bytes = <<>>
    BY <1>8 DEF RunCallback, BufferInv, HoldsInSending
  <2>2. cb.len \in Nat
    BY <1>8, UnsubscribesFirst DEF RunCallback, Callback
  <2>3. /\ bytes \in Seq(Nat) /\ Left(cb.len) \in Seq(Nat)
        /\ SetOf(bytes) \cup SetOf(Left(cb.len)) = SetOf(buffer)
        /\ Ascending(bytes) /\ Ascending(Left(cb.len)) /\ Precede(bytes, Left(cb.len))
    BY <1>0, <2>2, TakenFacts DEF BufferInv, Accounted
  <2>4. /\ buffer' = Left(cb.len)
        /\ UNCHANGED <<arrived, returned, dropped>>
    BY <1>8 DEF RunCallback
  <2>5. CASE Waits(cb.channel)
    <3>1. reading'.bytes = bytes /\ UNCHANGED misplaced
      BY <1>8, <2>5 DEF RunCallback, BufferInv, BufferTypeOK, ReadState
    <3> HIDE DEF bytes, cb
    <3>2. /\ SetOf(reading'.bytes) \cup SetOf(buffer') = SetOf(buffer)
          /\ Ascending(reading'.bytes) /\ Ascending(buffer') /\ Precede(reading'.bytes, buffer')
      BY <2>3, <2>4, <3>1
    <3>3. Precede(returned, reading'.bytes) /\ Precede(returned, buffer')
      BY <3>2 DEF BufferInv, Accounted, Precede
    <3>4. SetOf(reading.bytes) = {}
      BY <2>1, EmptyBytes
    <3> QED
      BY <2>4, <3>1, <3>2, <3>3, <3>4 DEF BufferInv, Accounted
  <2>6. CASE ~ Waits(cb.channel)
    <3>1. UNCHANGED reading /\ misplaced' = misplaced \cup SetOf(bytes)
      BY <1>8, <2>6 DEF RunCallback
    <3> HIDE DEF bytes, cb
    <3>2. /\ SetOf(bytes) \cup SetOf(buffer') = SetOf(buffer)
          /\ Ascending(buffer') /\ Precede(bytes, buffer') /\ SetOf(bytes) \subseteq Nat
      BY <2>3, <2>4, SetOfIn
    <3>3. SetOf(reading.bytes) = {}
      BY <2>1, EmptyBytes
    <3>4. Precede(returned, bytes) /\ Precede(returned, buffer')
      BY <3>2 DEF BufferInv, Accounted, Precede
    <3>5. \A x \in SetOf(returned) \cup SetOf(buffer') : x \notin SetOf(bytes)
      BY <3>2, <3>4 DEF Precede
    <3>6. SetOf(returned) \cup SetOf(buffer')
            = (1..arrived) \ (misplaced \cup SetOf(bytes) \cup dropped)
      BY <3>2, <3>3, <3>5 DEF BufferInv, Accounted
    <3>7. Precede(returned, reading.bytes) /\ Precede(reading.bytes, buffer')
      BY <3>3 DEF Precede
    <3> QED
      BY <2>4, <3>1, <3>2, <3>3, <3>4, <3>6, <3>7 DEF BufferInv, Accounted
  <2> QED
    BY <2>5, <2>6
<1>9. CASE WakeReader
  BY <1>9, ReturnAccounted DEF WakeReader
<1> QED
  BY <1>1, <1>2, <1>3, <1>4, <1>5, <1>6, <1>7, <1>8, <1>9 DEF BufferNext

LEMMA BufferStep ==
  ASSUME BufferInv, [BufferNext]_bufferVars
  PROVE  BufferInv'
<1>1. CASE BufferNext
  BY <1>1, BufferTypeStep, WaitStep, AccountedStep DEF BufferInv, WaitInv
<1>2. CASE UNCHANGED bufferVars
  BY <1>2
  DEF bufferVars, readerVars, BufferInv, BufferTypeOK, ChannelsNew, WorksThrough, HoldsInSending,
      Orderly, Waits, Accounted
<1> QED
  BY <1>1, <1>2

-----------------------------------------------------------------------------
(* The theorems *)

\* However messages and Reads interleave: as long as no Read has timed out, no
\* callback holds up the reader of the relay stream (SafeBuffer.Read, InboundMsg).
THEOREM OrderlyReadsWake == BufferSpec => []StuckOnlyAfterTimeout
<1>1. BufferInv => StuckOnlyAfterTimeout
  BY DEF BufferInv, BufferTypeOK, StuckOnlyAfterTimeout, Stuck, Orderly
<1> QED
  BY <1>1, BufferInitInv, BufferStep, PTL DEF BufferSpec

\* Every byte that arrived is kept in order and once, or is among those that a
\* callback took for a Read that had given up, or that a reset took away.
THEOREM BytesKept == BufferSpec => []BytesAccounted
<1>1. BufferInv => BytesAccounted
  <2> SUFFICES ASSUME BufferInv PROVE BytesAccounted
    OBVIOUS
  <2> DEFINE kept == (returned \o reading.bytes) \o buffer
  <2>1. /\ buffer \in Seq(Nat) /\ returned \in Seq(Nat) /\ reading.bytes \in Seq(Nat)
        /\ returned \o reading.bytes \in Seq(Nat)
    BY DEF BufferInv, BufferTypeOK, ReadState
  <2>2. /\ SetOf(returned \o reading.bytes) = SetOf(returned) \cup SetOf(reading.bytes)
        /\ Ascending(returned \o reading.bytes)
    BY <2>1, ConcatSet, ConcatAscending DEF BufferInv, Accounted
  <2>3. Precede(returned \o reading.bytes, buffer)
    BY <2>2 DEF Precede, BufferInv, Accounted
  <2>4. SetOf(kept) = SetOf(returned) \cup SetOf(reading.bytes) \cup SetOf(buffer)
    BY <2>1, <2>2, ConcatSet
  <2>5. Ascending(kept)
    BY <2>1, <2>2, <2>3, ConcatAscending DEF BufferInv, Accounted
  <2>6. misplaced # {} => timeouts > 0
    BY DEF BufferInv, BufferTypeOK, Orderly
  <2> QED
    BY <2>4, <2>5, <2>6 DEF BytesAccounted, Ascending, BufferInv, Accounted
<1> QED
  BY <1>1, BufferInitInv, BufferStep, PTL DEF BufferSpec
=============================================================================
