--------------------------- MODULE CircuitBuffer ---------------------------
(***************************************************************************)
(* The receiving side of a CircuitConn (protocol/relay/connection.go): the *)
(* reader of the relay stream puts messages into the SafeBuffer, and a     *)
(* goroutine at a time, that of the handshake or of the secure session,    *)
(* reads from it.  A Read that finds the buffer empty leaves a callback    *)
(* at the event bus, and the next message runs it.                         *)
(*                                                                         *)
(* A byte is represented by its position among all that arrived.           *)
(*                                                                         *)
(* SafeBuffer does not take its lock.  Of the outcomes of that race the    *)
(* one with the widest window is modelled: a Read that has found the       *)
(* buffer empty resets it, with what has arrived in between.               *)
(***************************************************************************)
EXTENDS Naturals, Sequences

CONSTANTS
  MsgLens,    \* the lengths of inbound messages
  ReadLens,   \* the lengths of the slices given to Read
  MaxInbound, \* bound on the bytes that arrive
  MaxReads,   \* bound on the Reads that have to wait
  MaxTimeouts \* bound on the Reads that time out

ASSUME BufferAssumption ==
  /\ MsgLens \subseteq Nat \ {0} /\ ReadLens \subseteq Nat \ {0}
  /\ MaxInbound \in Nat /\ MaxReads \in Nat /\ MaxTimeouts \in Nat

VARIABLES
  arrived,   \* the number of bytes that have arrived
  buffer,    \* those of them that nobody has taken
  reading,   \* the Read under way: what it does, its slice's length, its channel
  callbacks, \* the callbacks subscribed to NonEmptyTopic, in their order
  inbound,   \* the InboundMsg under way: what it does, and the callbacks to run
  returned,  \* the bytes that Reads have returned, in order
  misplaced, \* the bytes a callback took for a Read that had given up
  dropped,   \* the bytes a reset of the buffer took away
  reads,     \* the number of Reads so far that had to wait
  timeouts   \* the number of those that timed out

readerVars == <<reading, reads, timeouts>>
bufferVars == <<arrived, buffer, readerVars, callbacks, inbound, returned, misplaced, dropped>>

NotReading == [pc |-> "none", len |-> 0, channel |-> 0, bytes |-> <<>>]
NoInbound == [pc |-> "none", left |-> <<>>]

BufferInit ==
  /\ arrived = 0 /\ buffer = <<>>
  /\ reading = NotReading /\ callbacks = <<>> /\ inbound = NoInbound
  /\ returned = <<>> /\ misplaced = {} /\ dropped = {}
  /\ reads = 0 /\ timeouts = 0

\* What bytes.Buffer.Read gives for a slice of n bytes, and what it leaves.
Taken(n) == SubSeq(buffer, 1, IF n < Len(buffer) THEN n ELSE Len(buffer))
Left(n) == SubSeq(buffer, Len(Taken(n)) + 1, Len(buffer))

SetOf(bytes) == {bytes[i] : i \in 1..Len(bytes)}

-----------------------------------------------------------------------------
(* SafeBuffer.Read *)

ReadWhatIsThere(n) ==
  /\ reading.pc = "none"
  /\ buffer # <<>>
  /\ returned' = returned \o Taken(n)
  /\ buffer' = Left(n)
  /\ UNCHANGED <<arrived, readerVars, callbacks, inbound, misplaced, dropped>>

\* The channel of the Read's wait is a new one.
FindEmpty(n) ==
  /\ reading.pc = "none" /\ reads < MaxReads
  /\ buffer = <<>>
  /\ reading' = [pc |-> "empty", len |-> n, channel |-> reads + 1, bytes |-> <<>>]
  /\ reads' = reads + 1
  /\ UNCHANGED <<arrived, buffer, timeouts, callbacks, inbound, returned, misplaced,
                 dropped>>

ResetEmpty ==
  /\ reading.pc = "empty"
  /\ reading' = [reading EXCEPT !.pc = "subscribing"]
  /\ buffer' = <<>>
  /\ dropped' = dropped \cup SetOf(buffer)
  /\ UNCHANGED <<arrived, reads, timeouts, callbacks, inbound, returned, misplaced>>

\* The event bus keeps its lock while it runs callbacks.
BusIsFree == inbound.pc \notin {"running", "sending"}

\* Mutant: the callback is not removed when it has run (Subscribe).
StaysSubscribed(cb) == callbacks

\* SubscribeOnce: the bus finds a callback and removes it before it runs it.
Unsubscribed(cb) ==
  LET k == CHOOSE i \in 1..Len(callbacks) : callbacks[i] = cb
  IN  SubSeq(callbacks, 1, k - 1) \o SubSeq(callbacks, k + 1, Len(callbacks))

SubscribeOnce ==
  /\ reading.pc = "subscribing" /\ BusIsFree
  /\ reading' = [reading EXCEPT !.pc = "waiting"]
  /\ callbacks' = Append(callbacks, [channel |-> reading.channel, len |-> reading.len])
  /\ UNCHANGED <<arrived, buffer, reads, timeouts, inbound, returned, misplaced, dropped>>

ReadReturns(bytes) ==
  /\ reading' = NotReading
  /\ returned' = returned \o bytes

\* The Read returns what its callback may have left in n; the callback stays.
ReadTimesOut ==
  /\ reading.pc = "waiting" /\ timeouts < MaxTimeouts
  /\ timeouts' = timeouts + 1
  /\ ReadReturns(reading.bytes)
  /\ UNCHANGED <<arrived, buffer, reads, callbacks, inbound, misplaced, dropped>>

-----------------------------------------------------------------------------
(* CircuitConn.InboundMsg *)

NewBytes(n) == [i \in 1..n |-> arrived + i]

\* Mutant: a message takes the place of what was not read.
Overwritten(n) == NewBytes(n)

Written(n) == buffer \o NewBytes(n)

InboundWrites(n) ==
  /\ inbound.pc = "none" /\ arrived + n <= MaxInbound
  /\ buffer' = Written(n)
  /\ arrived' = arrived + n
  /\ inbound' = [inbound EXCEPT !.pc = "written"]
  /\ UNCHANGED <<readerVars, callbacks, returned, misplaced, dropped>>

\* Publish works through the callbacks that are subscribed when it starts.
Publish ==
  /\ inbound.pc = "written"
  /\ inbound' = IF callbacks = <<>> THEN NoInbound
                                    ELSE [pc |-> "running", left |-> callbacks]
  /\ UNCHANGED <<arrived, buffer, readerVars, callbacks, returned, misplaced, dropped>>

Waits(channel) == reading.pc = "waiting" /\ reading.channel = channel

\* The callback takes bytes into the slice of its Read, be it there or not.
RunCallback ==
  /\ inbound.pc = "running"
  /\ LET cb == Head(inbound.left)
         bytes == Taken(cb.len)
     IN  /\ callbacks' = Unsubscribed(cb)
         /\ buffer' = Left(cb.len)
         /\ reading' = IF Waits(cb.channel) THEN [reading EXCEPT !.bytes = bytes] ELSE reading
         /\ misplaced' = IF Waits(cb.channel) THEN misplaced ELSE misplaced \cup SetOf(bytes)
  /\ inbound' = [inbound EXCEPT !.pc = "sending"]
  /\ UNCHANGED <<arrived, reads, timeouts, returned, dropped>>

\* The callback's send on the Read's channel needs the Read to receive it.
WakeReader ==
  /\ inbound.pc = "sending" /\ Waits(Head(inbound.left).channel)
  /\ ReadReturns(reading.bytes)
  /\ inbound' = IF Len(inbound.left) = 1 THEN NoInbound
                                         ELSE [pc |-> "running", left |-> Tail(inbound.left)]
  /\ UNCHANGED <<arrived, buffer, reads, timeouts, callbacks, misplaced, dropped>>

-----------------------------------------------------------------------------

BufferNext ==
  \/ \E n \in ReadLens : ReadWhatIsThere(n) \/ FindEmpty(n)
  \/ ResetEmpty \/ SubscribeOnce \/ ReadTimesOut
  \/ \E n \in MsgLens : InboundWrites(n)
  \/ Publish \/ RunCallback \/ WakeReader

BufferSpec == BufferInit /\ [][BufferNext]_bufferVars

-----------------------------------------------------------------------------
(* Properties *)

Stuck == inbound.pc = "sending" /\ ~ Waits(Head(inbound.left).channel)

\* The reader of a relay stream is held up by a callback only as long as the Read
\* that left it is there to be woken, and with it the event bus: InboundMsg
\* returns, and the stream's next message is read.
NeverStuck == ~ Stuck

\* Only a Read that timed out leaves a callback behind that nobody waits for:
\* as long as none has, no message holds up the reader of the stream.
StuckOnlyAfterTimeout == Stuck => timeouts > 0

\* Every byte that arrived is in the buffer, on its way to a Read that will return
\* it, or was returned, in order and once, unless a callback that outlived its
\* Read took it or an unlocked reset of the buffer did (SafeBuffer.Read, Write and
\* the callback).
BytesAccounted ==
  LET kept == returned \o reading.bytes \o buffer
  IN  /\ \A i, j \in 1..Len(kept) : i < j => kept[i] < kept[j]
      /\ SetOf(kept) = (1..arrived) \ (misplaced \cup dropped)
      /\ misplaced # {} => timeouts > 0
=============================================================================
