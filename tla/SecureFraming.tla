--------------------------- MODULE SecureFraming ---------------------------
(***************************************************************************)
(* An established SecureSession (secure/rw.go) as a byte stream: Write     *)
(* cuts what it is given into encrypted frames with a 16-bit length, Read  *)
(* takes frames apart for buffers of any size, and keeps in qbuf what did  *)
(* not fit.  Several goroutines may write, and several may read.           *)
(*                                                                         *)
(* A byte is represented by its position in the order of the Write calls,  *)
(* a frame by its length field and the bytes it encrypts.                  *)
(*                                                                         *)
(* The CircuitConn underneath is a queue of whole frames: each is one      *)
(* relay message, and the relay layer keeps the order.  A Read that is     *)
(* abandoned while that queue is empty (SafeBuffer's readTimeout) is not   *)
(* part of this module.                                                    *)
(***************************************************************************)
EXTENDS Naturals, Sequences

CONSTANTS
  Writer, Reader,        \* the goroutines that call Write, and Read
  NoOne,                 \* the lock is free
  MaxTransportMsgLength, \* the largest length the field can hold
  TagSize,               \* what encryption adds to a frame
  Totals,                \* the lengths of data given to Write
  BufLens,               \* the lengths of buffers given to Read
  MaxBytes               \* bound on the bytes written

ASSUME FramingAssumption ==
  /\ NoOne \notin Writer \cup Reader
  /\ TagSize \in Nat /\ MaxTransportMsgLength \in Nat
  /\ TagSize < MaxTransportMsgLength
  /\ Totals \subseteq Nat /\ BufLens \subseteq Nat \ {0} /\ MaxBytes \in Nat

MaxPlaintextLength == MaxTransportMsgLength - TagSize

VARIABLES
  writeLock, readLock, \* who holds them
  todo,      \* for each writer, the bytes of its Write not yet sent
  given,     \* the number of bytes all Writes so far were given
  sent,      \* the number of bytes in the frames sent so far
  insecure,  \* the frames the CircuitConn has yet to deliver
  open,      \* whether the CircuitConn is open
  buf,       \* for each reader, the length of its buffer
  qbuf,      \* the bytes of the last frame that was too long for its buffer
  qseek,     \* how many of them were read
  got,       \* the bytes that Read has returned, in order
  failed     \* whether a frame could not be decrypted

framingVars == <<writeLock, readLock, todo, given, sent, insecure, open, buf, qbuf, qseek, got,
          failed>>
writeVars == <<writeLock, todo, given, sent>>
readVars == <<readLock, buf, qbuf, qseek, got, failed>>

Min2(a, b) == IF a < b THEN a ELSE b
First(s, n) == SubSeq(s, 1, Min2(n, Len(s)))
From(s, n) == SubSeq(s, n + 1, Len(s))

FramingInit ==
  /\ writeLock = NoOne /\ readLock = NoOne
  /\ todo = [w \in Writer |-> <<>>]
  /\ given = 0 /\ sent = 0
  /\ insecure = <<>> /\ open = TRUE
  /\ buf = [r \in Reader |-> 0]
  /\ qbuf = <<>> /\ qseek = 0
  /\ got = <<>> /\ failed = FALSE

-----------------------------------------------------------------------------
(* Write *)

\* Mutant: the lock is not taken.
StartUnlocked(w) ==
  /\ todo[w] = <<>>
  /\ UNCHANGED writeLock

TakeWriteLock(w) ==
  /\ writeLock = NoOne
  /\ writeLock' = w

StartWrite(w) ==
  /\ TakeWriteLock(w)
  /\ \E total \in Totals :
       /\ given + total <= MaxBytes
       /\ todo' = [todo EXCEPT ![w] = [i \in 1..total |-> given + i]]
       /\ given' = given + total
  /\ UNCHANGED <<sent, insecure, open, readVars>>

\* Mutant: no room is left for the tag.
WithoutTag(data) == First(data, MaxTransportMsgLength)

\* The plaintext of the next frame: at most MaxPlaintextLength bytes.
NextFrame(data) == First(data, MaxPlaintextLength)

\* The length field holds 16 bits, MaxTransportMsgLength being all ones.
LengthField(plain) == (Len(plain) + TagSize) % (MaxTransportMsgLength + 1)

WriteFrame(w) ==
  /\ todo[w] # <<>>
  /\ open
  /\ LET plain == NextFrame(todo[w])
     IN  /\ insecure' = Append(insecure, [len |-> LengthField(plain), plain |-> plain])
         /\ todo' = [todo EXCEPT ![w] = From(@, Len(plain))]
         /\ sent' = sent + Len(plain)
  /\ UNCHANGED <<writeLock, given, open, readVars>>

\* All is written, or the CircuitConn refuses a frame.
EndWrite(w) ==
  /\ writeLock = w
  /\ todo[w] = <<>> \/ ~ open
  /\ writeLock' = NoOne
  /\ todo' = [todo EXCEPT ![w] = <<>>]
  /\ UNCHANGED <<given, sent, insecure, open, readVars>>

-----------------------------------------------------------------------------
(* Read *)

StartRead(r) ==
  /\ readLock = NoOne
  /\ readLock' = r
  /\ \E n \in BufLens : buf' = [buf EXCEPT ![r] = n]
  /\ UNCHANGED <<writeVars, insecure, open, qbuf, qseek, got, failed>>

Returns(bytes) ==
  /\ got' = got \o bytes
  /\ readLock' = NoOne

\* Mutant: the queue is read from its start again.
UnreadAgain == qbuf

Unread == From(qbuf, qseek)

QueueRead(seek) == seek = Len(qbuf)

\* What is left of the last frame comes first.  (A frame that just fitted leaves
\* an exhausted queue, and the next Read returns nothing.)
ReadQueue(r) ==
  /\ readLock = r
  /\ qbuf # <<>>
  /\ LET bytes == First(Unread, buf[r])
         seek == qseek + Len(bytes)
     IN  /\ Returns(bytes)
         /\ IF QueueRead(seek) THEN qbuf' = <<>> /\ qseek' = 0
                               ELSE qbuf' = qbuf /\ qseek' = seek
  /\ UNCHANGED <<writeVars, insecure, open, buf, failed>>

\* A frame whose length field is wrong cannot be decrypted, nor anything after it.
Decrypts(f) == f.len = Len(f.plain) + TagSize

\* The next frame goes to the buffer if it fits with its tag, else to the queue.
ReadFrame(r) ==
  /\ readLock = r
  /\ qbuf = <<>> /\ insecure # <<>> /\ ~ failed
  /\ LET f == Head(insecure)
     IN  /\ insecure' = Tail(insecure)
         /\ IF ~ Decrypts(f)
              THEN Returns(<<>>) /\ failed' = TRUE /\ UNCHANGED <<qbuf, qseek>>
              ELSE IF buf[r] >= f.len
                THEN Returns(f.plain) /\ UNCHANGED <<qbuf, qseek, failed>>
                ELSE LET bytes == First(f.plain, buf[r])
                     IN  /\ Returns(bytes)
                         /\ qbuf' = f.plain
                         /\ qseek' = Len(bytes)
                         /\ UNCHANGED failed
  /\ UNCHANGED <<writeVars, open, buf>>

\* Nothing more can come: Read returns an error.
ReadFails(r) ==
  /\ readLock = r
  /\ qbuf = <<>>
  /\ failed \/ (~ open /\ insecure = <<>>)
  /\ readLock' = NoOne
  /\ UNCHANGED <<writeVars, insecure, open, buf, qbuf, qseek, got, failed>>

-----------------------------------------------------------------------------

\* The circuit is closed: what was under way may be lost, from some frame on.
Close ==
  /\ open
  /\ open' = FALSE
  /\ \E k \in 0..Len(insecure) : insecure' = SubSeq(insecure, 1, k)
  /\ UNCHANGED <<writeVars, readVars>>

FramingNext ==
  \/ \E w \in Writer : StartWrite(w) \/ WriteFrame(w) \/ EndWrite(w)
  \/ \E r \in Reader : StartRead(r) \/ ReadQueue(r) \/ ReadFrame(r) \/ ReadFails(r)
  \/ Close

FramingSpec == FramingInit /\ [][FramingNext]_framingVars

-----------------------------------------------------------------------------
(* Properties *)

Consecutive(bytes, after) == \A i \in 1..Len(bytes) : bytes[i] = after + i

\* What was read, what is queued and what is under way are together the bytes
\* that were sent, each once and in the order of the Write calls, for every
\* buffer length and with writers and readers that compete (Write, Read; the
\* locks, the frames' ends and qseek together).  Once the circuit is closed some
\* of the last ones may be missing.
StreamIntact ==
  LET rest == From(qbuf, qseek)
      before(i) == IF i = 1 THEN Len(got) + Len(rest)
                            ELSE insecure[i - 1].plain[Len(insecure[i - 1].plain)]
      all == before(Len(insecure) + 1)
  IN  /\ Consecutive(got, 0)
      /\ Consecutive(rest, Len(got))
      /\ \A i \in 1..Len(insecure) :
           insecure[i].plain # <<>> /\ Consecutive(insecure[i].plain, before(i))
      /\ all <= sent
      /\ open /\ ~ failed => all = sent

\* No length overflows its 16 bits: every frame can be decrypted (Write's bound
\* MaxPlaintextLength and Read's use of the length field).
AllDecrypt == ~ failed

\* The secure session is a byte stream: what Write puts into frames comes out of
\* Read as the stream ByteStream promises, whatever the lengths of the frames and
\* of the buffers, and whoever competes for the locks.
Stream == INSTANCE ByteStream WITH written <- sent, read <- got, cut <- ~ open

IsByteStream == Stream!StreamSpec
=============================================================================
