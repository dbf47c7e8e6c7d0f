----------------------------- MODULE ByteStream -----------------------------
(***************************************************************************)
(* What a secure connection promises to those who use it: a stream of      *)
(* bytes, each delivered at most once and in the order in which it was     *)
(* written, without gaps.  When the stream is cut, the bytes at its end    *)
(* may be missing.                                                         *)
(*                                                                         *)
(* A byte is represented by its position in the stream.                    *)
(***************************************************************************)
EXTENDS Naturals, Sequences

VARIABLES
  written, \* the number of bytes written so far
  read,    \* the bytes read so far, in the order of the reads
  cut      \* whether the stream has been cut

streamVars == <<written, read, cut>>

StreamInit == written = 0 /\ read = <<>> /\ cut = FALSE

WriteBytes ==
  /\ ~ cut
  /\ written' \in Nat /\ written' > written
  /\ UNCHANGED <<read, cut>>

ReadBytes ==
  /\ Len(read') \in Len(read)..written
  /\ read' = [i \in 1..Len(read') |-> i]
  /\ UNCHANGED <<written, cut>>

Cut ==
  /\ ~ cut
  /\ cut' = TRUE
  /\ UNCHANGED <<written, read>>

StreamNext == WriteBytes \/ ReadBytes \/ Cut

StreamSpec == StreamInit /\ [][StreamNext]_streamVars
=============================================================================
