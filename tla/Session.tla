------------------------------ MODULE Session ------------------------------
(***************************************************************************)
(* A session is what one node knows of one circuit: its role in it and the *)
(* one or two streams it joins.  Values of type session.Session of         *)
(* network/session/session.go, with the operations on them.                *)
(***************************************************************************)
EXTENDS Naturals, Sequences

\* The roles of common/consts.go.  "None" is the zero value a lookup of an
\* absent session returns.
Role == {"Caller", "Entry", "Joint", "Relay", "Exit", "Answer"}

\* session.Session{}: what GetSession returns for an unknown id.
NoSession == [role |-> "None", pair |-> <<>>]

NewSession(role) == [role |-> role, pair |-> <<>>]

\* A session never joins more than two streams.
SessionType(Stream) ==
  {sess \in [role : Role \cup {"None"}, pair : Seq(Stream)] : Len(sess.pair) <= 2}

IsReady(sess) == Len(sess.pair) = 2

\* The streams of a session, as a set.
StreamsIn(sess) == {sess.pair[i] : i \in 1..Len(sess.pair)}

\* A ready session ignores further streams; the trimming loop keeps the last
\* two.
AddStream(sess, x) ==
  LET p == Append(sess.pair, x)
  IN  IF IsReady(sess)
        THEN sess
        ELSE [sess EXCEPT !.pair = IF Len(p) > 2
                                     THEN SubSeq(p, Len(p) - 1, Len(p))
                                     ELSE p]

\* GetPattern succeeds iff the session is ready and x is one of its streams.
HasPattern(sess, x) == IsReady(sess) /\ x \in StreamsIn(sess)

\* The stream at the other index of the pair (i^1).
GetPattern(sess, x) ==
  IF sess.pair[1] = x THEN sess.pair[2] ELSE sess.pair[1]
=============================================================================
