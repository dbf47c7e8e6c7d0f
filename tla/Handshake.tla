----------------------------- MODULE Handshake -----------------------------
(***************************************************************************)
(* NewSecureSession at the two ends of a circuit (secure/session.go,       *)
(* secure/handshake.go): a goroutine runs the handshake of pattern XX, the *)
(* call waits for it or for its context.  Who is at the far end, whether   *)
(* messages get through and when a context ends are free.                  *)
(*                                                                         *)
(* Relay has the order of the three messages among everything else a       *)
(* circuit carries; here are their payloads, the checks and the keys.      *)
(***************************************************************************)
EXTENDS Naturals, Sequences

CONSTANTS Identity  \* the peer ids, each with its private key

End == {"caller", "answer"}
Other(e) == IF e = "caller" THEN "answer" ELSE "caller"

VARIABLES
  wanted,    \* the peer id the caller was asked to reach
  identity,  \* for each end, the peer id of its private key
  remoteID,  \* for each end, the peer id it takes the other for, if any
  stage,     \* for each end, what runHandshake does next, or its result
  air,       \* for each end, the messages it has yet to read
  ciphers,   \* for each end, the cipher states it has: enc and dec
  cancelled, \* the ends whose context is done
  closed,    \* the ends that have closed the insecure connection
  session    \* for each end, what NewSecureSession has returned

handshakeVars == <<wanted, identity, remoteID, stage, air, ciphers, cancelled, closed, session>>

NoIdentity == "none"
NoCiphers == [enc |-> "none", dec |-> "none"]

\* The caller expects the remote it dials, the answer knows nothing of its caller.
HandshakeInit ==
  /\ identity \in [End -> Identity]
  /\ wanted \in Identity
  /\ remoteID = [e \in End |-> IF e = "caller" THEN wanted ELSE NoIdentity]
  /\ stage = [e \in End |-> IF e = "caller" THEN "send0" ELSE "read0"]
  /\ air = [e \in End |-> <<>>]
  /\ ciphers = [e \in End |-> NoCiphers]
  /\ cancelled = {} /\ closed = {}
  /\ session = [e \in End |-> "none"]

-----------------------------------------------------------------------------
(* The messages *)

\* The end signs the static key it made for this handshake with its private key.
GenerateHandshakePayload(e) ==
  [key |-> identity[e], signer |-> identity[e], static |-> e]

\* The first message has no payload.
NoPayload == [key |-> NoIdentity, signer |-> NoIdentity, static |-> "none"]

\* Mutant: whoever signs for its own key is accepted.
AnyPeer(e, payload, static) ==
  payload.signer = payload.key /\ payload.static = static

\* The caller insists on the peer it wants; both check the signature.
HandleRemotePayload(e, payload, static) ==
  /\ e = "caller" => remoteID[e] = payload.key
  /\ payload.signer = payload.key /\ payload.static = static

\* Mutant: both ends take the cipher states in the order they get them.
SameStates(e) == [enc |-> "cs1", dec |-> "cs2"]

SetCipherStates(e) == IF e = "caller" THEN [enc |-> "cs1", dec |-> "cs2"]
                                      ELSE [enc |-> "cs2", dec |-> "cs1"]

\* The third message completes the handshake state.
Splits(e) == stage[e] \in {"send2", "read2"}

\* The message is written, or lost with the circuit.
SendHandshakeMessage(e, payload, next) ==
  /\ \/ air' = [air EXCEPT ![Other(e)] = Append(@, payload)]
     \/ air' = air
  /\ ciphers' = IF Splits(e) THEN [ciphers EXCEPT ![e] = SetCipherStates(e)] ELSE ciphers
  /\ stage' = [stage EXCEPT ![e] = next]

Aborts(e) == stage' = [stage EXCEPT ![e] = "failed"]

-----------------------------------------------------------------------------
(* runHandshake *)

Send(e, from, payload, next) ==
  /\ stage[e] = from
  /\ SendHandshakeMessage(e, payload, next)
  /\ UNCHANGED <<wanted, identity, remoteID, cancelled, closed, session>>

CallerSends0 == Send("caller", "send0", NoPayload, "read1")
AnswerSends1 == Send("answer", "send1", GenerateHandshakePayload("answer"), "read2")
CallerSends2 == Send("caller", "send2", GenerateHandshakePayload("caller"), "done")

AnswerReads0 ==
  /\ stage["answer"] = "read0" /\ air["answer"] # <<>>
  /\ air' = [air EXCEPT !["answer"] = Tail(@)]
  /\ stage' = [stage EXCEPT !["answer"] = "send1"]
  /\ UNCHANGED <<wanted, identity, remoteID, ciphers, cancelled, closed, session>>

\* A message with a payload: hs.ReadMessage yields it with the static key of the
\* other end, and the cipher states if it was the last, before it is looked at.
Reads(e, from, next) ==
  /\ stage[e] = from /\ air[e] # <<>>
  /\ air' = [air EXCEPT ![e] = Tail(@)]
  /\ ciphers' = IF Splits(e) THEN [ciphers EXCEPT ![e] = SetCipherStates(e)] ELSE ciphers
  /\ IF HandleRemotePayload(e, Head(air[e]), Other(e))
       THEN /\ remoteID' = [remoteID EXCEPT ![e] = Head(air[e]).key]
            /\ stage' = [stage EXCEPT ![e] = next]
       ELSE Aborts(e) /\ UNCHANGED remoteID
  /\ UNCHANGED <<wanted, identity, cancelled, closed, session>>

CallerReads1 == Reads("caller", "read1", "send2")
AnswerReads2 == Reads("answer", "read2", "done")

\* A key cannot be made, a message cannot be sent, read or decrypted, or none comes.
HandshakeFails(e) ==
  /\ stage[e] \notin {"done", "failed"}
  /\ Aborts(e)
  /\ UNCHANGED <<wanted, identity, remoteID, air, ciphers, cancelled, closed, session>>

-----------------------------------------------------------------------------
(* NewSecureSession *)

Cancel(e) ==
  /\ session[e] = "none" /\ e \notin cancelled
  /\ cancelled' = cancelled \cup {e}
  /\ UNCHANGED <<wanted, identity, remoteID, stage, air, ciphers, closed, session>>

\* The select takes the context: it closes the connection and waits all the same.
NoticeCancel(e) ==
  /\ e \in cancelled \ closed /\ session[e] = "none"
  /\ closed' = closed \cup {e}
  /\ UNCHANGED <<wanted, identity, remoteID, stage, air, ciphers, cancelled, session>>

Responds(e) == stage[e] \in {"done", "failed"}

Return(e) ==
  /\ session[e] = "none" /\ Responds(e)
  /\ session' = [session EXCEPT ![e] = IF e \in closed \/ stage[e] = "failed" THEN "error"
                                                                             ELSE "session"]
  /\ closed' = IF stage[e] = "failed" THEN closed \cup {e} ELSE closed
  /\ UNCHANGED <<wanted, identity, remoteID, stage, air, ciphers, cancelled>>

HandshakeNext ==
  \/ CallerSends0 \/ AnswerReads0 \/ AnswerSends1 \/ CallerReads1
  \/ CallerSends2 \/ AnswerReads2
  \/ \E e \in End : HandshakeFails(e) \/ Cancel(e) \/ NoticeCancel(e) \/ Return(e)

HandshakeSpec == HandshakeInit /\ [][HandshakeNext]_handshakeVars

-----------------------------------------------------------------------------
(* Properties *)

\* A session that NewSecureSession returns is one with the peer at the other end,
\* under the name it has there; a caller's is with the peer it asked for
\* (handleRemoteHandshakePayload on each side).
PeersAuthenticated ==
  \A e \in End : session[e] = "session" =>
    /\ remoteID[e] = identity[Other(e)]
    /\ e = "caller" => identity["answer"] = wanted

\* When the answer has a session, the caller has accepted the answer and has the
\* keys that match the answer's: what one encrypts the other decrypts.  (A caller
\* may have a session although the answer failed, or gave up, afterwards.)
AnswerImpliesCaller ==
  session["answer"] = "session" =>
    /\ stage["caller"] = "done"
    /\ \A e \in End : ciphers[e].enc = ciphers[Other(e)].dec
=============================================================================
