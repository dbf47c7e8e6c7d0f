------------------------------ MODULE MCRelay ------------------------------
(***************************************************************************)
(* Relay for TLC, under open managers: everything the relay layer does by  *)
(* itself, with at most MaxInputs requests and user calls and MaxFaults    *)
(* failures from outside.  The answers of the actor have no reader here.   *)
(***************************************************************************)
EXTENDS Relay, TLC

CONSTANTS MaxInputs, MaxFaults

VARIABLES inputs, faults

MCInit == RelayInit /\ inputs = 0 /\ faults = 0

MCInput(n) ==
  \E s \in SessionId :
    \/ \E p \in Node \ {n}, rp \in RolePair :
         Ask(n, "gone", ReqNew(s, "gone", p, rp[1], rp[2]))
    \/ \E type \in {"Probe", "Succ"} : Ask(n, "gone", ReqSend(s, "gone", type))
    \/ Ask(n, "gone", ReqClose(s))
    \/ \E p \in Node : UserDial(n, p, s)
    \/ AddCircuitConnCaller(n, s)
    \/ UserClose(n, s)

MCNext ==
  \/ /\ \E n \in Node : RelayStep(n) \/ RelayPanic(n)
     /\ UNCHANGED <<inputs, faults>>
  \/ /\ inputs < MaxInputs
     /\ \E n \in Node : MCInput(n)
     /\ inputs' = inputs + 1
     /\ UNCHANGED faults
  \/ /\ faults < MaxFaults
     /\ \E n \in Node : RelayFault(n)
     /\ faults' = faults + 1
     /\ UNCHANGED inputs

MCSpec == MCInit /\ [][MCNext]_<<relayVars, inputs, faults>>

MCStream == 1..2
MCSymmetry == Permutations(Server) \cup Permutations(SessionId)
=============================================================================
