----------------------------- MODULE MCCircuit -----------------------------
(***************************************************************************)
(* Circuit for TLC.                                                        *)
(***************************************************************************)
EXTENDS Circuit, TLC

CONSTANTS c, d, a1, a2, a3, a4

ProxySame == (c :> a1) @@ (d :> a1)
ProxyTwo == (c :> a1) @@ (d :> a2)

\* What the servers find in their routing tables.  PeersMix lets a1 take a2 (the
\* exit node) or a3 as joint node, and a2 come back through a1 (the entry node)
\* or through a4; PeersBack keeps a1 from taking a2; PeersLong leaves only the
\* path of five links.
PeersAll == [n \in Server |-> Server]
PeersMix == [n \in Server |-> CASE n = a1 -> {a2, a3} [] n = a2 -> {a1, a4} [] OTHER -> {}]
PeersBack == [n \in Server |-> CASE n = a1 -> {a3} [] n = a2 -> {a1, a4} [] OTHER -> {}]
PeersLong == [n \in Server |-> CASE n = a1 -> {a3} [] n = a2 -> {a4} [] OTHER -> {}]

Streams2 == 1..2
Streams5 == 1..5
Streams6 == 1..6
=============================================================================
