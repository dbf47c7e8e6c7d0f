------------------------------- MODULE MCNode -------------------------------
(***************************************************************************)
(* The components that share no state with each other, model-checked in    *)
(* one run.  Init chooses the component that runs, the others rest in      *)
(* their initial states: their behaviours are those of their own           *)
(* specifications, and an invariant of one holds in all of them if and     *)
(* only if it does in its own.                                             *)
(***************************************************************************)
EXTENDS SecureFraming, ProxyRegistry, CircuitBuffer, Handshake, Startup, NodeStart,
  Discovery, Negotiation, TLC

VARIABLE part  \* the component that runs

Someone == CHOOSE i \in Identity : TRUE

\* All circuits have one destination and one joint node.
Fixed(s) ==
  /\ circuitTask[s] = CHOOSE d \in Destination : TRUE
  /\ joint[s] = CHOOSE j \in JointNode : TRUE

Part == {"framing", "registry", "buffer", "handshake", "startup", "nodestart",
         "discovery", "negotiation"}

\* A component that rests does so in one of its initial states.
MCInit ==
  /\ part \in Part
  /\ FramingInit /\ RegistryInit /\ BufferInit
  /\ HandshakeInit /\ StartupInit /\ NodeStartInit /\ DiscoveryInit
  /\ NegotiationInit
  /\ part = "handshake" \/ \A e \in End : identity[e] = Someone /\ wanted = Someone
  /\ part = "startup" \/ keyFile = NoAccount
  /\ part = "nodestart" \/ mode = "client"
  /\ part = "discovery" \/ known = {}
  /\ part = "negotiation" \/ \A s \in Circuit : Fixed(s)

Runs(p) == part = p /\ UNCHANGED part

MCNext ==
  \/ /\ Runs("framing") /\ FramingNext
     /\ UNCHANGED <<registryVars, bufferVars, handshakeVars, startupVars,
                    nodeStartVars, discoveryVars, negotiationVars>>
  \/ /\ Runs("registry") /\ RegistryNext
     /\ UNCHANGED <<framingVars, bufferVars, handshakeVars, startupVars,
                    nodeStartVars, discoveryVars, negotiationVars>>
  \/ /\ Runs("buffer") /\ BufferNext
     /\ UNCHANGED <<framingVars, registryVars, handshakeVars, startupVars,
                    nodeStartVars, discoveryVars, negotiationVars>>
  \/ /\ Runs("handshake") /\ HandshakeNext
     /\ UNCHANGED <<framingVars, registryVars, bufferVars, startupVars,
                    nodeStartVars, discoveryVars, negotiationVars>>
  \/ /\ Runs("startup") /\ StartupNext
     /\ UNCHANGED <<framingVars, registryVars, bufferVars, handshakeVars,
                    nodeStartVars, discoveryVars, negotiationVars>>
  \/ /\ Runs("nodestart") /\ NodeStartNext
     /\ UNCHANGED <<framingVars, registryVars, bufferVars, handshakeVars,
                    startupVars, discoveryVars, negotiationVars>>
  \/ /\ Runs("discovery") /\ DiscoveryNext
     /\ UNCHANGED <<framingVars, registryVars, bufferVars, handshakeVars,
                    startupVars, nodeStartVars, negotiationVars>>
  \/ /\ Runs("negotiation") /\ NegotiationNext
     /\ UNCHANGED <<framingVars, registryVars, bufferVars, handshakeVars,
                    startupVars, nodeStartVars, discoveryVars>>

MCVars == <<part, framingVars, registryVars, bufferVars, handshakeVars, startupVars,
            nodeStartVars, discoveryVars, negotiationVars>>

MCSymmetry == Permutations(Lookup) \cup Permutations(Table) \cup Permutations(Client)

MCSpec == MCInit /\ [][MCNext]_MCVars
=============================================================================
