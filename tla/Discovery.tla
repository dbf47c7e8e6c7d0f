----------------------------- MODULE Discovery -----------------------------
(***************************************************************************)
(* How a client finds nodes of the main net (sdk/sdk.go, network/noise,    *)
(* protocol/ack, protocol/proxy, network/gossip): GetMainNetPeers asks the *)
(* bootstrap node, whose answer comes back as an acknowledgement on a      *)
(* stream of its own and is matched with the call by its request id.       *)
(*                                                                         *)
(* The request id is the hash of the request, which names no sender and no *)
(* time: calls for the same number of peers have the same id.              *)
(***************************************************************************)
EXTENDS Naturals, FiniteSets

CONSTANTS
  Lookup,      \* the goroutines of the client that call GetMainNetPeers
  MaxWanted,   \* the numbers of peers they ask for
  Table,       \* the peers in the bootstrap node's routing table
  MaxLookups,  \* bound on their calls
  MaxDelays    \* bound on timeouts and expired futures

ASSUME DiscoveryAssumption ==
  /\ IsFiniteSet(Table)
  /\ MaxWanted \subseteq Nat
  /\ MaxLookups \in Nat /\ MaxDelays \in Nat

VARIABLES
  lookup,      \* for each goroutine, its call: where it is, and what it returns
  lookups,     \* the number of calls so far
  taskMap,     \* for each request id, the channel registered for it
  closedChans, \* the channels that are closed
  queries,     \* the requests the bootstrap node has yet to serve
  replies,     \* the acknowledgements under way
  deliveries,  \* the client's handlers that are about to send on a channel
  known,       \* the peers whose addresses the bootstrap node knows
  clientUp,    \* whether the client's process lives
  hazarded,    \* whether calls overlapped, one timed out, or an answer was too early
  delays       \* the number of timeouts and expired futures so far

serverVars == <<queries, known>>
taskVars == <<taskMap, closedChans, deliveries>>
discoveryVars == <<lookup, lookups, taskVars, serverVars, replies, clientUp, hazarded,
                   delays>>

NoTask == 0

Resting == [pc |-> "idle", chan |-> NoTask, max |-> 0, ok |-> FALSE, peers |-> {}]

\* The channel of a goroutine's call.
Chan(k) == lookup[k].chan

\* Mutant: the id is the same for every number of peers.
OneId(k) == 0

\* The request id: the hash of a request that holds nothing but the number.
ReqId(k) == lookup[k].max

Ids == MaxWanted \cup {0}

DiscoveryInit ==
  /\ lookup = [k \in Lookup |-> Resting]
  /\ lookups = 0
  /\ taskMap = [i \in Ids |-> NoTask]
  /\ closedChans = {}
  /\ queries = {} /\ replies = {} /\ deliveries = {}
  /\ known \in SUBSET Table
  /\ clientUp = TRUE /\ hazarded = FALSE
  /\ delays = 0

-----------------------------------------------------------------------------
(* NoiseService.GetMainnetPeers *)

Is(k, pc) == lookup[k].pc = pc

Underway(k) == lookup[k].pc # "idle"

WriteRequest(k, max) ==
  /\ Is(k, "idle") /\ lookups < MaxLookups
  /\ lookups' = lookups + 1
  /\ lookup' = [lookup EXCEPT ![k] = [Resting EXCEPT !.pc = "sent", !.max = max,
                                                    !.chan = lookups']]
  /\ queries' = queries \cup {[id |-> ReqId(k)', max |-> max, chan |-> Chan(k)']}
  /\ hazarded' = (hazarded \/ \E j \in Lookup \ {k} : Underway(j))
  /\ UNCHANGED <<taskVars, known, replies, clientUp, delays>>

AddTask(k) ==
  /\ Is(k, "sent")
  /\ taskMap' = [taskMap EXCEPT ![ReqId(k)] = Chan(k)]
  /\ lookup' = [lookup EXCEPT ![k].pc = "waiting"]
  /\ UNCHANGED <<lookups, closedChans, deliveries, serverVars, replies, clientUp, hazarded,
                 delays>>

Delay ==
  /\ delays < MaxDelays
  /\ delays' = delays + 1

LookupTimeout(k) ==
  /\ Is(k, "waiting")
  /\ Delay
  /\ lookup' = [lookup EXCEPT ![k].pc = "closing"]
  /\ hazarded' = TRUE
  /\ UNCHANGED <<lookups, taskVars, serverVars, replies, clientUp>>

\* The channel was closed by a call with the same id: its zero value is no result.
ReceiveClosed(k) ==
  /\ Is(k, "waiting") /\ Chan(k) \in closedChans
  /\ lookup' = [lookup EXCEPT ![k].pc = "closing"]
  /\ UNCHANGED <<lookups, taskVars, serverVars, replies, clientUp, hazarded, delays>>

ClientPanics == clientUp' = FALSE

\* DeletTask, deferred, closes the channel it finds under its id ...
CloseChannel(k) ==
  /\ Is(k, "closing")
  /\ IF taskMap[ReqId(k)] \in closedChans
       THEN ClientPanics /\ UNCHANGED <<closedChans, lookup>>
       ELSE /\ closedChans' = IF taskMap[ReqId(k)] = NoTask THEN closedChans
                                                        ELSE closedChans \cup {taskMap[ReqId(k)]}
            /\ lookup' = [lookup EXCEPT ![k].pc = "deleting"]
            /\ UNCHANGED clientUp
  /\ UNCHANGED <<lookups, taskMap, deliveries, serverVars, replies, hazarded, delays>>

\* Mutant: the entry is left in the map.
EntryStays(k) == UNCHANGED taskMap

DeleteEntry(k) == taskMap' = [taskMap EXCEPT ![ReqId(k)] = NoTask]

\* ... and deletes the entry; the call returns.
DeleteTask(k) ==
  /\ Is(k, "deleting")
  /\ DeleteEntry(k)
  /\ lookup' = [lookup EXCEPT ![k] = IF @.ok THEN [@ EXCEPT !.pc = "returned"]
                                              ELSE Resting]
  /\ UNCHANGED <<lookups, closedChans, deliveries, serverVars, replies, clientUp, hazarded,
                 delays>>

\* StartChat panics if it gets no peer.
NoPeersExist(k) ==
  /\ Is(k, "returned") /\ lookup[k].peers = {}
  /\ ClientPanics /\ hazarded' = TRUE
  /\ UNCHANGED <<lookup, lookups, taskVars, serverVars, replies, delays>>

\* Other callers use the list as it is, and may ask again.
UsePeers(k) ==
  /\ Is(k, "returned")
  /\ lookup' = [lookup EXCEPT ![k] = Resting]
  /\ UNCHANGED <<lookups, taskVars, serverVars, replies, clientUp, hazarded, delays>>

-----------------------------------------------------------------------------
(* The bootstrap node: ProxyStreamHandler and the gossip actor *)

\* GetDHTPeers takes the first peers of the table, with the addresses it knows.
GetDHTPeers(max) == {s \in SUBSET Table : Cardinality(s) = IF max < Cardinality(Table)
                                                            THEN max ELSE Cardinality(Table)}

Acknowledge(q, ok, peers) ==
  replies' = replies \cup {[id |-> q.id, chan |-> q.chan, ok |-> ok, peers |-> peers]}

HandleMainNetPeers(q) ==
  /\ q \in queries
  /\ queries' = queries \ {q}
  /\ \E s \in GetDHTPeers(q.max) :
       Acknowledge(q, TRUE, {[id |-> x, addrs |-> x \in known] : x \in s})
  /\ UNCHANGED <<lookup, lookups, taskVars, known, clientUp, hazarded, delays>>

\* Mutant: the handler goes on after it has acknowledged the error.
AcksTwice(q) ==
  replies' = replies \cup {[id |-> q.id, chan |-> q.chan, ok |-> b, peers |-> {}] : b \in BOOLEAN}

RefusePeers(q) == Acknowledge(q, FALSE, {})

\* The actor does not answer within the future's time.
DHTPeersExpire(q) ==
  /\ q \in queries
  /\ Delay
  /\ queries' = queries \ {q}
  /\ RefusePeers(q)
  /\ UNCHANGED <<lookup, lookups, taskVars, known, clientUp, hazarded>>

-----------------------------------------------------------------------------
(* AckManager.AckStreamHandler at the client *)

\* An acknowledgement without a task panics: it is one of an earlier call, or it
\* outran AddTask.
LoadTask(a) ==
  /\ a \in replies
  /\ replies' = replies \ {a}
  /\ IF taskMap[a.id] = NoTask
       THEN /\ ClientPanics
            /\ hazarded' = (hazarded \/ \E k \in Lookup : lookup[k].pc = "sent")
            /\ UNCHANGED deliveries
       ELSE /\ deliveries' = deliveries \cup
                 {[chan |-> taskMap[a.id], by |-> a.chan, ok |-> a.ok, peers |-> a.peers]}
            /\ UNCHANGED <<clientUp, hazarded>>
  /\ UNCHANGED <<lookup, lookups, taskMap, closedChans, serverVars, delays>>

\* Peers without an address are left out of the list.
Addressed(peers) == {x.id : x \in {y \in peers : y.addrs}}

SendResult(k, d) ==
  /\ Is(k, "waiting") /\ d \in deliveries /\ d.chan = Chan(k)
  /\ d.chan \notin closedChans
  /\ deliveries' = deliveries \ {d}
  /\ lookup' = [lookup EXCEPT ![k].pc = "closing", ![k].ok = d.ok,
                              ![k].peers = Addressed(d.peers)]
  /\ UNCHANGED <<lookups, taskMap, closedChans, serverVars, replies, clientUp, hazarded,
                 delays>>

\* The call has returned meanwhile: a send on a closed channel panics.
SendOnClosed(d) ==
  /\ d \in deliveries /\ d.chan \in closedChans
  /\ ClientPanics
  /\ UNCHANGED <<lookup, lookups, taskVars, serverVars, replies, hazarded, delays>>

-----------------------------------------------------------------------------

\* The model ends with the client's process.
DiscoveryNext ==
  /\ clientUp
  /\ \/ \E k \in Lookup :
          \/ \E max \in MaxWanted : WriteRequest(k, max)
          \/ AddTask(k) \/ LookupTimeout(k) \/ ReceiveClosed(k)
          \/ CloseChannel(k) \/ DeleteTask(k) \/ NoPeersExist(k) \/ UsePeers(k)
          \/ \E d \in deliveries : SendResult(k, d)
     \/ \E q \in queries : HandleMainNetPeers(q) \/ DHTPeersExpire(q)
     \/ \E a \in replies : LoadTask(a)
     \/ \E d \in deliveries : SendOnClosed(d)

DiscoverySpec == DiscoveryInit /\ [][DiscoveryNext]_discoveryVars

-----------------------------------------------------------------------------
(* Properties *)

\* A call returns at most as many peers as it asked for, although an answer to
\* another call, of another goroutine or one that timed out, may be taken for its
\* own (the request id in GetMainnetPeers, TaskMap, GetDHTPeers).
WithinMax ==
  \A k \in Lookup : Cardinality(lookup[k].peers) <= lookup[k].max

\* An entry of the TaskMap belongs to a call that has yet to return, and is the
\* last that was registered under its id: none is left behind by timeouts and
\* calls that share an id.
TasksBelong ==
  \A i \in Ids : taskMap[i] # NoTask =>
    \E k \in Lookup :
      /\ taskMap[i] = Chan(k) /\ lookup[k].max = i
      /\ lookup[k].pc \in {"waiting", "closing", "deleting"}

\* A client that makes one call at a time, whose calls are answered in time but not
\* before their task is registered, and that finds a peer, is not ended by
\* AckStreamHandler's assertion nor by its send (AckStreamHandler, DeletTask, and
\* one acknowledgement per request in ProxyStreamHandler).
OrderlyLookupsSurvive == clientUp \/ hazarded
=============================================================================
