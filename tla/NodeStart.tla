----------------------------- MODULE NodeStart -----------------------------
(***************************************************************************)
(* How a node comes up, in the order of main.go, network/node.go and the   *)
(* constructors they call, while the network is already there: peers       *)
(* connect as soon as the host listens, streams are served as soon as      *)
(* their handlers are set, gossip is read as soon as the DHT service has   *)
(* started; the process ids that handlers send to, and the notifiee that   *)
(* looks at connections, come last.                                        *)
(***************************************************************************)
EXTENDS Naturals, Sequences, FiniteSets

CONSTANTS
  Dialer,    \* the peers that connect
  Listed,    \* those of them on the white list
  Bootstrap, \* the one that is the bootstrap node
  MaxConns   \* bound on connections

ASSUME NodeStartAssumption ==
  Listed \subseteq Dialer /\ Bootstrap \in Dialer /\ MaxConns \in Nat

VARIABLES
  mode,      \* the node's mode: "server", "boot" or "client"
  whiteMode, \* whether connections are checked against the white list
  done,      \* the number of steps of its start the node has taken
  whiteList, \* config.WhiteListPeers
  addrs,     \* the peers with addresses in the peer store
  conns,     \* the connections whose end the node has yet to notice
  dialled,   \* the number of connections so far
  fallen     \* whether the process has ended, and why

startVars == <<mode, whiteMode, done>>
peerVars == <<whiteList, addrs>>
connectionVars == <<conns, dialled>>
nodeStartVars == <<startVars, peerVars, connectionVars, fallen>>

NodeStartInit ==
  /\ mode \in {"server", "boot", "client"}
  /\ whiteMode \in IF mode = "client" THEN {FALSE} ELSE BOOLEAN
  /\ done = 0
  /\ whiteList = {} /\ addrs = {} /\ conns = {}
  /\ dialled = 0 /\ fallen = "no"

-----------------------------------------------------------------------------
(* The steps of the start *)

NodeSteps == <<"NewDHTService", "StartDHT", "Start", "SetPid", "SetDHTPid", "SetNotify">>
ClientSteps == <<"Start", "SetPid", "SetNotify">>

ReadsList == IF whiteMode THEN <<"InitWhiteList">> ELSE <<>>

\* Mutant: the DHT service is not told of the other actors.
StepsWithoutPid ==
  ReadsList \o <<"NewHost", "NewNoiseService">> \o
    IF mode = "client" THEN ClientSteps ELSE SelectSeq(NodeSteps, LAMBDA s : s # "SetDHTPid")

Steps ==
  ReadsList \o <<"NewHost", "NewNoiseService">> \o
    IF mode = "client" THEN ClientSteps ELSE NodeSteps

Done(step) == \E i \in 1..done : Steps[i] = step

Takes(step) ==
  /\ fallen = "no"
  /\ done < Len(Steps) /\ Steps[done + 1] = step
  /\ done' = done + 1
  /\ UNCHANGED <<mode, whiteMode, connectionVars, fallen>>

InitWhiteList ==
  /\ Takes("InitWhiteList")
  /\ whiteList' = Listed
  /\ UNCHANGED addrs

\* The host listens from here on.
NewHost == Takes("NewHost") /\ UNCHANGED peerVars

\* The handlers of all protocols are set, and the bootstrap node's address.
NewNoiseService ==
  /\ Takes("NewNoiseService")
  /\ addrs' = addrs \cup {Bootstrap}
  /\ UNCHANGED whiteList

NewDHTService == Takes("NewDHTService") /\ UNCHANGED peerVars

\* A server reads the gossip from here on.
StartDHT == Takes("StartDHT") /\ UNCHANGED peerVars

StartNoise == Takes("Start") /\ UNCHANGED peerVars

\* The handlers' managers learn of each other's actors, the DHT service of theirs.
SetPid == (Takes("SetPid") \/ Takes("SetDHTPid")) /\ UNCHANGED peerVars

SetNotify == Takes("SetNotify") /\ UNCHANGED peerVars

\* No white list, no host, no topic or no DHT: main panics.
StartFails ==
  /\ fallen = "no"
  /\ done < Len(Steps)
  /\ Steps[done + 1] \in {"InitWhiteList", "NewHost", "NewNoiseService",
                          "NewDHTService", "StartDHT"}
  /\ fallen' = "start"
  /\ UNCHANGED <<startVars, peerVars, connectionVars>>

-----------------------------------------------------------------------------
(* Connections and the notifiee *)

\* Only a notifiee that is set hears of the connection.
Connect(p) ==
  /\ fallen = "no" /\ Done("NewHost") /\ dialled < MaxConns
  /\ dialled' = dialled + 1
  /\ conns' = conns \cup {[n |-> dialled', peer |-> p, open |-> TRUE,
                           heard |-> Done("SetNotify"), due |-> Done("SetNotify")]}
  /\ UNCHANGED <<startVars, peerVars, fallen>>

Becomes(c, c2) == conns' = (conns \ {c}) \cup {c2}

\* Mutant: the list is looked at the wrong way round.
BlocksListed(p) == whiteMode /\ p \in whiteList

Blocks(p) == whiteMode /\ p \notin whiteList

\* Connected: a peer that is not on the list is cut off, and its address added.
HandleConnected(c) ==
  /\ fallen = "no" /\ c.due
  /\ Becomes(c, [c EXCEPT !.due = FALSE, !.open = @ /\ ~ Blocks(c.peer)])
  /\ addrs' = addrs \cup {c.peer}
  /\ UNCHANGED <<startVars, whiteList, dialled, fallen>>

Hangup(c) ==
  /\ fallen = "no" /\ c.open
  /\ Becomes(c, [c EXCEPT !.open = FALSE])
  /\ UNCHANGED <<startVars, peerVars, dialled, fallen>>

ClearAddrs(p) == addrs \ {p}

\* Disconnected, which libp2p calls once Connected has returned.
HandleDisconnected(c) ==
  /\ fallen = "no" /\ ~ c.open /\ ~ c.due
  /\ conns' = conns \ {c}
  /\ addrs' = IF Done("SetNotify") THEN ClearAddrs(c.peer) ELSE addrs
  /\ UNCHANGED <<startVars, whiteList, dialled, fallen>>

-----------------------------------------------------------------------------
(* What reaches the node meanwhile *)

\* A handler sends to an actor whose process id it does not have.
NilPid(step) == fallen' = IF Done(step) THEN "no" ELSE "nil pid"

\* A request on a stream of a connected peer; nobody asks a client that has yet to
\* register.
ServeStream(c) ==
  /\ fallen = "no" /\ mode # "client"
  /\ Done("NewNoiseService") /\ c.open
  /\ NilPid("SetPid")
  /\ UNCHANGED <<startVars, peerVars, connectionVars>>

\* handleNoiseMsg asks the proxy manager for its clients.
ServeGossip ==
  /\ fallen = "no" /\ mode = "server"
  /\ Done("StartDHT") /\ \E c \in conns : c.open
  /\ NilPid("SetDHTPid")
  /\ UNCHANGED <<startVars, peerVars, connectionVars>>

-----------------------------------------------------------------------------

NodeStartNext ==
  \/ InitWhiteList \/ NewHost \/ NewNoiseService \/ NewDHTService \/ StartDHT
  \/ StartNoise \/ SetPid \/ SetNotify \/ StartFails
  \/ \E p \in Dialer : Connect(p)
  \/ \E c \in conns : HandleConnected(c) \/ Hangup(c) \/ HandleDisconnected(c)
  \/ \E c \in conns : ServeStream(c)
  \/ ServeGossip

NodeStartSpec == NodeStartInit /\ [][NodeStartNext]_nodeStartVars

-----------------------------------------------------------------------------
(* Properties *)

\* A node that has started serves whatever reaches it: what can end it, a handler
\* that sends to an actor it was not told of, can do so only while it starts
\* (NewNode sets the handlers, Node.Start wires the actors in an order of its own
\* for servers, boot nodes and clients).
ServesOnceStarted == fallen = "nil pid" => ~ Done("SetNotify")

\* An address that the notifiee put into the peer store is backed by a connection:
\* one whose end is about to be noticed, or an open one, in white-list mode to a
\* peer on the list or made before the notifiee was set.  Connected adds the address
\* of a peer it has just cut off, the connections of a peer share its entry, and
\* notifications run late (Connected, Disconnected, SetNotify, InitWhiteList).
AddressesBacked ==
  \A p \in addrs \ {Bootstrap} : \E c \in conns :
    /\ c.peer = p
    /\ c.open => ~ whiteMode \/ p \in Listed \/ ~ c.heard
=============================================================================
