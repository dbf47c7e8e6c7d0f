--------------------------- MODULE ProxyRegistry ---------------------------
(***************************************************************************)
(* The clients of one proxy: the two maps of its proxy manager             *)
(* (protocol/proxy), and the clients that register and unregister          *)
(* (network/noise).                                                        *)
(*                                                                         *)
(* Each request has a goroutine of its own on the proxy                    *)
(* (ProxyStreamHandler); the closing of a connection is served by the      *)
(* proxy actor.  They work on the maps with single loads, stores and       *)
(* deletes.  A client's peer id is derived from its account, so a client   *)
(* stands for its WhiteNoise id and for its peer id.  One goroutine of     *)
(* the client makes its calls, one after the other.                        *)
(***************************************************************************)
EXTENDS Naturals, Sequences

CONSTANTS
  Client,
  MaxCalls,    \* bound on a client's calls of RegisterProxy and UnRegister
  MaxFailures  \* bound on lost connections and on timeouts

VARIABLES
  call,          \* for each client: "idle", in RegisterProxy ("waiting"), or "dead"
  proxyNode,     \* the clients whose ProxyNode is set
  calls,         \* how many calls each has made
  connected,     \* the clients with a connection to the proxy
  shaken,        \* the clients that lost a connection or gave up a call
  requests,      \* the requests that the proxy has yet to read
  clientWNMap,   \* the clients that are found by their WhiteNoise id
  clientPeerMap, \* the clients that are found by their peer id
  threads,       \* the goroutines of the proxy, and its actor, at work on the maps
  mailbox,       \* the peers whose closed connections the actor has yet to serve
  acks,          \* acknowledgements under way
  failures       \* lost connections and timeouts so far

clientVars == <<call, proxyNode, calls>>
linkVars == <<connected, shaken, failures>>
mapVars == <<clientWNMap, clientPeerMap>>
registryVars == <<clientVars, linkVars, requests, mapVars, threads, mailbox, acks>>

\* The actor is thread 0, the goroutine of a client's n-th call is thread n.
Thread(c, n, pc) == [client |-> c, n |-> n, pc |-> pc]

RegistryInit ==
  /\ call = [c \in Client |-> "idle"]
  /\ proxyNode = {}
  /\ calls = [c \in Client |-> 0]
  /\ connected = Client /\ shaken = {} /\ failures = 0
  /\ requests = {}
  /\ clientWNMap = {} /\ clientPeerMap = {}
  /\ threads = {}
  /\ mailbox = <<>>
  /\ acks = {}

-----------------------------------------------------------------------------
(* The client *)

\* A request goes out on a stream of its own.
Sends(c, type) ==
  /\ call[c] = "idle" /\ calls[c] < MaxCalls
  /\ calls' = [calls EXCEPT ![c] = @ + 1]
  /\ requests' = IF c \in connected
                   THEN requests \cup {[client |-> c, n |-> calls[c] + 1, type |-> type]}
                   ELSE requests

RegisterProxy(c) ==
  /\ Sends(c, "NewProxy")
  /\ call' = [call EXCEPT ![c] = IF c \in connected THEN "waiting" ELSE "idle"]
  /\ UNCHANGED <<proxyNode, linkVars, mapVars, threads, mailbox, acks>>

\* Every registration of a client has the same request id, the hash of what it
\* says, so that any acknowledgement answers the call.
RegisterAcked(c, a) ==
  /\ a.client = c /\ call[c] = "waiting"
  /\ call' = [call EXCEPT ![c] = "idle"]
  /\ proxyNode' = IF a.ok THEN proxyNode \cup {c} ELSE proxyNode
  /\ acks' = acks \ {a}
  /\ UNCHANGED <<calls, linkVars, requests, mapVars, threads, mailbox>>

Fails(c) ==
  /\ failures < MaxFailures
  /\ failures' = failures + 1
  /\ shaken' = shaken \cup {c}

RegisterTimeout(c) ==
  /\ call[c] = "waiting"
  /\ call' = [call EXCEPT ![c] = "idle"]
  /\ Fails(c)
  /\ UNCHANGED <<proxyNode, calls, connected, requests, mapVars, threads, mailbox, acks>>

\* Nobody acknowledges UnRegister; the client forgets its proxy whether or not
\* the request can be sent.
UnRegister(c) ==
  /\ c \in proxyNode
  /\ Sends(c, "UnRegister")
  /\ proxyNode' = proxyNode \ {c}
  /\ UNCHANGED <<call, linkVars, mapVars, threads, mailbox, acks>>

-----------------------------------------------------------------------------
(* The connection *)

\* What the proxy had not read may be lost; its notification goes to the actor.
Drops(c) ==
  /\ \E lost \in SUBSET {r \in requests : r.client = c} : requests' = requests \ lost
  /\ connected' = connected \ {c}
  /\ mailbox' = Append(mailbox, c)
  /\ acks' = {a \in acks : a.client # c}

Disconnected(c) ==
  /\ c \in connected
  /\ Drops(c) /\ Fails(c)
  /\ UNCHANGED <<clientVars, mapVars, threads>>

Connected(c) ==
  /\ c \notin connected /\ call[c] # "dead"
  /\ connected' = connected \cup {c}
  /\ UNCHANGED <<clientVars, shaken, failures, requests, mapVars, threads, mailbox, acks>>

\* An acknowledgement that finds no task ends the client's process: the call has
\* returned, or has not registered it yet.
AckWithoutTask(c, a) ==
  /\ a.client = c /\ call[c] # "dead"
  /\ call' = [call EXCEPT ![c] = "dead"]
  /\ proxyNode' = proxyNode \ {c}
  /\ Drops(c)
  /\ shaken' = shaken \cup {c}
  /\ UNCHANGED <<calls, failures, mapVars, threads>>

-----------------------------------------------------------------------------
(* The proxy *)

\* The acknowledgement of thread n goes out if the client can be reached.
Ack(c, n, ok) ==
  acks' = IF c \in connected THEN acks \cup {[client |-> c, n |-> n, ok |-> ok]} ELSE acks

Moves(t, pc) == threads' = (threads \ {t}) \cup {[t EXCEPT !.pc = pc]}

\* Mutant: a client is registered again although it is known.
AlwaysNew(c) == TRUE

IsNew(c) == c \notin clientWNMap

\* NewProxy: a client that is known is told so, another one is added.
NewProxy(r) ==
  /\ r.type = "NewProxy"
  /\ requests' = requests \ {r}
  /\ IF IsNew(r.client)
       THEN threads' = threads \cup {Thread(r.client, r.n, "storeWN")} /\ UNCHANGED acks
       ELSE Ack(r.client, r.n, FALSE) /\ UNCHANGED threads
  /\ UNCHANGED <<clientVars, linkVars, mapVars, mailbox>>

\* AddClient, one store at a time.
StoreWN(t) ==
  /\ t.pc = "storeWN"
  /\ clientWNMap' = clientWNMap \cup {t.client}
  /\ Moves(t, "storePeer")
  /\ UNCHANGED <<clientVars, linkVars, requests, clientPeerMap, mailbox, acks>>

StorePeer(t) ==
  /\ t.pc = "storePeer"
  /\ clientPeerMap' = clientPeerMap \cup {t.client}
  /\ threads' = threads \ {t}
  /\ Ack(t.client, t.n, TRUE)
  /\ UNCHANGED <<clientVars, linkVars, requests, clientWNMap, mailbox>>

\* RemoveClient: the load that it begins with ends it where the peer is unknown.
LoadPeer(c, n) ==
  threads' = IF c \in clientPeerMap THEN threads \cup {Thread(c, n, "deleteWN")} ELSE threads

UnRegisterRequest(r) ==
  /\ r.type = "UnRegister"
  /\ requests' = requests \ {r}
  /\ LoadPeer(r.client, r.n)
  /\ UNCHANGED <<clientVars, linkVars, mapVars, mailbox, acks>>

\* The actor serves one notification at a time.
ServeUnregister ==
  /\ mailbox # <<>>
  /\ \A t \in threads : t.n # 0
  /\ mailbox' = Tail(mailbox)
  /\ LoadPeer(Head(mailbox), 0)
  /\ UNCHANGED <<clientVars, linkVars, requests, mapVars, acks>>

DeleteWN(t) ==
  /\ t.pc = "deleteWN"
  /\ clientWNMap' = clientWNMap \ {t.client}
  /\ Moves(t, "deletePeer")
  /\ UNCHANGED <<clientVars, linkVars, requests, clientPeerMap, mailbox, acks>>

DeletePeer(t) ==
  /\ t.pc = "deletePeer"
  /\ clientPeerMap' = clientPeerMap \ {t.client}
  /\ threads' = threads \ {t}
  /\ UNCHANGED <<clientVars, linkVars, requests, clientWNMap, mailbox, acks>>

-----------------------------------------------------------------------------

RegistryNext ==
  \/ \E c \in Client :
       \/ RegisterProxy(c) \/ RegisterTimeout(c) \/ UnRegister(c)
       \/ Disconnected(c) \/ Connected(c)
       \/ \E a \in acks : RegisterAcked(c, a) \/ AckWithoutTask(c, a)
  \/ \E r \in requests : NewProxy(r) \/ UnRegisterRequest(r)
  \/ \E t \in threads : StoreWN(t) \/ StorePeer(t) \/ DeleteWN(t) \/ DeletePeer(t)
  \/ ServeUnregister

RegistrySpec == RegistryInit /\ [][RegistryNext]_registryVars

-----------------------------------------------------------------------------
(* Properties *)

\* A client that has been told of its registration, and has not unregistered
\* since, is found by its WhiteNoise id, although the requests of its earlier
\* registrations may still be at work on the two maps, as long as it never lost
\* its connection nor gave up a call (AddClient, RemoveClient, NewProxy's refusal
\* of a known client; UnRegister is not acknowledged).
RegisteredFound == proxyNode \ shaken \subseteq clientWNMap
=============================================================================
