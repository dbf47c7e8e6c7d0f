-------------------------- MODULE RegistryProofs ---------------------------
(***************************************************************************)
(* The theorem about the clients of a proxy: who was told of its           *)
(* registration is found.                                                  *)
(***************************************************************************)
EXTENDS ProxyRegistry, TLAPS

Request == [client : Client, n : Nat, type : {"NewProxy", "UnRegister"}]
ThreadRecord == [client : Client, n : Nat,
                 pc : {"storeWN", "storePeer", "deleteWN", "deletePeer"}]
Acknowledgement == [client : Client, n : Nat, ok : BOOLEAN]

RegistryTypeOK ==
  /\ call \in [Client -> {"idle", "waiting", "dead"}]
  /\ calls \in [Client -> Nat]
  /\ proxyNode \subseteq Client /\ connected \subseteq Client /\ shaken \subseteq Client
  /\ requests \subseteq Request
  /\ threads \subseteq ThreadRecord
  /\ mailbox \in Seq(Client)
  /\ acks \subseteq Acknowledgement

\* The actor is told only of clients that lost a connection.
MailOfShaken == \A i \in 1..Len(mailbox) : mailbox[i] \in shaken

-----------------------------------------------------------------------------
(* The work of a client's calls that is still under way at the proxy *)

Asks(c, type) == {r \in requests : r.client = c /\ r.type = type}
Runs(c, pcs) == {t \in threads : t.client = c /\ t.pc \in pcs}
Acks(c) == {a \in acks : a.client = c}

Store == {"storeWN", "storePeer"}

\* A call of RegisterProxy is in one place: a request, a goroutine that stores, or
\* an acknowledgement; and the client waits for it.
OneRegistration(c) ==
  /\ \A r \in Asks(c, "NewProxy") :
       /\ call[c] = "waiting" /\ Asks(c, "NewProxy") = {r}
       /\ Runs(c, Store) = {} /\ Acks(c) = {}
  /\ \A t \in Runs(c, Store) :
       call[c] = "waiting" /\ Runs(c, Store) = {t} /\ Acks(c) = {}
  /\ \A a \in Acks(c) : call[c] = "waiting" /\ Acks(c) = {a}

\* Nobody is about to delete the client from clientWNMap.
NoRemoval(c) == Asks(c, "UnRegister") = {} /\ Runs(c, {"deleteWN"}) = {}

\* An UnRegister is in one place, until it has deleted the client, which is known
\* till then.
OneRemoval(c) ==
  /\ \A r \in Asks(c, "UnRegister") :
       c \in clientWNMap /\ Asks(c, "UnRegister") = {r} /\ Runs(c, {"deleteWN"}) = {}
  /\ \A t \in Runs(c, {"deleteWN"}) : c \in clientWNMap /\ Runs(c, {"deleteWN"}) = {t}

\* A goroutine adds a client that is unknown, and nobody removes it meanwhile.
StoresUnknown(c) ==
  /\ Runs(c, {"storeWN"}) # {} => c \notin clientWNMap
  /\ Runs(c, {"storePeer"}) # {} => c \in clientWNMap /\ NoRemoval(c)
  /\ \A a \in Acks(c) : a.ok => c \in clientWNMap /\ NoRemoval(c)

\* A client that has a proxy is known there, and nobody removes it.
StaysKnown(c) == c \in proxyNode => c \in clientWNMap /\ NoRemoval(c)

Calm(c) ==
  /\ call[c] # "dead" /\ c \in connected
  /\ OneRegistration(c) /\ OneRemoval(c) /\ StoresUnknown(c) /\ StaysKnown(c)

RegistryInv ==
  /\ RegistryTypeOK /\ MailOfShaken
  /\ \A c \in Client \ shaken : Calm(c)

LEMMA RegistryInitInv == RegistryInit => RegistryInv
BY DEF RegistryInit, RegistryInv, RegistryTypeOK, MailOfShaken, Calm, OneRegistration, OneRemoval,
       StoresUnknown, StaysKnown, Asks, Runs, Acks, NoRemoval

LEMMA RegistryTypeStep ==
  ASSUME RegistryTypeOK, RegistryNext
  PROVE  RegistryTypeOK'
<1> USE DEF RegistryTypeOK, clientVars, linkVars, mapVars
<1>1. ASSUME NEW c \in Client, RegisterProxy(c) \/ RegisterTimeout(c) \/ UnRegister(c)
      PROVE  RegistryTypeOK'
  <2> USE <1>1 DEF RegisterProxy, RegisterTimeout, UnRegister, Sends, Fails
  <2>1. call' \in [Client -> {"idle", "waiting", "dead"}]
    OBVIOUS
  <2>2. calls' \in [Client -> Nat]
    OBVIOUS
  <2>3. requests' \subseteq Request
    BY DEF Request
  <2>4. proxyNode' \subseteq Client /\ shaken' \subseteq Client
    OBVIOUS
  <2>5. UNCHANGED <<connected, threads, mailbox, acks>>
    OBVIOUS
  <2> QED
    BY ONLY RegistryTypeOK, <2>1, <2>2, <2>3, <2>4, <2>5 DEF RegistryTypeOK
<1>2. ASSUME NEW c \in Client, Drops(c), UNCHANGED <<calls, threads>>,
             call' \in [Client -> {"idle", "waiting", "dead"}],
             proxyNode' \subseteq Client, shaken' \subseteq Client
      PROVE  RegistryTypeOK'
  <2>1. /\ requests' \subseteq Request /\ connected' \subseteq Client
        /\ acks' \subseteq Acknowledgement
    BY <1>2 DEF Drops
  <2>2. mailbox' \in Seq(Client)
    BY <1>2 DEF Drops
  <2> QED
    BY <1>2, <2>1, <2>2
<1>3. ASSUME NEW c \in Client, Disconnected(c) \/ Connected(c)
      PROVE  RegistryTypeOK'
  BY <1>2, <1>3 DEF Disconnected, Connected, Fails
<1>4. ASSUME NEW c \in Client, NEW a \in acks, RegisterAcked(c, a) \/ AckWithoutTask(c, a)
      PROVE  RegistryTypeOK'
  <2>1. CASE RegisterAcked(c, a)
    BY <2>1 DEF RegisterAcked
  <2>2. CASE AckWithoutTask(c, a)
    BY <1>2, <2>2 DEF AckWithoutTask
  <2> QED
    BY <1>4, <2>1, <2>2
<1>5. ASSUME NEW r \in requests, NewProxy(r)
      PROVE  RegistryTypeOK'
  <2>1. [client |-> r.client, n |-> r.n, ok |-> FALSE] \in Acknowledgement
    BY DEF Request, Acknowledgement
  <2>2. acks' \subseteq Acknowledgement
    BY <1>5, <2>1 DEF NewProxy, Ack
  <2>3. Thread(r.client, r.n, "storeWN") \in ThreadRecord
    BY DEF Thread, Request, ThreadRecord
  <2>4. threads' \subseteq ThreadRecord /\ requests' \subseteq Request
    BY <1>5, <2>3 DEF NewProxy
  <2> QED
    BY <1>5, <2>2, <2>4 DEF NewProxy
<1>6. ASSUME NEW r \in requests, UnRegisterRequest(r)
      PROVE  RegistryTypeOK'
  BY <1>6 DEF UnRegisterRequest, LoadPeer, Thread, Request, ThreadRecord
<1>7. ASSUME NEW t \in threads, StoreWN(t) \/ DeleteWN(t) \/ DeletePeer(t)
      PROVE  RegistryTypeOK'
  BY <1>7 DEF StoreWN, DeleteWN, DeletePeer, Moves, ThreadRecord
<1>8. ASSUME NEW t \in threads, StorePeer(t)
      PROVE  RegistryTypeOK'
  <2>1. [client |-> t.client, n |-> t.n, ok |-> TRUE] \in Acknowledgement
    BY DEF ThreadRecord, Acknowledgement
  <2> QED
    BY <1>8, <2>1 DEF StorePeer, Ack
<1>9. CASE ServeUnregister
  BY <1>9 DEF ServeUnregister, LoadPeer, Thread, ThreadRecord
<1> QED
  BY <1>1, <1>3, <1>4, <1>5, <1>6, <1>7, <1>8, <1>9 DEF RegistryNext

LEMMA MailStep ==
  ASSUME RegistryInv, RegistryNext
  PROVE  MailOfShaken' /\ shaken \subseteq shaken'
<1> USE DEF RegistryInv, RegistryTypeOK, MailOfShaken, clientVars, linkVars, mapVars
<1>1. ASSUME NEW c \in Client, \/ Disconnected(c)
                               \/ \E a \in acks : AckWithoutTask(c, a)
      PROVE  MailOfShaken' /\ shaken \subseteq shaken'
  <2>1. mailbox' = Append(mailbox, c) /\ shaken' = shaken \cup {c}
    BY <1>1 DEF Disconnected, AckWithoutTask, Drops, Fails
  <2>2. \A i \in 1..Len(mailbox') :
          mailbox'[i] = c \/ (i \in 1..Len(mailbox) /\ mailbox'[i] = mailbox[i])
    BY <2>1
  <2> QED
    BY <2>1, <2>2
<1>2. CASE ServeUnregister
  BY <1>2 DEF ServeUnregister
<1>3. CASE UNCHANGED mailbox /\ shaken \subseteq shaken'
  BY <1>3
<1> QED
  BY <1>1, <1>2, <1>3
  DEF RegistryNext, RegisterProxy, RegisterTimeout, UnRegister, Connected, RegisterAcked, Fails,
      NewProxy, UnRegisterRequest, StoreWN, StorePeer, DeleteWN, DeletePeer

LEMMA CalmStep ==
  ASSUME RegistryInv, RegistryNext, NEW d \in Client, d \notin shaken'
  PROVE  Calm(d)'
<1> USE DEF RegistryInv, RegistryTypeOK, Calm, OneRegistration, OneRemoval, StoresUnknown,
            StaysKnown, Asks, Runs, Acks, NoRemoval, Store,
            clientVars, linkVars, mapVars, Request, ThreadRecord, Acknowledgement
<1>0. d \notin shaken /\ Calm(d)
  BY MailStep
<1>1. ASSUME NEW c \in Client, RegisterProxy(c)
      PROVE  Calm(d)'
  BY <1>0, <1>1 DEF RegisterProxy, Sends
<1>2. ASSUME NEW c \in Client, RegisterTimeout(c)
      PROVE  Calm(d)'
  BY <1>0, <1>2 DEF RegisterTimeout, Fails
<1>3. ASSUME NEW c \in Client, UnRegister(c)
      PROVE  Calm(d)'
  BY <1>0, <1>3 DEF UnRegister, Sends
<1>4. ASSUME NEW c \in Client, Disconnected(c)
      PROVE  Calm(d)'
  BY <1>0, <1>4 DEF Disconnected, Drops, Fails
<1>5. ASSUME NEW c \in Client, Connected(c)
      PROVE  Calm(d)'
  BY <1>0, <1>5 DEF Connected
<1>6. ASSUME NEW c \in Client, NEW a \in acks, RegisterAcked(c, a)
      PROVE  Calm(d)'
  BY <1>0, <1>6 DEF RegisterAcked
<1>7. ASSUME NEW c \in Client, NEW a \in acks, AckWithoutTask(c, a)
      PROVE  Calm(d)'
  BY <1>0, <1>7 DEF AckWithoutTask, Drops
<1>8. ASSUME NEW r \in requests, NewProxy(r)
      PROVE  Calm(d)'
  <2> DEFINE ack == [client |-> r.client, n |-> r.n, ok |-> FALSE]
             thread == Thread(r.client, r.n, "storeWN")
  <2>1. ack.client = r.client /\ ~ ack.ok
    OBVIOUS
  <2>2. thread.client = r.client /\ thread.pc = "storeWN"
    BY DEF Thread
  <2>3. /\ requests' = requests \ {r} /\ r.type = "NewProxy"
        /\ IF r.client \notin clientWNMap
             THEN threads' = threads \cup {thread} /\ acks' = acks
             ELSE threads' = threads /\ acks' = IF r.client \in connected THEN acks \cup {ack}
                                                                         ELSE acks
        /\ UNCHANGED <<clientVars, linkVars, mapVars, mailbox>>
    BY <1>8 DEF NewProxy, IsNew, Ack
  <2> HIDE DEF ack, thread
  <2>4. CASE d # r.client
    BY <1>0, <2>1, <2>2, <2>3, <2>4
  <2>5. CASE d = r.client /\ d \notin clientWNMap
    BY <1>0, <2>2, <2>3, <2>5
  <2>6. CASE d = r.client /\ d \in clientWNMap
    BY <1>0, <2>1, <2>3, <2>6
  <2> QED
    BY <2>4, <2>5, <2>6
<1>9. ASSUME NEW r \in requests, UnRegisterRequest(r)
      PROVE  Calm(d)'
  BY <1>0, <1>9 DEF UnRegisterRequest, LoadPeer, Thread
<1>10. ASSUME NEW t \in threads, StoreWN(t)
       PROVE  Calm(d)'
  BY <1>0, <1>10 DEF StoreWN, Moves
<1>11. ASSUME NEW t \in threads, StorePeer(t)
       PROVE  Calm(d)'
  <2> DEFINE ack == [client |-> t.client, n |-> t.n, ok |-> TRUE]
  <2>1. ack.client = t.client
    OBVIOUS
  <2>2. /\ threads' = threads \ {t} /\ t.pc = "storePeer"
        /\ acks' = IF t.client \in connected THEN acks \cup {ack} ELSE acks
        /\ UNCHANGED <<clientVars, linkVars, requests, clientWNMap, mailbox>>
    BY <1>11 DEF StorePeer, Ack
  <2> HIDE DEF ack
  <2>3. CASE d # t.client
    BY <1>0, <2>1, <2>2, <2>3
  <2>4. CASE d = t.client
    BY <1>0, <2>1, <2>2, <2>4
  <2> QED
    BY <2>3, <2>4
<1>12. ASSUME NEW t \in threads, DeleteWN(t)
       PROVE  Calm(d)'
  BY <1>0, <1>12 DEF DeleteWN, Moves
<1>13. ASSUME NEW t \in threads, DeletePeer(t)
       PROVE  Calm(d)'
  BY <1>0, <1>13 DEF DeletePeer
<1>14. CASE ServeUnregister
  BY <1>0, <1>14 DEF ServeUnregister, LoadPeer, Thread, MailOfShaken
<1> QED
  BY <1>1, <1>2, <1>3, <1>4, <1>5, <1>6, <1>7, <1>8, <1>9, <1>10, <1>11, <1>12, <1>13, <1>14
  DEF RegistryNext

\* Whatever the earlier requests of a client are still doing to the two maps, a
\* client that was told of its registration is found by its WhiteNoise id, unless
\* it lost a connection or gave up a call (AddClient, RemoveClient).
THEOREM ToldIsFound == RegistrySpec => []RegisteredFound
<1>1. RegistryInv => RegisteredFound
  BY DEF RegistryInv, RegistryTypeOK, RegisteredFound, Calm, StaysKnown
<1>2. ASSUME RegistryInv, [RegistryNext]_registryVars
      PROVE  RegistryInv'
  <2>1. CASE RegistryNext
    BY <1>2, <2>1, RegistryTypeStep, MailStep, CalmStep DEF RegistryInv
  <2>2. CASE UNCHANGED registryVars
    BY <1>2, <2>2
    DEF registryVars, clientVars, linkVars, mapVars, RegistryInv, RegistryTypeOK, MailOfShaken,
        Calm, OneRegistration, OneRemoval, StoresUnknown, StaysKnown, Asks, Runs, Acks, NoRemoval
  <2> QED
    BY <1>2, <2>1, <2>2
<1> QED
  BY <1>1, <1>2, RegistryInitInv, PTL DEF RegistrySpec
=============================================================================
