---------------------------- MODULE StartProofs ----------------------------
(***************************************************************************)
(* Theorems about the start of a process: the account it runs with         *)
(* (Startup) and the wiring of its node (NodeStart).                       *)
(***************************************************************************)
EXTENDS Startup, NodeStart, TLAPS

-----------------------------------------------------------------------------
(* Startup: accounts *)

Account == [type : KeyType, n : Nat]

StartupTypeOK ==
  /\ process \in [Process -> [pc : {"down", "started", "account", "opening", "querying",
                                    "making", "running"},
                              type : KeyType, account : Account \cup {NoAccount},
                              from : {"none", "file", "db", "nowhere"}]]
  /\ keyFile \in Account \cup {NoAccount}
  /\ stored \in Account \cup {NoAccount}
  /\ holder \in Process \cup {NoProcess}
  /\ made \in Nat /\ starts \in Nat /\ errors \in Nat

\* Who works with the database has it open, from the lookup to its own end.
HoldsDB ==
  \A p \in Process :
    (process[p].pc \in {"querying", "making"} \/ process[p].from = "db") => holder = p

\* A process that is still looking for its account has none.
NoneYet ==
  \A p \in Process :
    process[p].pc \in {"down", "started", "opening", "querying", "making"}
      => process[p].from = "none"

\* A new account is made because the stored one cannot serve.
MakesForNeed ==
  \A p \in Process : process[p].pc = "making" =>
    stored = NoAccount \/ process[p].type # stored.type \/ errors > 0

StartupInv == StartupTypeOK /\ HoldsDB /\ NoneYet /\ MakesForNeed /\ RunsAsStored

LEMMA StartupInitInv == StartupInit => StartupInv
BY StartupAssumption
DEF StartupInit, StartupInv, StartupTypeOK, HoldsDB, NoneYet, MakesForNeed, RunsAsStored,
    Down, Key, Account

LEMMA StartupTypeStep ==
  ASSUME StartupTypeOK, [StartupNext]_startupVars
  PROVE  StartupTypeOK'
<1> USE StartupAssumption DEF StartupTypeOK, Account, Key, Down
<1>1. CASE UNCHANGED startupVars
  BY <1>1 DEF startupVars
<1>2. ASSUME NEW p \in Process, NEW type \in KeyType,
             Start(p, type) \/ NewOneTimeAccount(p, type)
      PROVE  StartupTypeOK'
  BY <1>2 DEF Start, NewOneTimeAccount, HasAccount
<1>3. ASSUME NEW p \in Process, GetAccountFromFile(p) \/ NewNode(p) \/ Exit(p)
      PROVE  StartupTypeOK'
  BY <1>3 DEF GetAccountFromFile, NewNode, Exit, HasAccount, Goes, Ends, FileServes
<1>4. ASSUME NEW p \in Process, OpenLevelDB(p) \/ QueryDefaultAccount(p) \/ QueryFails(p)
      PROVE  StartupTypeOK'
  <2>1. CASE OpenLevelDB(p)
    BY <2>1 DEF OpenLevelDB, Goes, Ends
  <2>2. CASE QueryDefaultAccount(p)
    BY <2>2 DEF QueryDefaultAccount, HasAccount, Goes, KeepsDB
  <2>3. CASE QueryFails(p)
    BY <2>3 DEF QueryFails, Goes, Err
  <2> QED
    BY <1>4, <2>1, <2>2, <2>3
<1>5. ASSUME NEW p \in Process, InsertOrUpdateAccount(p) \/ InsertFails(p)
      PROVE  StartupTypeOK'
  BY <1>5 DEF InsertOrUpdateAccount, InsertFails, HasAccount, Ends, Err, KeepsDB
<1> QED
  BY <1>1, <1>2, <1>3, <1>4, <1>5 DEF StartupNext

LEMMA StartupStep ==
  ASSUME StartupInv, [StartupNext]_startupVars
  PROVE  StartupInv'
<1> USE StartupAssumption
    DEF StartupInv, StartupTypeOK, HoldsDB, NoneYet, MakesForNeed, RunsAsStored, Account, Key
<1>1. StartupTypeOK'
  BY StartupTypeStep
<1>2. CASE UNCHANGED startupVars
  BY <1>1, <1>2 DEF startupVars
<1>3. ASSUME NEW p \in Process, NEW type \in KeyType,
             Start(p, type) \/ NewOneTimeAccount(p, type)
      PROVE  StartupInv'
  BY <1>1, <1>3 DEF Start, NewOneTimeAccount, HasAccount, At
<1>4. ASSUME NEW p \in Process, GetAccountFromFile(p) \/ NewNode(p) \/ Exit(p)
      PROVE  StartupInv'
  <2>1. CASE GetAccountFromFile(p)
    BY <1>1, <2>1 DEF GetAccountFromFile, HasAccount, Goes, FileServes, At
  <2>2. CASE NewNode(p)
    BY <1>1, <2>2 DEF NewNode, Goes, At
  <2>3. CASE Exit(p)
    BY <1>1, <2>3 DEF Exit, Ends, At, Down
  <2> QED
    BY <1>4, <2>1, <2>2, <2>3
<1>5. ASSUME NEW p \in Process, OpenLevelDB(p) \/ QueryDefaultAccount(p) \/ QueryFails(p)
      PROVE  StartupInv'
  BY <1>1, <1>5 DEF OpenLevelDB, QueryDefaultAccount, QueryFails, HasAccount, Goes, Ends, Err,
     KeepsDB, At, Down, Usable
<1>6. ASSUME NEW p \in Process, InsertOrUpdateAccount(p) \/ InsertFails(p)
      PROVE  StartupInv'
  BY <1>1, <1>6 DEF InsertOrUpdateAccount, InsertFails, HasAccount, Ends, Err, KeepsDB, At, Down
<1> QED
  BY <1>2, <1>3, <1>4, <1>5, <1>6 DEF StartupNext

\* A process that has its account from the database runs with the one stored there,
\* whatever other processes in its directory do, and however often they start and
\* crash (GetAccount, and the lock of the LevelDB that it never closes).
THEOREM AccountsAsStored == StartupSpec => []RunsAsStored
<1>1. StartupInv => RunsAsStored
  BY DEF StartupInv
<1> QED
  BY <1>1, StartupInitInv, StartupStep, PTL DEF StartupSpec

\* A stored account is replaced only for a process that asks for another key type,
\* or after an error (GetAccount, InsertOrUpdateAccount).
THEOREM IdentitySurvives == StartupSpec => IdentityKept
<1> DEFINE Kept == stored # NoAccount /\ stored' # stored =>
                     \/ \E p \in Process : At(p, "making") /\ process[p].type # stored.type
                     \/ errors > 0
<1>1. ASSUME StartupInv, [StartupNext]_startupVars
      PROVE  [Kept]_startupVars
  <2>1. ASSUME NEW p \in Process, InsertOrUpdateAccount(p)
        PROVE  Kept
    BY <1>1, <2>1 DEF StartupInv, MakesForNeed, InsertOrUpdateAccount, At
  <2>2. CASE UNCHANGED stored
    BY <2>2
  <2> QED
    BY <1>1, <2>1, <2>2
    DEF StartupNext, startupVars, Start, NewOneTimeAccount, GetAccountFromFile, NewNode, Exit,
        OpenLevelDB, QueryDefaultAccount, QueryFails, InsertFails
<1> QED
  BY <1>1, StartupInitInv, StartupStep, PTL DEF StartupSpec, IdentityKept

-----------------------------------------------------------------------------
(* NodeStart: the wiring of a node *)

Connection == [n : Nat, peer : Dialer, open : BOOLEAN, heard : BOOLEAN, due : BOOLEAN]

NodeStartTypeOK ==
  /\ mode \in {"server", "boot", "client"}
  /\ whiteMode \in BOOLEAN
  /\ done \in 0..Len(Steps)
  /\ whiteList \subseteq Listed
  /\ conns \subseteq Connection
  /\ dialled \in Nat
  /\ fallen \in {"no", "start", "nil pid"}

\* The notifiee stores nothing before it is set.
QuietBefore ==
  ~ Done("SetNotify") =>
    /\ addrs \subseteq {Bootstrap}
    /\ \A c \in conns : ~ c.due

NodeStartInv == NodeStartTypeOK /\ QuietBefore /\ ServesOnceStarted /\ AddressesBacked

\* The notifiee is set last, when every actor is known to those who need it.
LEMMA StepsEnd ==
  ASSUME mode \in {"server", "boot", "client"}, whiteMode \in BOOLEAN
  PROVE  /\ Len(Steps) \in Nat
         /\ \A i \in 1..Len(Steps) : Steps[i] = "SetNotify" => i = Len(Steps)
         /\ \E i \in 1..Len(Steps) : Steps[i] = "SetPid"
         /\ mode # "client" => \E i \in 1..Len(Steps) : Steps[i] = "SetDHTPid"
<1>1. CASE mode = "client" /\ whiteMode
  <2>1. Steps = (<<"InitWhiteList">> \o <<"NewHost", "NewNoiseService">>)
                  \o <<"Start", "SetPid", "SetNotify">>
    BY <1>1 DEF Steps, ReadsList, ClientSteps
  <2>2. Len(Steps) = 6 /\ Steps[5] = "SetPid"
    BY <2>1
  <2>3. Steps[1] = "InitWhiteList" /\ Steps[2] = "NewHost" /\ Steps[3] = "NewNoiseService"
        /\ Steps[4] = "Start"
    BY <2>1
  <2> QED
    BY <1>1, <2>2, <2>3
<1>2. CASE mode = "client" /\ ~ whiteMode
  <2>1. Steps = (<<>> \o <<"NewHost", "NewNoiseService">>)
                  \o <<"Start", "SetPid", "SetNotify">>
    BY <1>2 DEF Steps, ReadsList, ClientSteps
  <2>2. Len(Steps) = 5 /\ Steps[4] = "SetPid"
    BY <2>1
  <2>3. Steps[1] = "NewHost" /\ Steps[2] = "NewNoiseService" /\ Steps[3] = "Start"
    BY <2>1
  <2> QED
    BY <1>2, <2>2, <2>3
<1>3. CASE mode # "client" /\ whiteMode
  <2>1. Steps = (<<"InitWhiteList">> \o <<"NewHost", "NewNoiseService">>)
                  \o <<"NewDHTService", "StartDHT", "Start", "SetPid", "SetDHTPid",
                       "SetNotify">>
    BY <1>3 DEF Steps, ReadsList, NodeSteps
  <2>2. Len(Steps) = 9 /\ Steps[7] = "SetPid" /\ Steps[8] = "SetDHTPid"
    BY <2>1
  <2>3. Steps[1] = "InitWhiteList" /\ Steps[2] = "NewHost" /\ Steps[3] = "NewNoiseService"
        /\ Steps[4] = "NewDHTService" /\ Steps[5] = "StartDHT" /\ Steps[6] = "Start"
    BY <2>1
  <2> QED
    BY <1>3, <2>2, <2>3
<1>4. CASE mode # "client" /\ ~ whiteMode
  <2>1. Steps = (<<>> \o <<"NewHost", "NewNoiseService">>)
                  \o <<"NewDHTService", "StartDHT", "Start", "SetPid", "SetDHTPid",
                       "SetNotify">>
    BY <1>4 DEF Steps, ReadsList, NodeSteps
  <2>2. Len(Steps) = 8 /\ Steps[6] = "SetPid" /\ Steps[7] = "SetDHTPid"
    BY <2>1
  <2>3. Steps[1] = "NewHost" /\ Steps[2] = "NewNoiseService" /\ Steps[3] = "NewDHTService"
        /\ Steps[4] = "StartDHT" /\ Steps[5] = "Start"
    BY <2>1
  <2> QED
    BY <1>4, <2>2, <2>3
<1> QED
  BY <1>1, <1>2, <1>3, <1>4

LEMMA NotifyLast ==
  ASSUME NodeStartTypeOK, Done("SetNotify")
  PROVE  /\ Done("SetPid")
         /\ mode # "client" => Done("SetDHTPid")
         /\ done = Len(Steps)
<1>1. mode \in {"server", "boot", "client"} /\ whiteMode \in BOOLEAN /\ done \in 0..Len(Steps)
  BY DEF NodeStartTypeOK
<1>2. PICK i \in 1..done : Steps[i] = "SetNotify"
  BY DEF Done
<1>3. Len(Steps) \in Nat /\ i = Len(Steps)
  BY <1>1, <1>2, StepsEnd
<1> QED
  BY <1>1, <1>2, <1>3, StepsEnd DEF Done

LEMMA NodeStartInitInv == NodeStartInit => NodeStartInv
<1> SUFFICES ASSUME NodeStartInit PROVE NodeStartInv
  OBVIOUS
<1>1. mode \in {"server", "boot", "client"} /\ whiteMode \in BOOLEAN
  BY DEF NodeStartInit
<1>2. Len(Steps) \in Nat
  BY <1>1, StepsEnd
<1> QED
  BY <1>1, <1>2
  DEF NodeStartInit, NodeStartInv, NodeStartTypeOK, QuietBefore, ServesOnceStarted,
      AddressesBacked, Done

\* The steps of the start itself: only InitWhiteList and NewNoiseService touch what
\* the node knows of peers.
LEMMA WiringStep ==
  ASSUME NodeStartInv, NEW step, Takes(step), whiteList' \subseteq Listed,
         addrs' \subseteq addrs \cup {Bootstrap}
  PROVE  NodeStartInv'
<1>1. Steps' = Steps
  BY DEF Takes, Steps, ReadsList, NodeSteps, ClientSteps
<1>2. mode \in {"server", "boot", "client"} /\ whiteMode \in BOOLEAN
  BY DEF NodeStartInv, NodeStartTypeOK
<1>3. Len(Steps) \in Nat
  BY <1>2, StepsEnd
<1>4. NodeStartTypeOK'
  BY <1>1, <1>2, <1>3 DEF NodeStartInv, NodeStartTypeOK, Takes, connectionVars
<1>5. Done("SetNotify") => Done("SetNotify")'
  BY <1>1, <1>3 DEF NodeStartInv, NodeStartTypeOK, Takes, Done
<1>6. QuietBefore'
  BY <1>5 DEF NodeStartInv, QuietBefore, Takes, connectionVars
<1>7. ServesOnceStarted'
  BY DEF ServesOnceStarted, Takes
<1>8. AddressesBacked'
  BY DEF NodeStartInv, AddressesBacked, Takes, connectionVars
<1> QED
  BY <1>4, <1>6, <1>7, <1>8 DEF NodeStartInv

\* Everything else leaves the start where it is.
LEMMA Settled ==
  ASSUME UNCHANGED <<mode, whiteMode, done>>
  PROVE  Steps' = Steps /\ \A step : Done(step)' = Done(step)
BY DEF Steps, ReadsList, NodeSteps, ClientSteps, Done

LEMMA ConnectStep ==
  ASSUME NodeStartInv, NEW p \in Dialer, Connect(p)
  PROVE  NodeStartInv'
<1> DEFINE set == Done("SetNotify")
           c == [n |-> dialled', peer |-> p, open |-> TRUE, heard |-> set, due |-> set]
<1>1. UNCHANGED <<mode, whiteMode, done, whiteList, addrs, fallen>> /\ fallen = "no"
      /\ conns' = conns \cup {c} /\ dialled' = dialled + 1
  BY DEF Connect, startVars, peerVars
<1>2. Steps' = Steps /\ Done("SetNotify")' = set
  BY <1>1, Settled
<1>3. set \in BOOLEAN
  BY DEF Done
<1>4. dialled' \in Nat
  BY <1>1 DEF NodeStartInv, NodeStartTypeOK
<1> HIDE DEF set
<1>5. c \in Connection
  BY <1>3, <1>4 DEF Connection
<1>6. c.due = set
  OBVIOUS
<1> HIDE DEF c
<1>7. NodeStartTypeOK'
  BY <1>1, <1>2, <1>4, <1>5 DEF NodeStartInv, NodeStartTypeOK
<1>8. QuietBefore'
  BY <1>1, <1>2, <1>6 DEF NodeStartInv, QuietBefore, set
<1>9. AddressesBacked' /\ ServesOnceStarted'
  BY <1>1 DEF NodeStartInv, AddressesBacked, ServesOnceStarted
<1> QED
  BY <1>7, <1>8, <1>9 DEF NodeStartInv

\* What a notification, or the far end, makes of a connection.
LEMMA Looked ==
  ASSUME NEW c \in Connection, HandleConnected(c)
  PROVE  \E d \in Connection :
           /\ conns' = (conns \ {c}) \cup {d} /\ addrs' = addrs \cup {c.peer}
           /\ d.peer = c.peer /\ c.due
           /\ d.open => ~ whiteMode \/ c.peer \in whiteList
<1> DEFINE may == c.open /\ ~ Blocks(c.peer)
           d == [c EXCEPT !.due = FALSE, !.open = may]
<1>1. may \in BOOLEAN /\ (may => ~ whiteMode \/ c.peer \in whiteList)
  BY DEF Blocks
<1>2. conns' = (conns \ {c}) \cup {d} /\ addrs' = addrs \cup {c.peer} /\ c.due
  BY DEF HandleConnected, Becomes
<1> HIDE DEF may
<1>3. d \in Connection /\ d.peer = c.peer /\ d.open = may
  BY <1>1 DEF Connection
<1> HIDE DEF d
<1> QED
  BY <1>1, <1>2, <1>3

LEMMA HungUp ==
  ASSUME NEW c \in Connection, Hangup(c)
  PROVE  \E d \in Connection :
           /\ conns' = (conns \ {c}) \cup {d} /\ addrs' = addrs
           /\ d.peer = c.peer /\ d.due = c.due /\ ~ d.open
<1> DEFINE d == [c EXCEPT !.open = FALSE]
<1>1. d \in Connection /\ d.peer = c.peer /\ d.due = c.due /\ ~ d.open
  BY DEF Connection
<1>2. conns' = (conns \ {c}) \cup {d} /\ addrs' = addrs
  BY DEF Hangup, Becomes, peerVars
<1> HIDE DEF d
<1> QED
  BY <1>1, <1>2

\* A connection that the node looks at, or that ends.
LEMMA ConnectionStep ==
  ASSUME NodeStartInv, NEW c \in conns, HandleConnected(c) \/ Hangup(c) \/ HandleDisconnected(c)
  PROVE  NodeStartInv'
<1>1. UNCHANGED <<mode, whiteMode, done, whiteList, dialled, fallen>> /\ fallen = "no"
  BY DEF HandleConnected, Hangup, HandleDisconnected, startVars, peerVars
<1>2. Steps' = Steps /\ Done("SetNotify")' = Done("SetNotify")
  BY <1>1, Settled
<1>3. c \in Connection /\ conns \subseteq Connection /\ whiteList \subseteq Listed
  BY DEF NodeStartInv, NodeStartTypeOK
<1>4. conns' \subseteq Connection /\ QuietBefore' /\ AddressesBacked'
  <2>1. CASE HandleConnected(c)
    <3>1. PICK d \in Connection :
            /\ conns' = (conns \ {c}) \cup {d} /\ addrs' = addrs \cup {c.peer}
            /\ d.peer = c.peer /\ c.due
            /\ d.open => ~ whiteMode \/ c.peer \in whiteList
      BY <1>3, <2>1, Looked
    <3>2. QuietBefore'
      BY <1>2, <3>1 DEF NodeStartInv, QuietBefore
    <3> QED
      BY <1>1, <1>3, <3>1, <3>2 DEF NodeStartInv, AddressesBacked
  <2>2. CASE Hangup(c)
    <3>1. PICK d \in Connection :
            /\ conns' = (conns \ {c}) \cup {d} /\ addrs' = addrs
            /\ d.peer = c.peer /\ d.due = c.due /\ ~ d.open
      BY <1>3, <2>2, HungUp
    <3>2. QuietBefore'
      BY <1>2, <3>1 DEF NodeStartInv, QuietBefore
    <3> QED
      BY <1>1, <1>3, <3>1, <3>2 DEF NodeStartInv, AddressesBacked
  <2>3. CASE HandleDisconnected(c)
    BY <1>1, <1>2, <1>3, <2>3
    DEF NodeStartInv, AddressesBacked, HandleDisconnected, QuietBefore, ClearAddrs
  <2> QED
    BY <2>1, <2>2, <2>3
<1>5. NodeStartTypeOK' /\ ServesOnceStarted'
  BY <1>1, <1>2, <1>4 DEF NodeStartInv, NodeStartTypeOK, ServesOnceStarted
<1> QED
  BY <1>4, <1>5 DEF NodeStartInv

\* What ends the process, or is served.
LEMMA ServiceStep ==
  ASSUME NodeStartInv, StartFails \/ ServeGossip \/ \E c \in conns : ServeStream(c)
  PROVE  NodeStartInv'
<1>1. UNCHANGED <<mode, whiteMode, done, whiteList, addrs, conns, dialled>> /\ fallen = "no"
      /\ fallen' \in {"no", "start", "nil pid"}
  BY DEF StartFails, ServeGossip, ServeStream, NilPid, startVars, peerVars, connectionVars
<1>2. Steps' = Steps /\ Done("SetNotify")' = Done("SetNotify")
  BY <1>1, Settled
<1>3. NodeStartTypeOK' /\ QuietBefore' /\ AddressesBacked'
  BY <1>1, <1>2 DEF NodeStartInv, NodeStartTypeOK, QuietBefore, AddressesBacked
<1>4. ServesOnceStarted'
  <2>1. SUFFICES ASSUME fallen' = "nil pid", Done("SetNotify") PROVE FALSE
    BY <1>2 DEF ServesOnceStarted
  <2>2. Done("SetPid") /\ (mode # "client" => Done("SetDHTPid"))
    BY <2>1, NotifyLast DEF NodeStartInv
  <2> QED
    BY <2>1, <2>2 DEF StartFails, ServeGossip, ServeStream, NilPid
<1> QED
  BY <1>3, <1>4 DEF NodeStartInv

LEMMA NodeStartStep ==
  ASSUME NodeStartInv, [NodeStartNext]_nodeStartVars
  PROVE  NodeStartInv'
<1>1. CASE UNCHANGED nodeStartVars
  <2>1. UNCHANGED <<mode, whiteMode, done, whiteList, addrs, conns, dialled, fallen>>
    BY <1>1 DEF nodeStartVars, startVars, peerVars, connectionVars
  <2>2. Steps' = Steps /\ Done("SetNotify")' = Done("SetNotify")
    BY <2>1, Settled
  <2> QED
    BY <2>1, <2>2
    DEF NodeStartInv, NodeStartTypeOK, QuietBefore, ServesOnceStarted, AddressesBacked
<1>2. CASE InitWhiteList
  BY <1>2, WiringStep DEF InitWhiteList
<1>3. whiteList \subseteq Listed
  BY DEF NodeStartInv, NodeStartTypeOK
<1>4. CASE \/ NewHost \/ NewNoiseService \/ NewDHTService \/ StartDHT \/ StartNoise \/ SetPid
           \/ SetNotify
  BY <1>3, <1>4, WiringStep
  DEF NewHost, NewNoiseService, NewDHTService, StartDHT, StartNoise, SetPid, SetNotify, peerVars
<1> QED
  BY <1>1, <1>2, <1>4, ConnectStep, ConnectionStep, ServiceStep DEF NodeStartNext

\* A node that has started serves every stream and every gossip that reaches it: the
\* handlers know their actors by then, in every mode (NewNode, Start, SetPid).
THEOREM StartedServes == NodeStartSpec => []ServesOnceStarted
<1>1. NodeStartInv => ServesOnceStarted
  BY DEF NodeStartInv
<1> QED
  BY <1>1, NodeStartInitInv, NodeStartStep, PTL DEF NodeStartSpec

\* Each address that the notifiee stored is backed by a connection that is allowed, or
\* whose end has yet to be noticed, in whatever order notifications and the connections
\* of one peer come and go (Connected, Disconnected).
THEOREM AddressesAreBacked == NodeStartSpec => []AddressesBacked
<1>1. NodeStartInv => AddressesBacked
  BY DEF NodeStartInv
<1> QED
  BY <1>1, NodeStartInitInv, NodeStartStep, PTL DEF NodeStartSpec
=============================================================================
