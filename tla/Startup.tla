------------------------------ MODULE Startup ------------------------------
(***************************************************************************)
(* How a process of the program comes by its account (main.go,             *)
(* common/account, common/store): from a key file, from the LevelDB in     *)
(* ./db, or a new one that is stored there.  Several processes may be      *)
(* started in one directory, end at any time, and be started again, as     *)
(* node or as chat client, with another key type.                          *)
(*                                                                         *)
(* A key is represented by its type and the number of its making.          *)
(***************************************************************************)
EXTENDS Naturals

CONSTANTS
  Process,     \* the processes started in the directory
  KeyType,     \* the key types a process may be asked for
  FileType,    \* the type of key that a key file can hold (ECDSA)
  NoAccount,
  NoProcess,
  MaxStarts,   \* bound on starts
  MaxErrors    \* bound on errors of the database and of the network

ASSUME StartupAssumption ==
  /\ FileType \in KeyType
  /\ NoProcess \notin Process
  /\ MaxStarts \in Nat /\ MaxErrors \in Nat

VARIABLES
  process,  \* for each process: what it does, the key type it wants, its account
  keyFile,  \* the account in the key file, if there is one
  stored,   \* the account under "default" in the database
  holder,   \* the process that has the database open
  made,     \* the number of key pairs made so far
  starts,   \* the number of starts so far
  errors    \* the number of errors so far

startupVars == <<process, keyFile, stored, holder, made, starts, errors>>

Key(type, n) == [type |-> type, n |-> n]
Down == [pc |-> "down", type |-> FileType, account |-> NoAccount, from |-> "none"]

StartupInit ==
  /\ process = [p \in Process |-> Down]
  /\ keyFile \in {NoAccount, Key(FileType, 0)}
  /\ stored = NoAccount /\ holder = NoProcess
  /\ made = 0 /\ starts = 0 /\ errors = 0

At(p, pc) == process[p].pc = pc
Goes(p, pc) == process' = [process EXCEPT ![p].pc = pc]

\* The process ends, and the operating system frees the database's lock.
Ends(p) ==
  /\ process' = [process EXCEPT ![p] = Down]
  /\ holder' = IF holder = p THEN NoProcess ELSE holder

-----------------------------------------------------------------------------
(* main.go: Start, StartChat *)

\* The command line is read, with the white list where it is asked for.
Start(p, type) ==
  /\ At(p, "down") /\ starts < MaxStarts
  /\ process' = [process EXCEPT ![p].pc = "started", ![p].type = type]
  /\ starts' = starts + 1
  /\ UNCHANGED <<keyFile, stored, holder, made, errors>>

HasAccount(p, account, from) ==
  process' = [process EXCEPT ![p].pc = "account", ![p].account = account, ![p].from = from]

FileServes(p) == keyFile # NoAccount /\ keyFile.type = process[p].type

\* A key file is used if it can be read and if its type is the one asked for.
GetAccountFromFile(p) ==
  /\ At(p, "started")
  /\ IF FileServes(p)
       THEN HasAccount(p, keyFile, "file")
       ELSE Goes(p, "opening")
  /\ UNCHANGED <<keyFile, stored, holder, made, starts, errors>>

\* The sdk's NewOneTimeClient: a key that nobody stores.
NewOneTimeAccount(p, type) ==
  /\ At(p, "down") /\ starts < MaxStarts
  /\ HasAccount(p, Key(type, made + 1), "nowhere")
  /\ made' = made + 1
  /\ starts' = starts + 1
  /\ UNCHANGED <<keyFile, stored, holder, errors>>

\* With the account the process makes its host and its services, and runs.
NewNode(p) ==
  /\ At(p, "account")
  /\ Goes(p, "running")
  /\ UNCHANGED <<keyFile, stored, holder, made, starts, errors>>

\* A signal, a panic (no white list, no network, no peers), or a crash.
Exit(p) ==
  /\ ~ At(p, "down")
  /\ Ends(p)
  /\ UNCHANGED <<keyFile, stored, made, starts, errors>>

-----------------------------------------------------------------------------
(* account.GetAccount *)

\* LevelDB's lock keeps a second process out; GetAccount logs that and goes on to
\* use the store it did not get.
OpenLevelDB(p) ==
  /\ At(p, "opening")
  /\ IF holder = NoProcess
       THEN Goes(p, "querying") /\ holder' = p
       ELSE Ends(p)
  /\ UNCHANGED <<keyFile, stored, made, starts, errors>>

\* Mutant: only an account of the default type is taken.
OfDefaultType(account, type) == account # NoAccount /\ account.type # FileType

Usable(account, type) == account # NoAccount /\ account.type = type

\* Mutant: the database is closed once the account is loaded.
ClosesDB(p) == holder' = NoProcess

\* GetAccount does not close the database: the process holds it until it ends.
KeepsDB(p) == UNCHANGED holder

QueryDefaultAccount(p) ==
  /\ At(p, "querying")
  /\ IF Usable(stored, process[p].type)
       THEN HasAccount(p, stored, "db") /\ KeepsDB(p)
       ELSE Goes(p, "making") /\ UNCHANGED holder
  /\ UNCHANGED <<keyFile, stored, made, starts, errors>>

Err ==
  /\ errors < MaxErrors
  /\ errors' = errors + 1

\* An account that cannot be read is replaced like one that is not there.
QueryFails(p) ==
  /\ At(p, "querying")
  /\ Err /\ Goes(p, "making")
  /\ UNCHANGED <<keyFile, stored, holder, made, starts>>

\* The new account takes the place of the stored one, whatever that was.
InsertOrUpdateAccount(p) ==
  /\ At(p, "making")
  /\ LET account == Key(process[p].type, made + 1)
     IN  stored' = account /\ HasAccount(p, account, "db")
  /\ made' = made + 1
  /\ KeepsDB(p)
  /\ UNCHANGED <<keyFile, starts, errors>>

\* GetAccount returns nil, and NewNode panics when it asks for the public key.
InsertFails(p) ==
  /\ At(p, "making")
  /\ Err /\ Ends(p)
  /\ made' = made + 1
  /\ UNCHANGED <<keyFile, stored, starts>>

StartupNext ==
  \E p \in Process :
    \/ \E type \in KeyType : Start(p, type) \/ NewOneTimeAccount(p, type)
    \/ GetAccountFromFile(p) \/ NewNode(p) \/ Exit(p)
    \/ OpenLevelDB(p) \/ QueryDefaultAccount(p) \/ QueryFails(p)
    \/ InsertOrUpdateAccount(p) \/ InsertFails(p)

StartupSpec == StartupInit /\ [][StartupNext]_startupVars

-----------------------------------------------------------------------------
(* Properties *)

\* A process that has its account from the database runs with the one that is
\* stored there: whatever other processes do in the directory meanwhile, the next
\* start with its key type gives it the same WhiteNoise id (GetAccount and the
\* lock it keeps).
RunsAsStored ==
  \A p \in Process : process[p].from = "db" => process[p].account = stored

\* A stored account is replaced only by a start with another key type, or when it
\* could not be read: starting, stopping and crashing at any point between lookup
\* and Put never costs a node its identity.
IdentityKept ==
  [][stored # NoAccount /\ stored' # stored =>
       \/ \E p \in Process : At(p, "making") /\ process[p].type # stored.type
       \/ errors > 0]_startupVars
=============================================================================
