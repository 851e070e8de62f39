------------------------------ MODULE Migrate ------------------------------
(***************************************************************************)
(* Opening the database, src/internal/store/store.go:46-131, by several    *)
(* processes: the server, which is started again whenever it ends, the     *)
(* command that sets the password, and either of them from a build that    *)
(* knows fewer migrations than the other.                                  *)
(*                                                                         *)
(* The version is read outside of any transaction.  Each migration runs in *)
(* a transaction of its own, for which SQLite has one write lock: who      *)
(* meets it taken waits for at most busy_timeout and then fails.  A        *)
(* migration creates tables and fails if they are there.                   *)
(***************************************************************************)
EXTENDS Integers

CONSTANTS
    Processes,
    Nobody,         \* holds the write lock when it is free
    Newest          \* bound: the migrations of the newest build

\* What a module that instantiates this one assumes of them.
ConstantsOK == Nobody \notin Processes /\ Newest \in Nat \ {0}

VARIABLES
    version,    \* PRAGMA user_version, as committed
    schema,     \* the migrations whose tables are there, as committed
    lock,       \* the process in a transaction that writes
    stage,      \* how far a process is with Open
    next,       \* migrations it has behind it, as it reads or counts them
    known       \* the migrations in the build that a process runs

vars == <<version, schema, lock, stage, next, known>>

Init ==
    /\ version = 0 /\ schema = {} /\ lock = Nobody
    /\ stage = [p \in Processes |-> "down"]
    /\ next = [p \in Processes |-> 0]
    /\ known \in [Processes -> 1 .. Newest]

Released(p) == IF lock = p THEN Nobody ELSE lock

Opened(p) == stage[p] = "open"

Start(p) ==
    /\ stage[p] = "down"
    /\ stage' = [stage EXCEPT ![p] = "started"]
    /\ UNCHANGED <<version, schema, lock, next, known>>

\* Open goes on with the loop as long as there are migrations left.
HasAll_OneShort(p, done) == done + 1 >= known[p]
HasAll(p, done) == done >= known[p]

Continue(p, done) ==
    /\ next' = [next EXCEPT ![p] = done]
    /\ stage' = [stage EXCEPT ![p] = IF HasAll(p, done) THEN "open" ELSE "migrating"]

ReadVersion(p) ==
    /\ stage[p] = "started"
    /\ Continue(p, version)
    /\ UNCHANGED <<version, schema, lock, known>>

\* The transaction takes the write lock with its first statement, and the
\* tables of the migration must not be there.
Exists_Skipped(i) == FALSE
Exists(i) == i \in schema

Begin(p) ==
    /\ stage[p] = "migrating" /\ lock = Nobody
    /\ ~Exists(next[p] + 1)
    /\ lock' = p
    /\ stage' = [stage EXCEPT ![p] = "recording"]
    /\ UNCHANGED <<version, schema, next, known>>

\* PRAGMA user_version belongs to the transaction.
Recorded(p) == next[p] + 1

Commit(p) ==
    /\ stage[p] = "recording"
    /\ schema' = schema \cup {next[p] + 1}
    /\ version' = Recorded(p)
    /\ lock' = Nobody
    /\ Continue(p, next[p] + 1)
    /\ UNCHANGED known

\* A process ends, whatever it was at: a transaction it was in is undone.
End(p) ==
    /\ stage' = [stage EXCEPT ![p] = "down"]
    /\ lock' = Released(p)
    /\ next' = [next EXCEPT ![p] = 0]
    /\ UNCHANGED <<version, schema>>

Leave(p) == End(p) /\ UNCHANGED known

\* "apply migration": the tables exist, or the write lock was not to be had.
Fail_Waits(p) ==
    /\ stage[p] = "migrating"
    /\ lock # Nobody \/ Exists(next[p] + 1)
    /\ UNCHANGED vars
Fail(p) ==
    /\ stage[p] = "migrating"
    /\ lock # Nobody \/ Exists(next[p] + 1)
    /\ Leave(p)

Crash(p) ==
    /\ stage[p] # "down"
    /\ Leave(p)

\* An update stops the process, to be started again from the newer build.
Update(p) ==
    /\ known[p] < Newest
    /\ known' = [known EXCEPT ![p] = known[p] + 1]
    /\ End(p)

Next ==
    \E p \in Processes :
        \/ Start(p) \/ ReadVersion(p) \/ Begin(p) \/ Commit(p)
        \/ Fail(p) \/ Crash(p) \/ Update(p)

Spec == Init /\ [][Next]_vars

---------------------------------------------------------------------------

TypeOK ==
    /\ version \in Nat
    /\ schema \subseteq Nat
    /\ lock \in Processes \cup {Nobody}
    /\ stage \in [Processes -> {"down", "started", "migrating", "recording", "open"}]
    /\ next \in [Processes -> Nat]
    /\ known \in [Processes -> 1 .. Newest]

\* The version says which migrations the database has, whoever reads it and
\* whatever crashed: each of them, in order, and nothing of the one after
\* (store.go:86-87).  A process that read the version before another one
\* moved it neither repeats a migration nor moves the version back.
VersionIsSchema == schema = 1 .. version

\* Who has opened the database finds every table its build knows, although
\* it may have created none of them (store.go:73-77, 108).
OpenHasTables == \A p \in Processes : Opened(p) => 1 .. known[p] \subseteq schema
=============================================================================
