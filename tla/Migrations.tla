------------------------------ MODULE Migrations ------------------------------
(***************************************************************************)
(* The migration runner (backend/src/db/migrate.ts): several processes,     *)
(* possibly of different releases, that apply or roll back migration files  *)
(* against one database under a session-level advisory lock, and may stop   *)
(* at any point.                                                           *)
(*                                                                         *)
(* A migration is its position in the order of compareMigrations; number    *)
(* Bootstrap creates schema_migrations.  A file's content stands for its    *)
(* checksum.  A transaction of the runner is one step.                      *)
(***************************************************************************)
EXTENDS Naturals, FiniteSets

CONSTANTS
    Runner,     \* runner processes
    Content,    \* possible contents of a migration file
    Disk,       \* Disk[r]: the migration files of r's release, number to content
    Down,       \* Down[r]: the numbers r's release has a down file for
    OldRows,    \* numbers recorded before checksums were kept
    MaxSteps,   \* bound: the largest number of migrations rolled back at once
    MaxRuns     \* bound: how often each process is started

Bootstrap == 1
Migration == UNION {DOMAIN Disk[r] : r \in Runner}

ASSUME DiskAssumption ==
    \A r \in Runner : /\ DOMAIN Disk[r] \subseteq Nat \ {0}
                      /\ Bootstrap \in DOMAIN Disk[r]
                      /\ \A m \in DOMAIN Disk[r] : Disk[r][m] \in Content
                      /\ Down[r] \subseteq DOMAIN Disk[r]

ASSUME BoundsAssumption == MaxSteps \in Nat /\ MaxRuns \in Nat

VARIABLES
    table,     \* does schema_migrations exist
    applied,   \* applied[m]: its row's checksum; Legacy for NULL, None for no row
    effects,   \* effects[m]: how often m's changes have been made to the schema
    lock,      \* the session that holds the advisory lock, or None
    run        \* run[r]: where process r is, what it has left to do

vars == <<table, applied, effects, lock, run>>

None == "none"
Legacy == "null"

\* Files are finitely many, no checksum is NULL, and None is nobody's name.
ASSUME NamesAssumption ==
    IsFiniteSet(Migration) /\ None \notin Content /\ None \notin Runner

Inside == {"locked", "ensured", "working"}   \* between lock and unlock
Ended == {"idle", "done", "failed"}

First(S) == CHOOSE m \in S : \A n \in S : m <= n
Last(S) == CHOOSE m \in S : \A n \in S : n <= m
Files(r) == DOMAIN Disk[r]
Applied == {m \in Migration : applied[m] # None}
InEffect == {m \in Migration : effects[m] > 0}

Init ==
    /\ table = (OldRows # {})
    /\ applied = [m \in Migration |-> IF m \in OldRows THEN Legacy ELSE None]
    /\ effects = [m \in Migration |-> IF m \in OldRows THEN 1 ELSE 0]
    /\ lock = None
    /\ run = [r \in Runner |->
                [pc |-> "idle", cmd |-> "up", dry |-> FALSE, todo |-> {}, runs |-> 0]]

-----------------------------------------------------------------------------
(* Starting and ending *)

\* Slip: the lock is not given up at the end.
KeepsLock(r, pc) ==
    /\ run' = [run EXCEPT ![r].pc = pc, ![r].todo = {}]
    /\ UNCHANGED lock

Exit(r, pc) ==
    /\ run' = [run EXCEPT ![r].pc = pc, ![r].todo = {}]
    /\ lock' = IF lock = r THEN None ELSE lock

Start(r) ==
    /\ run[r].pc \in Ended
    /\ run[r].runs < MaxRuns
    /\ \E cmd \in {"up", "rollback", "status"}, dry \in BOOLEAN :
        run' = [run EXCEPT ![r] = [pc |-> "waiting", cmd |-> cmd, dry |-> dry,
                                   todo |-> {}, runs |-> run[r].runs + 1]]
    /\ UNCHANGED <<table, applied, effects, lock>>

\* Slip: no advisory lock.
NoLock(r) ==
    /\ run[r].pc = "waiting"
    /\ run' = [run EXCEPT ![r].pc = "locked"]
    /\ UNCHANGED <<table, applied, effects, lock>>

AcquireLock(r) ==
    /\ run[r].pc = "waiting"
    /\ lock = None
    /\ lock' = r
    /\ run' = [run EXCEPT ![r].pc = "locked"]
    /\ UNCHANGED <<table, applied, effects>>

\* The process stops: its session ends, with its lock and its open transaction.
Crash(r) ==
    /\ run[r].pc \in Inside \cup {"waiting"}
    /\ Exit(r, "idle")
    /\ UNCHANGED <<table, applied, effects>>

\* A statement fails: the transaction is rolled back, the lock given up.
Fail(r) ==
    /\ run[r].pc \in Inside
    /\ Exit(r, "failed")
    /\ UNCHANGED <<table, applied, effects>>

-----------------------------------------------------------------------------
(* Under the lock *)

\* The bootstrap file is idempotent; its row is added or given its checksum.
EnsureTable(r) ==
    /\ run[r].pc = "locked"
    /\ table' = TRUE
    /\ applied' = [applied EXCEPT ![Bootstrap] =
                     IF @ \in {None, Legacy} THEN Disk[r][Bootstrap] ELSE @]
    /\ effects' = [effects EXCEPT ![Bootstrap] = 1]
    /\ run' = [run EXCEPT ![r].pc = "ensured"]
    /\ UNCHANGED lock

\* Applied files that are on r's disk with another content.
\* Slip: an edited file is warned about, as one that is missing from disk is.
OnlyWarned(r) == {}
Drifted(r) ==
    {m \in Applied \cap Files(r) : applied[m] # Legacy /\ applied[m] # Disk[r][m]}

PlanUp(r) ==
    /\ run[r].pc = "ensured"
    /\ run[r].cmd = "up"
    /\ Drifted(r) = {}
    /\ run' = [run EXCEPT ![r].pc = "working", ![r].todo = Files(r) \ Applied]
    /\ UNCHANGED <<table, applied, effects, lock>>

RefuseDrift(r) ==
    /\ run[r].pc = "ensured"
    /\ run[r].cmd = "up"
    /\ Drifted(r) # {}
    /\ Exit(r, "failed")
    /\ UNCHANGED <<table, applied, effects>>

\* The n applied migrations with the highest numbers; contents are not compared.
PlanRollback(r) ==
    /\ run[r].pc = "ensured"
    /\ run[r].cmd = "rollback"
    /\ \E n \in 1..MaxSteps :
        run' = [run EXCEPT ![r].pc = "working",
                           ![r].todo = {m \in Applied :
                                          Cardinality({k \in Applied : k > m}) < n}]
    /\ UNCHANGED <<table, applied, effects, lock>>

\* applyMigration: the file's SQL and its row, in one transaction.
ApplyNext(r) ==
    LET m == First(run[r].todo)
    IN  /\ run[r].pc = "working" /\ run[r].cmd = "up" /\ ~run[r].dry
        /\ run[r].todo # {}
        /\ table /\ applied[m] = None
        /\ effects' = [effects EXCEPT ![m] = @ + 1]
        /\ applied' = [applied EXCEPT ![m] = Disk[r][m]]
        /\ run' = [run EXCEPT ![r].todo = @ \ {m}]
        /\ UNCHANGED <<table, lock>>

\* The row is deleted first, then the down file runs; the bootstrap's down file
\* drops the table with every row that is left in it.  A migration without a
\* down file is skipped.
RollBack(r, m) ==
    /\ run[r].pc = "working" /\ run[r].cmd = "rollback" /\ ~run[r].dry
    /\ m \in run[r].todo
    /\ run' = [run EXCEPT ![r].todo = @ \ {m}]
    /\ IF m \in Down[r]
       THEN /\ table' = (table /\ m # Bootstrap)
            /\ applied' = [k \in Migration |->
                             IF k = m \/ m = Bootstrap THEN None ELSE applied[k]]
            /\ effects' = [effects EXCEPT ![m] = 0]
       ELSE UNCHANGED <<table, applied, effects>>
    /\ UNCHANGED lock

RollBackNext(r) == run[r].todo # {} /\ RollBack(r, Last(run[r].todo))

Finish(r) ==
    /\ \/ run[r].pc = "working" /\ (run[r].todo = {} \/ run[r].dry)
       \/ run[r].pc = "ensured" /\ run[r].cmd = "status"
    /\ Exit(r, "done")
    /\ UNCHANGED <<table, applied, effects>>

-----------------------------------------------------------------------------

Work(r) ==
    \/ AcquireLock(r) \/ EnsureTable(r) \/ PlanUp(r) \/ RefuseDrift(r)
    \/ PlanRollback(r) \/ ApplyNext(r) \/ RollBackNext(r) \/ Finish(r)

Next == \E r \in Runner : Start(r) \/ Work(r) \/ Crash(r) \/ Fail(r)

Spec == Init /\ [][Next]_vars

\* A process that can go on does.
Fairness == \A r \in Runner : WF_vars(Work(r))

-----------------------------------------------------------------------------
(* Properties *)

\* The variables have their types, and a process is past the lock exactly when it
\* holds it (withAdvisoryLock).
TypeOK ==
    /\ table \in BOOLEAN
    /\ applied \in [Migration -> Content \cup {None, Legacy}]
    /\ effects \in [Migration -> Nat]
    /\ lock \in Runner \cup {None}
    /\ run \in [Runner -> [pc : Inside \cup Ended \cup {"waiting"},
                           cmd : {"up", "rollback", "status"}, dry : BOOLEAN,
                           todo : SUBSET Migration, runs : 0..MaxRuns]]
    /\ \A r \in Runner : run[r].pc \in Inside <=> lock = r

\* Migrations every release can take back: the others are what a rollback skips.
Reversible == {m \in Migration : \A r \in Runner : m \in Down[r]}

\* schema_migrations tells the truth: a migration has a row exactly when its
\* changes have been made to the schema, once (one transaction for both, also for
\* the down file that drops the table).
TableTellsSchema ==
    \A m \in Reversible : effects[m] = IF m \in Applied THEN 1 ELSE 0

\* A file is applied only by a process whose own copies of the applied files are
\* the ones that were applied (findDriftedMigrations, under the lock since).
AppliedOnSameHistory ==
    [][\A r \in Runner : ApplyNext(r) =>
          \A m \in Applied \cap Files(r) : applied[m] \in {Legacy, Disk[r][m]}]_vars

\* A process that ends "migrate" with success leaves every file of its release
\* applied: nobody rolls one back between its reading of the table and its end.
SuccessMeansApplied ==
    [][\A r \in Runner :
          run[r].pc = "working" /\ run[r].cmd = "up" /\ ~run[r].dry /\ run'[r].pc = "done"
            => Files(r) \subseteq Applied']_vars

\* A process that waits for the lock gets it and comes to an end.
EveryRunEnds == \A r \in Runner : run[r].pc = "waiting" ~> run[r].pc \in Ended

=============================================================================
