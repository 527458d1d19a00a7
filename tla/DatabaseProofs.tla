---------------------------- MODULE DatabaseProofs ----------------------------
(***************************************************************************)
(* For every number of processes, releases and files: schema_migrations      *)
(* tells the schema, nothing is applied on another history, and success is   *)
(* reported truthfully.  For every number of requests, communities, names    *)
(* and addresses: names stay apart, and what was deleted is left alone.      *)
(***************************************************************************)
EXTENDS MCDatabase, Numbers, FiniteSetTheorems, TLAPS

-----------------------------------------------------------------------------
(* Sets of migrations have a last member *)

\* The numbers of S above m.
Above(S, m) == {k \in S : k > m}

\* A non-empty finite set of naturals has a last member: the one with the fewest
\* members above it.
LEMMA LastIsLast ==
  ASSUME NEW S \in SUBSET Nat, IsFiniteSet(S), S # {}
  PROVE  /\ Last(S) \in S
         /\ \A n \in S : n <= Last(S)
  <1> DEFINE counts == {Cardinality(Above(S, m)) : m \in S}
  <1>1. \A m \in S : IsFiniteSet(Above(S, m)) /\ Cardinality(Above(S, m)) \in Nat
    BY FS_Subset, FS_CardinalityType DEF Above
  <1>2. PICK c \in counts : \A d \in counts : c <= d
    <2>1. counts \in SUBSET Nat /\ counts # {}
      BY <1>1
    <2> HIDE DEF counts
    <2>2. QED
      BY <2>1, LeastNumber
  <1>3. PICK m \in S : \A k \in S : Cardinality(Above(S, m)) <= Cardinality(Above(S, k))
    BY <1>2
  <1>4. \A n \in S : n <= m
    <2>1. SUFFICES ASSUME NEW n \in S, n > m PROVE FALSE
      OBVIOUS
    <2>2. Above(S, n) \subseteq Above(S, m) /\ n \in Above(S, m) /\ n \notin Above(S, n)
      <3>1. \A k \in S : k > n => k > m
        BY <2>1
      <3>2. ~ (n > n)
        OBVIOUS
      <3>3. Above(S, n) \subseteq Above(S, m)
        BY <3>1 DEF Above
      <3>4. n \in Above(S, m)
        BY <2>1 DEF Above
      <3>5. n \notin Above(S, n)
        BY <3>2 DEF Above
      <3>6. QED
        BY <3>3, <3>4, <3>5
    <2>3. /\ Cardinality(Above(S, n)) <= Cardinality(Above(S, m))
          /\ Cardinality(Above(S, n)) = Cardinality(Above(S, m)) => Above(S, n) = Above(S, m)
      <3>1. IsFiniteSet(Above(S, m))
        BY <1>1
      <3>2. QED
        BY <2>2, <3>1, FS_Subset
    <2>4. Cardinality(Above(S, m)) <= Cardinality(Above(S, n))
      BY <1>3
    <2>5. Cardinality(Above(S, n)) = Cardinality(Above(S, m))
      BY <1>1, <2>3, <2>4
    <2>6. QED
      BY <2>2, <2>3, <2>5
  <1>5. QED
    BY <1>4 DEF Last

\* Above a later member of S there are no more members than above an earlier one.
LEMMA FewerAbove ==
  ASSUME NEW S \in SUBSET Nat, IsFiniteSet(S), NEW k \in S, NEW m \in S, k <= m
  PROVE  Cardinality(Above(S, m)) <= Cardinality(Above(S, k))
  <1>1. \A n \in S : n > m => n > k
    OBVIOUS
  <1>2. Above(S, m) \subseteq Above(S, k)
    BY <1>1 DEF Above
  <1>3. IsFiniteSet(Above(S, k))
    BY FS_Subset DEF Above
  <1>4. QED
    BY <1>2, <1>3, FS_Subset

-----------------------------------------------------------------------------
(* Types *)

Place == Inside \cup Ended \cup {"waiting"}
Command == {"up", "rollback", "status"}
Todo == SUBSET Migration
Runs == 0..MaxRuns
RunRecord == [pc : Place, cmd : Command, dry : BOOLEAN, todo : Todo, runs : Runs]
Checksum == Content \cup {None, Legacy}
Session == Runner \cup {None}

LEMMA Places ==
  /\ Ended \subseteq Place /\ Inside \subseteq Place
  /\ "waiting" \in Place /\ "idle" \in Ended /\ "failed" \in Ended /\ "done" \in Ended
  /\ "locked" \in Inside /\ "ensured" \in Inside /\ "working" \in Inside
  /\ "waiting" \notin Inside /\ Inside \cap Ended = {}
  BY DEF Place, Inside, Ended

LEMMA NumbersAreNat ==
  /\ Migration \in SUBSET Nat /\ IsFiniteSet(Migration)
  /\ \A r \in Runner : /\ Files(r) \subseteq Migration
                       /\ Bootstrap \in Files(r)
                       /\ \A m \in Files(r) : Disk[r][m] \in Content /\ m >= Bootstrap
  /\ \A m \in Migration : m >= Bootstrap
  <1>1. \A r \in Runner : Files(r) \subseteq Migration
    BY DEF Migration, Files
  <1>2. \A m \in Migration : m \in Nat \ {0}
    BY DiskAssumption DEF Migration
  <1>3. \A m \in Migration : m \in Nat /\ m >= Bootstrap
    BY <1>2 DEF Bootstrap
  <1>4. \A r \in Runner : Bootstrap \in Files(r) /\ \A m \in Files(r) : Disk[r][m] \in Content
    BY DiskAssumption DEF Files
  <1>5. QED
    BY <1>1, <1>3, <1>4, NamesAssumption

\* TypeOK by its parts.
LEMMA Types ==
  TypeOK <=> /\ table \in BOOLEAN
             /\ applied \in [Migration -> Checksum]
             /\ effects \in [Migration -> Nat]
             /\ lock \in Session
             /\ run \in [Runner -> RunRecord]
             /\ \A r \in Runner : run[r].pc \in Inside <=> lock = r
  BY DEF TypeOK, Checksum, Session, RunRecord, Place, Command, Todo, Runs

LEMMA TypesNext ==
  TypeOK' <=> /\ table' \in BOOLEAN
              /\ applied' \in [Migration -> Checksum]
              /\ effects' \in [Migration -> Nat]
              /\ lock' \in Session
              /\ run' \in [Runner -> RunRecord]
              /\ \A r \in Runner : run'[r].pc \in Inside <=> lock' = r
  BY DEF TypeOK, Checksum, Session, RunRecord, Place, Command, Todo, Runs

Others(r) == \A q \in Runner \ {r} : run'[q] = run[q]

\* One process moves under the lock it holds; or it stays outside.
LEMMA MoveKeepsLock ==
  ASSUME TypeOK, NEW r \in Runner, run' \in [Runner -> RunRecord], Others(r),
         lock' = lock, run[r].pc \in Inside <=> run'[r].pc \in Inside
  PROVE  /\ lock' \in Session
         /\ \A q \in Runner : run'[q].pc \in Inside <=> lock' = q
  BY Types DEF Others

\* Only the process that holds the lock is at work.
LEMMA Alone ==
  ASSUME TypeOK, NEW r \in Runner, run[r].pc \in Inside
  PROVE  \A q \in Runner \ {r} : run[q].pc \notin Inside
  BY Types

\* A step to another place of the program.
LEMMA GoEffect ==
  ASSUME TypeOK, NEW r \in Runner, NEW pc \in Place, run' = [run EXCEPT ![r].pc = pc]
  PROVE  /\ run' \in [Runner -> RunRecord]
         /\ Others(r)
         /\ run'[r].pc = pc /\ run'[r].cmd = run[r].cmd
  <1>1. run \in [Runner -> RunRecord]
    BY Types
  <1>2. run' \in [Runner -> RunRecord]
    BY <1>1 DEF RunRecord
  <1>3. Others(r) /\ run'[r].pc = pc /\ run'[r].cmd = run[r].cmd
    BY <1>1 DEF Others, RunRecord
  <1>4. QED
    BY <1>2, <1>3

\* A step that plans or leaves work.
LEMMA PlanEffect ==
  ASSUME TypeOK, NEW r \in Runner, NEW pc \in Place, NEW todo \in Todo,
         run' = [run EXCEPT ![r].pc = pc, ![r].todo = todo]
  PROVE  /\ run' \in [Runner -> RunRecord]
         /\ Others(r)
         /\ run'[r].pc = pc /\ run'[r].cmd = run[r].cmd /\ run'[r].todo = todo
  <1>1. run \in [Runner -> RunRecord]
    BY Types
  <1>2. run' \in [Runner -> RunRecord]
    BY <1>1 DEF RunRecord
  <1>3. Others(r) /\ run'[r].pc = pc /\ run'[r].cmd = run[r].cmd /\ run'[r].todo = todo
    BY <1>1 DEF Others, RunRecord
  <1>4. QED
    BY <1>2, <1>3

\* A migration is done with.
LEMMA DoneEffect ==
  ASSUME TypeOK, NEW r \in Runner, NEW m, run' = [run EXCEPT ![r].todo = @ \ {m}]
  PROVE  /\ run' \in [Runner -> RunRecord]
         /\ Others(r)
         /\ run'[r].pc = run[r].pc /\ run'[r].cmd = run[r].cmd
         /\ run'[r].todo = run[r].todo \ {m}
  <1>1. run \in [Runner -> RunRecord]
    BY Types
  <1> DEFINE rest == run[r].todo \ {m}
  <1>2. rest \in Todo /\ run' = [run EXCEPT ![r].todo = rest]
    BY <1>1 DEF Todo, RunRecord
  <1> HIDE DEF rest
  <1>3. run' \in [Runner -> RunRecord]
    BY <1>1, <1>2 DEF RunRecord
  <1>4. Others(r) /\ run'[r].pc = run[r].pc /\ run'[r].cmd = run[r].cmd
        /\ run'[r].todo = rest
    BY <1>1, <1>2 DEF Others, RunRecord
  <1>5. QED
    BY <1>3, <1>4 DEF rest

\* The end of a process gives up the lock if it has it.
LEMMA ExitEffect ==
  ASSUME TypeOK, NEW r \in Runner, NEW pc \in Ended, Exit(r, pc)
  PROVE  /\ run' \in [Runner -> RunRecord]
         /\ Others(r)
         /\ run'[r].pc = pc
         /\ lock' \in Session
         /\ \A q \in Runner : run'[q].pc \in Inside <=> lock' = q
  <1>1. run' = [run EXCEPT ![r].pc = pc, ![r].todo = {}] /\ {} \in Todo /\ pc \in Place
    BY Places DEF Exit, Todo
  <1>2. run' \in [Runner -> RunRecord] /\ Others(r) /\ run'[r].pc = pc
    BY <1>1, PlanEffect
  <1>3. lock' \in Session /\ lock' # r /\ \A q \in Runner \ {r} : lock' = q <=> lock = q
    BY Types, NamesAssumption DEF Exit, Session
  <1>4. pc \notin Inside
    BY Places
  <1>5. \A q \in Runner : run'[q].pc \in Inside <=> lock' = q
    BY <1>2, <1>3, <1>4, Types DEF Others
  <1>6. QED
    BY <1>2, <1>3, <1>5

-----------------------------------------------------------------------------
(* What a process under the lock relies on *)

\* A plan to migrate: what is left of the release's files is yet to be applied, and
\* what is applied of them is what the release has on disk.
PlanHolds(r) ==
  run[r].pc = "working" /\ run[r].cmd = "up" =>
    /\ run[r].todo \subseteq Files(r)
    /\ Files(r) \subseteq Applied \cup run[r].todo
    /\ \A m \in Applied \cap Files(r) : applied[m] \in {Legacy, Disk[r][m]}

\* A plan to roll back goes from the top: of the migrations that can be taken back,
\* none is applied above one that is left to do unless it is left to do as well.
FromTheTop(r) ==
  run[r].pc = "working" /\ run[r].cmd = "rollback" =>
    \A k \in run[r].todo, m \in Applied \cap Reversible :
      k <= m => m \in run[r].todo

Plans == \A r \in Runner : PlanHolds(r) /\ FromTheTop(r)

MigrationInv == TypeOK /\ TableTellsSchema /\ Plans

LEMMA InitMigration == Init => MigrationInv
  <1> SUFFICES ASSUME Init PROVE MigrationInv
    OBVIOUS
  <1>1. \A r \in Runner : run[r].pc = "idle" /\ run[r].pc \notin Inside /\ lock # r
    BY NamesAssumption DEF Init, Inside
  <1>2. run \in [Runner -> RunRecord]
    <2>1. "idle" \in Place /\ "up" \in Command /\ {} \in Todo /\ 0 \in Runs
      BY Places, BoundsAssumption DEF Command, Todo, Runs
    <2>2. QED
      BY <2>1 DEF Init, RunRecord
  <1>3. applied \in [Migration -> Checksum] /\ effects \in [Migration -> Nat]
    BY DEF Init, Checksum
  <1>4. table \in BOOLEAN /\ lock \in Session
    BY DEF Init, Session
  <1>5. TypeOK
    BY <1>1, <1>2, <1>3, <1>4, Types
  <1>6. TableTellsSchema
    BY DEF Init, TableTellsSchema, Applied, Reversible, None, Legacy
  <1>7. Plans
    BY <1>1 DEF Plans, PlanHolds, FromTheTop
  <1>8. QED
    BY <1>5, <1>6, <1>7 DEF MigrationInv

\* A step that leaves the database alone and gives nobody a new plan.
LEMMA Resting ==
  ASSUME MigrationInv, NEW r \in Runner, Others(r), run'[r].pc # "working",
         run' \in [Runner -> RunRecord], lock' \in Session,
         \A q \in Runner : run'[q].pc \in Inside <=> lock' = q,
         UNCHANGED <<table, applied, effects>>
  PROVE  MigrationInv'
  <1>1. TypeOK'
    <2>1. /\ table' \in BOOLEAN
          /\ applied' \in [Migration -> Checksum]
          /\ effects' \in [Migration -> Nat]
      BY Types DEF MigrationInv
    <2>2. QED
      BY <2>1, TypesNext
  <1>2. Applied' = Applied
    BY DEF Applied
  <1>3. TableTellsSchema'
    BY <1>2 DEF MigrationInv, TableTellsSchema, Reversible
  <1>4. ASSUME NEW q \in Runner PROVE PlanHolds(q)' /\ FromTheTop(q)'
    <2>1. CASE q = r
      BY <2>1 DEF PlanHolds, FromTheTop
    <2>2. CASE q # r
      <3>1. run'[q] = run[q] /\ PlanHolds(q) /\ FromTheTop(q)
        BY <2>2 DEF Others, MigrationInv, Plans
      <3>2. PlanHolds(q)'
        BY <1>2, <3>1 DEF PlanHolds
      <3>3. FromTheTop(q)'
        BY <1>2, <3>1 DEF FromTheTop, Reversible
      <3>4. QED
        BY <3>2, <3>3
    <2>3. QED
      BY <2>1, <2>2
  <1>5. QED
    BY <1>1, <1>3, <1>4 DEF MigrationInv, Plans

LEMMA RestingSteps ==
  ASSUME MigrationInv, NEW r \in Runner,
         Start(r) \/ AcquireLock(r) \/ Crash(r) \/ Fail(r) \/ RefuseDrift(r) \/ Finish(r)
  PROVE  MigrationInv'
  <1>1. TypeOK
    BY DEF MigrationInv
  <1>2. CASE Start(r)
    <2>1. PICK cmd \in Command, dry \in BOOLEAN :
             run' = [run EXCEPT ![r] = [pc |-> "waiting", cmd |-> cmd, dry |-> dry,
                                        todo |-> {}, runs |-> run[r].runs + 1]]
      BY <1>2, Zenon DEF Start, Command
    <2>2. run \in [Runner -> RunRecord] /\ run[r].pc \notin Inside
      BY <1>1, <1>2, Types, Places DEF Start
    <2> DEFINE n == run[r].runs + 1
               new == [pc |-> "waiting", cmd |-> cmd, dry |-> dry, todo |-> {}, runs |-> n]
    <2>3. n \in Runs
      BY <1>2, <2>2, BoundsAssumption DEF Start, RunRecord, Runs
    <2> HIDE DEF n
    <2>4. new \in RunRecord /\ new.pc = "waiting"
      BY <2>3, Places DEF RunRecord, Todo
    <2>5. run' = [run EXCEPT ![r] = new]
      BY <2>1 DEF n
    <2> HIDE DEF new
    <2>6. /\ run' \in [Runner -> RunRecord] /\ Others(r)
          /\ run'[r].pc \notin Inside /\ run'[r].pc # "working"
      BY <2>2, <2>4, <2>5, Places DEF Others
    <2>7. /\ lock' = lock
          /\ UNCHANGED <<table, applied, effects>>
      BY <1>2 DEF Start
    <2>8. lock' \in Session /\ \A q \in Runner : run'[q].pc \in Inside <=> lock' = q
      BY <1>1, <2>2, <2>6, <2>7, MoveKeepsLock
    <2>9. QED
      BY <2>6, <2>7, <2>8, Resting
  <1>3. CASE AcquireLock(r)
    <2>1. run' \in [Runner -> RunRecord] /\ Others(r) /\ run'[r].pc = "locked"
      BY <1>1, <1>3, GoEffect, Places DEF AcquireLock
    <2>2. lock = None /\ lock' = r /\ UNCHANGED <<table, applied, effects>>
      BY <1>3 DEF AcquireLock
    <2>3. lock' \in Session /\ \A q \in Runner : run'[q].pc \in Inside <=> lock' = q
      BY <1>1, <2>1, <2>2, Types, Places, NamesAssumption DEF Others, Session
    <2>4. QED
      BY <2>1, <2>2, <2>3, Resting
  <1>4. ASSUME NEW pc \in Ended, Exit(r, pc), UNCHANGED <<table, applied, effects>>
        PROVE  MigrationInv'
    <2>1. pc # "working"
      BY DEF Ended
    <2>2. QED
      BY <1>1, <1>4, <2>1, ExitEffect, Resting
  <1>5. QED
    BY <1>2, <1>3, <1>4, Places DEF Crash, Fail, RefuseDrift, Finish

\* A step of the process that holds the lock: the others have no plan.
LEMMA LockedStep ==
  ASSUME MigrationInv, NEW r \in Runner, Others(r), run[r].pc \in Inside,
         run' \in [Runner -> RunRecord], lock' = lock, run'[r].pc \in Inside,
         table' \in BOOLEAN, applied' \in [Migration -> Checksum],
         effects' \in [Migration -> Nat],
         TableTellsSchema', PlanHolds(r)', FromTheTop(r)'
  PROVE  MigrationInv'
  <1>1. TypeOK
    BY DEF MigrationInv
  <1>2. TypeOK'
    BY <1>1, MoveKeepsLock, TypesNext
  <1>3. \A q \in Runner \ {r} : run'[q].pc # "working"
    BY <1>1, Alone, Places DEF Others
  <1>4. \A q \in Runner \ {r} : PlanHolds(q)' /\ FromTheTop(q)'
    BY <1>3 DEF PlanHolds, FromTheTop
  <1>5. QED
    BY <1>2, <1>4 DEF MigrationInv, Plans

LEMMA EnsureStep ==
  ASSUME MigrationInv, NEW r \in Runner, EnsureTable(r)
  PROVE  MigrationInv'
  <1>1. TypeOK /\ TableTellsSchema
    BY DEF MigrationInv
  <1>2. applied \in [Migration -> Checksum] /\ effects \in [Migration -> Nat]
    BY <1>1, Types
  <1>3. /\ run' \in [Runner -> RunRecord] /\ Others(r)
        /\ run[r].pc \in Inside /\ run'[r].pc = "ensured" /\ lock' = lock
    BY <1>1, GoEffect, Places DEF EnsureTable, Place
  <1> DEFINE sum == IF applied[Bootstrap] \in {None, Legacy}
                    THEN Disk[r][Bootstrap] ELSE applied[Bootstrap]
  <1>4. /\ Bootstrap \in Migration /\ sum \in Checksum /\ sum # None
        /\ applied' = [applied EXCEPT ![Bootstrap] = sum]
        /\ effects' = [effects EXCEPT ![Bootstrap] = 1]
    BY <1>2, NumbersAreNat, NamesAssumption DEF EnsureTable, Checksum
  <1> HIDE DEF sum
  <1>5. /\ applied' \in [Migration -> Checksum] /\ effects' \in [Migration -> Nat]
        /\ table' \in BOOLEAN
    BY <1>2, <1>4 DEF EnsureTable
  <1>6. Applied' = Applied \cup {Bootstrap}
    BY <1>2, <1>4 DEF Applied
  <1>7. TableTellsSchema'
    BY <1>1, <1>2, <1>4, <1>6 DEF TableTellsSchema, Reversible
  <1>8. PlanHolds(r)' /\ FromTheTop(r)'
    BY <1>3 DEF PlanHolds, FromTheTop
  <1>9. QED
    BY <1>3, <1>5, <1>7, <1>8, Places, LockedStep

LEMMA PlanUpStep ==
  ASSUME MigrationInv, NEW r \in Runner, PlanUp(r)
  PROVE  MigrationInv'
  <1>1. TypeOK /\ TableTellsSchema
    BY DEF MigrationInv
  <1> DEFINE todo == Files(r) \ Applied
  <1>2. todo \in Todo /\ run' = [run EXCEPT ![r].pc = "working", ![r].todo = todo]
    BY NumbersAreNat DEF PlanUp, Todo
  <1> HIDE DEF todo
  <1>3. /\ run' \in [Runner -> RunRecord] /\ Others(r)
        /\ run'[r].pc = "working" /\ run'[r].cmd = "up" /\ run'[r].todo = todo
    <2>1. run[r].cmd = "up" /\ "working" \in Place
      BY Places DEF PlanUp
    <2>2. QED
      BY <1>1, <1>2, <2>1, PlanEffect
  <1>4. /\ run[r].pc \in Inside /\ lock' = lock
        /\ table' = table /\ applied' = applied /\ effects' = effects
        /\ Drifted(r) = {}
    BY Places DEF PlanUp
  <1>5. Applied' = Applied
    BY <1>4 DEF Applied
  <1>6. TableTellsSchema'
    BY <1>1, <1>4, <1>5 DEF TableTellsSchema, Reversible
  <1>7. \A m \in Applied \cap Files(r) : applied[m] \in {Legacy, Disk[r][m]}
    BY <1>4 DEF Drifted
  <1>8. PlanHolds(r)'
    BY <1>3, <1>4, <1>5, <1>7 DEF PlanHolds, todo
  <1>9. FromTheTop(r)'
    BY <1>3 DEF FromTheTop
  <1>10. table' \in BOOLEAN /\ applied' \in [Migration -> Checksum]
         /\ effects' \in [Migration -> Nat]
    BY <1>1, <1>4, Types
  <1>11. QED
    BY <1>3, <1>4, <1>6, <1>8, <1>9, <1>10, Places, LockedStep

LEMMA PlanRollbackStep ==
  ASSUME MigrationInv, NEW r \in Runner, PlanRollback(r)
  PROVE  MigrationInv'
  <1>1. TypeOK /\ TableTellsSchema
    BY DEF MigrationInv
  <1>2. PICK n \in 1..MaxSteps :
          run' = [run EXCEPT ![r].pc = "working",
                             ![r].todo = {m \in Applied :
                                            Cardinality({k \in Applied : k > m}) < n}]
    BY Zenon DEF PlanRollback
  <1> DEFINE todo == {m \in Applied : Cardinality(Above(Applied, m)) < n}
  <1>3. Applied \in SUBSET Nat /\ IsFiniteSet(Applied) /\ Applied \subseteq Migration
    BY NumbersAreNat, FS_Subset DEF Applied
  <1>4. todo \in Todo /\ run' = [run EXCEPT ![r].pc = "working", ![r].todo = todo]
    BY <1>2, <1>3 DEF Todo, Above
  <1>5. ASSUME NEW k \in todo, NEW m \in Applied, k <= m
        PROVE  m \in todo
    <2>1. Cardinality(Above(Applied, m)) <= Cardinality(Above(Applied, k))
      BY <1>3, <1>5, FewerAbove
    <2>2. /\ Cardinality(Above(Applied, m)) \in Nat
          /\ Cardinality(Above(Applied, k)) \in Nat
      BY <1>3, FS_Subset, FS_CardinalityType DEF Above
    <2>3. Cardinality(Above(Applied, k)) < n /\ n \in Nat
      OBVIOUS
    <2>4. QED
      BY <2>1, <2>2, <2>3
  <1> HIDE DEF todo
  <1>6. /\ run' \in [Runner -> RunRecord] /\ Others(r)
        /\ run'[r].pc = "working" /\ run'[r].cmd = "rollback" /\ run'[r].todo = todo
    <2>1. run[r].cmd = "rollback" /\ "working" \in Place
      BY Zenon, Places DEF PlanRollback
    <2>2. QED
      BY <1>1, <1>4, <2>1, PlanEffect
  <1>7. /\ run[r].pc \in Inside /\ lock' = lock
        /\ table' = table /\ applied' = applied /\ effects' = effects
    BY Places DEF PlanRollback
  <1>8. Applied' = Applied
    BY <1>7 DEF Applied
  <1>9. TableTellsSchema'
    BY <1>1, <1>7, <1>8 DEF TableTellsSchema, Reversible
  <1>10. FromTheTop(r)'
    BY <1>5, <1>6, <1>8 DEF FromTheTop
  <1>11. PlanHolds(r)'
    BY <1>6 DEF PlanHolds
  <1>12. table' \in BOOLEAN /\ applied' \in [Migration -> Checksum]
         /\ effects' \in [Migration -> Nat]
    BY <1>1, <1>7, Types
  <1>13. QED
    BY <1>6, <1>7, <1>9, <1>10, <1>11, <1>12, Places, LockedStep

LEMMA ApplyStep ==
  ASSUME MigrationInv, NEW r \in Runner, ApplyNext(r)
  PROVE  MigrationInv'
  <1> DEFINE m == First(run[r].todo)
  <1>1. TypeOK /\ TableTellsSchema /\ PlanHolds(r)
    BY DEF MigrationInv, Plans
  <1>2. applied \in [Migration -> Checksum] /\ effects \in [Migration -> Nat]
    BY <1>1, Types
  <1>3. /\ run[r].todo \subseteq Files(r)
        /\ Files(r) \subseteq Applied \cup run[r].todo
        /\ \A k \in Applied \cap Files(r) : applied[k] \in {Legacy, Disk[r][k]}
        /\ run[r].pc = "working" /\ run[r].cmd = "up"
    BY <1>1 DEF PlanHolds, ApplyNext
  <1>4. m \in run[r].todo
    <2>1. run[r].todo \in SUBSET Nat /\ run[r].todo # {}
      BY <1>3, NumbersAreNat DEF ApplyNext
    <2>2. QED
      BY <2>1, LeastNumber DEF First
  <1>5. /\ applied[m] = None
        /\ effects' = [effects EXCEPT ![m] = @ + 1]
        /\ applied' = [applied EXCEPT ![m] = Disk[r][m]]
        /\ run' = [run EXCEPT ![r].todo = @ \ {m}]
        /\ table' = table /\ lock' = lock
    BY DEF ApplyNext
  <1> HIDE DEF m
  <1>6. m \in Migration /\ Disk[r][m] \in Content /\ Disk[r][m] # None
    BY <1>3, <1>4, NumbersAreNat, NamesAssumption
  <1>7. /\ run' \in [Runner -> RunRecord] /\ Others(r)
        /\ run'[r].pc = "working" /\ run'[r].cmd = "up"
        /\ run'[r].todo = run[r].todo \ {m}
    BY <1>1, <1>3, <1>5, DoneEffect
  <1>8. /\ applied' \in [Migration -> Checksum] /\ effects' \in [Migration -> Nat]
        /\ table' \in BOOLEAN
    <2>1. applied' \in [Migration -> Checksum]
      BY <1>2, <1>5, <1>6 DEF Checksum
    <2>2. effects' \in [Migration -> Nat]
      <3> DEFINE n == effects[m] + 1
      <3>1. n \in Nat /\ effects' = [effects EXCEPT ![m] = n]
        BY <1>2, <1>5, <1>6
      <3> HIDE DEF n
      <3>2. QED
        BY <1>2, <3>1
    <2>3. table' \in BOOLEAN
      BY <1>1, <1>5, Types
    <2>4. QED
      BY <2>1, <2>2, <2>3
  <1>9. Applied' = Applied \cup {m} /\ m \notin Applied
    BY <1>2, <1>5, <1>6 DEF Applied
  <1>10. TableTellsSchema'
    <2>1. ASSUME NEW k \in Reversible
          PROVE  effects'[k] = IF k \in Applied' THEN 1 ELSE 0
      <3>1. k \in Migration /\ effects[k] = IF k \in Applied THEN 1 ELSE 0
        BY <1>1 DEF TableTellsSchema, Reversible
      <3>2. QED
        BY <1>2, <1>5, <1>9, <3>1
    <2>2. QED
      BY <2>1 DEF TableTellsSchema, Reversible
  <1>11. PlanHolds(r)'
    <2>1. run'[r].todo \subseteq Files(r) /\ Files(r) \subseteq Applied' \cup run'[r].todo
      BY <1>3, <1>7, <1>9
    <2>2. \A k \in Applied' \cap Files(r) : applied'[k] \in {Legacy, Disk[r][k]}
      BY <1>2, <1>3, <1>5, <1>6, <1>9
    <2>3. QED
      BY <2>1, <2>2 DEF PlanHolds, Files
  <1>12. FromTheTop(r)'
    BY <1>7 DEF FromTheTop
  <1>13. QED
    BY <1>3, <1>5, <1>7, <1>8, <1>10, <1>11, <1>12, Places, LockedStep

\* The bootstrap's down file drops the table: by then no row is left of a migration
\* that can be taken back.
LEMMA RollBackStep ==
  ASSUME MigrationInv, NEW r \in Runner, RollBackNext(r)
  PROVE  MigrationInv'
  <1> DEFINE m == Last(run[r].todo)
  <1>1. TypeOK /\ TableTellsSchema /\ FromTheTop(r)
    BY DEF MigrationInv, Plans
  <1>2. /\ applied \in [Migration -> Checksum] /\ effects \in [Migration -> Nat]
        /\ run \in [Runner -> RunRecord] /\ table \in BOOLEAN
    BY <1>1, Types
  <1>3. m \in run[r].todo /\ m \in Migration /\ \A k \in run[r].todo : k <= m
    <2>1. run[r].todo \in SUBSET Migration /\ run[r].todo # {}
      BY <1>2 DEF RollBackNext, RunRecord, Todo
    <2>2. run[r].todo \in SUBSET Nat /\ IsFiniteSet(run[r].todo)
      BY <2>1, NumbersAreNat, FS_Subset
    <2>3. QED
      BY <2>1, <2>2, LastIsLast
  <1>4. RollBack(r, m)
    BY DEF RollBackNext
  <1> HIDE DEF m
  <1>5. /\ run[r].pc = "working" /\ run[r].cmd = "rollback" /\ lock' = lock
        /\ run' = [run EXCEPT ![r].todo = @ \ {m}]
    BY <1>4 DEF RollBack
  <1>6. /\ run' \in [Runner -> RunRecord] /\ Others(r)
        /\ run'[r].pc = "working" /\ run'[r].cmd = "rollback"
        /\ run'[r].todo = run[r].todo \ {m}
    BY <1>1, <1>5, DoneEffect
  <1>7. /\ \A k \in Reversible : k \in Migration /\ k \in Nat /\ k >= Bootstrap
        /\ Bootstrap \in Nat /\ m \in Nat
    BY <1>3, NumbersAreNat DEF Reversible, Bootstrap
  <1>8. ASSUME m = Bootstrap, NEW k \in Applied \cap Reversible
        PROVE  k = m
    <2>1. m <= k
      BY <1>7, <1>8
    <2>2. k \in run[r].todo
      BY <1>1, <1>3, <1>5, <2>1 DEF FromTheTop
    <2>3. QED
      BY <1>3, <1>7, <2>1, <2>2
  <1>9. PlanHolds(r)'
    BY <1>6 DEF PlanHolds
  <1>10. CASE m \in Down[r]
    <2>1. /\ table' = (table /\ m # Bootstrap)
          /\ applied' = [k \in Migration |->
                           IF k = m \/ m = Bootstrap THEN None ELSE applied[k]]
          /\ effects' = [effects EXCEPT ![m] = 0]
      BY <1>4, <1>10 DEF RollBack
    <2>2. /\ applied' \in [Migration -> Checksum] /\ effects' \in [Migration -> Nat]
          /\ table' \in BOOLEAN
      BY <1>2, <2>1 DEF Checksum
    <2>3. \A k \in Migration : k \in Applied' <=> k \in Applied /\ k # m /\ m # Bootstrap
      BY <2>1 DEF Applied
    <2>4. TableTellsSchema'
      <3>1. ASSUME NEW k \in Reversible
            PROVE  effects'[k] = IF k \in Applied' THEN 1 ELSE 0
        <4>1. effects[k] = IF k \in Applied THEN 1 ELSE 0
          BY <1>1 DEF TableTellsSchema
        <4>2. k \in Applied /\ m = Bootstrap => k = m
          BY <1>8
        <4>3. QED
          BY <1>2, <1>7, <2>1, <2>3, <4>1, <4>2
      <3>2. QED
        BY <3>1 DEF TableTellsSchema, Reversible
    <2>5. FromTheTop(r)'
      <3>1. ASSUME NEW k \in run'[r].todo, NEW n \in Applied' \cap Reversible, k <= n
            PROVE  n \in run'[r].todo
        <4>1. n \in Applied /\ n # m /\ n \in Reversible /\ k \in run[r].todo
          BY <1>6, <1>7, <2>3, <3>1
        <4>2. QED
          BY <1>1, <1>5, <1>6, <3>1, <4>1 DEF FromTheTop
      <3>2. QED
        BY <3>1 DEF FromTheTop, Reversible
    <2>6. QED
      BY <1>5, <1>6, <1>9, <2>2, <2>4, <2>5, Places, LockedStep
  <1>11. CASE m \notin Down[r]
    <2>1. UNCHANGED <<table, applied, effects>> /\ m \notin Reversible
      BY <1>4, <1>11 DEF RollBack, Reversible
    <2>2. Applied' = Applied
      BY <2>1 DEF Applied
    <2>3. TableTellsSchema'
      BY <1>1, <2>1, <2>2 DEF TableTellsSchema, Reversible
    <2>4. FromTheTop(r)'
      BY <1>1, <1>5, <1>6, <2>1, <2>2 DEF FromTheTop, Reversible
    <2>5. /\ applied' \in [Migration -> Checksum] /\ effects' \in [Migration -> Nat]
          /\ table' \in BOOLEAN
      BY <1>2, <2>1
    <2>6. QED
      BY <1>5, <1>6, <1>9, <2>3, <2>4, <2>5, Places, LockedStep
  <1>12. QED
    BY <1>10, <1>11

LEMMA NextMigration == MigrationInv /\ [Next]_vars => MigrationInv'
  <1> SUFFICES ASSUME MigrationInv, [Next]_vars PROVE MigrationInv'
    OBVIOUS
  <1>1. CASE UNCHANGED vars
    BY <1>1 DEF vars, MigrationInv, TypeOK, TableTellsSchema, Applied, Reversible,
                Plans, PlanHolds, FromTheTop
  <1>2. ASSUME NEW r \in Runner, Start(r) \/ Work(r) \/ Crash(r) \/ Fail(r)
        PROVE  MigrationInv'
    BY <1>2, RestingSteps, EnsureStep, PlanUpStep, PlanRollbackStep, ApplyStep,
       RollBackStep DEF Work
  <1>3. QED
    BY <1>1, <1>2 DEF Next

LEMMA Invariance == Spec => []MigrationInv
  BY InitMigration, NextMigration, PTL DEF Spec

-----------------------------------------------------------------------------
(* What follows *)

\* A process is past the lock exactly when it holds it (withAdvisoryLock): no two of
\* them read, plan or change the schema at once.
THEOREM LockIsExclusive == Spec => []TypeOK
  BY Invariance, PTL DEF MigrationInv

\* A migration that every release can take back has a row in schema_migrations exactly
\* when its changes are in the schema, once (applyMigration, rollback).
THEOREM TableIsTrue == Spec => []TableTellsSchema
  BY Invariance, PTL DEF MigrationInv

\* A file is applied only by a process whose copies of the applied files are the ones
\* that were applied (findDriftedMigrations).
THEOREM SameHistory == Spec => AppliedOnSameHistory
  <1>1. ASSUME MigrationInv, NEW r \in Runner, ApplyNext(r)
        PROVE  \A m \in Applied \cap Files(r) : applied[m] \in {Legacy, Disk[r][m]}
    BY <1>1 DEF MigrationInv, Plans, PlanHolds, ApplyNext
  <1>2. MigrationInv /\ [Next]_vars =>
          [\A r \in Runner : ApplyNext(r) =>
             \A m \in Applied \cap Files(r) : applied[m] \in {Legacy, Disk[r][m]}]_vars
    BY <1>1
  <1>3. QED
    BY <1>2, Invariance, PTL DEF Spec, AppliedOnSameHistory

\* "migrate" that ends with success leaves every file of its release applied
\* (runPending).
THEOREM SuccessIsTrue == Spec => SuccessMeansApplied
  <1> DEFINE Succeeds(r) == /\ run[r].pc = "working" /\ run[r].cmd = "up"
                            /\ ~run[r].dry /\ run'[r].pc = "done"
  <1>1. ASSUME MigrationInv, Next, NEW r \in Runner, Succeeds(r)
        PROVE  Files(r) \subseteq Applied'
    <2>1. PICK q \in Runner : Start(q) \/ Work(q) \/ Crash(q) \/ Fail(q)
      BY <1>1 DEF Next
    <2>2. run \in [Runner -> RunRecord] /\ run'[r] # run[r]
      BY <1>1, Types DEF MigrationInv
    <2>3. Finish(r) \/ run'[r].pc # "done"
      BY <1>1, <2>1, <2>2
      DEF Start, Work, Crash, Fail, AcquireLock, EnsureTable, PlanUp, RefuseDrift,
          PlanRollback, ApplyNext, RollBackNext, RollBack, Finish, Exit, RunRecord
    <2>4. Finish(r) /\ run[r].todo = {} /\ Applied' = Applied
      BY <1>1, <2>3 DEF Finish, Applied
    <2>5. QED
      BY <1>1, <2>4 DEF MigrationInv, Plans, PlanHolds
  <1>2. MigrationInv /\ [Next]_vars =>
          [\A r \in Runner :
             run[r].pc = "working" /\ run[r].cmd = "up" /\ ~run[r].dry /\ run'[r].pc = "done"
               => Files(r) \subseteq Applied']_vars
    BY <1>1
  <1>3. QED
    BY <1>2, Invariance, PTL DEF Spec, SuccessMeansApplied

-----------------------------------------------------------------------------
(* Communities: what a handler looked up still holds when it writes *)

\* A load is what requests may use of the parameters.
LoadWithin ==
  \A l \in Load : /\ l.slots \subseteq Request /\ l.communities \subseteq Community
                  /\ l.addresses \subseteq Address /\ l.names \subseteq Name

NewName == Name \cup {Handlers!NoName}
CommunityRow == [state : {"absent", "active", "deleted"}, name : NewName]
MemberRow == [role : Handlers!Role \cup {Handlers!NoRole}, removed : BOOLEAN]
Tables == [Community -> [Address -> MemberRow]]

\* The statements of each kind of request.
Steps == [create |-> {"find", "write"}, rename |-> {"auth", "read", "find", "write"},
          delete |-> {"auth", "write"}, avatar |-> {"auth", "write"},
          add |-> {"auth", "read", "write"}, setRole |-> {"auth", "write"},
          remove |-> {"auth", "write"}]

Creating == [pc : Steps.create, kind : {"create"}, who : Address, name : NewName]
Renaming == [pc : Steps.rename, kind : {"rename"}, who : Address, in : Community, name : NewName]
Acting == [pc : {"auth", "write"}, kind : {"delete", "avatar"}, who : Address, in : Community]
Adding == [pc : Steps.add, kind : {"add"}, who : Address, in : Community,
           address : Address, role : Handlers!Role]
Setting == [pc : Steps.setRole, kind : {"setRole"}, who : Address, in : Community,
            address : Address, role : Handlers!Role]
Removing == [pc : Steps.remove, kind : {"remove"}, who : Address, in : Community,
             address : Address]

InProgress(r) ==
  \/ r \in Creating \/ r \in Renaming \/ r \in Acting
  \/ r \in Adding \/ r \in Setting \/ r \in Removing

\* What the statements run so far have found out for request r.
Looked(r) ==
  /\ r.kind = "create" /\ r.pc = "write" => Handlers!SameName(r) = {}
  /\ r.kind = "rename" /\ r.pc \in {"find", "write"} => r.in \in Handlers!Active
  /\ r.kind = "rename" /\ r.pc = "write" =>
       \/ r.name = Handlers!NoName
       \/ ScriptFold[r.name] = ScriptFold[community[r.in].name]
       \/ Handlers!SameName(r) = {}
  /\ r.kind = "add" /\ r.pc = "write" => r.in \in Handlers!Active

RequestsWell ==
  \A q \in Request :
    req[q].pc # "idle" => /\ q \in load.slots /\ InProgress(req[q])
                          /\ Handlers!InTurn => Looked(req[q])

\* A community that is not odd has a name that both foldings make the same.
OthersPlain == \A c \in Handlers!Active \ odd : Handlers!Plain(community[c].name)

CommunityInv ==
  /\ load \in Load
  /\ community \in [Community -> CommunityRow]
  /\ member \in Tables
  /\ OthersPlain
  /\ req = [q \in Request |-> req[q]]
  /\ RequestsWell
  /\ Handlers!NamesDifferInTurn

\* A request that goes on stays the request that arrived.
LEMMA GoesOn ==
  ASSUME NEW r, InProgress(r), NEW pc \in Steps[r.kind]
  PROVE  /\ InProgress([r EXCEPT !.pc = pc])
         /\ [r EXCEPT !.pc = pc].pc = pc /\ [r EXCEPT !.pc = pc].kind = r.kind
         /\ r.kind \in {"create", "rename"} => [r EXCEPT !.pc = pc].name = r.name
         /\ r.kind \in {"rename", "add"} => [r EXCEPT !.pc = pc].in = r.in
  <1>1. CASE r \in Creating
    BY <1>1 DEF Creating, InProgress, Steps
  <1>2. CASE r \in Renaming
    BY <1>2 DEF Renaming, InProgress, Steps
  <1>3. CASE r \in Acting
    BY <1>3 DEF Acting, InProgress, Steps
  <1>4. CASE r \in Adding
    BY <1>4 DEF Adding, InProgress, Steps
  <1>5. CASE r \in Setting
    BY <1>5 DEF Setting, InProgress, Steps
  <1>6. CASE r \in Removing
    BY <1>6 DEF Removing, InProgress, Steps
  <1>7. QED
    BY <1>1, <1>2, <1>3, <1>4, <1>5, <1>6 DEF InProgress

LEMMA InitCommunities == ASSUME Handlers!Init PROVE CommunityInv
  <1>1. /\ load \in Load /\ community \in [Community -> CommunityRow]
        /\ req = [q \in Request |-> req[q]] /\ \A q \in Request : req[q].pc = "idle"
        /\ \A c \in Community : community[c].state = "absent"
    BY DEF Handlers!Init, CommunityRow, NewName
  <1>2. Handlers!Active = {}
    BY <1>1 DEF Handlers!Active
  <1>3. member \in Tables
    BY DEF Handlers!Init, Tables, MemberRow, Handlers!NoRow
  <1>4. QED
    BY <1>1, <1>2, <1>3
    DEF CommunityInv, RequestsWell, OthersPlain, Handlers!NamesDifferInTurn, Handlers!NamesApart

\* A request arrives or goes on while the tables rest.
LEMMA RequestStep ==
  ASSUME CommunityInv, UNCHANGED <<load, community, odd>>, member' \in Tables,
         NEW q \in Request, NEW new,
         req' = [req EXCEPT ![q] = new],
         new.pc # "idle" => /\ q \in load.slots /\ InProgress(new)
                            /\ Handlers!InTurn => Looked(new)
  PROVE  CommunityInv'
  <1>1. req' = [p \in Request |-> req'[p]] /\ \A p \in Request : req'[p] = IF p = q THEN new ELSE req[p]
    BY DEF CommunityInv
  <1>2. Handlers!InTurn' = Handlers!InTurn
    BY DEF Handlers!InTurn
  <1>3. \A p \in Request : Looked(req'[p]) => Looked(req[p])'
    BY DEF Looked, Handlers!SameName, Handlers!Active
  <1>4. \A p \in Request :
          req'[p].pc # "idle" => /\ p \in load.slots /\ InProgress(req'[p])
                                 /\ Handlers!InTurn => Looked(req'[p])
    BY <1>1 DEF CommunityInv, RequestsWell
  <1>5. RequestsWell'
    BY <1>2, <1>3, <1>4 DEF RequestsWell
  <1>6. Handlers!NamesDifferInTurn'
    BY <1>2 DEF CommunityInv, Handlers!NamesDifferInTurn, Handlers!NamesApart, Handlers!Active
  <1>7. OthersPlain'
    BY DEF CommunityInv, OthersPlain, Handlers!Active, Handlers!Plain
  <1>8. QED
    BY <1>1, <1>5, <1>6, <1>7 DEF CommunityInv

\* A row of members is written; the others stay.
WriteRow(c, a, row) == member' = [member EXCEPT ![c][a] = row]

LEMMA RowWritten ==
  ASSUME member \in Tables, NEW c, NEW a, NEW row \in MemberRow, WriteRow(c, a, row)
  PROVE  /\ member' \in Tables
         /\ \A d \in Community, b \in Address : d # c \/ b # a => member'[d][b] = member[d][b]
  BY DEF Tables, WriteRow

\* What a request does to the rows of members: POST of a community and of a member write
\* one; the changes of a role and of a removal write one that is there.
LEMMA MembersStep ==
  ASSUME LoadWithin, CommunityInv, load' = load, NEW q \in Request,
         \/ Handlers!Arrive(q) \/ Handlers!Authorise(q) \/ Handlers!Forbid(q) \/ Handlers!Read(q)
         \/ Handlers!Find(q) \/ Handlers!Create(q) \/ Handlers!Rename(q) \/ Handlers!NameTaken(q)
         \/ Handlers!Delete(q) \/ Handlers!SetAvatar(q) \/ Handlers!AddMember(q)
         \/ Handlers!SetRole(q) \/ Handlers!RemoveMember(q) \/ Handlers!Fail(q)
  PROVE  /\ member' \in Tables
         /\ \A c \in Community, a \in Address :
              /\ ~ (Handlers!Create(q) /\ community[c].state = "absent")
              /\ ~ (Handlers!AddMember(q) /\ req[q].in = c)
              /\ Handlers!RoleIn(c, a) = Handlers!NoRole
              => Handlers!RoleIn(c, a)' = Handlers!NoRole
  <1> DEFINE r == req[q]
  <1>1. /\ r.pc # "idle" => InProgress(r)
        /\ load.communities \subseteq Community /\ member \in Tables
    BY DEF CommunityInv, RequestsWell, LoadWithin
  <1>2. CASE member' = member
    BY <1>1, <1>2 DEF Handlers!RoleIn
  <1>3. CASE Handlers!Create(q)
    <2>1. PICK c \in load.communities :
            /\ community[c].state = "absent"
            /\ member' = [member EXCEPT ![c][r.who] = [role |-> "admin", removed |-> FALSE]]
      BY <1>3 DEF Handlers!Create
    <2> DEFINE row == [role |-> "admin", removed |-> FALSE]
    <2>2. row \in MemberRow /\ WriteRow(c, r.who, row)
      BY <2>1 DEF MemberRow, Handlers!Role, WriteRow
    <2> HIDE DEF row
    <2>3. /\ member' \in Tables
          /\ \A d \in Community, b \in Address : d # c => member'[d][b] = member[d][b]
      BY <1>1, <2>2, RowWritten
    <2>4. QED
      BY <1>3, <2>1, <2>3 DEF Handlers!RoleIn
  <1>4. CASE Handlers!AddMember(q)
    <2> DEFINE row == [role |-> r.role, removed |-> FALSE]
    <2>1. /\ r.pc = "write" /\ r.kind = "add"
          /\ WriteRow(r.in, r.address, row)
      BY <1>4 DEF Handlers!AddMember, Handlers!Write, WriteRow
    <2>2. r \in Adding
      BY <1>1, <2>1 DEF InProgress, Creating, Renaming, Acting, Adding, Setting, Removing
    <2>3. row \in MemberRow
      BY <2>2 DEF Adding, MemberRow
    <2> HIDE DEF row
    <2>4. /\ member' \in Tables
          /\ \A d \in Community, b \in Address : d # r.in => member'[d][b] = member[d][b]
      BY <1>1, <2>1, <2>3, RowWritten
    <2>5. QED
      BY <1>4, <2>4 DEF Handlers!RoleIn
  <1>5. ASSUME NEW new, Handlers!OnMember(q, new), r.in \in Community, r.address \in Address,
               Handlers!RoleIn(r.in, r.address) # Handlers!NoRole => new \in MemberRow
        PROVE  /\ member' \in Tables
               /\ \A c \in Community, a \in Address :
                    Handlers!RoleIn(c, a) = Handlers!NoRole =>
                      Handlers!RoleIn(c, a)' = Handlers!NoRole
    <2>1. CASE member' = member
      BY <1>1, <2>1 DEF Handlers!RoleIn
    <2>2. CASE /\ Handlers!RoleIn(r.in, r.address) # Handlers!NoRole
               /\ WriteRow(r.in, r.address, new)
      <3>1. /\ member' \in Tables
            /\ \A d \in Community, b \in Address :
                 d # r.in \/ b # r.address => member'[d][b] = member[d][b]
        BY <1>1, <1>5, <2>2, RowWritten
      <3>2. QED
        BY <2>2, <3>1 DEF Handlers!RoleIn
    <2>3. QED
      BY <1>5, <2>1, <2>2 DEF Handlers!OnMember, WriteRow
  <1>6. CASE Handlers!SetRole(q)
    <2>1. /\ r.pc = "write" /\ r.kind = "setRole"
          /\ Handlers!OnMember(q, [role |-> r.role, removed |-> FALSE])
      BY <1>6 DEF Handlers!SetRole, Handlers!Write
    <2>2. r \in Setting
      BY <1>1, <2>1 DEF InProgress, Creating, Renaming, Acting, Adding, Setting, Removing
    <2>3. /\ r.in \in Community /\ r.address \in Address
          /\ [role |-> r.role, removed |-> FALSE] \in MemberRow
      BY <2>2 DEF Setting, MemberRow
    <2>4. QED
      BY <1>5, <2>1, <2>3
  <1>7. CASE Handlers!RemoveMember(q)
    <2> DEFINE old == member[r.in][r.address]
               row == [old EXCEPT !.removed = TRUE]
    <2>1. r.pc = "write" /\ r.kind = "remove" /\ Handlers!OnMember(q, row)
      BY <1>7 DEF Handlers!RemoveMember, Handlers!Write
    <2>2. r \in Removing
      BY <1>1, <2>1 DEF InProgress, Creating, Renaming, Acting, Adding, Setting, Removing
    <2>3. r.in \in Community /\ r.address \in Address
      BY <2>2 DEF Removing
    <2>4. row \in MemberRow
      <3>1. old \in MemberRow
        BY <1>1, <2>3 DEF Tables
      <3> HIDE DEF old
      <3>2. QED
        BY <3>1 DEF MemberRow
    <2> HIDE DEF row
    <2>5. QED
      BY <1>5, <2>1, <2>3, <2>4
  <1>8. QED
    <2>1. \/ Handlers!Create(q) \/ Handlers!AddMember(q) \/ Handlers!SetRole(q)
          \/ Handlers!RemoveMember(q) \/ member' = member
      BY DEF Handlers!Arrive, Handlers!Authorise, Handlers!Forbid, Handlers!Read, Handlers!Find,
         Handlers!Rename, Handlers!NameTaken, Handlers!Delete, Handlers!SetAvatar, Handlers!Fail,
         Handlers!Rows
    <2>2. QED
      BY <1>2, <1>3, <1>4, <1>6, <1>7, <2>1

LEMMA ArriveStep ==
  ASSUME LoadWithin, CommunityInv, load' = load, NEW q \in Request, Handlers!Arrive(q)
  PROVE  CommunityInv'
  <1>1. /\ q \in load.slots /\ UNCHANGED <<community, odd>> /\ member' \in Tables
        /\ load.communities \subseteq Community /\ load.addresses \subseteq Address
        /\ load.names \subseteq Name
    BY DEF CommunityInv, LoadWithin, Handlers!Arrive, Handlers!Rows
  <1>2. PICK who \in load.addresses :
        \/ \E n \in load.names :
            Handlers!Take(q, [pc |-> "find", kind |-> "create", who |-> who, name |-> n])
        \/ \E c \in load.communities, n \in load.names \cup {Handlers!NoName} :
            Handlers!Take(q, [pc |-> "auth", kind |-> "rename", who |-> who, in |-> c, name |-> n])
        \/ \E c \in load.communities, kind \in {"delete", "avatar"} :
            Handlers!Take(q, [pc |-> "auth", kind |-> kind, who |-> who, in |-> c])
        \/ \E c \in load.communities, a \in load.addresses, role \in Handlers!Role, kind \in {"add", "setRole"} :
            Handlers!Take(q, [pc |-> "auth", kind |-> kind, who |-> who, in |-> c,
                     address |-> a, role |-> role])
        \/ \E c \in load.communities, a \in load.addresses :
            Handlers!Take(q, [pc |-> IF a = who THEN "write" ELSE "auth", kind |-> "remove",
                     who |-> who, in |-> c, address |-> a])
    BY Zenon DEF Handlers!Arrive
  <1>3. who \in Address
    BY <1>1
  <1>4. ASSUME NEW n \in load.names,
               Handlers!Take(q, [pc |-> "find", kind |-> "create", who |-> who, name |-> n])
        PROVE  CommunityInv'
    <2> DEFINE new == [pc |-> "find", kind |-> "create", who |-> who, name |-> n]
    <2>1. new \in Creating /\ Looked(new)
      BY <1>1, <1>3 DEF Creating, Steps, NewName, Looked
    <2>2. req' = [req EXCEPT ![q] = new]
      BY <1>4 DEF Handlers!Take
    <2> HIDE DEF new
    <2>3. QED
      BY <1>1, <2>1, <2>2, RequestStep DEF InProgress
  <1>5. ASSUME NEW c \in load.communities, NEW n \in load.names \cup {Handlers!NoName},
               Handlers!Take(q, [pc |-> "auth", kind |-> "rename", who |-> who, in |-> c, name |-> n])
        PROVE  CommunityInv'
    <2> DEFINE new == [pc |-> "auth", kind |-> "rename", who |-> who, in |-> c, name |-> n]
    <2>1. new \in Renaming /\ Looked(new)
      BY <1>1, <1>3 DEF Renaming, Steps, NewName, Looked
    <2>2. req' = [req EXCEPT ![q] = new]
      BY <1>5 DEF Handlers!Take
    <2> HIDE DEF new
    <2>3. QED
      BY <1>1, <2>1, <2>2, RequestStep DEF InProgress
  <1>6. ASSUME NEW c \in load.communities, NEW kind \in {"delete", "avatar"},
               Handlers!Take(q, [pc |-> "auth", kind |-> kind, who |-> who, in |-> c])
        PROVE  CommunityInv'
    <2> DEFINE new == [pc |-> "auth", kind |-> kind, who |-> who, in |-> c]
    <2>1. new \in Acting /\ Looked(new)
      BY <1>1, <1>3 DEF Acting, Looked
    <2>2. req' = [req EXCEPT ![q] = new]
      BY <1>6 DEF Handlers!Take
    <2> HIDE DEF new
    <2>3. QED
      BY <1>1, <2>1, <2>2, RequestStep DEF InProgress
  <1>7. ASSUME NEW c \in load.communities, NEW a \in load.addresses, NEW role \in Handlers!Role,
               NEW kind \in {"add", "setRole"},
               Handlers!Take(q, [pc |-> "auth", kind |-> kind, who |-> who, in |-> c,
                        address |-> a, role |-> role])
        PROVE  CommunityInv'
    <2> DEFINE new == [pc |-> "auth", kind |-> kind, who |-> who, in |-> c,
                       address |-> a, role |-> role]
    <2>1. new \in Adding \cup Setting /\ Looked(new)
      BY <1>1, <1>3 DEF Adding, Setting, Steps, Looked
    <2>2. req' = [req EXCEPT ![q] = new]
      BY <1>7 DEF Handlers!Take
    <2> HIDE DEF new
    <2>3. QED
      BY <1>1, <2>1, <2>2, RequestStep DEF InProgress
  <1>8. ASSUME NEW c \in load.communities, NEW a \in load.addresses,
               Handlers!Take(q, [pc |-> IF a = who THEN "write" ELSE "auth", kind |-> "remove",
                        who |-> who, in |-> c, address |-> a])
        PROVE  CommunityInv'
    <2> DEFINE new == [pc |-> IF a = who THEN "write" ELSE "auth", kind |-> "remove",
                       who |-> who, in |-> c, address |-> a]
    <2>1. new \in Removing /\ Looked(new)
      BY <1>1, <1>3 DEF Removing, Steps, Looked
    <2>2. req' = [req EXCEPT ![q] = new]
      BY <1>8 DEF Handlers!Take
    <2> HIDE DEF new
    <2>3. QED
      BY <1>1, <2>1, <2>2, RequestStep DEF InProgress
  <1>9. QED
    BY <1>2, <1>4, <1>5, <1>6, <1>7, <1>8, Zenon

\* An answer leaves the tables, and so what other requests looked up, alone.
LEMMA AnswerStep ==
  ASSUME CommunityInv, UNCHANGED <<load, community, odd>>, member' \in Tables,
         NEW q \in Request, Handlers!Answered(q)
  PROVE  CommunityInv'
  <1> DEFINE new == [pc |-> "idle", kind |-> "none"]
  <1>1. req' = [req EXCEPT ![q] = new] /\ new.pc = "idle"
    BY DEF Handlers!Answered, Handlers!Take
  <1> HIDE DEF new
  <1>2. QED
    BY <1>1, RequestStep

LEMMA LookSteps ==
  ASSUME CommunityInv, load' = load, NEW q \in Request,
         Handlers!Authorise(q) \/ Handlers!Read(q) \/ Handlers!Find(q)
  PROVE  CommunityInv'
  <1> DEFINE r == req[q]
             At(pc) == [r EXCEPT !.pc = pc]
  <1>1. /\ r.pc # "idle" /\ UNCHANGED <<community, odd>> /\ member' \in Tables
        /\ q \in load.slots /\ InProgress(r)
        /\ Handlers!InTurn => Looked(r)
    BY DEF CommunityInv, RequestsWell, Handlers!Authorise, Handlers!Read, Handlers!Find, Handlers!Rows
  <1>2. ASSUME NEW pc \in Steps[r.kind], Handlers!Goto(q, pc), Handlers!InTurn => Looked(At(pc))
        PROVE  CommunityInv'
    <2>1. InProgress(At(pc))
      BY <1>1, GoesOn
    <2>2. req' = [req EXCEPT ![q] = At(pc)]
      BY <1>2 DEF Handlers!Goto
    <2> HIDE DEF At
    <2>3. QED
      BY <1>1, <1>2, <2>1, <2>2, RequestStep
  <1>3. ASSUME NEW pc \in Steps[r.kind]
        PROVE  /\ At(pc).pc = pc /\ At(pc).kind = r.kind
               /\ r.kind \in {"create", "rename"} => At(pc).name = r.name
               /\ r.kind \in {"rename", "add"} => At(pc).in = r.in
               /\ r.kind \in {"create", "rename"} =>
                    Handlers!SameName(At(pc)) = Handlers!SameName(r)
    <2>1. /\ At(pc).pc = pc /\ At(pc).kind = r.kind
          /\ r.kind \in {"create", "rename"} => At(pc).name = r.name
          /\ r.kind \in {"rename", "add"} => At(pc).in = r.in
      BY <1>1, GoesOn
    <2> HIDE DEF At
    <2>2. QED
      BY <2>1 DEF Handlers!SameName
  <1>4. r.kind \in {"create", "rename", "delete", "avatar", "add", "setRole", "remove"}
        /\ r.pc \in Steps[r.kind]
    BY <1>1 DEF InProgress, Creating, Renaming, Acting, Adding, Setting, Removing, Steps
  <1> HIDE DEF At
  <1>5. CASE Handlers!Authorise(q)
    <2> DEFINE pc == Handlers!FirstStep[r.kind]
    <2>1. Handlers!Goto(q, pc) /\ r.pc = "auth"
      BY <1>5 DEF Handlers!Authorise
    <2>2. r.kind # "create"
      BY <1>4, <2>1 DEF Steps
    <2>3. /\ pc \in Steps[r.kind]
          /\ r.kind \in {"rename", "add"} => pc = "read"
      BY <1>4, <2>2 DEF Steps, Handlers!FirstStep
    <2> HIDE DEF pc
    <2>4. Looked(At(pc))
      BY <1>3, <2>2, <2>3 DEF Looked
    <2>5. QED
      BY <1>2, <2>1, <2>3, <2>4
  <1>6. CASE Handlers!Read(q)
    <2> DEFINE same == \/ r.kind = "add" \/ r.name = Handlers!NoName
                       \/ ScriptFold[r.name] = ScriptFold[community[r.in].name]
               pc == IF same THEN "write" ELSE "find"
    <2>1. /\ r.pc = "read"
          /\ IF r.in \in Handlers!Active THEN Handlers!Goto(q, pc) ELSE Handlers!Answered(q)
      BY <1>6 DEF Handlers!Read
    <2>2. CASE r.in \notin Handlers!Active
      BY <1>1, <2>1, <2>2, AnswerStep
    <2>3. CASE r.in \in Handlers!Active
      <3>1. r.kind \in {"rename", "add"}
        BY <1>4, <2>1 DEF Steps
      <3>2. pc \in Steps[r.kind]
        BY <3>1 DEF Steps
      <3>3. pc = "write" => same
        OBVIOUS
      <3> HIDE DEF pc
      <3>4. Looked(At(pc))
        BY <1>3, <2>3, <3>1, <3>2, <3>3 DEF Looked
      <3>5. QED
        BY <1>2, <2>1, <2>3, <3>2, <3>4
    <2>4. QED
      BY <2>2, <2>3
  <1>7. CASE Handlers!Find(q)
    <2>1. /\ r.pc = "find"
          /\ IF Handlers!SameName(r) = {} THEN Handlers!Goto(q, "write") ELSE Handlers!Answered(q)
      BY <1>7 DEF Handlers!Find
    <2>2. CASE Handlers!SameName(r) # {}
      BY <1>1, <2>1, <2>2, AnswerStep
    <2>3. CASE Handlers!SameName(r) = {}
      <3>1. r.kind \in {"create", "rename"}
        BY <1>4, <2>1 DEF Steps
      <3>2. "write" \in Steps[r.kind]
        BY <3>1 DEF Steps
      <3>3. Handlers!InTurn /\ r.kind = "rename" => r.in \in Handlers!Active
        BY <1>1, <2>1 DEF Looked
      <3>4. Handlers!InTurn => Looked(At("write"))
        BY <1>3, <2>3, <3>1, <3>2, <3>3 DEF Looked
      <3>5. QED
        BY <1>2, <2>1, <2>3, <3>2, <3>4
    <2>4. QED
      BY <2>2, <2>3
  <1>8. QED
    BY <1>5, <1>6, <1>7

\* A request writes and is answered: when requests follow one another, none is left that
\* has looked at the tables before.
LEMMA WriteStep ==
  ASSUME CommunityInv, load' = load, NEW q \in Request, req[q].pc # "idle", Handlers!Answered(q),
         community' \in [Community -> CommunityRow], member' \in Tables, OthersPlain',
         Handlers!InTurn => Handlers!NamesApart(Handlers!Active \ odd)'
  PROVE  CommunityInv'
  <1> DEFINE new == [pc |-> "idle", kind |-> "none"]
  <1>1. req' = [req EXCEPT ![q] = new] /\ new.pc = "idle"
    BY DEF Handlers!Answered, Handlers!Take
  <1> HIDE DEF new
  <1>2. req' = [p \in Request |-> req'[p]] /\ \A p \in Request : req'[p] = IF p = q THEN new ELSE req[p]
    BY <1>1 DEF CommunityInv
  <1>3. Handlers!InTurn' = Handlers!InTurn
    BY DEF Handlers!InTurn
  <1>4. ASSUME NEW p \in Request, req'[p].pc # "idle"
        PROVE  p \in load.slots /\ InProgress(req'[p]) /\ ~Handlers!InTurn
    <2>1. p # q /\ req'[p] = req[p]
      BY <1>1, <1>2, <1>4
    <2>2. p \in load.slots /\ q \in load.slots /\ InProgress(req[p])
      BY <1>4, <2>1 DEF CommunityInv, RequestsWell
    <2>3. QED
      BY <2>1, <2>2 DEF Handlers!InTurn
  <1>5. RequestsWell'
    BY <1>3, <1>4 DEF RequestsWell
  <1>6. Handlers!NamesDifferInTurn'
    BY <1>3 DEF Handlers!NamesDifferInTurn
  <1>7. QED
    BY <1>2, <1>5, <1>6 DEF CommunityInv

LEMMA WriteSteps ==
  ASSUME CommunityInv, load' = load, NEW q \in Request,
         Handlers!Create(q) \/ Handlers!Rename(q) \/ Handlers!Delete(q), member' \in Tables
  PROVE  CommunityInv'
  <1> DEFINE r == req[q]
  <1>1. /\ r.pc = "write" /\ r.kind \in {"create", "rename", "delete"} /\ Handlers!Answered(q)
    BY DEF Handlers!Create, Handlers!Rename, Handlers!Delete, Handlers!Write
  <1>2. /\ InProgress(r) /\ community \in [Community -> CommunityRow]
        /\ Handlers!InTurn => Looked(r) /\ Handlers!NamesApart(Handlers!Active \ odd)
        /\ OthersPlain
    BY <1>1 DEF CommunityInv, RequestsWell, Handlers!NamesDifferInTurn
  <1>3. CASE Handlers!Create(q)
    <2>1. PICK c \in load.communities :
            /\ community[c].state = "absent"
            /\ community' = [community EXCEPT ![c] = [state |-> "active", name |-> r.name]]
            /\ odd' = IF Handlers!Plain(r.name) THEN odd ELSE odd \cup {c}
      BY <1>3 DEF Handlers!Create, Handlers!Remember
    <2>2. r.kind = "create" /\ r.name \in NewName
      BY <1>2, <1>3 DEF Handlers!Create, Handlers!Write, InProgress, Creating, Renaming, Acting,
                        Adding, Setting, Removing
    <2> DEFINE row == [state |-> "active", name |-> r.name]
    <2>3. row \in CommunityRow /\ row.name = r.name
      BY <2>2 DEF CommunityRow
    <2>4. community' = [community EXCEPT ![c] = row]
      BY <2>1
    <2> HIDE DEF row
    <2>5. community' \in [Community -> CommunityRow]
      BY <1>2, <2>3, <2>4
    <2>6. /\ \A d \in Handlers!Active' \ odd' :
               d \in Community /\ (d # c => d \in Handlers!Active \ odd /\ community'[d] = community[d])
          /\ c \in Handlers!Active' \ odd' => community'[c].name = r.name /\ Handlers!Plain(r.name)
      BY <1>2, <2>1, <2>3, <2>4 DEF Handlers!Active
    <2>7. OthersPlain'
      BY <1>2, <2>6 DEF OthersPlain, Handlers!Plain
    <2>8. ASSUME Handlers!InTurn,
                 NEW a \in Handlers!Active' \ odd', NEW b \in Handlers!Active' \ odd',
                 ScriptFold[community'[a].name] = ScriptFold[community'[b].name]
          PROVE  a = b
      <3>1. Handlers!SameName(r) = {} /\ Handlers!NamesApart(Handlers!Active \ odd)
        BY <1>1, <1>2, <2>2, <2>8 DEF Looked
      <3>2. \A d \in Handlers!Active \ odd : ScriptFold[community[d].name] # ScriptFold[r.name]
        BY <1>2, <2>2, <3>1 DEF Handlers!SameName, OthersPlain, Handlers!Plain
      <3>3. CASE a # c /\ b # c
        BY <2>6, <2>8, <3>1, <3>3 DEF Handlers!NamesApart
      <3>4. CASE a = c /\ b # c
        BY <2>6, <2>8, <3>2, <3>4
      <3>5. CASE a # c /\ b = c
        BY <2>6, <2>8, <3>2, <3>5
      <3>6. QED
        BY <3>3, <3>4, <3>5
    <2>9. QED
      BY <1>1, <2>5, <2>7, <2>8, WriteStep DEF Handlers!NamesApart
  <1>4. CASE Handlers!Rename(q)
    <2> DEFINE c == r.in
               n == IF r.name = Handlers!NoName THEN community[c].name ELSE r.name
               row == [community[c] EXCEPT !.name = n]
    <2>1. /\ r.kind = "rename" /\ community' = [community EXCEPT ![c].name = n]
          /\ odd' = IF Handlers!Plain(n) THEN odd ELSE odd \cup {c}
      BY <1>4 DEF Handlers!Rename, Handlers!Write, Handlers!Remember
    <2>2. r.name \in NewName /\ c \in Community
      BY <1>2, <2>1 DEF InProgress, Creating, Renaming, Acting, Adding, Setting, Removing
    <2>3. community' = [community EXCEPT ![c] = row]
      BY <2>1
    <2>4. row \in CommunityRow /\ row.name = n /\ row.state = community[c].state
      BY <1>2, <2>2 DEF CommunityRow
    <2>5. \/ n = community[c].name
          \/ ScriptFold[n] = ScriptFold[community[c].name]
          \/ n = r.name /\ Handlers!SameName(r) = {}
          \/ ~Handlers!InTurn
      BY <1>1, <1>2, <2>1 DEF Looked
    <2> HIDE DEF row, n, c
    <2>6. community' \in [Community -> CommunityRow]
      BY <1>2, <2>3, <2>4
    <2>7. Handlers!Active' = Handlers!Active
      BY <1>2, <2>2, <2>3, <2>4 DEF Handlers!Active
    <2>8. /\ \A d \in Handlers!Active' \ odd' :
               d \in Handlers!Active \ odd /\ (d # c => community'[d] = community[d])
          /\ community'[c].name = n
          /\ c \in Handlers!Active' \ odd' => Handlers!Plain(n)
      BY <1>2, <2>1, <2>2, <2>3, <2>4, <2>7 DEF Handlers!Active
    <2>9. OthersPlain'
      BY <1>2, <2>8 DEF OthersPlain, Handlers!Plain
    <2>10. ASSUME Handlers!InTurn,
                 NEW a \in Handlers!Active' \ odd', NEW b \in Handlers!Active' \ odd',
                 ScriptFold[community'[a].name] = ScriptFold[community'[b].name]
          PROVE  a = b
      <3>1. Handlers!NamesApart(Handlers!Active \ odd)
        BY <1>2, <2>10
      <3>2. CASE ScriptFold[n] = ScriptFold[community[c].name]
        <4>1. \A d \in Handlers!Active' \ odd' :
                ScriptFold[community'[d].name] = ScriptFold[community[d].name]
          BY <2>8, <3>2
        <4>2. QED
          BY <2>8, <2>10, <3>1, <4>1 DEF Handlers!NamesApart
      <3>3. CASE n = r.name /\ Handlers!SameName(r) = {}
        <4>1. \A d \in Handlers!Active \ odd : d # c => ScriptFold[community[d].name] # ScriptFold[n]
          BY <1>2, <2>1, <3>3 DEF Handlers!SameName, OthersPlain, Handlers!Plain, c
        <4>2. CASE a # c /\ b # c
          BY <2>8, <2>10, <3>1, <4>2 DEF Handlers!NamesApart
        <4>3. CASE a = c \/ b = c
          BY <2>8, <2>10, <4>1, <4>3
        <4>4. QED
          BY <4>2, <4>3
      <3>4. QED
        BY <2>5, <2>10, <3>2, <3>3
    <2>11. QED
      BY <1>1, <2>6, <2>9, <2>10, WriteStep DEF Handlers!NamesApart
  <1>5. CASE Handlers!Delete(q)
    <2> DEFINE c == r.in
               row == [community[c] EXCEPT !.state = "deleted"]
    <2>1. /\ community' = community \/ community' = [community EXCEPT ![c] = row]
          /\ odd' = odd
      BY <1>5 DEF Handlers!Delete
    <2>2. c \in Community => row \in CommunityRow /\ row.state = "deleted"
      BY <1>2 DEF CommunityRow
    <2> HIDE DEF row, c
    <2>3. community' \in [Community -> CommunityRow]
      BY <1>2, <2>1, <2>2
    <2>4. \A d \in Handlers!Active' : d \in Handlers!Active /\ community'[d] = community[d]
      BY <1>2, <2>1, <2>2 DEF Handlers!Active
    <2>5. Handlers!InTurn => Handlers!NamesApart(Handlers!Active \ odd)'
      BY <1>2, <2>1, <2>4 DEF Handlers!NamesApart
    <2>6. OthersPlain'
      BY <1>2, <2>1, <2>4 DEF OthersPlain, Handlers!Plain
    <2>7. QED
      BY <1>1, <2>3, <2>5, <2>6, WriteStep
  <1>6. QED
    BY <1>3, <1>4, <1>5

LEMMA NextCommunities ==
  ASSUME LoadWithin
  PROVE  CommunityInv /\ [Handlers!Next]_(Handlers!vars) => CommunityInv'
  <1> SUFFICES ASSUME CommunityInv, [Handlers!Next]_(Handlers!vars) PROVE CommunityInv'
    OBVIOUS
  <1>1. CASE UNCHANGED Handlers!vars
    BY <1>1 DEF Handlers!vars, CommunityInv, RequestsWell, Looked, Handlers!SameName, Handlers!Active,
       Handlers!InTurn, Handlers!NamesDifferInTurn, Handlers!NamesApart, OthersPlain,
       Handlers!Plain
  <1>2. ASSUME load' = load, NEW q \in Request,
               \/ Handlers!Forbid(q) \/ Handlers!NameTaken(q) \/ Handlers!SetAvatar(q)
               \/ Handlers!AddMember(q) \/ Handlers!SetRole(q) \/ Handlers!RemoveMember(q)
               \/ Handlers!Fail(q)
        PROVE  CommunityInv'
    <2>1. UNCHANGED <<community, odd>> /\ Handlers!Answered(q)
      BY <1>2 DEF Handlers!Forbid, Handlers!NameTaken, Handlers!SetAvatar, Handlers!AddMember,
         Handlers!SetRole, Handlers!RemoveMember, Handlers!Fail, Handlers!Rows, Handlers!Write
    <2>2. QED
      BY <1>2, <2>1, MembersStep, AnswerStep DEF Handlers!Next
  <1>3. QED
    BY <1>1, <1>2, MembersStep, ArriveStep, LookSteps, WriteSteps DEF Handlers!Next

LEMMA CommunitiesKeep == ASSUME LoadWithin PROVE Handlers!Spec => []CommunityInv
  <1>1. Handlers!Init => CommunityInv
    BY InitCommunities
  <1>2. CommunityInv /\ [Handlers!Next]_(Handlers!vars) => CommunityInv'
    BY NextCommunities
  <1>3. QED
    BY <1>1, <1>2, PTL DEF Handlers!Spec

\* While requests follow one another, two active communities that only ever had names on
\* which the program's folding and the database's agree never have names that fold to one,
\* whatever the foldings do: what Find saw, or that the name is the community's own, still
\* holds at the INSERT or UPDATE.
THEOREM NamesStayApart == ASSUME LoadWithin PROVE Handlers!Spec => []NamesDifferInTurn
  <1>1. CommunityInv => NamesDifferInTurn
    BY DEF CommunityInv, NamesDifferInTurn
  <1>2. QED
    BY <1>1, CommunitiesKeep, PTL

\* While requests follow one another a deleted community keeps its name and state, and
\* nobody becomes a member of it, whatever requests come: the UPDATE of PUT and the INSERT
\* of a member, which do not look at deleted_at, only follow a look that found it active,
\* and what else writes looks, or writes the row of somebody who is a member.
THEOREM DeletedIsLeftAlone == ASSUME LoadWithin PROVE Handlers!Spec => GoneIsLeftAlone
  <1> DEFINE Left(c) ==
        /\ community'[c] = community[c]
        /\ \A a \in Address : Handlers!RoleIn(c, a) = Handlers!NoRole =>
                             Handlers!RoleIn(c, a)' = Handlers!NoRole
  <1>1. ASSUME CommunityInv, Handlers!InTurn, [Handlers!Next]_(Handlers!vars),
               NEW c \in Community, community[c].state = "deleted"
        PROVE  Left(c)
    <2>1. CASE UNCHANGED Handlers!vars
      BY <2>1 DEF Handlers!vars, Handlers!RoleIn
    <2>2. CASE Handlers!Next
      <3>1. PICK q \in Request :
              /\ load' = load
              /\ \/ Handlers!Arrive(q) \/ Handlers!Authorise(q) \/ Handlers!Forbid(q)
                 \/ Handlers!Read(q) \/ Handlers!Find(q) \/ Handlers!Create(q)
                 \/ Handlers!Rename(q) \/ Handlers!NameTaken(q) \/ Handlers!Delete(q)
                 \/ Handlers!SetAvatar(q) \/ Handlers!AddMember(q) \/ Handlers!SetRole(q)
                 \/ Handlers!RemoveMember(q) \/ Handlers!Fail(q)
        BY <2>2 DEF Handlers!Next
      <3> DEFINE r == req[q]
      <3>2. ASSUME Handlers!Rename(q) \/ Handlers!AddMember(q)
            PROVE  r.in # c
        <4>1. r.pc = "write" /\ r.kind \in {"rename", "add"}
          BY <3>2 DEF Handlers!Rename, Handlers!AddMember, Handlers!Write
        <4>2. Looked(r)
          BY <1>1, <4>1 DEF CommunityInv, RequestsWell
        <4>3. QED
          BY <1>1, <4>1, <4>2 DEF Looked, Handlers!Active
      <3>3. \A a \in Address : Handlers!RoleIn(c, a) = Handlers!NoRole =>
                               Handlers!RoleIn(c, a)' = Handlers!NoRole
        BY <1>1, <3>1, <3>2, MembersStep
      <3>4. community'[c] = community[c]
        <4>1. community \in [Community -> CommunityRow]
          BY <1>1 DEF CommunityInv
        <4>2. CASE community' = community
          BY <4>2
        <4>3. CASE Handlers!Create(q)
          BY <1>1, <4>1, <4>3 DEF Handlers!Create
        <4>4. CASE Handlers!Rename(q)
          <5> DEFINE new == [community[r.in] EXCEPT !.name =
                               IF r.name = Handlers!NoName THEN community[r.in].name ELSE r.name]
          <5>1. community' = [community EXCEPT ![r.in] = new] /\ r.in # c
            BY <3>2, <4>4 DEF Handlers!Rename
          <5> HIDE DEF new
          <5>2. QED
            BY <4>1, <5>1
        <4>5. CASE Handlers!Delete(q)
          <5> DEFINE new == [community[r.in] EXCEPT !.state = "deleted"]
          <5>1. \/ community' = community
                \/ r.in \in Handlers!Active /\ community' = [community EXCEPT ![r.in] = new]
            BY <4>5 DEF Handlers!Delete
          <5> HIDE DEF new
          <5>2. QED
            BY <1>1, <4>1, <5>1 DEF Handlers!Active
        <4>6. QED
          <5>1. \/ Handlers!Create(q) \/ Handlers!Rename(q) \/ Handlers!Delete(q)
                \/ community' = community
            BY <3>1 DEF Handlers!Arrive, Handlers!Authorise, Handlers!Forbid, Handlers!Read,
               Handlers!Find, Handlers!NameTaken, Handlers!SetAvatar, Handlers!AddMember,
               Handlers!SetRole, Handlers!RemoveMember, Handlers!Fail, Handlers!Rows
          <5>2. QED
            BY <4>2, <4>3, <4>4, <4>5, <5>1
      <3>5. QED
        BY <3>3, <3>4
    <2>3. QED
      BY <1>1, <2>1, <2>2
  <1>2. CommunityInv /\ [Handlers!Next]_(Handlers!vars) =>
          [Handlers!InTurn => \A c \in Community :
             community[c].state = "deleted" => Left(c)]_(Handlers!vars)
    BY <1>1
  <1>3. QED
    BY <1>2, CommunitiesKeep, PTL DEF GoneIsLeftAlone, Handlers!GoneIsLeftAlone, Handlers!Spec

===============================================================================
