----------------------------- MODULE HostProofs -----------------------------
(***************************************************************************)
(* Proofs about the process on its host: its starts and stops, for any     *)
(* number of processes, backup tools and migrations; its backups, for any  *)
(* number of them and any retention; the copies of a WhatsApp session, for *)
(* any choice of storage; the settings of the panel and the restoration of *)
(* them, for any files; the transactions of the database, for any jobs     *)
(* and depth; the files that customers send; the upgrade of a database of  *)
(* any older version, with any rows; the answers of the model, for any     *)
(* number of rounds; and the prices told and confirmed, for any catalogue. *)
(***************************************************************************)
EXTENDS Process, Backups, SessionBackup, Settings, Transactions, Media, Schema,
        Answers, Catalogue, FiniteSetTheorems, SequenceTheorems, WellFoundedInduction, TLAPS

ProcessSpec == ProcessInit /\ [][ProcessNext]_processVars
BackupsSpec == BackupsInit /\ [][BackupsNext]_backupVars
SessionBackupSpec == SessionBackupInit /\ [][SessionBackupNext]_sessionBackupVars
SettingsSpec == SettingsInit /\ [][SettingsNext]_settingsVars
TransactionsSpec == TransactionsInit /\ [][TransactionsNext]_transactionVars
MediaSpec == MediaInit /\ [][MediaNext]_mediaVars
SchemaSpec == SchemaInit /\ [][SchemaNext]_schemaVars
AnswersSpec == AnswersInit /\ [][AnswersNext]_answerVars
CatalogueSpec == CatalogueInit /\ [][CatalogueNext]_catalogueVars

(* Of some numbers one is the least.                                       *)
LEMMA Least ==
  ASSUME NEW S \in SUBSET Nat, S # {}
  PROVE  \E i \in S : \A k \in S : i <= k
<1> DEFINE R == OpToRel(<, Nat)
<1>1. IsWellFoundedOn(R, Nat)
  BY NatLessThanWellFounded
<1>2. \A i, k \in Nat : <<i, k>> \in R <=> i < k
  BY DEF OpToRel
<1> HIDE DEF R
<1>3. PICK i \in S : \A k \in S : ~(<<k, i>> \in R)
  BY <1>1, WFMin
<1>4. ASSUME NEW k \in S PROVE i <= k
  <2>1. i \in Nat /\ k \in Nat /\ ~(k < i)
    BY <1>2, <1>3
  <2> QED BY <2>1
<1> QED BY <1>4

-----------------------------------------------------------------------------
(* Starts and stops.                                                       *)

Starting == {"off", "unlocked", "stale", "schema", "migrating", "migrated", "scheduled", "up", "failed", "dead"}
Stopping == {"no", "awaiting", "unwatched", "closed", "closed blindly"}

ProcessTypes ==
  /\ starting \in [Proc -> Starting] /\ stopping \in [Proc -> Stopping]
  /\ backup \in [Proc -> {"none", "waiting", "running", "last"}]
  /\ acquiring = {p \in Proc : starting[p] \in {"stale", "unlocked"}}
  /\ missing \in [Proc -> Nat] /\ raced \in BOOLEAN

(* While nobody raced: one acquires the lock at a time, nobody works then, *)
(* and who works is in the file.                                           *)
OneOwner ==
  ~raced =>
    /\ \A p, q \in acquiring : p = q
    /\ \A p \in Proc : Holds(p) => lock = p /\ acquiring = {}

(* The migrations from 1 on are applied, and whoever is about to apply one *)
(* found the first that was not.                                           *)
AppliedUpTo(k) ==
  /\ applied = [v \in 1..Migrations |-> IF v <= k THEN 1 ELSE 0]
  /\ \A p \in Proc : starting[p] = "migrating" => missing[p] \in 1 .. k + 1 /\ missing[p] <= Migrations
  /\ \A p \in Proc : starting[p] \in {"migrated", "scheduled", "up"} => k = Migrations

InOrder == \E k \in 0..Migrations : AppliedUpTo(k)

(* A backup is there since the scheduler was started; a shutdown that has  *)
(* seen it waits for nothing that can start again.                         *)
BackupAwaited ==
  \A p \in Proc :
    /\ backup[p] # "none" => starting[p] \in {"scheduled", "up", "failed"}
    /\ stopping[p] \in {"awaiting", "closed"} => starting[p] \in {"scheduled", "up", "failed"}
    /\ stopping[p] = "awaiting" => backup[p] \in {"none", "last"}
    /\ stopping[p] = "closed" => backup[p] = "none"

ProcessInv == ProcessTypes /\ OneOwner /\ InOrder /\ BackupAwaited

(* What is missing is what comes after the last that was applied.          *)
LEMMA NextIsFirst ==
  ASSUME NEW k \in 0..Migrations, AppliedUpTo(k), Missing # {}
  PROVE  NextMissing = k + 1 /\ k < Migrations /\ NextMissing \in Nat
<1>1. Missing = k + 1 .. Migrations
  BY ProcessAssumption DEF Missing, AppliedUpTo
<1>2. k + 1 \in Missing /\ \A w \in Missing : k + 1 <= w
  BY <1>1, ProcessAssumption
<1>3. \A v \in Missing : (\A w \in Missing : v <= w) => v = k + 1
  BY <1>1, <1>2, ProcessAssumption
<1>4. k \in Nat /\ k < Migrations
  BY <1>1, ProcessAssumption
<1>5. NextMissing = k + 1
  BY <1>2, <1>3 DEF NextMissing
<1> QED BY <1>4, <1>5

(* Every step changes few variables; these keep their types.               *)
LEMMA ProcessTypesStay == ASSUME ProcessTypes, InOrder, ProcessNext PROVE ProcessTypes'
<1> USE DEF ProcessTypes, Starting, Stopping, Goes, Stops, Ends
<1>1. ASSUME NEW p \in Proc, LookAtLock(p) PROVE ProcessTypes'
  <2>1. CASE Stale(lock) /\ lock = NoPid
    BY <1>1, <2>1 DEF LookAtLock
  <2>2. CASE Stale(lock) /\ lock # NoPid
    BY <1>1, <2>2 DEF LookAtLock
  <2>3. CASE ~Stale(lock)
    BY <1>1, <2>3 DEF LookAtLock
  <2> QED BY <2>1, <2>2, <2>3
<1>2. ASSUME NEW p \in Proc, Unlink(p) PROVE ProcessTypes'
  BY <1>2 DEF Unlink
<1>3. ASSUME NEW p \in Proc, WriteLock(p) PROVE ProcessTypes'
  BY <1>3 DEF WriteLock
<1>4. ASSUME NEW p \in Proc, StartTool(p) \/ StartPanel(p) \/ StartFails(p) PROVE ProcessTypes'
  BY <1>4 DEF StartTool, StartPanel, StartFails
<1>5. ASSUME NEW p \in Proc, ReadMigrations(p) PROVE ProcessTypes'
  <2>1. CASE Missing = {}
    BY <1>5, <2>1 DEF ReadMigrations
  <2>2. CASE Missing # {}
    <3>1. NextMissing \in Nat
      <4>1. PICK k \in 0..Migrations : AppliedUpTo(k)
        BY DEF InOrder
      <4> QED BY <2>2, <4>1, NextIsFirst
    <3>2. Goes(p, "schema", "migrating") /\ missing' = [missing EXCEPT ![p] = NextMissing]
      BY <1>5, <2>2 DEF ReadMigrations
    <3>3. missing' \in [Proc -> Nat]
      BY <3>1, <3>2
    <3> QED BY <1>5, <3>2, <3>3 DEF ReadMigrations
  <2> QED BY <2>1, <2>2
<1>6. ASSUME NEW p \in Proc, Migrate(p) PROVE ProcessTypes'
  BY <1>6 DEF Migrate
<1>7. ASSUME NEW p \in Proc, StartScheduler(p) PROVE ProcessTypes'
  BY <1>7 DEF StartScheduler
<1>8. ASSUME NEW p \in Proc, RunBackup(p) \/ EndBackup(p) PROVE ProcessTypes'
  BY <1>8 DEF RunBackup, EndBackup
<1>9. ASSUME NEW p \in Proc, Shutdown(p) PROVE ProcessTypes'
  BY <1>9 DEF Shutdown
<1>10. ASSUME NEW p \in Proc, CloseAll(p) PROVE ProcessTypes'
  BY <1>10 DEF CloseAll
<1>11. ASSUME NEW p \in Proc, Ends(p) PROVE ProcessTypes'
  BY <1>11
<1> QED BY <1>1, <1>2, <1>3, <1>4, <1>5, <1>6, <1>7, <1>8, <1>9, <1>10, <1>11 DEF ProcessNext, Exit, Kill

(* Ownership.  A step that neither takes nor gives back the lock, and lets *)
(* nobody begin to hold it, keeps OneOwner.                                *)
LEMMA OwnerStays ==
  ASSUME OneOwner, acquiring' = acquiring, raced' = raced, lock' = lock,
         \A p \in Proc : Holds(p)' => Holds(p)
  PROVE  OneOwner'
BY DEF OneOwner

(* A start takes the lock only from nobody or the dead, unless two raced.  *)
LEMMA OneOwnerStays == ASSUME ProcessTypes, OneOwner, ProcessNext PROVE OneOwner'
<1> USE DEF ProcessTypes
<1>1. ASSUME NEW p \in Proc, LookAtLock(p) PROVE OneOwner'
  <2>1. CASE Stale(lock)
    <3>1. /\ raced' = (raced \/ acquiring # {}) /\ acquiring' = acquiring \cup {p} /\ lock' = lock
          /\ stopping' = stopping /\ p \in acquiring' /\ \A q \in Proc \ {p} : starting'[q] = starting[q]
      BY <1>1, <2>1 DEF LookAtLock, Goes
    <3>2. ASSUME ~raced', NEW q \in Proc, Holds(q)' PROVE FALSE
      <4>1. Holds(q) /\ ~raced
        BY <3>1, <3>2 DEF Holds, Alive
      <4>2. lock = q /\ Alive(q)
        BY <4>1 DEF OneOwner, Holds
      <4> QED BY <2>1, <4>2, ProcessAssumption DEF Stale
    <3>3. ASSUME ~raced' PROVE acquiring' = {p}
      BY <3>1, <3>3
    <3> QED BY <3>2, <3>3 DEF OneOwner
  <2>2. CASE ~Stale(lock)
    <3>1. \A q \in Proc : Holds(q)' => Holds(q)
      BY <1>1, <2>2 DEF LookAtLock, Goes, Holds, Alive
    <3> QED BY <1>1, <2>2, <3>1, OwnerStays DEF LookAtLock
  <2> QED BY <2>1, <2>2
<1>2. ASSUME NEW p \in Proc, Unlink(p) PROVE OneOwner'
  <2>1. p \in acquiring /\ acquiring' = acquiring /\ raced' = raced
    BY <1>2 DEF Unlink, Goes
  <2>2. \A q \in Proc : Holds(q)' => Holds(q)
    BY <1>2 DEF Unlink, Goes, Holds, Alive
  <2> QED BY <2>1, <2>2 DEF OneOwner
<1>3. ASSUME NEW p \in Proc, WriteLock(p) PROVE OneOwner'
  <2>1. /\ p \in acquiring /\ acquiring' = acquiring \ {p} /\ raced' = raced /\ lock' = p
        /\ stopping' = stopping /\ \A q \in Proc \ {p} : starting'[q] = starting[q]
    BY <1>3 DEF WriteLock, Goes
  <2>2. \A q \in Proc \ {p} : Holds(q)' => Holds(q) \/ q \in acquiring
    BY <2>1 DEF Holds, Alive
  <2> QED BY <2>1, <2>2 DEF OneOwner
<1>4. ASSUME NEW p \in Proc, StartTool(p) PROVE OneOwner'
  <2>1. \A q \in Proc : Holds(q)' => Holds(q)
    BY <1>4 DEF StartTool, Goes, Holds, Alive
  <2> QED BY <1>4, <2>1, OwnerStays DEF StartTool
<1>5. ASSUME NEW p \in Proc, ReadMigrations(p) PROVE OneOwner'
  <2>1. starting[p] = "schema" /\ stopping' = stopping /\ \A q \in Proc \ {p} : starting'[q] = starting[q]
    BY <1>5 DEF ReadMigrations, Goes
  <2>2. \A q \in Proc : Holds(q)' => Holds(q)
    BY <1>5, <2>1 DEF ReadMigrations, Holds, Alive
  <2> QED BY <1>5, <2>2, OwnerStays DEF ReadMigrations
<1>6. ASSUME NEW p \in Proc, Migrate(p) PROVE OneOwner'
  <2>1. starting[p] = "migrating" /\ stopping' = stopping /\ \A q \in Proc \ {p} : starting'[q] = starting[q]
    BY <1>6 DEF Migrate, Goes
  <2>2. \A q \in Proc : Holds(q)' => Holds(q)
    BY <1>6, <2>1 DEF Migrate, Holds, Alive
  <2> QED BY <1>6, <2>2, OwnerStays DEF Migrate
<1>7. ASSUME NEW p \in Proc, StartScheduler(p) \/ StartPanel(p) \/ StartFails(p) PROVE OneOwner'
  <2>1. \A q \in Proc : Holds(q)' => Holds(q)
    BY <1>7 DEF StartScheduler, StartPanel, StartFails, Goes, Holds, Alive
  <2> QED BY <1>7, <2>1, OwnerStays DEF StartScheduler, StartPanel, StartFails
<1>8. ASSUME NEW p \in Proc, RunBackup(p) \/ EndBackup(p) PROVE OneOwner'
  <2>1. \A q \in Proc : Holds(q)' => Holds(q)
    BY <1>8 DEF RunBackup, EndBackup, Holds, Alive
  <2> QED BY <1>8, <2>1, OwnerStays DEF RunBackup, EndBackup
<1>9. ASSUME NEW p \in Proc, Shutdown(p) PROVE OneOwner'
  <2>1. stopping[p] = "no" /\ starting' = starting /\ \A q \in Proc \ {p} : stopping'[q] = stopping[q]
    BY <1>9 DEF Shutdown, Stops
  <2>2. \A q \in Proc : Holds(q)' => Holds(q)
    BY <1>9, <2>1 DEF Shutdown, Holds, Alive
  <2> QED BY <1>9, <2>2, OwnerStays DEF Shutdown
<1>10. ASSUME NEW p \in Proc, CloseAll(p) PROVE OneOwner'
  <2>1. /\ ~Holds(p)' /\ starting' = starting /\ acquiring' = acquiring /\ raced' = raced
        /\ \A q \in Proc \ {p} : stopping'[q] = stopping[q]
        /\ lock' = IF lock = p THEN NoPid ELSE lock
    BY <1>10 DEF CloseAll, Stops, Holds
  <2>2. \A q \in Proc \ {p} : Holds(q)' => Holds(q)
    BY <2>1 DEF Holds, Alive
  <2> QED BY <2>1, <2>2 DEF OneOwner
<1>11. ASSUME NEW p \in Proc, Ends(p), lock' = lock \/ (lock' = IF lock = p THEN NoPid ELSE lock)
       PROVE  OneOwner'
  <2>1. /\ ~Holds(p)' /\ acquiring' = acquiring \ {p} /\ raced' = raced
        /\ \A q \in Proc \ {p} : stopping'[q] = stopping[q] /\ starting'[q] = starting[q]
    BY <1>11 DEF Ends, Holds, Alive
  <2>2. \A q \in Proc \ {p} : Holds(q)' => Holds(q)
    BY <2>1 DEF Holds, Alive
  <2> QED BY <1>11, <2>1, <2>2 DEF OneOwner
<1> QED BY <1>1, <1>2, <1>3, <1>4, <1>5, <1>6, <1>7, <1>8, <1>9, <1>10, <1>11 DEF ProcessNext, Exit, Kill

(* The order of the migrations.                                            *)
LEMMA InOrderStays == ASSUME ProcessTypes, InOrder, ProcessNext PROVE InOrder'
<1> USE DEF ProcessTypes
<1>0. PICK k \in 0..Migrations : AppliedUpTo(k)
  BY DEF InOrder
<1>1. ASSUME applied' = applied, missing' = missing,
             \A p \in Proc : starting'[p] \in {"migrating", "migrated", "scheduled", "up"} =>
                               \/ starting[p] = starting'[p]
                               \/ starting[p] \in {"migrated", "scheduled"} /\ starting'[p] # "migrating"
      PROVE  InOrder'
  <2>1. AppliedUpTo(k)'
    BY <1>0, <1>1 DEF AppliedUpTo
  <2> QED BY <2>1 DEF InOrder
<1>2. ASSUME NEW p \in Proc, ReadMigrations(p) PROVE InOrder'
  <2>1. /\ applied' = applied /\ starting[p] = "schema"
        /\ \A q \in Proc \ {p} : starting'[q] = starting[q] /\ missing'[q] = missing[q]
    BY <1>2 DEF ReadMigrations, Goes
  <2>2. CASE Missing = {}
    <3>1. k = Migrations
      <4>1. ASSUME k # Migrations PROVE FALSE
        <5>1. k + 1 \in 1..Migrations /\ applied[k + 1] = 0
          BY <1>0, <4>1, ProcessAssumption DEF AppliedUpTo
        <5> QED BY <2>2, <5>1 DEF Missing
      <4> QED BY <4>1
    <3>2. missing' = missing /\ starting'[p] = "migrated"
      BY <1>2, <2>2 DEF ReadMigrations, Goes
    <3>3. AppliedUpTo(k)'
      BY <1>0, <2>1, <3>1, <3>2 DEF AppliedUpTo
    <3> QED BY <3>3 DEF InOrder
  <2>3. CASE Missing # {}
    <3>1. NextMissing = k + 1 /\ k < Migrations
      BY <1>0, <2>3, NextIsFirst
    <3>2. Goes(p, "schema", "migrating") /\ missing' = [missing EXCEPT ![p] = NextMissing]
      BY <1>2, <2>3 DEF ReadMigrations
    <3>3. starting'[p] = "migrating" /\ missing'[p] = k + 1
      BY <3>1, <3>2 DEF Goes
    <3>4. missing'[p] \in 1 .. k + 1 /\ missing'[p] <= Migrations
      BY <3>1, <3>3, ProcessAssumption
    <3>5. AppliedUpTo(k)'
      BY <1>0, <2>1, <3>3, <3>4 DEF AppliedUpTo
    <3> QED BY <3>5 DEF InOrder
  <2> QED BY <2>2, <2>3
<1>3. ASSUME NEW p \in Proc, Migrate(p) PROVE InOrder'
  <2>1. /\ missing' = missing /\ starting[p] = "migrating"
        /\ \A q \in Proc \ {p} : starting'[q] = starting[q]
        /\ missing[p] \in 1 .. k + 1 /\ missing[p] <= Migrations
    BY <1>0, <1>3 DEF Migrate, Goes, AppliedUpTo
  <2>2. CASE Taken(missing[p])
    BY <1>1, <1>3, <2>1, <2>2 DEF Migrate, Goes
  <2>3. CASE ~Taken(missing[p])
    <3>1. missing[p] = k + 1 /\ k + 1 \in 1..Migrations
      BY <1>0, <2>1, <2>3, ProcessAssumption DEF Taken, AppliedUpTo
    <3>2. applied' = [applied EXCEPT ![k + 1] = @ + 1] /\ starting'[p] = "schema"
      BY <1>3, <2>3, <3>1 DEF Migrate, Goes
    <3>3. applied' = [v \in 1..Migrations |-> IF v <= k + 1 THEN 1 ELSE 0]
      <4>1. \A v \in 1..Migrations : applied[v] = IF v <= k THEN 1 ELSE 0
        BY <1>0 DEF AppliedUpTo
      <4>2. applied' = [v \in 1..Migrations |-> IF v = k + 1 THEN applied[v] + 1 ELSE applied[v]]
        BY <1>0, <3>1, <3>2 DEF AppliedUpTo
      <4>3. \A v \in 1..Migrations :
              (IF v = k + 1 THEN applied[v] + 1 ELSE applied[v]) = IF v <= k + 1 THEN 1 ELSE 0
        BY <3>1, <4>1, ProcessAssumption
      <4> QED BY <4>2, <4>3
    <3>4. ASSUME NEW q \in Proc, starting'[q] = "migrating"
          PROVE  missing'[q] \in 1 .. (k + 1) + 1 /\ missing'[q] <= Migrations
      <4>1. q # p /\ starting[q] = "migrating" /\ missing'[q] = missing[q]
        BY <2>1, <3>2, <3>4
      <4> QED BY <1>0, <4>1, ProcessAssumption DEF AppliedUpTo
    <3>5. ASSUME NEW q \in Proc, starting'[q] \in {"migrated", "scheduled", "up"}
          PROVE  FALSE
      <4>1. q # p /\ starting[q] = starting'[q]
        BY <2>1, <3>2, <3>5
      <4>2. k = Migrations
        BY <1>0, <3>5, <4>1 DEF AppliedUpTo
      <4> QED BY <3>1, <4>2, ProcessAssumption
    <3>6. AppliedUpTo(k + 1)'
      BY <3>3, <3>4, <3>5 DEF AppliedUpTo
    <3>7. k + 1 \in 0..Migrations
      BY <3>1, ProcessAssumption
    <3> QED BY <3>6, <3>7 DEF InOrder
  <2> QED BY <2>2, <2>3
<1>4. ASSUME NEW p \in Proc, LookAtLock(p) PROVE InOrder'
  <2>1. /\ applied' = applied /\ missing' = missing /\ starting'[p] \in {"unlocked", "stale", "dead"}
        /\ \A q \in Proc \ {p} : starting'[q] = starting[q]
    BY <1>4 DEF LookAtLock, Goes
  <2> QED BY <1>1, <2>1
<1>5. ASSUME NEW p \in Proc, Unlink(p) \/ WriteLock(p) \/ StartTool(p) \/ StartFails(p) PROVE InOrder'
  BY <1>1, <1>5 DEF Unlink, WriteLock, StartTool, StartFails, Goes
<1>6. ASSUME NEW p \in Proc, StartScheduler(p) \/ StartPanel(p) PROVE InOrder'
  BY <1>1, <1>6 DEF StartScheduler, StartPanel, Goes
<1>7. ASSUME NEW p \in Proc, RunBackup(p) \/ EndBackup(p) \/ Shutdown(p) \/ CloseAll(p) PROVE InOrder'
  BY <1>1, <1>7 DEF RunBackup, EndBackup, Shutdown, CloseAll
<1>8. ASSUME NEW p \in Proc, Ends(p) PROVE InOrder'
  <2>1. /\ applied' = applied /\ starting'[p] = "dead"
        /\ \A q \in Proc \ {p} : starting'[q] = starting[q] /\ missing'[q] = missing[q]
    BY <1>8 DEF Ends
  <2>2. AppliedUpTo(k)'
    BY <1>0, <2>1 DEF AppliedUpTo
  <2> QED BY <2>2 DEF InOrder
<1> QED BY <1>2, <1>3, <1>4, <1>5, <1>6, <1>7, <1>8 DEF ProcessNext, Exit, Kill

(* Stops and backups.                                                      *)
LEMMA BackupStaysAwaited == ASSUME ProcessTypes, BackupAwaited, ProcessNext PROVE BackupAwaited'
<1> USE DEF ProcessTypes, Stopping
<1>1. ASSUME NEW p \in Proc, stopping' = stopping, backup' = backup,
             starting[p] \notin {"scheduled", "up", "failed"} \/ starting'[p] \in {"scheduled", "up", "failed"},
             \A q \in Proc \ {p} : starting'[q] = starting[q]
      PROVE  BackupAwaited'
  BY <1>1 DEF BackupAwaited
<1>2. ASSUME NEW p \in Proc, LookAtLock(p) PROVE BackupAwaited'
  <2>1. starting[p] = "off" /\ \A q \in Proc \ {p} : starting'[q] = starting[q]
    BY <1>2 DEF LookAtLock, Goes
  <2> QED BY <1>1, <1>2, <2>1 DEF LookAtLock
<1>3. ASSUME NEW p \in Proc, Unlink(p) \/ WriteLock(p) \/ StartTool(p) PROVE BackupAwaited'
  BY <1>1, <1>3 DEF Unlink, WriteLock, StartTool, Goes
<1>4. ASSUME NEW p \in Proc, ReadMigrations(p) PROVE BackupAwaited'
  <2>1. starting[p] = "schema" /\ \A q \in Proc \ {p} : starting'[q] = starting[q]
    BY <1>4 DEF ReadMigrations, Goes
  <2> QED BY <1>1, <1>4, <2>1 DEF ReadMigrations
<1>5. ASSUME NEW p \in Proc, Migrate(p) PROVE BackupAwaited'
  <2>1. starting[p] = "migrating" /\ \A q \in Proc \ {p} : starting'[q] = starting[q]
    BY <1>5 DEF Migrate, Goes
  <2> QED BY <1>1, <1>5, <2>1 DEF Migrate
<1>6. ASSUME NEW p \in Proc, StartScheduler(p) PROVE BackupAwaited'
  <2>1. /\ starting[p] = "migrated" /\ starting'[p] = "scheduled" /\ stopping' = stopping
        /\ \A q \in Proc \ {p} : starting'[q] = starting[q] /\ backup'[q] = backup[q]
    BY <1>6 DEF StartScheduler, Goes
  <2>2. stopping[p] \notin {"awaiting", "closed"}
    BY <2>1 DEF BackupAwaited
  <2> QED BY <2>1, <2>2 DEF BackupAwaited
<1>7. ASSUME NEW p \in Proc, StartPanel(p) \/ StartFails(p) PROVE BackupAwaited'
  <2>1. starting'[p] \in {"up", "failed"} /\ \A q \in Proc \ {p} : starting'[q] = starting[q]
    BY <1>7 DEF StartPanel, StartFails, Goes
  <2> QED BY <1>1, <1>7, <2>1 DEF StartPanel, StartFails
<1>8. ASSUME NEW p \in Proc, RunBackup(p) \/ EndBackup(p) PROVE BackupAwaited'
  <2>1. /\ starting' = starting /\ stopping' = stopping /\ backup[p] # "none"
        /\ \A q \in Proc \ {p} : backup'[q] = backup[q]
    BY <1>8 DEF RunBackup, EndBackup
  <2>2. stopping[p] # "closed" /\ (stopping[p] = "awaiting" => backup[p] = "last")
    BY <2>1 DEF BackupAwaited
  <2>3. stopping[p] = "awaiting" => backup'[p] = "none"
    BY <1>8, <2>2 DEF RunBackup, EndBackup
  <2> QED BY <2>1, <2>2, <2>3 DEF BackupAwaited
<1>9. ASSUME NEW p \in Proc, Shutdown(p) PROVE BackupAwaited'
  <2>1. /\ starting' = starting /\ stopping'[p] = IF backup[p] = "none" THEN "unwatched" ELSE "awaiting"
        /\ backup'[p] = IF backup[p] = "running" THEN "last" ELSE "none"
        /\ \A q \in Proc \ {p} : backup'[q] = backup[q] /\ stopping'[q] = stopping[q]
    BY <1>9 DEF Shutdown, Stops
  <2> QED BY <2>1 DEF BackupAwaited
<1>10. ASSUME NEW p \in Proc, CloseAll(p) PROVE BackupAwaited'
  <2>1. /\ starting' = starting /\ backup' = backup
        /\ \/ stopping[p] = "awaiting" /\ backup[p] = "none"
           \/ stopping'[p] = "closed blindly"
        /\ \A q \in Proc \ {p} : stopping'[q] = stopping[q]
    BY <1>10 DEF CloseAll, Stops, BackupIsDone
  <2> QED BY <2>1 DEF BackupAwaited
<1>11. ASSUME NEW p \in Proc, Ends(p) PROVE BackupAwaited'
  <2>1. /\ stopping'[p] = "no" /\ backup'[p] = "none"
        /\ \A q \in Proc \ {p} : starting'[q] = starting[q] /\ stopping'[q] = stopping[q] /\ backup'[q] = backup[q]
    BY <1>11 DEF Ends
  <2> QED BY <2>1 DEF BackupAwaited
<1> QED BY <1>2, <1>3, <1>4, <1>5, <1>6, <1>7, <1>8, <1>9, <1>10, <1>11 DEF ProcessNext, Exit, Kill

(* For any number of processes, backup tools and migrations: one process   *)
(* works at a time unless two raced for the lock, migrations are applied   *)
(* once each and in order before anything works on the tables, and a       *)
(* shutdown that knows of a backup waits for it (instance-lock.ts,         *)
(* schema.ts, index.ts).                                                   *)
THEOREM StartsStaySound == ProcessSpec => []StartsAreSound
<1>1. ProcessInit => ProcessInv
  <2> SUFFICES ASSUME ProcessInit PROVE ProcessInv
    OBVIOUS
  <2>1. ProcessTypes
    BY DEF ProcessInit, ProcessTypes, Starting, Stopping
  <2>2. OneOwner /\ BackupAwaited
    BY DEF ProcessInit, OneOwner, BackupAwaited, Holds, Alive
  <2>3. AppliedUpTo(0)
    BY ProcessAssumption DEF ProcessInit, AppliedUpTo
  <2>4. InOrder
    BY <2>3, ProcessAssumption DEF InOrder
  <2> QED BY <2>1, <2>2, <2>4 DEF ProcessInv
<1>2. ProcessInv /\ [ProcessNext]_processVars => ProcessInv'
  <2>1. ASSUME ProcessInv, ProcessNext PROVE ProcessInv'
    BY <2>1, ProcessTypesStay, OneOwnerStays, InOrderStays, BackupStaysAwaited DEF ProcessInv
  <2>2. ASSUME ProcessInv, UNCHANGED processVars PROVE ProcessInv'
    BY <2>2 DEF processVars, ProcessInv, ProcessTypes, OneOwner, InOrder, AppliedUpTo, BackupAwaited, Holds, Alive
  <2> QED BY <2>1, <2>2
<1>3. ProcessInv => StartsAreSound
  <2> SUFFICES ASSUME ProcessInv PROVE StartsAreSound
    OBVIOUS
  <2>1. raced \/ \A p, q \in Proc : Holds(p) /\ Holds(q) => p = q
    BY DEF ProcessInv, ProcessTypes, OneOwner
  <2>2. PICK k \in 0..Migrations : AppliedUpTo(k)
    BY DEF ProcessInv, InOrder
  <2>3. \A v \in 1..Migrations : applied[v] <= 1 /\ (applied[v] = 1 => \A w \in 1..v : applied[w] = 1)
    BY <2>2, ProcessAssumption DEF AppliedUpTo
  <2>4. ASSUME NEW p \in Proc, starting[p] \in {"migrated", "scheduled", "up"} PROVE Missing = {}
    BY <2>2, <2>4, ProcessAssumption DEF AppliedUpTo, Missing
  <2>5. \A p \in Proc : stopping[p] = "closed" => backup[p] \notin {"running", "last"}
    BY DEF ProcessInv, BackupAwaited
  <2> QED BY <2>1, <2>3, <2>4, <2>5 DEF StartsAreSound
<1> QED BY <1>1, <1>2, <1>3, PTL DEF ProcessSpec

-----------------------------------------------------------------------------
(* Backups.  That Retention newer files are there, once so, is so for      *)
(* good: of the newest Retention files none is ever about to be deleted.   *)

Newer(b) == {c \in Published : c > b}
Old(b) == Cardinality(Newer(b)) >= Retention

Making == {"no", "begun", "dumped", "summed", "half published", "published", "recorded", "listed", "done", "failed"}
Restoring == {"no", "valid", "copied", "aside", "installed", "dead"}
Place == {"none", "old", "restored"}

BackupTypes ==
  /\ making \in [Backup -> Making] /\ doomed \in [Backup -> SUBSET Backup]
  /\ restoring \in Restoring /\ places \in [name : Place, previous : Place, tmp : Place]

\* A file that was published goes only when it is old.
Kept(b) ==
  /\ making[b] \in {"half published", "published", "recorded", "listed", "done"} =>
       <<"data", "final", b>> \in files \/ Old(b)
  /\ making[b] \in {"published", "recorded", "listed", "done"} =>
       <<"sum", "final", b>> \in files \/ Old(b)
  /\ \A c \in doomed[b] : Old(c)

\* The database under its name is what is there, or what is set aside.
NeverWithout ==
  /\ places.name # "none" \/ places.previous # "none"
  /\ restoring \in {"copied", "aside"} => places.tmp # "none"
  /\ restoring = "installed" => places.name # "none"

BackupsInv == BackupTypes /\ (\A b \in Backup : Kept(b)) /\ NeverWithout

(* What is published is finite, so that its newest can be counted.         *)
LEMMA BackupsFinite ==
  ASSUME NEW S \in SUBSET Backup
  PROVE  IsFiniteSet(S) /\ Cardinality(S) \in Nat
<1>1. IsFiniteSet(Backup)
  BY FS_Interval, BackupsAssumption DEF Backup
<1> QED BY <1>1, FS_Subset, FS_CardinalityType

(* A larger finite set has at least as many members.                       *)
LEMMA MoreThan ==
  ASSUME NEW S \in SUBSET Backup, NEW T \in SUBSET Backup, S \subseteq T, Cardinality(S) >= Retention
  PROVE  Cardinality(T) >= Retention
<1>1. IsFiniteSet(T) /\ Cardinality(S) \in Nat /\ Cardinality(T) \in Nat
  BY BackupsFinite
<1>2. Cardinality(S) <= Cardinality(T)
  BY <1>1, FS_Subset
<1> QED BY <1>1, <1>2, BackupsAssumption

(* A backup stays old when files come, and when an old one goes.           *)
LEMMA OldStays ==
  ASSUME NEW c, Published \ {c} \subseteq Published',
         c \notin Backup \/ Published \subseteq Published' \/ Old(c), NEW b \in Backup, Old(b)
  PROVE  Old(b)'
<1>0. /\ Newer(b) \in SUBSET Backup /\ Newer(b)' \in SUBSET Backup /\ Newer(c) \in SUBSET Backup
      /\ Backup \subseteq Nat
  BY DEF Newer, Published, Backup
<1>1. CASE Newer(b) \subseteq Newer(b)'
  BY <1>0, <1>1, MoreThan DEF Old
<1>2. CASE ~(Newer(b) \subseteq Newer(b)')
  <2>1. c \in Newer(b) /\ ~(Published \subseteq Published')
    BY <1>2 DEF Newer
  <2>2. c \in Backup /\ c > b /\ Old(c)
    BY <2>1 DEF Newer, Published
  <2>3. Newer(c) \subseteq Newer(b)'
    <3> SUFFICES ASSUME NEW d \in Newer(c) PROVE d \in Newer(b)'
      OBVIOUS
    <3>1. d \in Published /\ d \in Nat /\ b \in Nat /\ c \in Nat /\ d > c /\ c > b
      BY <1>0, <2>2 DEF Newer, Published
    <3>2. d # c /\ d > b
      BY <3>1
    <3>3. d \in Published'
      BY <3>1, <3>2
    <3> QED BY <3>2, <3>3 DEF Newer
  <2> QED BY <1>0, <2>2, <2>3, MoreThan DEF Old
<1> QED BY <1>1, <1>2

(* A step of one of the backups leaves a backup that was made, and every   *)
(* file that is not old, where they are.                                   *)
LEMMA BackupStepKeeps ==
  ASSUME BackupTypes, \A c \in Backup : Kept(c), NEW b \in Backup,
         \/ BeginBackup(b) \/ DumpBackup(b) \/ WriteChecksum(b) \/ PublishData(b) \/ PublishChecksum(b)
         \/ CompleteAuditRun(b) \/ ListBackups(b) \/ EndBackupRun(b) \/ FailBackup(b) \/ DieInBackup(b)
  PROVE  BackupTypes' /\ \A c \in Backup : Kept(c)'
<1>1. UNCHANGED <<restoring, places>> /\ BackupTypes'
  <2>1. restoring' = restoring /\ places' = places
    BY DEF BeginBackup, DumpBackup, WriteChecksum, PublishData, PublishChecksum, CompleteAuditRun,
           ListBackups, EndBackupRun, FailBackup, DieInBackup, OfRestore
  <2>2. doomed' \in [Backup -> SUBSET Backup]
    BY DEF BeginBackup, DumpBackup, WriteChecksum, PublishData, PublishChecksum, CompleteAuditRun,
           ListBackups, EndBackupRun, FailBackup, DieInBackup, BackupTypes, Published
  <2>3. making' \in [Backup -> Making]
    BY DEF BeginBackup, DumpBackup, WriteChecksum, PublishData, PublishChecksum, CompleteAuditRun,
           ListBackups, EndBackupRun, FailBackup, DieInBackup, Makes, BackupTypes, Making
  <2> QED BY <2>1, <2>2, <2>3 DEF BackupTypes
<1>2. \A c \in Backup \ {b} : making'[c] = making[c] /\ doomed'[c] = doomed[c]
  BY DEF BeginBackup, DumpBackup, WriteChecksum, PublishData, PublishChecksum, CompleteAuditRun,
         ListBackups, EndBackupRun, FailBackup, DieInBackup, Makes, BackupTypes
<1>3. \A c \in Backup : /\ <<"data", "final", c>> \in files => <<"data", "final", c>> \in files'
                        /\ c # b /\ <<"sum", "final", c>> \in files => <<"sum", "final", c>> \in files'
  <2>1. CASE UNCHANGED files
    BY <2>1
  <2>2. CASE DumpBackup(b) \/ WriteChecksum(b)
    BY <2>2 DEF DumpBackup, WriteChecksum
  <2>3. CASE PublishData(b)
    BY <2>3 DEF PublishData, Renamed
  <2>4. CASE PublishChecksum(b)
    BY <2>4 DEF PublishChecksum, Renamed
  <2>5. CASE FailBackup(b)
    BY <2>5 DEF FailBackup
  <2> QED BY <2>1, <2>2, <2>3, <2>4, <2>5
          DEF BeginBackup, CompleteAuditRun, ListBackups, EndBackupRun, DieInBackup
<1>4. \A c \in Backup : Old(c) => Old(c)'
  <2> SUFFICES ASSUME NEW c \in Backup, Old(c) PROVE Old(c)'
    OBVIOUS
  <2>1. Published \subseteq Published'
    BY <1>3 DEF Published
  <2> QED BY <2>1, OldStays
<1>5. ASSUME NEW c \in Backup, c # b PROVE Kept(c)'
  <2>1. doomed[c] \subseteq Backup
    BY DEF BackupTypes
  <2> QED BY <1>2, <1>3, <1>4, <1>5, <2>1 DEF Kept
<1>6. Kept(b)'
  <2>0. Kept(b) /\ doomed[b] \subseteq Backup /\ making[b] \in Making
    BY DEF BackupTypes
  <2>1. \A c \in doomed'[b] : Old(c)'
    <3>1. CASE ListBackups(b)
      BY <1>4, <3>1 DEF ListBackups, Beyond, Old, Newer, Published, BackupTypes
    <3>2. CASE DieInBackup(b)
      BY <3>2 DEF DieInBackup, BackupTypes
    <3>3. CASE UNCHANGED doomed
      BY <1>4, <2>0, <3>3 DEF Kept
    <3> QED BY <3>1, <3>2, <3>3 DEF BeginBackup, DumpBackup, WriteChecksum, PublishData, PublishChecksum,
                                    CompleteAuditRun, EndBackupRun, FailBackup
  <2>2. making'[b] \in {"half published", "published", "recorded", "listed", "done"} =>
          <<"data", "final", b>> \in files' \/ Old(b)'
    <3>1. CASE PublishData(b)
      BY <3>1 DEF PublishData, Renamed
    <3>2. CASE ~PublishData(b)
      <4>1. making'[b] \in {"half published", "published", "recorded", "listed", "done"} =>
              making[b] \in {"half published", "published", "recorded", "listed", "done"}
        BY <3>2 DEF BeginBackup, DumpBackup, WriteChecksum, PublishChecksum, CompleteAuditRun,
                    ListBackups, EndBackupRun, FailBackup, DieInBackup, Makes, BackupTypes
      <4> QED BY <1>3, <1>4, <2>0, <4>1 DEF Kept
    <3> QED BY <3>1, <3>2
  <2>3. making'[b] \in {"published", "recorded", "listed", "done"} =>
          <<"sum", "final", b>> \in files' \/ Old(b)'
    <3>1. CASE PublishChecksum(b)
      BY <3>1 DEF PublishChecksum, Renamed
    <3>2. CASE FailBackup(b)
      BY <3>2 DEF FailBackup, BackupTypes
    <3>3. CASE ~PublishChecksum(b) /\ ~FailBackup(b)
      <4>1. making'[b] \in {"published", "recorded", "listed", "done"} =>
              /\ making[b] \in {"published", "recorded", "listed", "done"}
              /\ UNCHANGED files
        BY <3>3 DEF BeginBackup, DumpBackup, WriteChecksum, PublishData, CompleteAuditRun,
                    ListBackups, EndBackupRun, DieInBackup, Makes, BackupTypes
      <4> QED BY <1>4, <2>0, <4>1 DEF Kept
    <3> QED BY <3>1, <3>2, <3>3
  <2> QED BY <2>1, <2>2, <2>3 DEF Kept
<1> QED BY <1>1, <1>5, <1>6

(* A file is unlinked when it is old, and is so for all that are older.    *)
LEMMA UnlinkKeeps ==
  ASSUME BackupTypes, \A d \in Backup : Kept(d), NEW b \in Backup, NEW c \in Backup, Unlinked(b, c)
  PROVE  BackupTypes' /\ \A d \in Backup : Kept(d)'
<1>1. /\ making' = making /\ restoring' = restoring /\ places' = places /\ c \in doomed[b] /\ Old(c)
      /\ doomed' = [doomed EXCEPT ![b] = @ \ {c}]
      /\ \A what \in {"data", "sum"}, d \in Backup \ {c} :
           <<what, "final", d>> \in files => <<what, "final", d>> \in files'
  BY DEF Unlinked, OfRestore, Kept
<1>2. Published \ {c} \subseteq Published'
  BY <1>1 DEF Published
<1>3. \A d \in Backup : Old(d) => Old(d)'
  <2> SUFFICES ASSUME NEW d \in Backup, Old(d) PROVE Old(d)'
    OBVIOUS
  <2> QED BY <1>1, <1>2, OldStays
<1>4. BackupTypes'
  BY <1>1 DEF BackupTypes
<1>5. ASSUME NEW d \in Backup PROVE Kept(d)'
  <2>1. \A e \in doomed'[d] : Old(e)'
    <3>1. doomed'[d] \subseteq doomed[d] /\ doomed[d] \subseteq Backup
      BY <1>1 DEF BackupTypes
    <3> QED BY <1>3, <3>1 DEF Kept
  <2>2. CASE d = c
    BY <1>1, <1>3, <2>1, <2>2 DEF Kept
  <2>3. CASE d # c
    BY <1>1, <1>3, <2>1, <2>3 DEF Kept
  <2> QED BY <2>2, <2>3
<1> QED BY <1>4, <1>5

(* A restoration touches no backup, and never leaves the place empty.      *)
LEMMA RestoreKeeps ==
  ASSUME BackupsInv,
         \/ \E b \in Backup : ValidateBackup(b)
         \/ CopyBackup \/ SetAside \/ Install \/ RemovePrevious \/ FailRestore \/ DieInRestore
  PROVE  BackupsInv'
<1>1. UNCHANGED OfMaking
  BY DEF ValidateBackup, CopyBackup, SetAside, Install, RemovePrevious, FailRestore, DieInRestore
<1>2. \A b \in Backup : Kept(b)'
  BY <1>1 DEF BackupsInv, Kept, OfMaking, Old, Newer, Published
<1>3. BackupTypes' /\ NeverWithout'
  <2> USE <1>1 DEF BackupsInv, BackupTypes, NeverWithout, Restoring, Place, Restores, OfMaking
  <2>1. ASSUME NEW b \in Backup, ValidateBackup(b) PROVE BackupTypes' /\ NeverWithout'
    BY <2>1 DEF ValidateBackup
  <2>2. CASE CopyBackup
    <3>1. CASE copied \in Published
      BY <2>2, <3>1 DEF CopyBackup
    <3>2. CASE copied \notin Published
      BY <2>2, <3>2 DEF CopyBackup
    <3> QED BY <3>1, <3>2
  <2>3. CASE SetAside
    BY <2>3 DEF SetAside, Aside
  <2>4. CASE Install
    BY <2>4 DEF Install
  <2>5. CASE RemovePrevious
    BY <2>5 DEF RemovePrevious
  <2>6. CASE FailRestore
    BY <2>6 DEF FailRestore
  <2>7. CASE DieInRestore
    BY <2>7 DEF DieInRestore
  <2> QED BY <2>1, <2>2, <2>3, <2>4, <2>5, <2>6, <2>7
<1> QED BY <1>2, <1>3 DEF BackupsInv

(* For any number of backups and any retention: a backup that was made to  *)
(* its end goes only for Retention newer files, and the database that a    *)
(* restoration replaces is never lost (database-backup.ts).                *)
THEOREM DataAlwaysSurvives == BackupsSpec => []DataSurvives
<1>1. BackupsInit => BackupsInv
  BY DEF BackupsInit, BackupsInv, BackupTypes, Making, Restoring, Place, Kept, NeverWithout
<1>2. BackupsInv /\ [BackupsNext]_backupVars => BackupsInv'
  <2> SUFFICES ASSUME BackupsInv, [BackupsNext]_backupVars PROVE BackupsInv'
    OBVIOUS
  <2>1. ASSUME UNCHANGED OfRestore PROVE NeverWithout'
    BY <2>1 DEF OfRestore, BackupsInv, NeverWithout
  <2>2. ASSUME NEW b \in Backup,
               \/ BeginBackup(b) \/ DumpBackup(b) \/ WriteChecksum(b) \/ PublishData(b) \/ PublishChecksum(b)
               \/ CompleteAuditRun(b) \/ ListBackups(b) \/ EndBackupRun(b) \/ FailBackup(b) \/ DieInBackup(b)
        PROVE  BackupsInv'
    <3>1. UNCHANGED OfRestore
      BY <2>2 DEF BeginBackup, DumpBackup, WriteChecksum, PublishData, PublishChecksum, CompleteAuditRun,
                  ListBackups, EndBackupRun, FailBackup, DieInBackup, OfRestore
    <3> QED BY <2>1, <2>2, <3>1, BackupStepKeeps DEF BackupsInv
  <2>3. ASSUME NEW b \in Backup, NEW c \in Backup, Unlinked(b, c) PROVE BackupsInv'
    <3>1. UNCHANGED OfRestore
      BY <2>3 DEF Unlinked, OfRestore
    <3> QED BY <2>1, <2>3, <3>1, UnlinkKeeps DEF BackupsInv
  <2>4. ASSUME \/ \E b \in Backup : ValidateBackup(b)
               \/ CopyBackup \/ SetAside \/ Install \/ RemovePrevious \/ FailRestore \/ DieInRestore
        PROVE  BackupsInv'
    BY <2>4, RestoreKeeps
  <2>5. CASE UNCHANGED backupVars
    BY <2>5 DEF backupVars, BackupsInv, BackupTypes, Kept, NeverWithout, Old, Newer, Published
  <2> QED BY <2>2, <2>3, <2>4, <2>5 DEF BackupsNext
<1>3. BackupsInv => DataSurvives
  <2> SUFFICES ASSUME BackupsInv PROVE DataSurvives
    OBVIOUS
  <2>1. ASSUME NEW b \in Backup, making[b] \in {"recorded", "listed", "done"}, b \notin Restorable
        PROVE  Old(b)
    BY <2>1 DEF BackupsInv, Kept, Restorable, Published
  <2> QED BY <2>1 DEF BackupsInv, NeverWithout, DataSurvives, Old, Newer
<1> QED BY <1>1, <1>2, <1>3, PTL DEF BackupsSpec

-----------------------------------------------------------------------------
(* Copies of a session's credentials.                                      *)

Choice ==
  [encrypt : BOOLEAN, storageKey : BOOLEAN, provider : {"local", "s3"}, apart : BOOLEAN, chunks : BOOLEAN]

Bundle == [of |-> read, coats |-> IF chosen.encrypt THEN <<"bundle">> ELSE << >>, whole |-> TRUE]

(* What was read is not read again once it is saved; the bundle lies in    *)
(* the output directory until an upload into the same directory touches    *)
(* it; and it lies in the storage when the upload has ended there.         *)
CopiesInv ==
  /\ chosen \in Choice
  /\ saving = "saved" \/ (saving \in {"offered", "not offered"} /\ (chosen.apart \/ chosen.provider = "s3"))
       => local = Bundle
  /\ saving = "offered" /\ chosen.apart => remote = Coated(Bundle)
  /\ fetching # "no" => saving \in {"offered", "not offered"}
  /\ saving \in {"no", "reading", "saved"} => remote = NoText
  /\ saving \in {"no", "reading", "saved", "offered", "not offered"}
  /\ saving = "offered" /\ chosen.apart =>
       /\ fetching # "no" => fetched.of = Bundle.of /\ fetched.coats = Bundle.coats
       /\ fetching = "streaming" => Decrypts /\ DOMAIN fetched = {"of", "coats", "whole"}
       /\ fetching = "done" /\ (Decrypts => ~chosen.chunks) => fetched.whole

(* What was appended last comes off, and leaves what was there before.     *)
LEMMA LastComesOff ==
  ASSUME NEW S, NEW s \in Seq(S), NEW x \in S
  PROVE  /\ Append(s, x) \in Seq(S) /\ Append(s, x) # << >> /\ Len(Append(s, x)) = Len(s) + 1
         /\ Append(s, x)[Len(Append(s, x))] = x
         /\ SubSeq(Append(s, x), 1, Len(Append(s, x)) - 1) = s
<1> DEFINE t == Append(s, x)
           u == SubSeq(t, 1, Len(t) - 1)
<1>1. t \in Seq(S) /\ Len(t) = Len(s) + 1 /\ t # << >> /\ t[Len(t)] = x /\ \A i \in 1 .. Len(s) : t[i] = s[i]
  BY AppendProperties
<1> HIDE DEF t
<1>2. Len(s) \in Nat /\ \A i \in 1 .. Len(s) : t[i] \in S
  BY <1>1
<1>3. /\ u \in Seq(S) /\ Len(u) = Len(s)
      /\ \A i \in 1 .. Len(s) : u[i] = t[i]
  BY <1>1, <1>2, SubSeqProperties
<1> HIDE DEF u
<1>4. u = s
  BY <1>1, <1>3, SeqEqual
<1> QED BY <1>1, <1>4 DEF t, u

(* The storage takes off the coat that it has put on.                      *)
LEMMA CoatComesOff ==
  ASSUME chosen \in Choice
  PROVE  /\ Decrypts => Peeled(Coated(Bundle)) = Bundle
         /\ ~Decrypts => Coated(Bundle) = Bundle
<1>1. CASE Decrypts
  <2> DEFINE s == <<"bundle">>
  <2>1. Bundle = [of |-> read, coats |-> s, whole |-> TRUE]
    BY <1>1 DEF Bundle, Decrypts
  <2>2. s \in Seq({"bundle", "storage"})
    BY DEF s
  <2> HIDE DEF s
  <2>3. Coated(Bundle) = [of |-> read, coats |-> Append(s, "storage"), whole |-> TRUE]
    BY <1>1, <2>1 DEF Decrypts, Coated
  <2>4. LET t == Append(s, "storage") IN t # << >> /\ t[Len(t)] = "storage" /\ SubSeq(t, 1, Len(t) - 1) = s
    <3>1. "storage" \in {"bundle", "storage"}
      OBVIOUS
    <3> QED BY <2>2, <3>1, LastComesOff
  <2>5. Peeled([of |-> read, coats |-> Append(s, "storage"), whole |-> TRUE]) = [of |-> read, coats |-> s, whole |-> TRUE]
    BY <2>4 DEF Peeled
  <2> QED BY <1>1, <2>1, <2>3, <2>5
<1>2. CASE ~Decrypts
  BY <1>2 DEF Decrypts, Coated, Bundle
<1> QED BY <1>1, <1>2

(* Each step of saving, uploading and restoring keeps the copies.          *)
LEMMA CopiesStay == CopiesInv /\ [SessionBackupNext]_sessionBackupVars => CopiesInv'
<1> SUFFICES ASSUME CopiesInv, [SessionBackupNext]_sessionBackupVars PROVE CopiesInv'
  OBVIOUS
<1>1. ASSUME UNCHANGED <<chosen, read, saving, local, remote, fetching, fetched>> PROVE CopiesInv'
  BY <1>1 DEF CopiesInv, Bundle, Coated, Decrypts
<1>2. CASE UNCHANGED sessionBackupVars
  BY <1>1, <1>2 DEF sessionBackupVars
<1>3. CASE \E f \in SessionFile : SessionWrites(f) \/ RestoreFile(f)
  BY <1>1, <1>3 DEF SessionWrites, RestoreFile, Fetching
<1>4. CASE RestoreSession(local) \/ RestoreSession(fetched)
  BY <1>1, <1>4 DEF RestoreSession, Saved, Fetching
<1>5. CASE \E f \in SessionFile : ReadSessionFile(f)
  BY <1>5 DEF ReadSessionFile, CopiesInv, Fetching
<1>6. CASE SaveBundle
  BY <1>6 DEF SaveBundle, CopiesInv, Bundle, Fetching
<1>7. CASE Upload
  <2>1. saving' = "offered" /\ fetching' = "no" /\ chosen' = chosen /\ read' = read
    BY <1>7 DEF Upload, CopiesInv, Fetching
  <2>2. chosen.apart => local' = Bundle /\ remote' = Coated(Bundle)
    BY <1>7 DEF Upload, CopiesInv
  <2>3. chosen.provider = "local"
    BY <1>7 DEF Upload
  <2> QED BY <2>1, <2>2, <2>3 DEF CopiesInv, Bundle, Coated
<1>8. CASE UploadFails
  <2>1. saving' = "not offered" /\ fetching' = "no" /\ chosen' = chosen /\ read' = read
    BY <1>8 DEF UploadFails, CopiesInv, Fetching
  <2>2. chosen.apart \/ chosen.provider = "s3" => local' = Bundle
    BY <1>8 DEF UploadFails, CopiesInv, Choice
  <2> QED BY <2>1, <2>2 DEF CopiesInv, Bundle
<1>9. CASE Download
  <2>1. UNCHANGED <<chosen, read, saving, local, remote>> /\ saving \in {"offered", "not offered"}
    BY <1>9 DEF Download, CopiesInv, Saved
  <2>2. Bundle' = Bundle /\ (Decrypts' <=> Decrypts) /\ Coated(Bundle)' = Coated(Bundle)
    BY <2>1 DEF Bundle, Decrypts, Coated
  <2>3. ASSUME saving = "offered", chosen.apart
        PROVE  /\ fetched'.of = Bundle.of /\ fetched'.coats = Bundle.coats
               /\ fetching' = "streaming" => Decrypts /\ DOMAIN fetched' = {"of", "coats", "whole"}
               /\ fetching' = "done" => fetched'.whole
    <3>1. CASE Decrypts
      <4>1. fetching' = "streaming" /\ fetched' = [Bundle EXCEPT !.whole = FALSE]
        BY <1>9, <2>3, <3>1, CoatComesOff DEF Download, CopiesInv
      <4> QED BY <3>1, <4>1 DEF Bundle
    <3>2. CASE ~Decrypts
      BY <1>9, <2>3, <3>2, CoatComesOff DEF Download, CopiesInv, Bundle
    <3> QED BY <3>1, <3>2
  <2> QED BY <2>1, <2>2, <2>3 DEF CopiesInv
<1>10. CASE DownloadEnds
  <2>1. UNCHANGED <<chosen, read, saving, local, remote>> /\ fetching = "streaming" /\ fetching' = "done"
    BY <1>10 DEF DownloadEnds, CopiesInv, Saved
  <2>2. Bundle' = Bundle /\ (Decrypts' <=> Decrypts) /\ Coated(Bundle)' = Coated(Bundle)
    BY <2>1 DEF Bundle, Decrypts, Coated
  <2>3. ASSUME saving = "offered", chosen.apart
        PROVE  Decrypts /\ fetched'.of = Bundle.of /\ fetched'.coats = Bundle.coats /\ (~chosen.chunks => fetched'.whole)
    <3>1. Decrypts /\ Peeled(remote) = Bundle
      BY <2>1, <2>3, CoatComesOff DEF CopiesInv
    <3>2. Peeled(remote).whole
      BY <3>1 DEF Bundle
    <3>3. /\ fetched' = [fetched EXCEPT !.whole = Peeled(remote).whole /\ ~chosen.chunks]
          /\ fetched.of = Bundle.of /\ fetched.coats = Bundle.coats /\ DOMAIN fetched = {"of", "coats", "whole"}
      BY <1>10, <2>1, <2>3 DEF DownloadEnds, CopiesInv
    <3> QED BY <3>1, <3>2, <3>3
  <2> QED BY <2>1, <2>2, <2>3 DEF CopiesInv
<1> QED BY <1>2, <1>3, <1>4, <1>5, <1>6, <1>7, <1>8, <1>9, <1>10 DEF SessionBackupNext

\* A copy that was made to its end can be restored, in the output directory and through the
\* storage's own coat (backupWhatsAppSession, LocalBackupStorage.upload and download).
THEOREM CopiesStayRestorable == SessionBackupSpec => []CopiesAreRestorable
<1>1. SessionBackupInit => CopiesInv
  BY DEF SessionBackupInit, CopiesInv, Choice, NoText
<1>2. CopiesInv => CopiesAreRestorable
  <2> SUFFICES ASSUME CopiesInv PROVE CopiesAreRestorable
    OBVIOUS
  <2>1. Verified(Bundle)
    BY DEF Verified, Readable, Bundle
  <2>2. Verified(fetched) <=> fetched.whole /\ fetched.coats = Bundle.coats /\ fetched.of = Bundle.of
    BY DEF Verified, Readable, Bundle
  <2> QED BY <2>1, <2>2 DEF CopiesInv, CopiesAreRestorable
<1> QED BY <1>1, <1>2, CopiesStay, PTL DEF SessionBackupSpec

-----------------------------------------------------------------------------
(* Settings.                                                               *)

File == Edition \cup Restore \cup {NoFile, Remnant}
AsideFile == File \cup {Gone}
Run == [status : {"none", "queued", "reading", "succeeded", "failed"}, read : File]
Stretch == {"copying", "swapping", "removing"}
Stages == Stretch \cup {"none", "shown", "activating", "done", "failed", "cut off"}

SettingsTypes ==
  /\ disk \in [Target -> File] /\ corpus \in File /\ progress \in [Restore -> Stages]
  /\ carried \in [Restore -> SUBSET Target] /\ left \subseteq Target
  /\ snapshot \in [Restore -> [Target -> File]] /\ former \in [Restore -> [Target -> File]]
  /\ displaced \in [Restore -> [Target -> AsideFile]]
  /\ busy \in Restore \cup {NoRestore} /\ ingest \in [Restore -> Run] /\ mixed \in BOOLEAN

(* One restore at a time; no ingestion of another beside it.               *)
OneAtATime ==
  /\ \A r, q \in UnderWay : r = q
  /\ \A r \in UnderWay, q \in Pending : q = r
  /\ \A r \in Restore : busy = r <=> progress[r] \in Stretch
  /\ left # {} => busy # NoRestore
  /\ \A r \in Restore : progress[r] \in {"none", "shown", "copying", "swapping"} => ingest[r].status = "none"
  /\ \A r \in Restore : progress[r] = "removing" => ingest[r].status = "succeeded"
  /\ \A r \in Restore : progress[r] \in {"none", "shown"} => displaced[r] = NoFiles /\ snapshot[r] = NoFiles

(* Where each target stands: untouched, renamed aside, swapped, or swapped *)
(* and without its former file.                                            *)
Untouched(r, t) == disk[t] = former[r][t] /\ displaced[r][t] = NoFile
RenamedAside(r, t) == disk[t] = NoFile /\ displaced[r][t] = former[r][t]
Swapped(r, t) == disk[t] = r /\ displaced[r][t] = former[r][t]
Removed(r, t) == disk[t] = r /\ displaced[r][t] = Gone

InCopy(r, t) == Untouched(r, t) /\ snapshot[r][t] = IF t \in left THEN NoFile ELSE former[r][t]

Placed(r, t) ==
  /\ snapshot[r][t] = former[r][t]
  /\ t \in left => t \in carried[r] /\ (Untouched(r, t) \/ RenamedAside(r, t))
  /\ t \in carried[r] \ left => Swapped(r, t)
  /\ t \notin carried[r] => Untouched(r, t)

Cleared(r, t) ==
  /\ snapshot[r][t] = former[r][t]
  /\ t \in left => t \in carried[r] /\ Swapped(r, t)
  /\ t \in carried[r] \ left => Swapped(r, t) \/ Removed(r, t)
  /\ t \notin carried[r] => Untouched(r, t)

TargetInv(r, t) ==
  /\ progress[r] = "copying" => InCopy(r, t)
  /\ progress[r] \in {"swapping", "activating"} => Placed(r, t)
  /\ progress[r] = "removing" => Cleared(r, t)

TargetsInv == \A r \in UnderWay : \A t \in Target : TargetInv(r, t)

(* What runs is what was on the disk before the restore, until the         *)
(* ingestion has succeeded; or it has been lost or left apart.             *)
Excused(t) == t \in lost \cup apart
RunsInv ==
  /\ UnderWay = {} => env = disk["env"] \/ Excused("env")
  /\ \A r \in UnderWay : env = former[r]["env"] \/ Excused("env")
  /\ \A r \in Restore : ingest[r].status = "reading" => ingest[r].read = disk["knowledge"]
  /\ (\A r \in Restore : progress[r] # "cut off") =>
       /\ UnderWay = {} => corpus = disk["knowledge"] \/ Excused("knowledge")
       /\ \A r \in UnderWay :
            \/ Excused("knowledge")
            \/ corpus = IF ingest[r].status = "succeeded" THEN disk["knowledge"] ELSE former[r]["knowledge"]

SettingsCore == OneAtATime /\ TargetsInv /\ RunsInv
SettingsInv == SettingsTypes /\ (~mixed => SettingsCore)

(* The next target of a loop is one of those left.                         *)
LEMMA FirstIsOne == ASSUME NEW ts \in SUBSET Target, ts # {} PROVE First(ts) \in ts
<1> DEFINE I == {i \in DOMAIN Targets : Targets[i] \in ts}
<1>1. DOMAIN Targets = 1 .. Len(Targets) /\ Len(Targets) \in Nat
  BY SettingsAssumption, LenProperties
<1>2. \A t \in ts : \E i \in DOMAIN Targets : Targets[i] = t
  BY DEF Target, ToSet
<1>3. I # {} /\ I \in SUBSET Nat
  BY <1>1, <1>2
<1>4. \E i \in I : \A k \in I : i <= k
  BY <1>3, Least
<1>5. Min(I) \in I
  <2> HIDE DEF I
  <2> QED BY <1>4 DEF Min
<1> QED BY <1>5 DEF First

LEMMA ForemostIsLeft == ASSUME SettingsTypes, left # {} PROVE First(left) \in left /\ ToCopy \in left
<1>1. left # {"knowledge"} => left \ {"knowledge"} # {} /\ left \ {"knowledge"} \in SUBSET Target
  BY DEF SettingsTypes
<1>2. left # {"knowledge"} => First(left \ {"knowledge"}) \in left \ {"knowledge"}
  BY <1>1, FirstIsOne
<1> QED BY <1>2, FirstIsOne DEF SettingsTypes, ToCopy

(* The folder of knowledge and the environment are among the targets.      *)
LEMMA Knowledge == "knowledge" \in Target /\ "env" \in Target
BY SettingsAssumption DEF Target

(* One target of one restore is changed.                                   *)
LEMMA OneTarget ==
  ASSUME NEW V, NEW f \in [Restore -> [Target -> V]], NEW r \in Restore, NEW t \in Target, NEW v \in V,
         NEW g, g = [f EXCEPT ![r][t] = v]
  PROVE  /\ g \in [Restore -> [Target -> V]] /\ g[r][t] = v
         /\ \A u \in Target \ {t} : g[r][u] = f[r][u]
         /\ \A q \in Restore \ {r} : g[q] = f[q]
<1> HIDE DEF Target
<1>1. g = [f EXCEPT ![r] = [f[r] EXCEPT ![t] = v]]
  OBVIOUS
<1>2. [f[r] EXCEPT ![t] = v] \in [Target -> V] /\ g[r] = [f[r] EXCEPT ![t] = v]
  BY <1>1
<1> QED BY <1>1, <1>2

(* The writes of the panel to its files.                                   *)
LEMMA WritesKeepTypes ==
  ASSUME SettingsTypes, NEW ts, NEW e \in Edition, WriteFiles(ts, e) PROVE SettingsTypes'
<1>1. disk' \in [Target -> File]
  BY DEF WriteFiles, SettingsTypes, File
<1> QED BY <1>1 DEF WriteFiles, SettingsTypes, settingsGhosts

(* Taking back leaves files that are files.                                *)
LEMMA RollBackKeepsTypes ==
  ASSUME SettingsTypes, NEW r \in Restore, NEW copies \in [Target -> File], NEW aside \in [Target -> AsideFile],
         RollBack(r, copies, aside), progress' \in [Restore -> Stages], mixed' \in BOOLEAN
  PROVE  SettingsTypes'
<1>1. NoFiles \in [Target -> File] /\ NoFiles \in [Target -> AsideFile] /\ NoFile \in File
  BY DEF NoFiles, File, AsideFile
<1>2. \A t \in Target : TakenBack(t, copies, aside) \in File
  BY <1>1 DEF TakenBack, AsideFile
<1>3. disk' \in [Target -> File]
  BY <1>2 DEF RollBack
<1>4. /\ displaced' \in [Restore -> [Target -> AsideFile]] /\ snapshot' \in [Restore -> [Target -> File]]
      /\ former' \in [Restore -> [Target -> File]] /\ carried' \in [Restore -> SUBSET Target]
  BY <1>1 DEF RollBack, SettingsTypes
<1> QED BY <1>3, <1>4 DEF RollBack, SettingsTypes

(* Every step of the settings leaves the state well typed.                 *)
LEMMA SettingsTypesStay == SettingsTypes /\ [SettingsNext]_settingsVars => SettingsTypes'
<1> SUFFICES ASSUME SettingsTypes, [SettingsNext]_settingsVars PROVE SettingsTypes'
  OBVIOUS
<1>0. /\ NoFiles \in [Target -> File] /\ NoFiles \in [Target -> AsideFile] /\ NoFile \in File /\ Remnant \in File /\ Gone \in AsideFile
      /\ \A s \in {"none", "queued", "reading", "succeeded", "failed"} : \A f \in File : [status |-> s, read |-> f] \in Run
  BY DEF NoFiles, File, AsideFile, Run
<1>1. CASE \E e \in Edition : SaveProfile(e) \/ SavePrompt(e) \/ SaveEnvironment(e)
  BY <1>1, WritesKeepTypes DEF SaveProfile, SavePrompt, SaveEnvironment
<1>2. ASSUME NEW r \in Restore, PreviewBackup(r) PROVE SettingsTypes'
  <2>1. PICK ts \in Payloads : carried' = [carried EXCEPT ![r] = ts \cup {"knowledge"}]
    BY <1>2 DEF PreviewBackup
  <2>2. ts \cup {"knowledge"} \in SUBSET Target
    BY Knowledge, SettingsAssumption DEF Target
  <2>3. carried' \in [Restore -> SUBSET Target]
    BY <2>1, <2>2 DEF SettingsTypes
  <2> QED BY <1>2, <2>3 DEF PreviewBackup, Becomes, SettingsTypes, Stages, settingsGhosts
<1>3. ASSUME NEW r \in Restore, PreviewExpires(r) \/ Stage(r) PROVE SettingsTypes'
  <2>1. progress' \in [Restore -> Stages] /\ left' \subseteq Target
    BY <1>3 DEF PreviewExpires, Stage, Becomes, SettingsTypes, Stages, Stretch
  <2> QED BY <1>3, <2>1 DEF PreviewExpires, Stage, SettingsTypes, settingsGhosts
<1>4. ASSUME NEW r \in Restore, BeginRestore(r) \/ BeginRemoval(r) PROVE SettingsTypes'
  <2>1. progress' \in [Restore -> Stages] /\ left' \subseteq Target /\ former' \in [Restore -> [Target -> File]]
    BY <1>4 DEF BeginRestore, BeginRemoval, Becomes, SettingsTypes, Stages, Stretch, settingsGhosts
  <2> QED BY <1>4, <2>1 DEF BeginRestore, BeginRemoval, SettingsTypes, settingsGhosts
<1>5. ASSUME NEW r \in Restore, CopyNext(r) PROVE SettingsTypes'
  <2>1. ToCopy \in Target /\ disk[ToCopy] \in File
    BY <1>5, ForemostIsLeft DEF CopyNext, SettingsTypes
  <2>2. snapshot' \in [Restore -> [Target -> File]]
    BY <1>5, <2>1, OneTarget DEF CopyNext, SettingsTypes
  <2> QED BY <1>5, <2>2 DEF CopyNext, SettingsTypes, settingsGhosts
<1>6. ASSUME NEW r \in Restore, Displace(r) \/ RemoveDisplaced(r) PROVE SettingsTypes'
  <2>1. First(left) \in Target /\ disk[First(left)] \in AsideFile
    BY <1>6, ForemostIsLeft DEF Displace, RemoveDisplaced, SettingsTypes, AsideFile
  <2>2. displaced' \in [Restore -> [Target -> AsideFile]]
    <3>1. CASE Displace(r)
      BY <2>1, <3>1, OneTarget DEF Displace, SettingsTypes
    <3>2. CASE RemoveDisplaced(r)
      BY <1>0, <2>1, <3>2, OneTarget DEF RemoveDisplaced, SettingsTypes
    <3> QED BY <1>6, <3>1, <3>2
  <2>3. disk' \in [Target -> File]
    BY <1>0, <1>6 DEF Displace, RemoveDisplaced, SettingsTypes
  <2> QED BY <1>6, <2>2, <2>3 DEF Displace, RemoveDisplaced, SettingsTypes, settingsGhosts
<1>7. ASSUME NEW r \in Restore, PutInPlace(r) PROVE SettingsTypes'
  <2>1. r \in File /\ disk' \in [Target -> File]
    BY <1>7 DEF PutInPlace, SettingsTypes, File
  <2> QED BY <1>7, <2>1 DEF PutInPlace, SettingsTypes, settingsGhosts
<1>8. ASSUME NEW r \in Restore, Activate(r) PROVE SettingsTypes'
  <2>1. ingest' \in [Restore -> Run]
    BY <1>0, <1>8 DEF Activate, SettingsTypes
  <2> QED BY <1>8, <2>1 DEF Activate, Becomes, SettingsTypes, Stages, settingsGhosts
<1>9. ASSUME NEW r \in Restore, ReadFolder(r) PROVE SettingsTypes'
  <2>1. disk["knowledge"] \in File
    BY Knowledge DEF SettingsTypes
  <2>2. ingest' \in [Restore -> Run]
    BY <1>0, <1>9, <2>1 DEF ReadFolder, SettingsTypes
  <2> QED BY <1>9, <2>2 DEF ReadFolder, SettingsTypes, settingsGhosts
<1>10. ASSUME NEW r \in Restore, NEW status \in {"succeeded", "failed"}, EndIngestion(r, status) PROVE SettingsTypes'
  <2>1. ingest' \in [Restore -> Run] /\ ingest[r].read \in File
    BY <1>0, <1>10 DEF EndIngestion, SettingsTypes, Run
  <2> QED BY <1>10, <2>1 DEF EndIngestion, SettingsTypes, settingsGhosts
<1>11. ASSUME NEW r \in Restore, Succeed(r) PROVE SettingsTypes'
  <2>1. /\ displaced' \in [Restore -> [Target -> AsideFile]] /\ snapshot' \in [Restore -> [Target -> File]]
        /\ former' \in [Restore -> [Target -> File]] /\ carried' \in [Restore -> SUBSET Target]
    BY <1>0, <1>11 DEF Succeed, SettingsTypes
  <2> QED BY <1>11, <2>1 DEF Succeed, Becomes, SettingsTypes, Stages
<1>12. ASSUME NEW r \in Restore, CopyFails(r) \/ SwapFails(r) \/ RemovalFails(r) \/ RestoreFails(r) PROVE SettingsTypes'
  <2>1. progress' \in [Restore -> Stages] /\ mixed' \in BOOLEAN
    BY <1>12 DEF CopyFails, SwapFails, RemovalFails, RestoreFails, Becomes, SettingsTypes, Stages
  <2>2. CASE CopyFails(r)
    <3>1. PICK part \in {NoFile, Remnant} : RollBack(r, [snapshot[r] EXCEPT ![ToCopy] = part], displaced[r])
      BY <2>2 DEF CopyFails
    <3>2. [snapshot[r] EXCEPT ![ToCopy] = part] \in [Target -> File] /\ displaced[r] \in [Target -> AsideFile]
      BY <1>0 DEF SettingsTypes
    <3> QED BY <2>1, <3>1, <3>2, RollBackKeepsTypes
  <2>3. CASE SwapFails(r) \/ RestoreFails(r)
    BY <2>1, <2>3, RollBackKeepsTypes DEF SwapFails, RestoreFails, SettingsTypes
  <2>4. CASE RemovalFails(r)
    <3>1. PICK rest \in {displaced[r][First(left)]} \cup IF First(left) = "knowledge" THEN {Remnant} ELSE {} :
            RollBack(r, snapshot[r], [displaced[r] EXCEPT ![First(left)] = rest])
      BY <2>4 DEF RemovalFails
    <3>2. rest \in AsideFile
      BY <1>0, <2>4, ForemostIsLeft DEF RemovalFails, SettingsTypes, AsideFile
    <3>3. snapshot[r] \in [Target -> File] /\ [displaced[r] EXCEPT ![First(left)] = rest] \in [Target -> AsideFile]
      BY <3>2 DEF SettingsTypes
    <3> QED BY <2>1, <3>1, <3>3, RollBackKeepsTypes
  <2> QED BY <1>12, <2>2, <2>3, <2>4
<1>13. CASE Crash
  <2>1. ingest' \in [Restore -> Run]
    BY <1>0, <1>13 DEF Crash, SettingsTypes
  <2>2. progress' \in [Restore -> Stages]
    BY <1>13 DEF Crash, SettingsTypes, Stages
  <2> QED BY <1>13, <2>1, <2>2 DEF Crash, SettingsTypes, settingsGhosts
<1>14. CASE UNCHANGED settingsVars
  BY <1>14 DEF settingsVars, SettingsTypes
<1> QED BY <1>1, <1>2, <1>3, <1>4, <1>5, <1>6, <1>7, <1>8, <1>9, <1>10, <1>11, <1>12, <1>13, <1>14 DEF SettingsNext

(* The steps while the panel has mixed nothing.                            *)
LEMMA WritesKeepCore ==
  ASSUME SettingsTypes, SettingsCore, ~mixed', NEW e \in Edition, SaveProfile(e) \/ SavePrompt(e) \/ SaveEnvironment(e)
  PROVE  SettingsCore' /\ UNCHANGED progress
<1>1. /\ UnderWay = {} /\ disk'["knowledge"] = disk["knowledge"]
      /\ UNCHANGED <<corpus, progress, carried, snapshot, displaced, left, busy, ingest, former, lost, apart>>
  BY Knowledge DEF SaveProfile, SavePrompt, SaveEnvironment, WriteFiles, settingsGhosts
<1>2. env' = disk'["env"] \/ Excused("env")
  <2>1. env = disk["env"] \/ Excused("env")
    BY <1>1 DEF SettingsCore, RunsInv
  <2> QED BY <2>1, Knowledge DEF SaveProfile, SavePrompt, SaveEnvironment, WriteFiles
<1>3. UnderWay' = {} /\ Pending' = Pending
  BY <1>1 DEF UnderWay, Pending
<1>4. OneAtATime' /\ TargetsInv'
  BY <1>1, <1>3 DEF SettingsCore, OneAtATime, TargetsInv
<1>5. RunsInv'
  BY <1>1, <1>2, <1>3 DEF SettingsCore, RunsInv, Excused
<1> QED BY <1>1, <1>4, <1>5 DEF SettingsCore

(* A preview and its expiry change no file.                                *)
LEMMA PreviewsKeepCore ==
  ASSUME SettingsTypes, SettingsCore, NEW r \in Restore, PreviewBackup(r) \/ PreviewExpires(r)
  PROVE  SettingsCore'
<1>1. /\ UNCHANGED <<disk, env, corpus, snapshot, displaced, left, busy, ingest, mixed, former, lost, apart>>
      /\ progress[r] \in {"none", "shown"} /\ progress'[r] \in {"shown", "failed"}
      /\ \A q \in Restore \ {r} : progress'[q] = progress[q] /\ carried'[q] = carried[q]
      /\ r \notin UnderWay
  BY DEF PreviewBackup, PreviewExpires, Becomes, SettingsTypes, UnderWay, settingsGhosts
<1>2. UnderWay' = UnderWay /\ Pending' = Pending
  BY <1>1 DEF UnderWay, Pending
<1>3. OneAtATime'
  BY <1>1, <1>2 DEF SettingsCore, OneAtATime, Stretch
<1>4. TargetsInv'
  <2>1. ASSUME NEW q \in UnderWay, NEW t \in Target PROVE TargetInv(q, t)'
    <3>1. carried'[q] = carried[q] /\ progress'[q] = progress[q] /\ TargetInv(q, t)
      BY <1>1 DEF UnderWay, SettingsCore, TargetsInv
    <3> QED BY <1>1, <3>1 DEF TargetInv, InCopy, Placed, Cleared, Swapped, Removed, Untouched, RenamedAside
  <2> QED BY <1>2, <2>1 DEF TargetsInv
<1>5. RunsInv'
  BY <1>1, <1>2 DEF SettingsCore, RunsInv, Excused
<1> QED BY <1>3, <1>4, <1>5 DEF SettingsCore

(* A restore begins from what is on the disk, nothing of it copied.        *)
LEMMA BeginKeepsCore ==
  ASSUME SettingsTypes, SettingsCore, ~mixed', NEW r \in Restore, BeginRestore(r)
  PROVE  SettingsCore'
<1>1. /\ UnderWay = {} /\ Pending = {} /\ busy = NoRestore /\ busy' = r
      /\ progress[r] = "shown" /\ progress' = [progress EXCEPT ![r] = "copying"]
      /\ former' = [former EXCEPT ![r] = disk] /\ left' = Target
      /\ UNCHANGED <<disk, env, corpus, carried, snapshot, displaced, ingest, lost, apart>>
  BY DEF BeginRestore, Becomes
<1>2. UnderWay' = {r} /\ Pending' = {} /\ progress'[r] = "copying" /\ former'[r] = disk
      /\ \A q \in Restore \ {r} : progress'[q] = progress[q]
  BY <1>1 DEF UnderWay, Pending, SettingsTypes
<1>3. displaced[r] = NoFiles /\ snapshot[r] = NoFiles /\ ingest[r].status = "none"
  BY <1>1 DEF SettingsCore, OneAtATime
<1>4. OneAtATime'
  <2>1. \A q \in Restore : busy' = q <=> progress'[q] \in Stretch
    BY <1>1, <1>2, SettingsAssumption DEF SettingsCore, OneAtATime, Stretch
  <2>2. \A q \in Restore :
          /\ progress'[q] \in {"none", "shown", "copying", "swapping"} => ingest'[q].status = "none"
          /\ progress'[q] = "removing" => ingest'[q].status = "succeeded"
          /\ progress'[q] \in {"none", "shown"} => displaced'[q] = NoFiles /\ snapshot'[q] = NoFiles
    BY <1>1, <1>2, <1>3 DEF SettingsCore, OneAtATime
  <2> QED BY <1>1, <1>2, <2>1, <2>2, SettingsAssumption DEF OneAtATime
<1>5. TargetsInv'
  <2>1. ASSUME NEW t \in Target PROVE TargetInv(r, t)'
    BY <1>1, <1>2, <1>3 DEF TargetInv, InCopy, Untouched, NoFiles
  <2> QED BY <1>2, <2>1 DEF TargetsInv
<1>6. RunsInv'
  <2>1. /\ env = disk["env"] \/ Excused("env")
        /\ (\A q \in Restore : progress[q] # "cut off") => corpus = disk["knowledge"] \/ Excused("knowledge")
    BY <1>1 DEF SettingsCore, RunsInv
  <2>2. (\A q \in Restore : progress'[q] # "cut off") => \A q \in Restore : progress[q] # "cut off"
    BY <1>1, <1>2
  <2> QED BY <1>1, <1>2, <1>3, <2>1, <2>2 DEF RunsInv, SettingsCore, Excused
<1> QED BY <1>4, <1>5, <1>6 DEF SettingsCore

(* While one is in a synchronous stretch nobody else is at anything.       *)
LEMMA StretchAlone ==
  ASSUME SettingsTypes, SettingsCore, NEW r \in Restore, busy = r
  PROVE  /\ progress[r] \in Stretch /\ UnderWay = {r} /\ Pending \subseteq {r}
         /\ progress[r] # "removing" => ingest[r].status = "none"
         /\ progress[r] = "removing" => ingest[r].status = "succeeded"
         /\ Pending = {}
<1>1. /\ progress[r] \in Stretch /\ r \in UnderWay
      /\ progress[r] # "removing" => ingest[r].status = "none"
      /\ progress[r] = "removing" => ingest[r].status = "succeeded"
  BY DEF SettingsCore, OneAtATime, UnderWay, Stretch
<1>2. UnderWay = {r} /\ Pending \subseteq {r}
  BY <1>1 DEF SettingsCore, OneAtATime
<1> QED BY <1>1, <1>2 DEF Pending

(* A step within a stretch: it moves files and goes to a later stage of    *)
(* the same restore at most.                                               *)
LEMMA StretchKeepsCore ==
  ASSUME SettingsTypes, SettingsCore, NEW r \in Restore, busy = r, busy' = r,
         UNCHANGED <<env, corpus, carried, ingest, former, lost, apart>>,
         progress'[r] = progress[r] \/ (progress[r] = "copying" /\ progress'[r] = "swapping"),
         \A q \in Restore \ {r} : progress'[q] = progress[q] /\ displaced'[q] = displaced[q] /\ snapshot'[q] = snapshot[q],
         progress[r] = "removing" => disk' = disk,
         \A t \in Target : TargetInv(r, t)'
  PROVE  SettingsCore'
<1>1. /\ progress[r] \in Stretch /\ UnderWay = {r} /\ Pending = {}
      /\ progress[r] # "removing" => ingest[r].status = "none"
      /\ progress[r] = "removing" => ingest[r].status = "succeeded"
  BY StretchAlone
<1>2. UnderWay' = {r} /\ Pending' = {} /\ progress'[r] \in Stretch
  BY <1>1 DEF UnderWay, Pending, Stretch
<1>3. OneAtATime'
  <2>1. \A q \in Restore : busy' = q <=> progress'[q] \in Stretch
    BY <1>1, <1>2 DEF SettingsCore, OneAtATime
  <2>2. \A q \in Restore :
          /\ progress'[q] \in {"none", "shown", "copying", "swapping"} => ingest'[q].status = "none"
          /\ progress'[q] = "removing" => ingest'[q].status = "succeeded"
          /\ progress'[q] \in {"none", "shown"} => displaced'[q] = NoFiles /\ snapshot'[q] = NoFiles
    BY <1>1, <1>2 DEF SettingsCore, OneAtATime, Stretch
  <2> QED BY <1>2, <2>1, <2>2, SettingsAssumption DEF OneAtATime
<1>4. TargetsInv'
  BY <1>2 DEF TargetsInv
<1>5. RunsInv'
  <2>1. \A q \in Restore : ingest[q].status # "reading"
    BY <1>1 DEF Pending
  <2>2. (\A q \in Restore : progress'[q] # "cut off") => \A q \in Restore : progress[q] # "cut off"
    BY <1>1 DEF Stretch
  <2>3. /\ env = former[r]["env"] \/ Excused("env")
        /\ (\A q \in Restore : progress[q] # "cut off") =>
             \/ Excused("knowledge")
             \/ corpus = IF ingest[r].status = "succeeded" THEN disk["knowledge"] ELSE former[r]["knowledge"]
    BY <1>1 DEF SettingsCore, RunsInv
  <2> QED BY <1>1, <1>2, <2>1, <2>2, <2>3 DEF RunsInv, Excused
<1> QED BY <1>3, <1>4, <1>5 DEF SettingsCore

(* Another target is copied; when all are, the swapping begins.            *)
LEMMA CopiesKeepCore ==
  ASSUME SettingsTypes, SettingsCore, NEW r \in Restore, CopyNext(r) \/ Stage(r) PROVE SettingsCore'
<1>0. progress[r] = "copying" /\ UnderWay = {r} /\ busy = r
  BY StretchAlone DEF CopyNext, Stage, Becomes
<1>1. \A t \in Target : InCopy(r, t)
  BY <1>0 DEF SettingsCore, TargetsInv, TargetInv
<1>2. CASE CopyNext(r)
  <2>1. ToCopy \in left /\ ToCopy \in Target /\ disk[ToCopy] \in File
    BY <1>2, ForemostIsLeft DEF CopyNext, SettingsTypes
  <2>2. /\ snapshot'[r][ToCopy] = disk[ToCopy] /\ \A t \in Target \ {ToCopy} : snapshot'[r][t] = snapshot[r][t]
        /\ \A q \in Restore \ {r} : snapshot'[q] = snapshot[q]
    BY <1>2, <2>1, OneTarget DEF CopyNext, SettingsTypes
  <2>3. /\ left' = left \ {ToCopy} /\ busy' = r
        /\ UNCHANGED <<disk, env, corpus, progress, carried, displaced, ingest, former, lost, apart>>
    BY <1>2 DEF CopyNext, settingsGhosts
  <2>4. ASSUME NEW t \in Target PROVE TargetInv(r, t)'
    <3>1. Untouched(r, t) /\ snapshot[r][t] = IF t \in left THEN NoFile ELSE former[r][t]
      BY <1>1 DEF InCopy
    <3>2. snapshot'[r][t] = IF t \in left' THEN NoFile ELSE former'[r][t]
      <4>1. CASE t = ToCopy
        BY <2>2, <2>3, <3>1, <4>1 DEF Untouched
      <4>2. CASE t # ToCopy
        BY <2>2, <2>3, <3>1, <4>2
      <4> QED BY <4>1, <4>2
    <3> QED BY <1>0, <2>3, <3>1, <3>2 DEF TargetInv, InCopy, Untouched
  <2> QED BY <1>0, <2>2, <2>3, <2>4, StretchKeepsCore
<1>3. CASE Stage(r)
  <2>1. /\ left = {} /\ progress'[r] = "swapping" /\ busy' = r /\ left' = carried[r]
        /\ \A q \in Restore \ {r} : progress'[q] = progress[q]
        /\ UNCHANGED <<disk, env, corpus, carried, snapshot, displaced, ingest, former, lost, apart>>
    BY <1>0, <1>3 DEF Stage, Becomes, SettingsTypes, settingsGhosts
  <2>2. ASSUME NEW t \in Target PROVE TargetInv(r, t)'
    BY <1>1, <2>1 DEF TargetInv, InCopy, Placed, Untouched
  <2> QED BY <1>0, <2>1, <2>2, StretchKeepsCore
<1> QED BY <1>2, <1>3

(* A target is renamed aside, then swapped.                                *)
LEMMA SwapKeepsCore ==
  ASSUME SettingsTypes, SettingsCore, NEW r \in Restore, Displace(r) \/ PutInPlace(r) PROVE SettingsCore'
<1> DEFINE f == First(left)
<1>0. /\ progress[r] = "swapping" /\ UnderWay = {r} /\ busy = r /\ busy' = r /\ f \in left /\ f \in Target
      /\ UNCHANGED <<env, corpus, progress, carried, snapshot, ingest, former, lost, apart>>
  BY StretchAlone, ForemostIsLeft DEF Displace, PutInPlace, SettingsTypes, settingsGhosts
<1>1. \A t \in Target : Placed(r, t)
  BY <1>0 DEF SettingsCore, TargetsInv, TargetInv
<1>2. CASE Displace(r)
  <2>1. disk[f] \in AsideFile /\ disk[f] # NoFile /\ left' = left
    BY <1>0, <1>2 DEF Displace, SettingsTypes, AsideFile
  <2>2. /\ displaced'[r][f] = disk[f] /\ \A t \in Target \ {f} : displaced'[r][t] = displaced[r][t]
        /\ \A q \in Restore \ {r} : displaced'[q] = displaced[q]
    BY <1>0, <1>2, <2>1, OneTarget DEF Displace, SettingsTypes
  <2>3. disk'[f] = NoFile /\ \A t \in Target \ {f} : disk'[t] = disk[t]
    BY <1>0, <1>2 DEF Displace, SettingsTypes
  <2>4. ASSUME NEW t \in Target PROVE Placed(r, t)'
    <3>1. CASE t = f
      <4>1. snapshot[r][t] = former[r][t] /\ t \in carried[r] /\ (Untouched(r, t) \/ RenamedAside(r, t))
        BY <1>0, <1>1, <3>1 DEF Placed
      <4>2. disk[t] = former[r][t]
        BY <2>1, <3>1, <4>1 DEF Untouched, RenamedAside
      <4>3. RenamedAside(r, t)'
        BY <1>0, <2>2, <2>3, <3>1, <4>2 DEF RenamedAside
      <4> QED BY <1>0, <2>1, <3>1, <4>1, <4>3 DEF Placed
    <3>2. CASE t # f
      BY <1>0, <1>1, <2>1, <2>2, <2>3, <3>2 DEF Placed, Swapped, Untouched, RenamedAside
    <3> QED BY <3>1, <3>2
  <2>5. \A t \in Target : TargetInv(r, t)'
    BY <1>0, <2>4 DEF TargetInv
  <2> QED BY <1>0, <2>2, <2>5, StretchKeepsCore
<1>3. CASE PutInPlace(r)
  <2>1. disk[f] = NoFile /\ left' = left \ {f} /\ displaced' = displaced
    BY <1>3 DEF PutInPlace
  <2>2. disk'[f] = r /\ \A t \in Target \ {f} : disk'[t] = disk[t]
    BY <1>0, <1>3 DEF PutInPlace, SettingsTypes
  <2>3. ASSUME NEW t \in Target PROVE Placed(r, t)'
    <3>1. CASE t = f
      <4>1. snapshot[r][t] = former[r][t] /\ t \in carried[r] /\ (Untouched(r, t) \/ RenamedAside(r, t))
        BY <1>0, <1>1, <3>1 DEF Placed
      <4>2. Swapped(r, t)'
        BY <1>0, <2>1, <2>2, <3>1, <4>1 DEF Untouched, RenamedAside, Swapped
      <4> QED BY <1>0, <2>1, <3>1, <4>1, <4>2 DEF Placed
    <3>2. CASE t # f
      BY <1>0, <1>1, <2>1, <2>2, <3>2 DEF Placed, Swapped, Untouched, RenamedAside
    <3> QED BY <3>1, <3>2
  <2>4. \A t \in Target : TargetInv(r, t)'
    BY <1>0, <2>3 DEF TargetInv
  <2> QED BY <1>0, <2>1, <2>4, StretchKeepsCore
<1> QED BY <1>2, <1>3

(* A file that was renamed aside is removed.                               *)
LEMMA RemovalKeepsCore ==
  ASSUME SettingsTypes, SettingsCore, NEW r \in Restore, RemoveDisplaced(r) PROVE SettingsCore'
<1> DEFINE f == First(left)
<1>0. /\ progress[r] = "removing" /\ UnderWay = {r} /\ busy = r /\ busy' = r /\ f \in left /\ f \in Target /\ Gone \in AsideFile
      /\ left' = left \ {f}
      /\ UNCHANGED <<disk, env, corpus, progress, carried, snapshot, ingest, former, lost, apart>>
  BY StretchAlone, ForemostIsLeft DEF RemoveDisplaced, SettingsTypes, settingsGhosts, AsideFile
<1>1. \A t \in Target : Cleared(r, t)
  BY <1>0 DEF SettingsCore, TargetsInv, TargetInv
<1>2. /\ displaced'[r][f] = Gone /\ \A t \in Target \ {f} : displaced'[r][t] = displaced[r][t]
      /\ \A q \in Restore \ {r} : displaced'[q] = displaced[q]
  BY <1>0, OneTarget DEF RemoveDisplaced, SettingsTypes
<1>3. ASSUME NEW t \in Target PROVE Cleared(r, t)'
  <2>1. CASE t = f
    <3>1. snapshot[r][t] = former[r][t] /\ t \in carried[r] /\ disk[t] = r
      BY <1>0, <1>1, <2>1 DEF Cleared, Swapped
    <3>2. Removed(r, t)'
      BY <1>0, <1>2, <2>1, <3>1 DEF Removed
    <3> QED BY <1>0, <2>1, <3>1, <3>2 DEF Cleared
  <2>2. CASE t # f
    BY <1>0, <1>1, <1>2, <2>2 DEF Cleared, Swapped, Removed, Untouched
  <2> QED BY <2>1, <2>2
<1>4. \A t \in Target : TargetInv(r, t)'
  BY <1>0, <1>3 DEF TargetInv
<1> QED BY <1>0, <1>2, <1>4, StretchKeepsCore

(* With every target swapped, the ingestion of the restored folder is      *)
(* asked for; when it has succeeded, the removal begins.                   *)
LEMMA ActivateKeepsCore ==
  ASSUME SettingsTypes, SettingsCore, NEW r \in Restore, Activate(r) PROVE SettingsCore'
<1>1. /\ busy = r /\ left = {} /\ busy' = NoRestore /\ progress[r] = "swapping" /\ progress'[r] = "activating"
      /\ ingest' = [ingest EXCEPT ![r] = [status |-> "queued", read |-> NoFile]]
      /\ UNCHANGED <<disk, env, corpus, carried, snapshot, displaced, left, former, lost, apart>>
      /\ \A q \in Restore \ {r} : progress'[q] = progress[q]
  BY DEF Activate, Becomes, SettingsTypes, settingsGhosts
<1>2. UnderWay = {r} /\ Pending = {} /\ ingest[r].status = "none"
  BY <1>1, StretchAlone
<1>3. ingest'[r].status = "queued" /\ \A q \in Restore \ {r} : ingest'[q] = ingest[q]
  BY <1>1 DEF SettingsTypes
<1>4. UnderWay' = {r} /\ Pending' = {r}
  BY <1>1, <1>2, <1>3 DEF UnderWay, Pending
<1>5. OneAtATime'
  <2>1. \A q \in Restore : busy' = q <=> progress'[q] \in Stretch
    BY <1>1, SettingsAssumption DEF SettingsCore, OneAtATime, Stretch
  <2>2. \A q \in Restore :
          /\ progress'[q] \in {"none", "shown", "copying", "swapping"} => ingest'[q].status = "none"
          /\ progress'[q] = "removing" => ingest'[q].status = "succeeded"
          /\ progress'[q] \in {"none", "shown"} => displaced'[q] = NoFiles /\ snapshot'[q] = NoFiles
    BY <1>1, <1>3 DEF SettingsCore, OneAtATime
  <2> QED BY <1>1, <1>4, <2>1, <2>2 DEF OneAtATime
<1>6. TargetsInv'
  BY <1>1, <1>2, <1>4 DEF SettingsCore, TargetsInv, TargetInv, Placed, Swapped, Untouched, RenamedAside
<1>7. RunsInv'
  <2>1. (\A q \in Restore : progress'[q] # "cut off") => \A q \in Restore : progress[q] # "cut off"
    BY <1>1
  <2>2. \A q \in Restore : ingest'[q].status # "reading"
    BY <1>2, <1>3 DEF Pending
  <2> QED BY <1>1, <1>2, <1>3, <1>4, <2>1, <2>2 DEF SettingsCore, RunsInv, Excused
<1> QED BY <1>5, <1>6, <1>7 DEF SettingsCore

LEMMA BeginRemovalKeepsCore ==
  ASSUME SettingsTypes, SettingsCore, NEW r \in Restore, BeginRemoval(r) PROVE SettingsCore'
<1>1. /\ busy = NoRestore /\ busy' = r /\ progress[r] = "activating" /\ progress'[r] = "removing"
      /\ ingest[r].status = "succeeded" /\ left' = {t \in Target : displaced[r][t] # NoFile}
      /\ UNCHANGED <<disk, env, corpus, carried, snapshot, displaced, ingest, former, lost, apart>>
      /\ \A q \in Restore \ {r} : progress'[q] = progress[q]
  BY DEF BeginRemoval, Becomes, SettingsTypes, settingsGhosts
<1>2. UnderWay = {r} /\ left = {} /\ Pending = {} /\ r \in UnderWay
  BY <1>1 DEF SettingsCore, OneAtATime, UnderWay, Pending
<1>3. UnderWay' = {r} /\ Pending' = {}
  BY <1>1, <1>2 DEF UnderWay, Pending
<1>4. OneAtATime'
  <2>1. \A q \in Restore : busy' = q <=> progress'[q] \in Stretch
    BY <1>1, SettingsAssumption DEF SettingsCore, OneAtATime, Stretch
  <2>2. \A q \in Restore :
          /\ progress'[q] \in {"none", "shown", "copying", "swapping"} => ingest'[q].status = "none"
          /\ progress'[q] = "removing" => ingest'[q].status = "succeeded"
          /\ progress'[q] \in {"none", "shown"} => displaced'[q] = NoFiles /\ snapshot'[q] = NoFiles
    BY <1>1 DEF SettingsCore, OneAtATime
  <2> QED BY <1>1, <1>3, <2>1, <2>2, SettingsAssumption DEF OneAtATime
<1>5. TargetsInv'
  <2>1. ASSUME NEW t \in Target PROVE Cleared(r, t)'
    <3>1. Placed(r, t) /\ t \notin left
      BY <1>1, <1>2 DEF SettingsCore, TargetsInv, TargetInv
    <3> QED BY <1>1, <3>1 DEF Placed, Cleared, Swapped, Untouched
  <2> QED BY <1>1, <1>3, <2>1 DEF TargetsInv, TargetInv
<1>6. RunsInv'
  <2>1. (\A q \in Restore : progress'[q] # "cut off") => \A q \in Restore : progress[q] # "cut off"
    BY <1>1
  <2> QED BY <1>1, <1>2, <1>3, <2>1 DEF SettingsCore, RunsInv, Excused
<1> QED BY <1>4, <1>5, <1>6 DEF SettingsCore

(* The ingestion reads the restored folder and ends.                       *)
LEMMA IngestionKeepsCore ==
  ASSUME SettingsTypes, SettingsCore, NEW r \in Restore,
         ReadFolder(r) \/ \E status \in {"succeeded", "failed"} : EndIngestion(r, status)
  PROVE  SettingsCore'
<1>1. /\ UNCHANGED <<disk, env, progress, carried, snapshot, displaced, left, busy, mixed, former, lost, apart>>
      /\ \A q \in Restore \ {r} : ingest'[q] = ingest[q]
      /\ r \in Pending /\ UnderWay' = UnderWay /\ \A q \in Restore : busy # q
  BY SettingsAssumption DEF ReadFolder, EndIngestion, Pending, UnderWay, SettingsTypes, settingsGhosts
<1>2. ingest[r].status \in {"queued", "reading"} /\ \A q \in UnderWay : q = r /\ ingest[r].status # "succeeded"
  BY <1>1 DEF SettingsCore, OneAtATime, Pending
<1>3. progress[r] \notin {"none", "shown", "copying", "swapping", "removing"}
  BY <1>2 DEF SettingsCore, OneAtATime
<1>4. Pending' \subseteq Pending
  BY <1>1 DEF Pending
<1>5. OneAtATime'
  BY <1>1, <1>3, <1>4 DEF SettingsCore, OneAtATime
<1>6. TargetsInv'
  BY <1>1 DEF SettingsCore, TargetsInv, TargetInv, InCopy, Placed, Cleared, Swapped, Removed, Untouched, RenamedAside
<1>9. /\ UnderWay = {} => env = disk["env"] \/ Excused("env")
      /\ \A q \in UnderWay : env = former[q]["env"] \/ Excused("env")
      /\ \A q \in Restore : ingest[q].status = "reading" => ingest[q].read = disk["knowledge"]
  BY DEF SettingsCore, RunsInv
<1>10. ASSUME \A q \in Restore : progress[q] # "cut off"
       PROVE  /\ UnderWay = {} => corpus = disk["knowledge"] \/ Excused("knowledge")
              /\ \A q \in UnderWay : (corpus = former[r]["knowledge"] \/ Excused("knowledge")) /\ q = r
  BY <1>2, <1>10 DEF SettingsCore, RunsInv
<1>7. CASE ReadFolder(r)
  <2>1. ingest'[r] = [status |-> "reading", read |-> disk["knowledge"]] /\ corpus' = corpus
    BY <1>7 DEF ReadFolder, SettingsTypes
  <2>2. ingest'[r].status = "reading" /\ ingest'[r].read = disk["knowledge"]
    BY <2>1
  <2>3. \A q \in Restore : ingest'[q].status = "reading" => ingest'[q].read = disk["knowledge"]
    BY <1>1, <1>9, <2>2
  <2>4. RunsInv'
    BY <1>1, <1>9, <1>10, <2>1, <2>2, <2>3 DEF RunsInv, Excused
  <2> QED BY <1>5, <1>6, <2>4 DEF SettingsCore
<1>8. ASSUME NEW status \in {"succeeded", "failed"}, EndIngestion(r, status) PROVE SettingsCore'
  <2>1. /\ ingest'[r] = [status |-> status, read |-> NoFile] /\ ingest[r].status = "reading"
        /\ corpus' = IF status = "succeeded" THEN ingest[r].read ELSE corpus
    BY <1>8 DEF EndIngestion, SettingsTypes
  <2>2. ingest[r].read = disk["knowledge"] /\ ingest'[r].status = status
    BY <1>9, <2>1
  <2>3. \A q \in Restore : ingest'[q].status = "reading" => ingest'[q].read = disk["knowledge"]
    BY <1>1, <1>9, <2>2
  <2>4. ASSUME \A q \in Restore : progress[q] # "cut off"
        PROVE  /\ UnderWay = {} => corpus' = disk["knowledge"] \/ Excused("knowledge")
               /\ \A q \in UnderWay :
                    \/ Excused("knowledge")
                    \/ corpus' = IF ingest'[q].status = "succeeded" THEN disk["knowledge"] ELSE former[q]["knowledge"]
    BY <1>10, <2>1, <2>2, <2>4
  <2>5. RunsInv'
    BY <1>1, <1>9, <2>3, <2>4 DEF RunsInv, Excused
  <2> QED BY <1>5, <1>6, <2>5 DEF SettingsCore
<1> QED BY <1>7, <1>8

(* What everybody stands at once the last restore has come to its end.     *)
LEMMA EndKeepsCore ==
  ASSUME SettingsTypes, SettingsCore, NEW r \in Restore, r \in UnderWay,
         NEW how \in {"done", "failed"}, progress' = [progress EXCEPT ![r] = how], left' = {}, busy' = NoRestore,
         ingest' = ingest, env' = disk'["env"] \/ Excused("env")',
         \A q \in Restore : ingest[q].status = "reading" => disk'["knowledge"] = disk["knowledge"],
         (\A q \in Restore : progress[q] # "cut off") => corpus' = disk'["knowledge"] \/ Excused("knowledge")',
         \A q \in Restore \ {r} : displaced'[q] = displaced[q] /\ snapshot'[q] = snapshot[q]
  PROVE  SettingsCore'
<1>1. UnderWay = {r} /\ progress[r] \in Stretch \cup {"activating"}
  BY DEF SettingsCore, OneAtATime, UnderWay, Stretch
<1>2. /\ progress'[r] = how /\ \A q \in Restore \ {r} : progress'[q] = progress[q]
      /\ UnderWay' = {} /\ Pending' = Pending
  BY <1>1 DEF UnderWay, Pending, SettingsTypes
<1>3. OneAtATime'
  <2>1. \A q \in Restore : progress'[q] \notin Stretch
    BY <1>1, <1>2 DEF UnderWay, Stretch
  <2>2. \A q \in Restore :
          /\ progress'[q] \in {"none", "shown", "copying", "swapping"} => ingest'[q].status = "none"
          /\ progress'[q] = "removing" => ingest'[q].status = "succeeded"
          /\ progress'[q] \in {"none", "shown"} => displaced'[q] = NoFiles /\ snapshot'[q] = NoFiles
    BY <1>2 DEF SettingsCore, OneAtATime
  <2> QED BY <1>2, <2>1, <2>2, SettingsAssumption DEF OneAtATime
<1>4. TargetsInv'
  BY <1>2 DEF TargetsInv
<1>5. RunsInv'
  <2>1. (\A q \in Restore : progress'[q] # "cut off") => \A q \in Restore : progress[q] # "cut off"
    BY <1>1, <1>2 DEF Stretch
  <2> QED BY <1>2, <2>1 DEF SettingsCore, RunsInv
<1> QED BY <1>3, <1>4, <1>5 DEF SettingsCore

(* A restore ends well with what it held in place.                         *)
LEMMA SucceedKeepsCore ==
  ASSUME SettingsTypes, SettingsCore, NEW r \in Restore, Succeed(r) PROVE SettingsCore' /\ disk' = Restored(r)
<1>1. /\ busy = r /\ left = {} /\ busy' = NoRestore /\ progress[r] = "removing"
      /\ progress' = [progress EXCEPT ![r] = "done"] /\ left' = {}
      /\ UNCHANGED <<disk, corpus, ingest, lost>> /\ (env' = disk["env"] \/ "env" \in apart')
      /\ apart \subseteq apart'
      /\ \A q \in Restore \ {r} : displaced'[q] = displaced[q] /\ snapshot'[q] = snapshot[q]
  BY DEF Succeed, Becomes, SettingsTypes
<1>2. UnderWay = {r} /\ r \in UnderWay /\ Pending = {} /\ ingest[r].status = "succeeded"
  BY <1>1, StretchAlone
<1>3. \A t \in Target : disk[t] = IF t \in carried[r] THEN r ELSE former[r][t]
  BY <1>1, <1>2 DEF SettingsCore, TargetsInv, TargetInv, Cleared, Swapped, Removed, Untouched
<1>4. disk' = Restored(r)
  BY <1>1, <1>3 DEF SettingsTypes, Restored
<1>5. env' = disk'["env"] \/ Excused("env")'
  BY <1>1 DEF Excused
<1>6. (\A q \in Restore : progress[q] # "cut off") => corpus' = disk'["knowledge"] \/ Excused("knowledge")'
  BY <1>1, <1>2 DEF SettingsCore, RunsInv, Excused
<1> QED BY <1>1, <1>2, <1>4, <1>5, <1>6, EndKeepsCore

(* Taking back brings the former files, but for those that are exposed.    *)
Brings(r, copies, aside) ==
  \A t \in Target : \/ TakenBack(t, copies, aside) = former[r][t]
                    \/ t \in Exposed(r) /\ TakenBack(t, copies, aside) \in {NoFile, Remnant}

LEMMA RollBackKeepsCore ==
  ASSUME SettingsTypes, SettingsCore, NEW r \in Restore, r \in UnderWay, NEW copies, NEW aside,
         RollBack(r, copies, aside), progress' = [progress EXCEPT ![r] = "failed"],
         ingest[r].status # "reading", ingest[r].status = "succeeded" => progress[r] = "removing"
  PROVE  /\ SettingsCore'
         /\ Brings(r, copies, aside) => EndsWhole(r)
<1>1. /\ \A t \in Target : disk'[t] = TakenBack(t, copies, aside)
      /\ lost' = lost \cup {t \in Target : disk'[t] # former[r][t]}
      /\ apart' = IF progress[r] = "removing" THEN apart \cup {"knowledge"} ELSE apart
      /\ left' = {} /\ busy' = NoRestore /\ UNCHANGED <<env, corpus, ingest>>
      /\ \A q \in Restore \ {r} : displaced'[q] = displaced[q] /\ snapshot'[q] = snapshot[q]
  BY DEF RollBack, SettingsTypes
<1>2. \A q \in Restore : ingest[q].status # "reading"
  BY DEF SettingsCore, OneAtATime, Pending
<1>3. env' = disk'["env"] \/ Excused("env")'
  <2>1. env = former[r]["env"] \/ Excused("env")
    BY DEF SettingsCore, RunsInv
  <2>2. disk'["env"] = former[r]["env"] \/ "env" \in lost'
    BY <1>1, Knowledge
  <2> QED BY <1>1, <2>1, <2>2 DEF Excused
<1>4. ASSUME \A q \in Restore : progress[q] # "cut off" PROVE corpus' = disk'["knowledge"] \/ Excused("knowledge")'
  <2>1. CASE progress[r] = "removing"
    BY <1>1, <2>1 DEF Excused
  <2>2. CASE progress[r] # "removing"
    <3>1. corpus = former[r]["knowledge"] \/ Excused("knowledge")
      BY <1>4, <2>2 DEF SettingsCore, RunsInv
    <3>2. disk'["knowledge"] = former[r]["knowledge"] \/ "knowledge" \in lost'
      BY <1>1, Knowledge
    <3> QED BY <1>1, <2>2, <3>1, <3>2 DEF Excused
  <2> QED BY <2>1, <2>2
<1>5. SettingsCore'
  <2> HIDE DEF RollBack, SettingsCore
  <2> QED BY <1>1, <1>2, <1>3, <1>4, EndKeepsCore
<1>6. progress'[r] = "failed"
  BY DEF SettingsTypes
<1> QED BY <1>1, <1>5, <1>6 DEF Brings, EndsWhole

LEMMA FailKeepsCore ==
  ASSUME SettingsTypes, SettingsCore, ~mixed', NEW r \in Restore,
         CopyFails(r) \/ SwapFails(r) \/ RemovalFails(r) \/ RestoreFails(r)
  PROVE  SettingsCore' /\ EndsWhole(r)
<1>1. CASE CopyFails(r)
  <2>1. PICK part \in {NoFile, Remnant} : RollBack(r, [snapshot[r] EXCEPT ![ToCopy] = part], displaced[r])
    BY <1>1 DEF CopyFails
  <2>2. /\ busy = r /\ progress[r] = "copying" /\ progress' = [progress EXCEPT ![r] = "failed"] /\ r \in UnderWay
        /\ ingest[r].status = "none" /\ ToCopy \in left
    BY <1>1, StretchAlone, ForemostIsLeft DEF CopyFails, Becomes
  <2>3. \A t \in Target : InCopy(r, t)
    BY <2>2 DEF SettingsCore, TargetsInv, TargetInv
  <2>4. Brings(r, [snapshot[r] EXCEPT ![ToCopy] = part], displaced[r])
    <3> SUFFICES ASSUME NEW t \in Target
                 PROVE  LET copies == [snapshot[r] EXCEPT ![ToCopy] = part]
                        IN \/ TakenBack(t, copies, displaced[r]) = former[r][t]
                           \/ t \in Exposed(r) /\ TakenBack(t, copies, displaced[r]) \in {NoFile, Remnant}
      BY DEF Brings
    <3>1. /\ displaced[r][t] = NoFile /\ snapshot[r][t] = (IF t \in left THEN NoFile ELSE former[r][t])
          /\ (t \in Exposed(r) <=> t \in left)
      BY <2>2, <2>3 DEF InCopy, Untouched, Exposed
    <3> DEFINE copies == [snapshot[r] EXCEPT ![ToCopy] = part]
    <3>2. copies[t] = IF t = ToCopy THEN part ELSE snapshot[r][t]
      BY DEF SettingsTypes
    <3> QED BY <2>2, <3>1, <3>2 DEF TakenBack
  <2> QED BY <2>1, <2>2, <2>4, RollBackKeepsCore
<1>2. CASE SwapFails(r) \/ RestoreFails(r)
  <2>1. /\ RollBack(r, snapshot[r], displaced[r]) /\ progress' = [progress EXCEPT ![r] = "failed"]
        /\ progress[r] \in {"swapping", "activating"} /\ r \in UnderWay
        /\ ingest[r].status \notin {"reading", "succeeded"}
    BY <1>2, StretchAlone DEF SwapFails, RestoreFails, Becomes, UnderWay
  <2>2. \A t \in Target : Placed(r, t)
    BY <2>1 DEF SettingsCore, TargetsInv, TargetInv
  <2>3. Brings(r, snapshot[r], displaced[r])
    <3>1. ASSUME NEW t \in Target PROVE former[r][t] # Gone
      BY SettingsAssumption DEF SettingsTypes, File
    <3> QED BY <2>2, <3>1 DEF Brings, TakenBack, Placed, Swapped, Untouched, RenamedAside
  <2> QED BY <2>1, <2>3, RollBackKeepsCore
<1>3. CASE RemovalFails(r)
  <2>1. PICK rest \in {displaced[r][First(left)]} \cup IF First(left) = "knowledge" THEN {Remnant} ELSE {} :
          RollBack(r, snapshot[r], [displaced[r] EXCEPT ![First(left)] = rest])
    BY <1>3 DEF RemovalFails
  <2>2. /\ busy = r /\ progress[r] = "removing" /\ progress' = [progress EXCEPT ![r] = "failed"] /\ r \in UnderWay
        /\ ingest[r].status = "succeeded" /\ First(left) \in left
    BY <1>3, StretchAlone, ForemostIsLeft DEF RemovalFails, Becomes
  <2>3. \A t \in Target : Cleared(r, t)
    BY <2>2 DEF SettingsCore, TargetsInv, TargetInv
  <2> DEFINE aside == [displaced[r] EXCEPT ![First(left)] = rest]
  <2>4. ASSUME NEW t \in Target
        PROVE  \/ TakenBack(t, snapshot[r], aside) = former[r][t]
               \/ t \in Exposed(r) /\ TakenBack(t, snapshot[r], aside) \in {NoFile, Remnant}
    <3>1. /\ former[r][t] # Gone /\ (t \in Exposed(r) <=> t \in carried[r] \ (left \ {First(left)}))
          /\ Remnant # NoFile /\ Remnant # Gone /\ NoFile # Gone
      BY <2>2, SettingsAssumption DEF SettingsTypes, File, Exposed
    <3>2. aside[t] = IF t = First(left) THEN rest ELSE displaced[r][t]
      BY DEF SettingsTypes
    <3>3. CASE t = First(left)
      <4>1. /\ t \in Exposed(r) /\ displaced[r][t] = former[r][t] /\ snapshot[r][t] = former[r][t]
            /\ rest \in {displaced[r][t], Remnant}
        BY <2>2, <2>3, <3>1, <3>3 DEF Cleared, Swapped
      <4> HIDE DEF aside
      <4> QED BY <3>1, <3>2, <3>3, <4>1 DEF TakenBack
    <3>4. CASE t # First(left)
      <4> HIDE DEF aside
      <4>1. aside[t] = displaced[r][t]
        BY <3>2, <3>4
      <4> QED BY <2>3, <3>1, <3>4, <4>1 DEF TakenBack, Cleared, Swapped, Removed, Untouched
    <3> QED BY <3>3, <3>4
  <2>5. Brings(r, snapshot[r], aside)
    BY <2>4 DEF Brings
  <2> QED BY <2>1, <2>2, <2>5, RollBackKeepsCore
<1> QED BY <1>1, <1>2, <1>3

(* A crash leaves every former file in its place or beside it, or what was *)
(* restored in place.                                                      *)
LEMMA CrashKeepsCore ==
  ASSUME SettingsTypes, SettingsCore, Crash PROVE SettingsCore' /\ \A r \in Restore : EndsWhole(r)
<1>1. /\ UnderWay # {} /\ env' = disk["env"] /\ left' = {} /\ busy' = NoRestore
      /\ UNCHANGED <<disk, corpus, carried, snapshot, displaced, mixed, former, lost, apart>>
  BY DEF Crash, settingsGhosts
<1>2. \A r \in Restore :
        /\ r \in UnderWay => progress'[r] = "cut off"
        /\ r \notin UnderWay => progress'[r] = IF progress[r] = "shown" THEN "failed" ELSE progress[r]
        /\ ingest'[r].status # "reading" /\ (ingest[r].status # "reading" => ingest'[r] = ingest[r])
  BY DEF Crash
<1>3. UnderWay' = {}
  BY <1>2 DEF UnderWay
<1>4. OneAtATime'
  <2>1. \A q \in Restore : progress'[q] \notin Stretch /\ progress'[q] # "shown"
    BY <1>2 DEF UnderWay, Stretch
  <2>2. \A q \in Restore : progress'[q] = "none" => progress[q] = "none"
    BY <1>2
  <2> QED BY <1>1, <1>2, <1>3, <2>1, <2>2, SettingsAssumption DEF SettingsCore, OneAtATime, Stretch
<1>5. TargetsInv'
  BY <1>3 DEF TargetsInv
<1>6. RunsInv'
  <2>1. \E q \in Restore : progress'[q] = "cut off"
    BY <1>1, <1>2 DEF UnderWay
  <2> QED BY <1>1, <1>2, <1>3, <2>1 DEF RunsInv
<1>7. ASSUME NEW r \in UnderWay
      PROVE  \/ \A t \in Target : former[r][t] \in {disk'[t], displaced'[r][t]}
             \/ progress[r] = "removing" /\ disk' = Restored(r)
  <2>1. progress[r] \in {"copying", "swapping", "activating", "removing"}
    BY <1>7 DEF UnderWay
  <2>2. CASE progress[r] = "removing"
    <3>1. \A t \in Target : disk[t] = IF t \in carried[r] THEN r ELSE former[r][t]
      BY <1>7, <2>2 DEF SettingsCore, TargetsInv, TargetInv, Cleared, Swapped, Removed, Untouched, UnderWay
    <3> QED BY <1>1, <2>2, <3>1 DEF SettingsTypes, Restored
  <2>3. CASE progress[r] # "removing"
    BY <1>1, <1>7, <2>1, <2>3
    DEF SettingsCore, TargetsInv, TargetInv, InCopy, Placed, Swapped, Untouched, RenamedAside
  <2> QED BY <2>2, <2>3
<1>8. ASSUME NEW r \in Restore PROVE EndsWhole(r)
  <2>1. CASE r \in UnderWay
    BY <1>2, <1>7, <2>1 DEF EndsWhole
  <2>2. CASE r \notin UnderWay
    BY <1>2, <2>2 DEF EndsWhole
  <2> QED BY <2>1, <2>2
<1> QED BY <1>4, <1>5, <1>6, <1>8 DEF SettingsCore

(* Each step keeps the whole, as long as the panel has mixed nothing.      *)
LEMMA SettingsStay == SettingsInv /\ [SettingsNext]_settingsVars => SettingsInv'
<1> SUFFICES ASSUME SettingsInv, [SettingsNext]_settingsVars, ~mixed' PROVE SettingsCore'
  BY SettingsTypesStay DEF SettingsInv
<1>1. SettingsTypes
  BY DEF SettingsInv
<1>2. CASE UNCHANGED settingsVars
  <2>1. SettingsCore
    BY <1>2 DEF SettingsInv, settingsVars
  <2>2. UnderWay' = UnderWay /\ Pending' = Pending
    BY <1>2 DEF UnderWay, Pending, settingsVars
  <2>3. OneAtATime' /\ RunsInv'
    BY <1>2, <2>1, <2>2 DEF SettingsCore, OneAtATime, RunsInv, Excused, settingsVars
  <2>4. TargetsInv'
    BY <1>2, <2>1, <2>2 DEF SettingsCore, TargetsInv, TargetInv, InCopy, Placed, Cleared, Swapped, Removed, Untouched,
                            RenamedAside, settingsVars
  <2> QED BY <2>3, <2>4 DEF SettingsCore
<1>3. CASE SettingsNext
  <2>1. SettingsCore
    BY <1>3 DEF SettingsInv, SettingsNext
  <2> QED BY <1>1, <1>3, <2>1, WritesKeepCore, PreviewsKeepCore, BeginKeepsCore, CopiesKeepCore, SwapKeepsCore, ActivateKeepsCore,
             IngestionKeepsCore, BeginRemovalKeepsCore, RemovalKeepsCore, SucceedKeepsCore, FailKeepsCore, CrashKeepsCore
          DEF SettingsNext
<1> QED BY <1>2, <1>3

(* A restore ends whole: done, taken back or cut off.                      *)
LEMMA EndsAreWhole ==
  ASSUME SettingsTypes, SettingsCore, SettingsNext, ~mixed', NEW r \in Restore PROVE EndsWhole(r)
<1> DEFINE ToEnd == progress[r] # progress'[r] /\ progress'[r] \in {"done", "failed", "cut off"}
<1>1. SUFFICES ASSUME ToEnd PROVE EndsWhole(r)
  BY DEF EndsWhole
<1>2. ASSUME NEW e \in Edition, SaveProfile(e) \/ SavePrompt(e) \/ SaveEnvironment(e) PROVE EndsWhole(r)
  BY <1>1, <1>2, WritesKeepCore
<1>3. ASSUME NEW q \in Restore,
             \/ PreviewBackup(q) \/ BeginRestore(q) \/ CopyNext(q) \/ Stage(q) \/ Displace(q) \/ PutInPlace(q)
             \/ Activate(q) \/ ReadFolder(q) \/ \E status \in {"succeeded", "failed"} : EndIngestion(q, status)
             \/ BeginRemoval(q) \/ RemoveDisplaced(q)
      PROVE  EndsWhole(r)
  <2>1. \/ progress' = progress
        \/ \E to \in {"shown", "copying", "swapping", "activating", "removing"} : progress' = [progress EXCEPT ![q] = to]
    BY <1>3 DEF PreviewBackup, BeginRestore, CopyNext, Stage, Displace, PutInPlace, Activate, ReadFolder, EndIngestion,
                BeginRemoval, RemoveDisplaced, Becomes
  <2> QED BY <1>1, <2>1 DEF SettingsTypes
<1>4. ASSUME NEW q \in Restore, PreviewExpires(q) PROVE EndsWhole(r)
  BY <1>1, <1>4 DEF PreviewExpires, Becomes, SettingsTypes, EndsWhole
<1>5. ASSUME NEW q \in Restore, Succeed(q) PROVE EndsWhole(r)
  <2>1. r = q /\ progress'[r] = "done"
    BY <1>1, <1>5 DEF Succeed, Becomes, SettingsTypes
  <2> QED BY <1>5, <2>1, SucceedKeepsCore DEF EndsWhole
<1>6. ASSUME NEW q \in Restore, CopyFails(q) \/ SwapFails(q) \/ RemovalFails(q) \/ RestoreFails(q) PROVE EndsWhole(r)
  <2>1. r = q
    BY <1>1, <1>6 DEF CopyFails, SwapFails, RemovalFails, RestoreFails, Becomes, SettingsTypes
  <2> QED BY <1>6, <2>1, FailKeepsCore
<1>7. CASE Crash
  BY <1>7, CrashKeepsCore
<1> QED BY <1>2, <1>3, <1>4, <1>5, <1>6, <1>7 DEF SettingsNext

\* A restore that ends well has replaced what the backup holds and nothing else; one that fails
\* while it renames or activates leaves every file as it was, while it copies or removes loses at
\* most what had no copy yet or was removed; a crash leaves every former file in its place or
\* beside it; and what runs is what is on the disk (restoreBackupPayload).
THEOREM RestoreStaysAllOrNothing == SettingsSpec => RestoreIsAllOrNothing
<1>1. SettingsInit => SettingsInv
  <2> SUFFICES ASSUME SettingsInit PROVE SettingsInv
    OBVIOUS
  <2>1. PICK e \in Edition, absent \in SUBSET (Target \ {"knowledge", "env"}) :
          disk = [t \in Target |-> IF t \in absent THEN NoFile ELSE e] /\ env = e /\ corpus = e
    BY DEF SettingsInit
  <2>2. UnderWay = {} /\ Pending = {} /\ disk["env"] = e /\ disk["knowledge"] = e
    BY <2>1, Knowledge DEF SettingsInit, UnderWay, Pending
  <2>3. SettingsTypes
    <3>1. disk \in [Target -> File] /\ corpus \in File /\ NoFiles \in [Target -> File] /\ NoFiles \in [Target -> AsideFile]
      BY <2>1 DEF File, AsideFile, NoFiles
    <3>2. ingest \in [Restore -> Run]
      BY DEF SettingsInit, Run, File
    <3> QED BY <3>1, <3>2 DEF SettingsInit, SettingsTypes, Stages
  <2>4. OneAtATime
    BY <2>2, SettingsAssumption DEF SettingsInit, OneAtATime, Stretch
  <2>5. TargetsInv /\ RunsInv
    BY <2>1, <2>2 DEF SettingsInit, TargetsInv, RunsInv
  <2> QED BY <2>3, <2>4, <2>5 DEF SettingsInv, SettingsCore
<1>2. SettingsInv /\ SettingsInv' /\ [SettingsNext]_settingsVars
        => [~mixed' => Agree' /\ \A r \in Restore : EndsWhole(r)]_settingsVars
  <2> SUFFICES ASSUME SettingsInv, SettingsInv', SettingsNext, ~mixed'
               PROVE  Agree' /\ \A r \in Restore : EndsWhole(r)
    OBVIOUS
  <2>1. SettingsCore /\ SettingsCore' /\ SettingsTypes
    BY DEF SettingsInv, SettingsNext
  <2>2. Agree'
    BY <2>1 DEF SettingsCore, RunsInv, Agree, Excused
  <2> QED BY <2>1, <2>2, EndsAreWhole
<1> QED BY <1>1, <1>2, SettingsStay, PTL DEF SettingsSpec, RestoreIsAllOrNothing

-----------------------------------------------------------------------------
(* Transactions.                                                           *)

TransactionTypes ==
  /\ driver \in {"sqlite", "postgres"} /\ opened \in 0 .. MaxOpened /\ current \in 0 .. opened
  /\ line \in [Connection -> Seq(Job)] /\ shut \in [Connection -> {"open", "closing", "closed"}]
  /\ work \in [Job -> {"none", "asked", "running", "done", "failed"}]
  /\ savepoint \in [Job -> Nat] /\ within \in [Job -> Seq(Nat)]
  /\ outcome \in [Job -> Seq({"open", "ok", "failed"})]
  /\ wrote \in [Job -> SUBSET [n : Nat, parts : Seq(Nat)]] /\ stack \in [Job -> Seq(SUBSET Nat)]

(* Whom nobody waits for is not given out.                                 *)
LinesInv ==
  /\ current # 0 => shut[current] = "open"
  /\ \A c \in Connection : /\ c > opened => shut[c] = "open"
                           /\ shut[c] = "closed" => line[c] = << >>

(* A job has parts and layers while it runs, and one runs at a time.       *)
JobsInv ==
  /\ \A j \in Job : (work[j] = "running") <=> (stack[j] # << >>)
  /\ \A j \in Job : work[j] \in {"none", "asked"} =>
       wrote[j] = {} /\ within[j] = << >> /\ outcome[j] = << >> /\ savepoint[j] = 0
  /\ driver = "sqlite" => \A j, k \in Job : work[j] = "running" /\ work[k] = "running" => j = k

(* Statements are numbered, and know the parts they ran in.                *)
Numbered(j) ==
  /\ IsFiniteSet(wrote[j]) /\ Len(outcome[j]) = savepoint[j]
  /\ \A w \in wrote[j] :
       /\ w.n \in 1 .. Cardinality(wrote[j])
       /\ \A i \in DOMAIN w.parts : w.parts[i] \in 1 .. savepoint[j]
  /\ \A v, w \in wrote[j] : v.n = w.n => v = w

(* The parts the body is in are the open ones; a statement in a part that  *)
(* is open still shares with the body all that is around it.               *)
Nested(j) ==
  /\ \A i \in DOMAIN within[j] :
       /\ within[j][i] \in 1 .. savepoint[j] /\ outcome[j][within[j][i]] = "open"
       /\ \A k \in DOMAIN within[j] : within[j][i] = within[j][k] => i = k
  /\ \A w \in wrote[j] : \A i \in DOMAIN w.parts : outcome[j][w.parts[i]] = "open" =>
       i <= Len(within[j]) /\ \A k \in 1 .. i : w.parts[k] = within[j][k]

(* A layer has the statements of its part, and of all that was kept in it. *)
Surviving(j, w, l) ==
  /\ l <= Len(w.parts) + 1 /\ \A k \in 1 .. l - 1 : w.parts[k] = within[j][k]
  /\ \A i \in l .. Len(w.parts) : outcome[j][w.parts[i]] = "ok"

Layered(j) ==
  /\ Len(stack[j]) = Len(within[j]) + 1
  /\ \A l \in 1 .. Len(stack[j]) :
       /\ \A n \in stack[j][l] : \E w \in wrote[j] : w.n = n
       /\ \A w \in wrote[j] : w.n \in stack[j][l] <=> Surviving(j, w, l)

DurableInv ==
  durable = UNION {{<<j, w.n>> : w \in {w \in wrote[j] : Stands(j, w)}} : j \in {j \in Job : work[j] = "done"}}

JobInv(j) == Numbered(j) /\ (work[j] = "running" => Nested(j) /\ Layered(j))

TransactionsInv == TransactionTypes /\ LinesInv /\ JobsInv /\ DurableInv /\ \A j \in Job : JobInv(j)

(* The start of a sequence, up to any place.                               *)
LEMMA StartOf ==
  ASSUME NEW S, NEW s, NEW n \in Nat, \A i \in 1 .. n : s[i] \in S
  PROVE  SubSeq(s, 1, n) \in Seq(S) /\ Len(SubSeq(s, 1, n)) = n /\ \A i \in 1 .. n : SubSeq(s, 1, n)[i] = s[i]
<1> DEFINE f == SubSeq(s, 1, n)
<1>1. f \in Seq(S) /\ Len(f) = (IF 1 <= n THEN n - 1 + 1 ELSE 0) /\ \A i \in 1 .. n - 1 + 1 : f[i] = s[1 + i - 1]
  BY SubSeqProperties
<1> HIDE DEF f
<1>2. Len(f) = n /\ 1 .. n - 1 + 1 = 1 .. n /\ \A i \in 1 .. n : 1 + i - 1 = i
  BY <1>1
<1> QED BY <1>1, <1>2 DEF f

(* All but the last of a sequence.                                         *)
LEMMA FrontOf ==
  ASSUME NEW S, NEW s \in Seq(S), s # << >>
  PROVE  LET f == SubSeq(s, 1, Len(s) - 1)
         IN  f \in Seq(S) /\ Len(f) = Len(s) - 1 /\ \A i \in 1 .. Len(s) - 1 : f[i] = s[i]
<1> DEFINE n == Len(s) - 1
<1>1. Len(s) \in Nat \ {0} /\ \A i \in 1 .. Len(s) : s[i] \in S
  BY EmptySeq, LenProperties
<1>2. n \in Nat /\ \A i \in 1 .. n : s[i] \in S
  BY <1>1
<1>3. \A i \in 1 .. n : i \in 1 .. Len(s)
  BY <1>1
<1> HIDE DEF n
<1> QED BY <1>2, <1>3, StartOf, ZenonT(40) DEF n

(* A line without one of its places is a line.                             *)
LEMMA WithoutOne ==
  ASSUME NEW S, NEW s \in Seq(S), NEW i \in DOMAIN s
  PROVE  RemoveAt(s, i) \in Seq(S)
<1>1. Len(s) \in Nat /\ i \in 1 .. Len(s) /\ \A k \in 1 .. Len(s) : s[k] \in S
  BY LenProperties
<1>2. SubSeq(s, 1, i - 1) \in Seq(S)
  BY <1>1, SubSeqProperties
<1>3. SubSeq(s, i + 1, Len(s)) \in Seq(S)
  BY <1>1, SubSeqProperties
<1> QED BY <1>2, <1>3, ConcatProperties DEF RemoveAt

(* RELEASE joins the last two layers, ROLLBACK TO drops the last.          *)
LEMMA LayersReleased ==
  ASSUME NEW S, NEW layers \in Seq(SUBSET S), Len(layers) >= 2
  PROVE  LET r == Released(layers)
         IN  /\ r \in Seq(SUBSET S) /\ Len(r) = Len(layers) - 1
             /\ \A l \in 1 .. Len(layers) - 2 : r[l] = layers[l]
             /\ r[Len(layers) - 1] = layers[Len(layers) - 1] \cup layers[Len(layers)]
<1> DEFINE n == Len(layers)
           f == SubSeq(layers, 1, n - 2)
           t == layers[n - 1] \cup layers[n]
<1>1. n \in Nat /\ n >= 2 /\ \A l \in 1 .. n : layers[l] \in SUBSET S
  BY LenProperties
<1>2. f \in Seq(SUBSET S) /\ Len(f) = n - 2 /\ \A l \in 1 .. n - 2 : f[l] = layers[l]
  <2> DEFINE m == n - 2
  <2>1. m \in Nat /\ \A l \in 1 .. m : layers[l] \in SUBSET S
    BY <1>1
  <2> HIDE DEF m
  <2>2. LET g == SubSeq(layers, 1, m) IN g \in Seq(SUBSET S) /\ Len(g) = m /\ \A l \in 1 .. m : g[l] = layers[l]
    BY <2>1, StartOf
  <2> QED BY <2>2 DEF m
<1>3. t \in SUBSET S
  <2>1. layers[n - 1] \in SUBSET S /\ layers[n] \in SUBSET S
    BY <1>1
  <2> QED BY <2>1
<1>4. Released(layers) = f \o <<t>>
  BY DEF Released
<1> HIDE DEF f, t
<1>5. <<t>> \in Seq(SUBSET S) /\ Len(<<t>>) = 1 /\ <<t>>[1] = t
  BY <1>3
<1>6. /\ f \o <<t>> \in Seq(SUBSET S) /\ Len(f \o <<t>>) = n - 1
      /\ \A l \in 1 .. n - 1 : (f \o <<t>>)[l] = IF l <= n - 2 THEN f[l] ELSE <<t>>[l - (n - 2)]
  BY <1>1, <1>2, <1>5, ConcatProperties
<1>7. \A l \in 1 .. n - 2 : (f \o <<t>>)[l] = layers[l]
  BY <1>1, <1>2, <1>6
<1>8. (f \o <<t>>)[n - 1] = t
  <2>1. n - 1 \in 1 .. n - 1 /\ ~(n - 1 <= n - 2) /\ n - 1 - (n - 2) = 1
    BY <1>1
  <2> QED BY <1>5, <1>6, <2>1
<1> QED BY <1>4, <1>6, <1>7, <1>8 DEF t

(* What ROLLBACK TO and RELEASE leave of the layers.                       *)
LEMMA LayersRolledBack ==
  ASSUME NEW S, NEW layers \in Seq(SUBSET S), Len(layers) >= 2
  PROVE  LET r == RolledBack(layers)
         IN  /\ r \in Seq(SUBSET S) /\ Len(r) = Len(layers) - 1
             /\ \A l \in 1 .. Len(layers) - 1 : r[l] = layers[l]
<1> DEFINE n == Len(layers)
           e == [layers EXCEPT ![n] = {}]
<1>1. n \in Nat /\ n >= 2 /\ n \in 1 .. Len(layers)
  BY LenProperties
<1>2. {} \in SUBSET S
  OBVIOUS
<1>3. e \in Seq(SUBSET S) /\ Len(e) = n /\ \A l \in 1 .. n : e[l] = IF l = n THEN {} ELSE layers[l]
  BY <1>1, <1>2, ExceptSeq
<1>4. RolledBack(layers) = Released(e)
  BY DEF RolledBack
<1> HIDE DEF e
<1>5. /\ Released(e) \in Seq(SUBSET S) /\ Len(Released(e)) = n - 1
      /\ \A l \in 1 .. n - 2 : Released(e)[l] = e[l]
      /\ Released(e)[n - 1] = e[n - 1] \cup e[n]
  BY <1>1, <1>3, LayersReleased
<1>6. e[n - 1] = layers[n - 1] /\ e[n] = {} /\ \A l \in 1 .. n - 2 : e[l] = layers[l]
  BY <1>1, <1>3
<1>7. \A l \in 1 .. n - 1 : l \in 1 .. n - 2 \/ l = n - 1
  BY <1>1
<1> QED BY <1>4, <1>5, <1>6, <1>7

(* What one job does leaves the others as they were.                       *)
LEMMA OthersStay ==
  ASSUME NEW k \in Job, JobInv(k), work'[k] = "running" => work[k] = "running",
         UNCHANGED <<savepoint[k], within[k], outcome[k], wrote[k], stack[k]>>
  PROVE  JobInv(k)'
BY DEF JobInv, Numbered, Nested, Layered, Surviving

(* Nothing becomes durable while no job ends.                              *)
LEMMA DurableStays ==
  ASSUME DurableInv, durable' = durable, \A k \in Job : work'[k] = "done" <=> work[k] = "done",
         \A k \in Job : work[k] = "done" => UNCHANGED <<wrote[k], outcome[k]>>
  PROVE  DurableInv'
BY DEF DurableInv, Stands

(* What a job commits is what stands of its statements.                    *)
LEMMA DurableGrows ==
  ASSUME DurableInv, NEW j \in Job, work[j] # "done", \A k \in Job \ {j} : UNCHANGED <<wrote[k], outcome[k]>>,
         work' = [work EXCEPT ![j] = "done"], work \in [Job -> {"none", "asked", "running", "done", "failed"}],
         NEW N, durable' = durable \cup {<<j, n>> : n \in N}, N = {w.n : w \in {w \in wrote'[j] : Stands(j, w)'}}
  PROVE  DurableInv'
<1> DEFINE Of(k) == {<<k, w.n>> : w \in {w \in wrote[k] : Stands(k, w)}}
<1>1. ASSUME NEW k \in Job, work[k] = "done" PROVE work'[k] = "done" /\ Of(k)' = Of(k)
  BY <1>1 DEF Stands
<1>2. work'[j] = "done" /\ Of(j)' = {<<j, n>> : n \in N}
  OBVIOUS
<1>3. \A k \in Job : work'[k] = "done" => work[k] = "done" \/ k = j
  OBVIOUS
<1>4. durable = UNION {Of(k) : k \in {k \in Job : work[k] = "done"}}
  BY DEF DurableInv
<1> HIDE DEF Of
<1>5. durable' = UNION {Of(k)' : k \in {k \in Job : work'[k] = "done"}}
  BY <1>1, <1>2, <1>3, <1>4
<1> QED BY <1>5 DEF DurableInv, Of

(* What a statement in no failed part is in: nothing else is durable.      *)
LEMMA LeavingStays ==
  ASSUME TransactionTypes, LinesInv, NEW j \in Job, NEW became \in {"done", "failed"}, Leave(j, became),
         UNCHANGED <<shut, opened, current>>
  PROVE  /\ LinesInv' /\ line' \in [Connection -> Seq(Job)]
         /\ work' = [work EXCEPT ![j] = became]
<1> PICK c \in Connection : \E i \in DOMAIN line[c] : line' = [line EXCEPT ![c] = RemoveAt(@, i)]
  BY DEF Leave
<1>1. PICK i \in DOMAIN line[c] : line' = [line EXCEPT ![c] = RemoveAt(@, i)]
  OBVIOUS
<1>2. line[c] \in Seq(Job) /\ line[c] # << >>
  BY <1>1 DEF TransactionTypes
<1>3. RemoveAt(line[c], i) \in Seq(Job)
  BY <1>1, <1>2, WithoutOne
<1> QED BY <1>1, <1>2, <1>3 DEF Leave, LinesInv, TransactionTypes

(* A job asks for its turn.                                                *)
LEMMA RequestStays == ASSUME TransactionsInv, NEW j \in Job, Request(j) PROVE TransactionsInv'
<1>1. /\ opened' \in 0 .. MaxOpened /\ current' \in 1 .. opened' /\ current' \in Connection
      /\ shut[current'] = "open" /\ opened <= opened'
  <2>1. opened \in 0 .. MaxOpened /\ current \in 0 .. opened /\ MaxOpened \in Nat
    BY TransactionsAssumption DEF TransactionsInv, TransactionTypes
  <2>2. CASE current # 0 /\ UNCHANGED <<opened, current>>
    BY <2>1, <2>2 DEF TransactionsInv, LinesInv, Connection
  <2>3. CASE opened < MaxOpened /\ opened' = opened + 1 /\ current' = opened + 1
    <3>1. opened + 1 \in Connection /\ opened + 1 > opened
      BY <2>1, <2>3 DEF Connection
    <3> QED BY <2>1, <2>3, <3>1 DEF TransactionsInv, LinesInv, Connection
  <2> QED BY <2>2, <2>3 DEF Request
<1>2. Append(line[current'], j) \in Seq(Job)
  BY <1>1, AppendProperties DEF TransactionsInv, TransactionTypes
<1>3. work' = [work EXCEPT ![j] = "asked"] /\ work[j] = "none"
  BY DEF Request
<1>4. line' = [line EXCEPT ![current'] = Append(@, j)]
  BY DEF Request
<1>5. UNCHANGED <<driver, shut, single, savepoint, within, outcome, wrote, stack, durable>>
  BY DEF Request
<1>6. TransactionTypes'
  BY <1>1, <1>2, <1>3, <1>4, <1>5 DEF TransactionsInv, TransactionTypes
<1>7. LinesInv'
  <2>1. ASSUME NEW c \in Connection
        PROVE  (c > opened' => shut'[c] = "open") /\ (shut'[c] = "closed" => line'[c] = << >>)
    BY <1>1, <1>4, <1>5 DEF TransactionsInv, TransactionTypes, LinesInv, Connection
  <2> QED BY <1>1, <1>5, <2>1 DEF LinesInv
<1>8. JobsInv'
  BY <1>3, <1>5 DEF TransactionsInv, TransactionTypes, JobsInv
<1>9. DurableInv'
  BY <1>3, <1>5, DurableStays DEF TransactionsInv, TransactionTypes
<1>10. ASSUME NEW k \in Job PROVE JobInv(k)'
  BY <1>3, <1>5, OthersStay DEF TransactionsInv, TransactionTypes
<1> QED BY <1>6, <1>7, <1>8, <1>9, <1>10 DEF TransactionsInv

(* A query outside a transaction is durable when it ends.                  *)
LEMMA RunQueryStays == ASSUME TransactionsInv, NEW j \in Job, RunQuery(j) PROVE TransactionsInv'
<1>1. PICK became \in {"done", "failed"} :
        /\ Leave(j, became)
        /\ IF became = "done"
           THEN /\ wrote' = [wrote EXCEPT ![j] = {[n |-> 1, parts |-> << >>]}]
                /\ durable' = durable \union {<<j, 1>>}
           ELSE UNCHANGED <<wrote, durable>>
  BY DEF RunQuery
<1>2. UNCHANGED <<driver, opened, current, shut, single, savepoint, within, outcome, stack>> /\ work[j] = "asked"
  BY DEF RunQuery
<1>3. LinesInv' /\ line' \in [Connection -> Seq(Job)] /\ work' = [work EXCEPT ![j] = became]
  BY <1>1, <1>2, LeavingStays DEF TransactionsInv
<1> DEFINE row == [n |-> 1, parts |-> << >>]
<1>4. row \in [n : Nat, parts : Seq(Nat)] /\ row.n = 1 /\ row.parts = << >> /\ DOMAIN row.parts = {}
  OBVIOUS
<1>5. became = "done" => wrote' = [wrote EXCEPT ![j] = {row}]
  BY <1>1
<1> HIDE DEF row
<1>6. TransactionTypes'
  <2>1. wrote' \in [Job -> SUBSET [n : Nat, parts : Seq(Nat)]]
    <3>1. {row} \in SUBSET [n : Nat, parts : Seq(Nat)] /\ wrote \in [Job -> SUBSET [n : Nat, parts : Seq(Nat)]]
      BY <1>4 DEF TransactionsInv, TransactionTypes
    <3>2. CASE became = "done"
      BY <1>5, <3>1, <3>2
    <3>3. CASE became = "failed"
      BY <1>1, <3>1, <3>3
    <3> QED BY <3>2, <3>3
  <2> QED BY <1>1, <1>2, <1>3, <2>1 DEF TransactionsInv, TransactionTypes
<1>7. stack[j] = << >>
  BY <1>2 DEF TransactionsInv, JobsInv
<1>8. JobsInv'
  BY <1>1, <1>2, <1>3, <1>7 DEF TransactionsInv, TransactionTypes, JobsInv
<1>9. DurableInv'
  <2>1. CASE became = "failed"
    BY <1>1, <1>2, <1>3, <2>1, DurableStays DEF TransactionsInv, TransactionTypes
  <2>2. CASE became = "done"
    <3>1. wrote'[j] = {row} /\ Stands(j, row)'
      BY <1>4, <1>5, <2>2 DEF TransactionsInv, TransactionTypes, Stands
    <3>2. {1} = {w.n : w \in {w \in wrote'[j] : Stands(j, w)'}}
      BY <1>4, <3>1
    <3>3. durable' = durable \cup {<<j, n>> : n \in {1}}
      BY <1>1, <2>2
    <3>4. \A k \in Job \ {j} : UNCHANGED <<wrote[k], outcome[k]>>
      BY <1>2, <1>5, <2>2 DEF TransactionsInv, TransactionTypes
    <3> QED BY <1>2, <1>3, <2>2, <3>2, <3>3, <3>4, DurableGrows DEF TransactionsInv, TransactionTypes
  <2> QED BY <2>1, <2>2
<1>10. ASSUME NEW k \in Job PROVE JobInv(k)'
  <2>1. CASE k # j \/ became = "failed"
    <3>1. UNCHANGED <<savepoint[k], within[k], outcome[k], wrote[k], stack[k]>> /\ (work'[k] = "running" => work[k] = "running")
      BY <1>1, <1>2, <1>3, <2>1 DEF TransactionsInv, TransactionTypes
    <3> QED BY <3>1, OthersStay DEF TransactionsInv
  <2>2. CASE k = j /\ became = "done"
    <3>1. wrote'[j] = {row} /\ IsFiniteSet({row}) /\ Cardinality({row}) = 1
      BY <1>5, <2>2, FS_Singleton DEF TransactionsInv, TransactionTypes
    <3>2. outcome'[j] = outcome[j] /\ savepoint'[j] = savepoint[j] /\ work'[j] = "done"
      BY <1>2, <1>3, <2>2 DEF TransactionsInv, TransactionTypes
    <3>3. Len(outcome[j]) = savepoint[j]
      BY DEF TransactionsInv, JobInv, Numbered
    <3> QED BY <1>4, <2>2, <3>1, <3>2, <3>3 DEF JobInv, Numbered
  <2> QED BY <1>1, <2>1, <2>2
<1> QED BY <1>3, <1>6, <1>8, <1>9, <1>10 DEF TransactionsInv

(* A transaction begins with one empty layer.                              *)
LEMMA BeginWorkStays == ASSUME TransactionsInv, NEW j \in Job, BeginWork(j) PROVE TransactionsInv'
<1>1. UNCHANGED <<driver, opened, current, shut, single, savepoint, within, outcome, wrote, durable>> /\ work[j] = "asked"
  BY DEF BeginWork
<1>2. CASE ~FileIsFree
  <2>1. Leave(j, "failed") /\ stack' = stack
    BY <1>2 DEF BeginWork
  <2>2. LinesInv' /\ line' \in [Connection -> Seq(Job)] /\ work' = [work EXCEPT ![j] = "failed"]
    BY <1>1, <2>1, LeavingStays DEF TransactionsInv
  <2>3. TransactionTypes' /\ JobsInv'
    BY <1>1, <2>1, <2>2 DEF TransactionsInv, TransactionTypes, JobsInv
  <2>4. DurableInv'
    BY <1>1, <2>2, DurableStays DEF TransactionsInv, TransactionTypes
  <2>5. ASSUME NEW k \in Job PROVE JobInv(k)'
    BY <1>1, <2>1, <2>2, OthersStay DEF TransactionsInv, TransactionTypes
  <2> QED BY <2>2, <2>3, <2>4, <2>5 DEF TransactionsInv
<1>3. CASE FileIsFree
  <2>1. work' = [work EXCEPT ![j] = "running"] /\ stack' = [stack EXCEPT ![j] = <<{}>>] /\ line' = line
    BY <1>3 DEF BeginWork
  <2>2. <<{}>> \in Seq(SUBSET Nat) /\ <<{}>> # << >> /\ Len(<<{}>>) = 1 /\ <<{}>>[1] = {}
    OBVIOUS
  <2>3. TransactionTypes' /\ LinesInv'
    BY <1>1, <2>1, <2>2 DEF TransactionsInv, TransactionTypes, LinesInv
  <2>4. driver = "sqlite" => \A k \in Job : work[k] # "running"
    BY <1>3 DEF FileIsFree, TransactionsInv, JobsInv
  <2>5. JobsInv'
    BY <1>1, <2>1, <2>2, <2>4 DEF TransactionsInv, TransactionTypes, JobsInv
  <2>6. DurableInv'
    BY <1>1, <2>1, DurableStays DEF TransactionsInv, TransactionTypes
  <2>7. ASSUME NEW k \in Job PROVE JobInv(k)'
    <3>1. CASE k # j
      BY <1>1, <2>1, <3>1, OthersStay DEF TransactionsInv, TransactionTypes
    <3>2. CASE k = j
      <4>1. wrote[j] = {} /\ within[j] = << >> /\ Len(within[j]) = 0 /\ DOMAIN within[j] = {} /\ stack'[j] = <<{}>>
        BY <1>1, <2>1, EmptySeq DEF TransactionsInv, TransactionTypes, JobsInv
      <4>2. Numbered(k)'
        BY <1>1 DEF TransactionsInv, JobInv, Numbered
      <4>3. Nested(k)' /\ Layered(k)'
        BY <1>1, <2>2, <3>2, <4>1 DEF Nested, Layered
      <4> QED BY <4>2, <4>3 DEF JobInv
    <3> QED BY <3>1, <3>2
  <2> QED BY <2>3, <2>5, <2>6, <2>7 DEF TransactionsInv
<1> QED BY <1>2, <1>3

(* A job under way changes what is its own: the rest of the invariant.     *)
LEMMA WorkingStays ==
  ASSUME TransactionsInv, NEW j \in Job, Running(j), work' = work, stack'[j] # << >>, JobInv(j)', TransactionTypes',
         UNCHANGED <<driver, opened, current, line, shut, durable>>,
         \A k \in Job \ {j} : UNCHANGED <<savepoint[k], within[k], outcome[k], wrote[k], stack[k]>>
  PROVE  TransactionsInv'
<1>1. work[j] = "running" /\ work'[j] = "running"
  BY DEF Running
<1>2. LinesInv'
  BY DEF TransactionsInv, LinesInv
<1>3. JobsInv'
  BY <1>1 DEF TransactionsInv, JobsInv
<1>4. DurableInv'
  BY <1>1, DurableStays DEF TransactionsInv
<1>5. ASSUME NEW k \in Job, k # j PROVE JobInv(k)'
  BY <1>5, OthersStay DEF TransactionsInv
<1> QED BY <1>2, <1>3, <1>4, <1>5 DEF TransactionsInv

(* A statement goes into the innermost layer, and no other.                *)
LEMMA WriteRowStays == ASSUME TransactionsInv, NEW j \in Job, WriteRow(j) PROVE TransactionsInv'
<1> DEFINE n == Cardinality(wrote[j]) + 1
           m == Len(stack[j])
           row == [n |-> n, parts |-> within[j]]
<1>1. /\ Running(j) /\ work[j] = "running"
      /\ wrote' = [wrote EXCEPT ![j] = @ \union {row}]
      /\ stack' = [stack EXCEPT ![j][m] = @ \union {n}]
      /\ UNCHANGED <<driver, opened, current, line, shut, work, single, savepoint, within, outcome, durable>>
  BY DEF WriteRow, Running
<1>2. Numbered(j) /\ Nested(j) /\ Layered(j)
  BY <1>1 DEF TransactionsInv, JobInv
<1>3. IsFiniteSet(wrote[j])
  BY <1>2 DEF Numbered
<1>4. n \in Nat \ {0} /\ n - 1 = Cardinality(wrote[j])
  BY <1>3, FS_CardinalityType
<1>5. row \in [n : Nat, parts : Seq(Nat)] /\ row.n = n /\ row.parts = within[j]
  BY <1>4 DEF TransactionsInv, TransactionTypes
<1>6. \A w \in wrote[j] : w.n \in Nat /\ w.n < n
  BY <1>2, <1>4 DEF Numbered
<1>7. row \notin wrote[j]
  BY <1>4, <1>5, <1>6
<1> DEFINE more == wrote[j] \cup {row}
<1>8. IsFiniteSet(more) /\ Cardinality(more) = n
  BY <1>3, <1>7, FS_AddElement
<1>9. /\ stack[j] \in Seq(SUBSET Nat) /\ within[j] \in Seq(Nat) /\ Len(within[j]) \in Nat
      /\ m = Len(within[j]) + 1 /\ m \in 1 .. m /\ stack[j][m] \in SUBSET Nat
  BY <1>2 DEF Layered, TransactionsInv, TransactionTypes
<1> DEFINE new == [stack[j] EXCEPT ![m] = stack[j][m] \cup {n}]
<1>10. stack[j][m] \cup {n} \in SUBSET Nat
  BY <1>4, <1>9
<1>11. /\ new \in Seq(SUBSET Nat) /\ Len(new) = m /\ new # << >>
       /\ \A l \in 1 .. m : new[l] = IF l = m THEN stack[j][m] \cup {n} ELSE stack[j][l]
  BY <1>9, <1>10, ExceptSeq
<1>12. stack'[j] = new /\ wrote'[j] = more /\ \A k \in Job \ {j} : UNCHANGED <<wrote[k], stack[k]>>
  BY <1>1 DEF TransactionsInv, TransactionTypes
<1>13. stack' \in [Job -> Seq(SUBSET Nat)] /\ wrote' \in [Job -> SUBSET [n : Nat, parts : Seq(Nat)]]
  BY <1>1, <1>5, <1>11 DEF TransactionsInv, TransactionTypes
<1>14. TransactionTypes'
  BY <1>1, <1>13 DEF TransactionsInv, TransactionTypes
<1> HIDE DEF new, more, row, n, m
<1>15. more = wrote[j] \cup {row}
  BY DEF more
<1>16. Numbered(j)'
  <2>1. \A i \in DOMAIN row.parts : row.parts[i] \in 1 .. savepoint[j]
    BY <1>2, <1>5 DEF Nested
  <2>2. n \in 1 .. n /\ \A w \in wrote[j] : w.n \in 1 .. n
    <3>1. \A w \in wrote[j] : w.n \in 1 .. n - 1
      BY <1>2, <1>4 DEF Numbered
    <3> QED BY <1>4, <3>1
  <2>3. \A v, w \in more : v.n = w.n => v = w
    BY <1>2, <1>4, <1>5, <1>6, <1>15, SMTT(30) DEF Numbered
  <2> QED BY <1>1, <1>2, <1>5, <1>8, <1>12, <1>15, <2>1, <2>2, <2>3, ZenonT(40) DEF Numbered
<1>17. Nested(j)'
  <2>1. \A i \in DOMAIN row.parts : i <= Len(within[j]) /\ \A k \in 1 .. i : row.parts[k] = within[j][k]
    BY <1>5, <1>9
  <2> QED BY <1>1, <1>2, <1>12, <1>15, <2>1 DEF Nested
<1>18. Layered(j)'
  <2>1. \A l \in 1 .. m : \A x \in new[l] : \E w \in more : w.n = x
    BY <1>2, <1>5, <1>9, <1>11, <1>15 DEF Layered
  <2>2. \A w : \A l : Surviving(j, w, l)' <=> Surviving(j, w, l)
    BY <1>1 DEF Surviving
  <2>3. ASSUME NEW l \in 1 .. m, NEW w \in wrote[j] PROVE w.n \in new[l] <=> Surviving(j, w, l)
    <3>1. w.n # n
      BY <1>4, <1>6
    <3>2. w.n \in stack[j][l] <=> Surviving(j, w, l)
      BY <1>2, <2>3 DEF Layered, m
    <3> QED BY <1>11, <3>1, <3>2
  <2>4. ASSUME NEW l \in 1 .. m PROVE n \in new[l] <=> Surviving(j, row, l)
    <3>1. CASE l = m
      <4>1. Surviving(j, row, m)
        BY <1>5, <1>9 DEF Surviving
      <4> QED BY <1>11, <3>1, <4>1
    <3>2. CASE l # m
      <4>1. n \notin stack[j][l]
        BY <1>2, <1>4, <1>6, <2>4 DEF Layered, m
      <4>2. l \in 1 .. Len(within[j]) /\ outcome[j][within[j][l]] = "open"
        BY <1>2, <1>9, <3>2 DEF Nested
      <4>3. ~Surviving(j, row, l)
        <5>1. l \in l .. Len(row.parts) /\ row.parts[l] = within[j][l] /\ outcome[j][row.parts[l]] # "ok"
          BY <1>5, <1>9, <4>2
        <5> QED BY <5>1 DEF Surviving
      <4> QED BY <1>11, <3>2, <4>1, <4>3
    <3> QED BY <3>1, <3>2
  <2>5. within'[j] = within[j] /\ \A l \in 1 .. m : \A w \in more : w.n \in new[l] <=> Surviving(j, w, l)
    BY <1>1, <1>5, <1>15, <2>3, <2>4
  <2> QED BY <1>9, <1>11, <1>12, <2>1, <2>2, <2>5 DEF Layered
<1> QED BY <1>1, <1>11, <1>12, <1>14, <1>16, <1>17, <1>18, WorkingStays DEF JobInv

(* A savepoint opens an empty layer.                                       *)
LEMMA OpenPartStays == ASSUME TransactionsInv, NEW j \in Job, OpenPart(j) PROVE TransactionsInv'
<1> DEFINE p == savepoint[j] + 1
           around == within[j]
           inside == Append(within[j], p)
           ends == Append(outcome[j], "open")
           layers == Append(stack[j], {})
<1>1. /\ Running(j) /\ work[j] = "running" /\ savepoint' = [savepoint EXCEPT ![j] = @ + 1]
      /\ outcome' = [outcome EXCEPT ![j] = Append(@, "open")] /\ stack' = [stack EXCEPT ![j] = Append(@, {})]
      /\ UNCHANGED <<driver, opened, current, line, shut, work, single, wrote, durable>>
  BY DEF OpenPart, Running
<1>2. Numbered(j) /\ Nested(j) /\ Layered(j)
  BY <1>1 DEF TransactionsInv, JobInv
<1>3. /\ p \in Nat /\ savepoint[j] \in Nat /\ p = savepoint[j] + 1 /\ around \in Seq(Nat)
      /\ outcome[j] \in Seq({"open", "ok", "failed"}) /\ stack[j] \in Seq(SUBSET Nat)
  BY DEF TransactionsInv, TransactionTypes
<1>4. savepoint'[j] = p
  BY <1>1 DEF TransactionsInv, TransactionTypes
<1>5. within' = [within EXCEPT ![j] = inside]
  BY <1>4 DEF OpenPart
<1>6. /\ inside \in Seq(Nat) /\ Len(inside) = Len(around) + 1 /\ inside[Len(around) + 1] = p
      /\ \A i \in 1 .. Len(around) : inside[i] = around[i]
  BY <1>3, AppendProperties
<1>7. /\ ends \in Seq({"open", "ok", "failed"}) /\ Len(ends) = Len(outcome[j]) + 1 /\ ends[Len(outcome[j]) + 1] = "open"
      /\ \A i \in 1 .. Len(outcome[j]) : ends[i] = outcome[j][i]
  <2>1. "open" \in {"open", "ok", "failed"}
    OBVIOUS
  <2> QED BY <1>3, <2>1, AppendProperties
<1>8. /\ layers \in Seq(SUBSET Nat) /\ Len(layers) = Len(stack[j]) + 1 /\ layers[Len(stack[j]) + 1] = {}
      /\ \A l \in 1 .. Len(stack[j]) : layers[l] = stack[j][l] /\ layers # << >>
  <2>1. {} \in SUBSET Nat
    OBVIOUS
  <2> QED BY <1>3, <2>1, AppendProperties
<1>9. /\ outcome'[j] = ends /\ stack'[j] = layers /\ within'[j] = inside /\ wrote'[j] = wrote[j]
      /\ \A k \in Job \ {j} : UNCHANGED <<savepoint[k], within[k], outcome[k], wrote[k], stack[k]>>
  BY <1>1, <1>5 DEF TransactionsInv, TransactionTypes
<1>10. TransactionTypes'
  BY <1>1, <1>3, <1>5, <1>6, <1>7, <1>8 DEF TransactionsInv, TransactionTypes
<1>11. Len(around) \in Nat /\ Len(stack[j]) = Len(around) + 1 /\ DOMAIN inside = 1 .. Len(around) + 1 /\ DOMAIN around = 1 .. Len(around)
  BY <1>2, <1>3, <1>6, LenProperties DEF Layered
<1>12. \A q \in 1 .. savepoint[j] : ends[q] = outcome[j][q] /\ q # p
  BY <1>2, <1>3, <1>7 DEF Numbered
<1>13. ends[p] = "open" /\ Len(ends) = p /\ layers # << >>
  BY <1>2, <1>3, <1>7, <1>8, <1>11 DEF Numbered
<1> HIDE DEF p, around, inside, ends, layers
<1>14. Numbered(j)'
  <2>1. \A w \in wrote[j] : \A i \in DOMAIN w.parts : w.parts[i] \in 1 .. p
    BY <1>2, <1>3 DEF Numbered
  <2> QED BY <1>2, <1>4, <1>9, <1>13, <2>1 DEF Numbered
<1>15. \A w \in wrote[j] : \A i \in DOMAIN w.parts : w.parts[i] \in 1 .. savepoint[j]
  BY <1>2 DEF Numbered
<1>16. \A i \in 1 .. Len(around) : around[i] \in 1 .. savepoint[j] /\ outcome[j][around[i]] = "open"
  BY <1>2, <1>11 DEF Nested, around
<1>17. Nested(j)'
  <2>1. \A i \in DOMAIN inside : inside[i] \in 1 .. p /\ ends[inside[i]] = "open"
    <3> SUFFICES ASSUME NEW i \in DOMAIN inside PROVE inside[i] \in 1 .. p /\ ends[inside[i]] = "open"
      OBVIOUS
    <3>1. CASE i \in 1 .. Len(around)
      <4>1. inside[i] = around[i] /\ around[i] \in 1 .. savepoint[j] /\ outcome[j][around[i]] = "open"
        BY <1>6, <1>16, <3>1
      <4>2. ends[around[i]] = "open" /\ around[i] \in 1 .. p
        BY <1>3, <1>12, <4>1
      <4> QED BY <4>1, <4>2
    <3>2. CASE i = Len(around) + 1
      BY <1>3, <1>6, <1>13, <3>2
    <3> QED BY <1>11, <3>1, <3>2
  <2>2. \A i, k \in 1 .. Len(around) : around[i] = around[k] => i = k
    BY <1>2, <1>11 DEF Nested, around
  <2>3. \A i, k \in DOMAIN inside : inside[i] = inside[k] => i = k
    <3>1. \A i \in 1 .. Len(around) : inside[i] = around[i] /\ inside[i] # p
      BY <1>6, <1>12, <1>16
    <3>2. \A i \in DOMAIN inside : i \in 1 .. Len(around) \/ i = Len(around) + 1
      BY <1>11
    <3> QED BY <1>6, <2>2, <3>1, <3>2
  <2>4. ASSUME NEW w \in wrote[j], NEW i \in DOMAIN w.parts, ends[w.parts[i]] = "open"
        PROVE  i <= Len(inside) /\ \A k \in 1 .. i : w.parts[k] = inside[k]
    <3>1. outcome[j][w.parts[i]] = "open"
      BY <1>12, <1>15, <2>4
    <3>2. i <= Len(around) /\ \A k \in 1 .. i : w.parts[k] = around[k]
      BY <1>2, <3>1 DEF Nested, around
    <3>3. i \in Int
      BY LenProperties DEF TransactionsInv, TransactionTypes
    <3> QED BY <1>6, <1>11, <3>2, <3>3
  <2> QED BY <1>4, <1>9, <2>1, <2>3, <2>4 DEF Nested
<1>18. Layered(j)'
  <2>1. ASSUME NEW l \in 1 .. Len(stack[j]), NEW w \in wrote[j] PROVE Surviving(j, w, l)' <=> Surviving(j, w, l)
    <3>1. w.parts \in Seq(Nat) /\ Len(w.parts) \in Nat /\ DOMAIN w.parts = 1 .. Len(w.parts)
      BY LenProperties DEF TransactionsInv, TransactionTypes
    <3>2. \A i \in l .. Len(w.parts) : ends[w.parts[i]] = outcome[j][w.parts[i]]
      BY <1>12, <1>15, <3>1
    <3>3. \A k \in 1 .. l - 1 : inside[k] = around[k]
      BY <1>6, <1>11
    <3> QED BY <1>9, <3>2, <3>3 DEF Surviving, around
  <2>2. ASSUME NEW w \in wrote[j], NEW l, l = Len(around) + 2 PROVE ~Surviving(j, w, l)'
    <3>1. w.parts \in Seq(Nat) /\ Len(w.parts) \in Nat /\ DOMAIN w.parts = 1 .. Len(w.parts)
      BY LenProperties DEF TransactionsInv, TransactionTypes
    <3>2. Len(around) + 1 \in DOMAIN w.parts => w.parts[Len(around) + 1] # inside[Len(around) + 1]
      BY <1>6, <1>12, <1>15
    <3>3. Len(around) + 1 \in 1 .. l - 1 /\ (l <= Len(w.parts) + 1 => Len(around) + 1 \in DOMAIN w.parts)
      BY <1>11, <2>2, <3>1
    <3> QED BY <1>9, <3>2, <3>3 DEF Surviving
  <2>3. \A l \in 1 .. Len(around) + 2 : l \in 1 .. Len(stack[j]) \/ l = Len(around) + 2
    BY <1>11
  <2>4. ASSUME NEW l \in 1 .. Len(around) + 2
        PROVE  /\ \A n \in layers[l] : \E w \in wrote[j] : w.n = n
               /\ \A w \in wrote[j] : w.n \in layers[l] <=> Surviving(j, w, l)'
    <3>1. CASE l \in 1 .. Len(stack[j])
      BY <1>2, <1>8, <2>1, <3>1 DEF Layered
    <3>2. CASE l = Len(around) + 2
      <4>1. layers[l] = {}
        BY <1>8, <1>11, <3>2
      <4> QED BY <2>2, <3>2, <4>1
    <3> QED BY <2>3, <3>1, <3>2
  <2>5. Len(layers) = Len(inside) + 1 /\ Len(layers) = Len(around) + 2
    BY <1>6, <1>8, <1>11
  <2> QED BY <1>9, <2>4, <2>5 DEF Layered
<1> QED BY <1>1, <1>9, <1>10, <1>13, <1>14, <1>17, <1>18, WorkingStays DEF JobInv

(* A part that ends merges its layer into the one around it or drops it.   *)
LEMMA ClosePartStays ==
  ASSUME TransactionsInv, NEW j \in Job, NEW how \in {"ok", "failed"}, ClosePart(j, how)
  PROVE  TransactionsInv'
<1> DEFINE inside == within[j]
           around == SubSeq(within[j], 1, Len(within[j]) - 1)
           p == within[j][Len(within[j])]
           ends == [outcome[j] EXCEPT ![p] = how]
           layers == IF how = "ok" THEN Released(stack[j]) ELSE RolledBack(stack[j])
<1>1. /\ Running(j) /\ work[j] = "running" /\ inside # << >>
      /\ stack' = [stack EXCEPT ![j] = layers] /\ within' = [within EXCEPT ![j] = around]
      /\ outcome' = [outcome EXCEPT ![j][p] = how]
      /\ UNCHANGED <<driver, opened, current, line, shut, work, single, savepoint, wrote, durable>>
  BY DEF ClosePart, Running
<1>2. Numbered(j) /\ Nested(j) /\ Layered(j)
  BY <1>1 DEF TransactionsInv, JobInv
<1>3. /\ inside \in Seq(Nat) /\ outcome[j] \in Seq({"open", "ok", "failed"}) /\ stack[j] \in Seq(SUBSET Nat)
      /\ savepoint[j] \in Nat
  BY DEF TransactionsInv, TransactionTypes
<1>4. Len(inside) \in Nat \ {0} /\ DOMAIN inside = 1 .. Len(inside) /\ Len(stack[j]) = Len(inside) + 1
  BY <1>1, <1>2, <1>3, EmptySeq, LenProperties DEF Layered
<1>5. around \in Seq(Nat) /\ Len(around) = Len(inside) - 1 /\ \A i \in 1 .. Len(inside) - 1 : around[i] = inside[i]
  BY <1>1, <1>3, FrontOf
<1>6. \A i \in 1 .. Len(inside) : inside[i] \in 1 .. savepoint[j] /\ outcome[j][inside[i]] = "open"
  BY <1>2, <1>4 DEF Nested
<1>7. \A i, k \in 1 .. Len(inside) : inside[i] = inside[k] => i = k
  BY <1>2, <1>4 DEF Nested
<1>8. p = inside[Len(inside)] /\ p \in 1 .. savepoint[j] /\ Len(outcome[j]) = savepoint[j]
  BY <1>2, <1>4, <1>6 DEF Numbered
<1>9. /\ ends \in Seq({"open", "ok", "failed"}) /\ Len(ends) = savepoint[j]
      /\ \A q \in 1 .. savepoint[j] : ends[q] = IF q = p THEN how ELSE outcome[j][q]
  BY <1>3, <1>8, ExceptSeq
<1>10. /\ layers \in Seq(SUBSET Nat) /\ Len(layers) = Len(inside)
       /\ \A l \in 1 .. Len(inside) - 1 : layers[l] = stack[j][l]
       /\ layers[Len(inside)] = IF how = "ok" THEN stack[j][Len(inside)] \cup stack[j][Len(inside) + 1]
                                ELSE stack[j][Len(inside)]
  <2>1. Len(stack[j]) >= 2 /\ Len(stack[j]) - 1 = Len(inside) /\ Len(stack[j]) - 2 = Len(inside) - 1
    BY <1>4
  <2>2. CASE how = "ok"
    BY <1>3, <1>4, <2>1, <2>2, LayersReleased
  <2>3. CASE how # "ok"
    <3>1. Len(inside) \in 1 .. Len(inside) /\ \A l \in 1 .. Len(inside) - 1 : l \in 1 .. Len(inside)
      BY <1>4
    <3> QED BY <1>3, <2>1, <2>3, <3>1, LayersRolledBack
  <2> QED BY <2>2, <2>3
<1>11. /\ outcome'[j] = ends /\ stack'[j] = layers /\ within'[j] = around /\ wrote'[j] = wrote[j]
       /\ savepoint'[j] = savepoint[j]
       /\ \A k \in Job \ {j} : UNCHANGED <<savepoint[k], within[k], outcome[k], wrote[k], stack[k]>>
  BY <1>1 DEF TransactionsInv, TransactionTypes
<1>12. outcome' = [outcome EXCEPT ![j] = ends]
  BY <1>1
<1>13. TransactionTypes'
  BY <1>1, <1>5, <1>9, <1>10, <1>12 DEF TransactionsInv, TransactionTypes
<1>14. layers # << >>
  BY <1>4, <1>10, EmptySeq
<1> HIDE DEF inside, around, p, ends, layers
<1>15. \A w \in wrote[j] : /\ \A i \in DOMAIN w.parts : w.parts[i] \in 1 .. savepoint[j]
                           /\ DOMAIN w.parts = 1 .. Len(w.parts) /\ Len(w.parts) \in Nat
  BY <1>2, LenProperties DEF Numbered, TransactionsInv, TransactionTypes
<1>16. \A w \in wrote[j] : \A i \in 1 .. Len(w.parts) :
         outcome[j][w.parts[i]] = "open" => i <= Len(inside) /\ \A k \in 1 .. i : w.parts[k] = inside[k]
  BY <1>2, <1>15 DEF Nested, inside
<1>17. Numbered(j)'
  BY <1>2, <1>9, <1>11 DEF Numbered
<1>18. DOMAIN around = 1 .. Len(inside) - 1 /\ \A i \in 1 .. Len(inside) - 1 : inside[i] # p
  BY <1>4, <1>5, <1>7, <1>8, LenProperties
<1>19. Nested(j)'
  <2>1. \A i \in DOMAIN around : around[i] \in 1 .. savepoint[j] /\ ends[around[i]] = "open"
    <3> SUFFICES ASSUME NEW i \in 1 .. Len(inside) - 1
                 PROVE  around[i] \in 1 .. savepoint[j] /\ ends[around[i]] = "open"
      BY <1>18
    <3>1. around[i] = inside[i] /\ inside[i] # p /\ inside[i] \in 1 .. savepoint[j] /\ outcome[j][inside[i]] = "open"
      BY <1>4, <1>5, <1>6, <1>18
    <3> QED BY <1>9, <3>1
  <2>2. \A i, k \in DOMAIN around : around[i] = around[k] => i = k
    BY <1>4, <1>5, <1>7, <1>18
  <2>3. ASSUME NEW w \in wrote[j], NEW i \in DOMAIN w.parts, ends[w.parts[i]] = "open"
        PROVE  i <= Len(around) /\ \A k \in 1 .. i : w.parts[k] = around[k]
    <3>1. w.parts[i] # p /\ outcome[j][w.parts[i]] = "open" /\ i \in 1 .. Len(w.parts)
      BY <1>9, <1>15, <2>3
    <3>2. i <= Len(inside) /\ \A k \in 1 .. i : w.parts[k] = inside[k]
      BY <1>16, <3>1
    <3>3. i # Len(inside)
      BY <1>8, <3>1, <3>2
    <3>4. i <= Len(inside) - 1 /\ \A k \in 1 .. i : k \in 1 .. Len(inside) - 1
      BY <1>4, <3>1, <3>2, <3>3
    <3> QED BY <1>5, <3>2, <3>4
  <2> QED BY <1>11, <2>1, <2>2, <2>3 DEF Nested
(* A statement lies in the part that ends only if its own parts lead there. *)
<1>20. ASSUME NEW w \in wrote[j], NEW i \in 1 .. Len(w.parts), w.parts[i] = p
       PROVE  i = Len(inside) /\ \A k \in 1 .. i : w.parts[k] = inside[k]
  <2>1. outcome[j][w.parts[i]] = "open"
    BY <1>4, <1>6, <1>8, <1>20
  <2>2. i <= Len(inside) /\ \A k \in 1 .. i : w.parts[k] = inside[k]
    BY <1>16, <2>1
  <2>3. i \in 1 .. Len(inside) /\ inside[i] = inside[Len(inside)]
    BY <1>4, <1>8, <1>20, <2>2
  <2>4. Len(inside) \in 1 .. Len(inside)
    BY <1>4
  <2> QED BY <1>7, <2>2, <2>3, <2>4
<1>21. \A w \in wrote[j] : \A l \in 1 .. Len(inside) + 1 : w.n \in stack[j][l] <=> Surviving(j, w, l)
  BY <1>2, <1>4 DEF Layered
<1>22. ASSUME NEW w \in wrote[j], NEW l \in 1 .. Len(inside) - 1 PROVE Surviving(j, w, l)' <=> Surviving(j, w, l)
  <2>1. l <= Len(w.parts) + 1 => \A k \in 1 .. l - 1 : around[k] = inside[k]
    BY <1>4, <1>5
  <2>2. ASSUME NEW i \in l .. Len(w.parts), w.parts[i] = p
        PROVE  l \in l .. Len(w.parts) /\ outcome[j][w.parts[l]] # "ok" /\ ends[w.parts[l]] # "ok"
    <3>1. i \in 1 .. Len(w.parts)
      BY <1>15, <2>2
    <3>2. i = Len(inside) /\ w.parts[l] = inside[l] /\ l \in l .. Len(w.parts)
      <4>1. i = Len(inside) /\ \A k \in 1 .. i : w.parts[k] = inside[k]
        BY <1>20, <2>2, <3>1
      <4>2. l \in 1 .. i /\ l \in l .. Len(w.parts)
        BY <1>4, <1>15, <3>1, <4>1
      <4> QED BY <4>1, <4>2
    <3>3. outcome[j][inside[l]] = "open" /\ inside[l] # p /\ inside[l] \in 1 .. savepoint[j]
      BY <1>4, <1>6, <1>18
    <3> QED BY <1>9, <3>2, <3>3
  <2>3. \A i \in l .. Len(w.parts) : w.parts[i] # p => ends[w.parts[i]] = outcome[j][w.parts[i]]
    BY <1>9, <1>15
  <2> QED BY <1>11, <2>1, <2>2, <2>3 DEF Surviving, inside
<1>23. ASSUME NEW w \in wrote[j], NEW l, l = Len(inside)
       PROVE  Surviving(j, w, l)' <=> w.n \in layers[l]
  <2>1. \A k \in 1 .. l - 1 : around[k] = inside[k]
    BY <1>5, <1>23
  <2>2. l \in 1 .. Len(inside) + 1 /\ l + 1 \in 1 .. Len(inside) + 1 /\ l \in Nat \ {0}
    BY <1>4, <1>23
  <2>3. w.n \in layers[l] <=> Surviving(j, w, l) \/ (how = "ok" /\ Surviving(j, w, l + 1))
    BY <1>10, <1>21, <1>23, <2>2
  <2>4. \A i \in l .. Len(w.parts) : w.parts[i] # p => ends[w.parts[i]] = outcome[j][w.parts[i]]
    BY <1>9, <1>15, <2>2
  <2>5. CASE l <= Len(w.parts) /\ w.parts[l] = p
    <3>1. l \in 1 .. Len(w.parts) /\ l \in l .. Len(w.parts)
      BY <1>15, <2>2, <2>5
    <3>2. \A k \in 1 .. l : w.parts[k] = inside[k]
      BY <1>20, <2>5, <3>1
    <3>3. ~Surviving(j, w, l)
      <4>1. outcome[j][w.parts[l]] = "open"
        BY <1>4, <1>6, <1>8, <2>5
      <4> QED BY <3>1, <4>1 DEF Surviving
    <3>4. ends[w.parts[l]] = how
      BY <1>8, <1>9, <2>5
    <3>5. \A i \in l + 1 .. Len(w.parts) : w.parts[i] # p
      BY <1>15, <1>20, <1>23, <2>2
    <3>6. CASE how = "ok"
      <4>1. Surviving(j, w, l)' <=> \A i \in l .. Len(w.parts) : ends[w.parts[i]] = "ok"
        BY <1>11, <2>1, <2>2, <2>5, <3>2 DEF Surviving
      <4>2. Surviving(j, w, l + 1) <=> \A i \in l + 1 .. Len(w.parts) : outcome[j][w.parts[i]] = "ok"
        <5>1. l + 1 <= Len(w.parts) + 1 /\ \A k \in 1 .. (l + 1) - 1 : w.parts[k] = within[j][k]
          BY <1>15, <2>2, <2>5, <3>2 DEF inside
        <5> QED BY <5>1 DEF Surviving
      <4>3. \A i \in l .. Len(w.parts) : i = l \/ i \in l + 1 .. Len(w.parts)
        BY <2>2
      <4>4. \A i \in l + 1 .. Len(w.parts) : i \in l .. Len(w.parts) /\ ends[w.parts[i]] = outcome[j][w.parts[i]]
        BY <1>15, <2>2, <2>4, <3>5
      <4> QED BY <2>3, <3>3, <3>4, <3>6, <4>1, <4>2, <4>3, <4>4
    <3>7. CASE how # "ok"
      <4>1. ~Surviving(j, w, l)'
        BY <1>11, <3>1, <3>4, <3>7 DEF Surviving
      <4> QED BY <2>3, <3>3, <3>7, <4>1
    <3> QED BY <3>6, <3>7
  <2>6. CASE ~(l <= Len(w.parts) /\ w.parts[l] = p)
    <3>1. \A i \in l .. Len(w.parts) : w.parts[i] # p
      BY <1>15, <1>20, <1>23, <2>2, <2>6
    <3>2. Surviving(j, w, l)' <=> Surviving(j, w, l)
      BY <1>11, <2>1, <2>4, <3>1 DEF Surviving, inside
    <3>3. ~Surviving(j, w, l + 1)
      <4>1. l \in 1 .. (l + 1) - 1 /\ (l + 1 <= Len(w.parts) + 1 => l <= Len(w.parts))
        BY <1>15, <2>2
      <4> QED BY <1>8, <1>23, <2>6, <4>1 DEF Surviving, inside
    <3> QED BY <2>3, <3>2, <3>3
  <2> QED BY <2>5, <2>6
<1>24. Layered(j)'
  <2>1. Len(layers) = Len(around) + 1
    BY <1>4, <1>5, <1>10
  <2>2. ASSUME NEW l \in 1 .. Len(layers)
        PROVE  /\ \A n \in layers[l] : \E w \in wrote[j] : w.n = n
               /\ \A w \in wrote[j] : w.n \in layers[l] <=> Surviving(j, w, l)'
    <3>1. l \in 1 .. Len(inside) - 1 \/ l = Len(inside)
      <4>1. l \in 1 .. Len(inside) /\ Len(inside) \in Nat
        BY <1>4, <1>10
      <4> QED BY <4>1
    <3>2. \A m \in 1 .. Len(inside) + 1 : \A n \in stack[j][m] : \E w \in wrote[j] : w.n = n
      BY <1>2, <1>4 DEF Layered
    <3>3. CASE l \in 1 .. Len(inside) - 1
      <4>1. layers[l] = stack[j][l] /\ l \in 1 .. Len(inside) + 1
        BY <1>4, <1>10, <3>3
      <4> QED BY <1>21, <1>22, <3>2, <3>3, <4>1
    <3>4. CASE l = Len(inside)
      <4>1. \A n \in layers[l] : n \in stack[j][Len(inside)] \/ n \in stack[j][Len(inside) + 1]
        BY <1>10, <3>4
      <4>2. Len(inside) \in 1 .. Len(inside) + 1 /\ Len(inside) + 1 \in 1 .. Len(inside) + 1
        BY <1>4
      <4> QED BY <1>23, <3>2, <3>4, <4>1, <4>2
    <3> QED BY <3>1, <3>3, <3>4
  <2> QED BY <1>11, <2>1, <2>2 DEF Layered
<1> QED BY <1>1, <1>11, <1>13, <1>14, <1>17, <1>19, <1>24, WorkingStays DEF JobInv

(* A commit makes the outermost layer durable.                             *)
LEMMA CommitStays == ASSUME TransactionsInv, NEW j \in Job, Commit(j) PROVE TransactionsInv'
<1>1. /\ work[j] = "running" /\ within[j] = << >> /\ durable' = durable \union {<<j, n>> : n \in stack[j][1]}
      /\ stack' = [stack EXCEPT ![j] = << >>] /\ Leave(j, "done")
      /\ UNCHANGED <<driver, opened, current, shut, single, savepoint, within, outcome, wrote>>
  BY DEF Commit, Running
<1>2. LinesInv' /\ line' \in [Connection -> Seq(Job)] /\ work' = [work EXCEPT ![j] = "done"]
  BY <1>1, LeavingStays DEF TransactionsInv
<1>3. TransactionTypes'
  <2>1. << >> \in Seq(SUBSET Nat)
    OBVIOUS
  <2> QED BY <1>1, <1>2, <2>1 DEF TransactionsInv, TransactionTypes
<1>4. JobsInv'
  BY <1>1, <1>2 DEF TransactionsInv, TransactionTypes, JobsInv
<1>5. ASSUME NEW k \in Job PROVE JobInv(k)'
  <2>1. CASE k # j
    BY <1>1, <1>2, <2>1, OthersStay DEF TransactionsInv, TransactionTypes
  <2>2. CASE k = j
    BY <1>1, <1>2, <2>2 DEF TransactionsInv, TransactionTypes, JobInv, Numbered
  <2> QED BY <2>1, <2>2
<1>6. stack[j][1] = {w.n : w \in {w \in wrote'[j] : Stands(j, w)'}}
  <2>1. /\ \A n \in stack[j][1] : \E w \in wrote[j] : w.n = n
        /\ \A w \in wrote[j] : w.n \in stack[j][1] <=> Surviving(j, w, 1)
    <3>1. Layered(j) /\ Len(within[j]) = 0 /\ 1 \in 1 .. Len(within[j]) + 1
      BY <1>1 DEF TransactionsInv, JobInv
    <3> QED BY <3>1 DEF Layered
  <2>2. ASSUME NEW w \in wrote[j] PROVE Surviving(j, w, 1) <=> Stands(j, w)'
    <3>1. w.parts \in Seq(Nat) /\ Len(w.parts) \in Nat /\ DOMAIN w.parts = 1 .. Len(w.parts)
      BY LenProperties DEF TransactionsInv, TransactionTypes
    <3> QED BY <1>1, <3>1 DEF Surviving, Stands
  <2> QED BY <1>1, <2>1, <2>2
<1>7. DurableInv'
  BY <1>1, <1>2, <1>6, DurableGrows DEF TransactionsInv, TransactionTypes
<1> QED BY <1>2, <1>3, <1>4, <1>5, <1>7 DEF TransactionsInv

(* A rollback makes nothing durable.                                       *)
LEMMA RollbackStays == ASSUME TransactionsInv, NEW j \in Job, Rollback(j) PROVE TransactionsInv'
<1>1. /\ work[j] = "running" /\ stack' = [stack EXCEPT ![j] = << >>] /\ Leave(j, "failed")
      /\ UNCHANGED <<driver, opened, current, shut, single, savepoint, within, outcome, wrote, durable>>
  BY DEF Rollback, Running
<1>2. LinesInv' /\ line' \in [Connection -> Seq(Job)] /\ work' = [work EXCEPT ![j] = "failed"]
  BY <1>1, LeavingStays DEF TransactionsInv
<1>3. TransactionTypes'
  <2>1. << >> \in Seq(SUBSET Nat)
    OBVIOUS
  <2> QED BY <1>1, <1>2, <2>1 DEF TransactionsInv, TransactionTypes
<1>4. JobsInv'
  BY <1>1, <1>2 DEF TransactionsInv, TransactionTypes, JobsInv
<1>5. DurableInv'
  BY <1>1, <1>2, DurableStays DEF TransactionsInv, TransactionTypes
<1>6. ASSUME NEW k \in Job PROVE JobInv(k)'
  <2>1. CASE k # j
    BY <1>1, <1>2, <2>1, OthersStay DEF TransactionsInv, TransactionTypes
  <2>2. CASE k = j
    BY <1>1, <1>2, <2>2 DEF TransactionsInv, TransactionTypes, JobInv, Numbered
  <2> QED BY <2>1, <2>2
<1> QED BY <1>2, <1>3, <1>4, <1>5, <1>6 DEF TransactionsInv

(* Every step keeps the layers and what is durable.                        *)
LEMMA TransactionsStay == TransactionsInv /\ [TransactionsNext]_transactionVars => TransactionsInv'
<1> SUFFICES ASSUME TransactionsInv, [TransactionsNext]_transactionVars PROVE TransactionsInv'
  OBVIOUS
<1>1. CASE End
  <2>1. current # 0 /\ shut' = [shut EXCEPT ![current] = "closing"] /\ current' = 0
        /\ UNCHANGED <<driver, opened, line, work, single, savepoint, within, outcome, wrote, stack, durable>>
    BY <1>1 DEF End
  <2>2. TransactionTypes'
    <3>1. current' \in 0 .. opened'
      BY <2>1, TransactionsAssumption DEF TransactionsInv, TransactionTypes
    <3>2. shut' \in [Connection -> {"open", "closing", "closed"}]
      BY <2>1 DEF TransactionsInv, TransactionTypes
    <3> QED BY <2>1, <3>1, <3>2 DEF TransactionsInv, TransactionTypes
  <2>3. LinesInv' /\ JobsInv'
    BY <2>1 DEF TransactionsInv, TransactionTypes, LinesInv, JobsInv
  <2>4. DurableInv' /\ \A k \in Job : JobInv(k)'
    BY <2>1, DurableStays, OthersStay DEF TransactionsInv
  <2> QED BY <2>2, <2>3, <2>4 DEF TransactionsInv
<1>2. ASSUME NEW c \in Connection, Close(c) PROVE TransactionsInv'
  <2>1. shut[c] = "closing" /\ line[c] = << >> /\ shut' = [shut EXCEPT ![c] = "closed"]
        /\ UNCHANGED <<driver, opened, current, line, work, single, savepoint, within, outcome, wrote, stack, durable>>
    BY <1>2 DEF Close
  <2>2. TransactionTypes'
    <3>1. shut' \in [Connection -> {"open", "closing", "closed"}]
      BY <2>1 DEF TransactionsInv, TransactionTypes
    <3> QED BY <2>1, <3>1 DEF TransactionsInv, TransactionTypes
  <2>3. LinesInv' /\ JobsInv'
    BY <2>1 DEF TransactionsInv, TransactionTypes, LinesInv, JobsInv
  <2>4. DurableInv' /\ \A k \in Job : JobInv(k)'
    BY <2>1, DurableStays, OthersStay DEF TransactionsInv
  <2> QED BY <2>2, <2>3, <2>4 DEF TransactionsInv
<1>3. CASE UNCHANGED transactionVars
  <2>1. TransactionTypes' /\ LinesInv' /\ JobsInv'
    BY <1>3 DEF transactionVars, TransactionsInv, TransactionTypes, LinesInv, JobsInv
  <2>2. DurableInv' /\ \A k \in Job : JobInv(k)'
    BY <1>3, DurableStays, OthersStay DEF transactionVars, TransactionsInv
  <2> QED BY <2>1, <2>2 DEF TransactionsInv
<1>4. (\E j \in Job : EscapedPart(j)) => UNCHANGED transactionVars
  BY DEF EscapedPart
<1> QED BY <1>1, <1>2, <1>3, <1>4, RequestStays, RunQueryStays, BeginWorkStays, WriteRowStays, OpenPartStays,
           ClosePartStays, CommitStays, RollbackStays DEF TransactionsNext

\* The database holds for good what finished jobs wrote outside parts that failed, and nothing
\* else; SQLite runs one transaction at a time; nobody waits on a closed connection
\* (createSqliteDatabase, serialize, the savepoints of a transaction, end).
THEOREM TransactionsStayWhole == TransactionsSpec => []TransactionsAreWhole
<1>1. TransactionsInit => TransactionsInv
  <2> SUFFICES ASSUME TransactionsInit PROVE TransactionsInv
    OBVIOUS
  <2>1. << >> \in Seq(Nat) /\ << >> \in Seq(SUBSET Nat) /\ << >> \in Seq({"open", "ok", "failed"}) /\ << >> \in Seq(Job)
        /\ Len(<< >>) = 0
    BY EmptySeq
  <2>2. TransactionTypes
    BY <2>1, TransactionsAssumption DEF TransactionsInit, TransactionTypes
  <2>3. LinesInv /\ JobsInv /\ DurableInv
    BY <2>1 DEF TransactionsInit, LinesInv, JobsInv, DurableInv
  <2>4. ASSUME NEW j \in Job PROVE JobInv(j)
    BY <2>1, FS_EmptySet DEF TransactionsInit, JobInv, Numbered
  <2> QED BY <2>2, <2>3, <2>4 DEF TransactionsInv
<1>2. TransactionsInv => TransactionsAreWhole
  <2> SUFFICES ASSUME TransactionsInv PROVE TransactionsAreWhole
    OBVIOUS
  <2>1. ASSUME driver = "sqlite" PROVE Cardinality({j \in Job : Running(j)}) <= 1
    <3> DEFINE R == {j \in Job : Running(j)}
    <3>1. \A j, k \in R : j = k
      BY <2>1 DEF TransactionsInv, JobsInv, Running
    <3> HIDE DEF R
    <3>2. CASE R = {}
      BY <3>2, FS_EmptySet DEF R
    <3>3. CASE R # {}
      <4>1. PICK j \in R : TRUE
        BY <3>3
      <4>2. R = {j}
        BY <3>1, <4>1
      <4>3. Cardinality(R) = 1
        BY <4>2, FS_Singleton
      <4> QED BY <4>3 DEF R
    <3> QED BY <3>2, <3>3
  <2> QED BY <2>1 DEF TransactionsInv, LinesInv, DurableInv, TransactionsAreWhole
<1> QED BY <1>1, <1>2, TransactionsStay, PTL DEF TransactionsSpec

-----------------------------------------------------------------------------
(* Files that customers send.                                              *)

Handling ==
  {"queued", "gone", "downloading", "transcribing", "saving", "answering", "done", "failed"} \cup RefusalSteps

SameFile(p) == {q \in Post : Posts[q].content = Posts[p].content}
Lost(p) == {Posts[q].from : q \in SameFile(p)} \cap erased # {}

MediaTypes ==
  /\ handling \in [Post -> Handling] /\ media \in [Post -> {"none", "failed", "downloaded", "transcribed"}]
  /\ removing \in [Sender -> SUBSET Content] /\ troubles \in Nat /\ erased \subseteq Sender

(* Files are removed for customers who were erased, and their own only.    *)
RemovesOwn ==
  \A c \in Sender : \A content \in removing[c] :
    c \in erased /\ \E q \in Post : Posts[q].from = c /\ Posts[q].content = content

(* Who has come as far as reading or naming a file has put it there.       *)
FileIsThere(p) ==
  /\ handling[p] \in {"downloading", "transcribing", "saving"} => Filed(p)
  /\ handling[p] \in {"transcribing", "saving"} \/ media[p] \in {"downloaded", "transcribed"} =>
       Lost(p) \/ Posts[p].content \in folder

(* What each step of a refusal finds done, while the customer is there.    *)
StepsDone(p) ==
  Posts[p].from \notin erased =>
    /\ handling[p] \in {"answering", "done"} /\ Filed(p) => media[p] # "none"
    /\ handling[p] \in {"marking", "apologising", "handing over", "alerting", "failed"} => p \in refused
    /\ handling[p] \in {"apologising", "handing over", "alerting", "failed"} /\ Filed(p) => media[p] # "none" \/ p \in unmarked
    /\ handling[p] \in {"handing over", "alerting", "failed"} => p \in apologies
    /\ handling[p] \in {"alerting", "failed"} => Posts[p].from \in handed
    /\ handling[p] = "failed" => p \in alerts

MediaInv ==
  /\ MediaTypes /\ RemovesOwn /\ (partial # {} => troubles > 0)
  /\ \A p \in Post : FileIsThere(p) /\ StepsDone(p)

(* A file is lost to erasures only.                                        *)
LEMMA LostStays ==
  ASSUME NEW q \in Post, UNCHANGED erased
  PROVE  Lost(q)' <=> Lost(q)
BY DEF Lost, SameFile

(* What is left when nothing is erased or removed.                         *)
LEMMA OwnStays ==
  ASSUME MediaInv, UNCHANGED <<erased, removing>>, MediaTypes', partial' # {} => troubles' > 0,
         \A q \in Post : FileIsThere(q)' /\ StepsDone(q)'
  PROVE  MediaInv'
BY DEF MediaInv, RemovesOwn

(* Every step keeps what is on record and told, and the files that rows    *)
(* name.                                                                   *)
LEMMA MediaStays == MediaInv /\ [MediaNext]_mediaVars => MediaInv'
<1> SUFFICES ASSUME MediaInv, [MediaNext]_mediaVars PROVE MediaInv'
  OBVIOUS
<1>1. CASE UNCHANGED mediaVars
  <2>1. MediaTypes' /\ UNCHANGED <<erased, removing>> /\ (partial' # {} => troubles' > 0)
    BY <1>1 DEF mediaVars, MediaInv, MediaTypes
  <2>2. ASSUME NEW q \in Post PROVE FileIsThere(q)' /\ StepsDone(q)'
    BY <1>1, LostStays DEF mediaVars, MediaInv, FileIsThere, StepsDone, Filed
  <2> QED BY <2>1, <2>2, OwnStays
<1>2. ASSUME NEW p \in Post, Take(p) PROVE MediaInv'
  <2>1. MediaTypes'
    BY <1>2 DEF Take, Understood, MediaInv, MediaTypes, Handling, RefusalSteps
  <2>2. UNCHANGED <<erased, removing>> /\ folder \subseteq folder' /\ (partial' # {} => troubles' > 0)
    BY <1>2 DEF Take, Understood, MediaInv, MediaTypes
  <2>3. ASSUME NEW q \in Post PROVE FileIsThere(q)'
    BY <1>2, <2>2, LostStays DEF Take, Understood, MediaInv, MediaTypes, FileIsThere, RefusalSteps, Filed
  <2>4. ASSUME NEW q \in Post PROVE StepsDone(q)'
    BY <1>2, <2>2 DEF Take, Understood, MediaInv, MediaTypes, StepsDone, RefusalSteps, Filed
  <2> QED BY <2>1, <2>2, <2>3, <2>4, OwnStays
<1>3. ASSUME NEW p \in Post, Fetch(p) PROVE MediaInv'
  <2>1. MediaTypes'
    BY <1>3 DEF Fetch, MediaInv, MediaTypes, Handling, RefusalSteps
  <2>2. UNCHANGED <<erased, removing>> /\ folder \subseteq folder' /\ (partial' # {} => troubles' > 0)
    BY <1>3 DEF Fetch, MediaInv, MediaTypes
  <2>3. ASSUME NEW q \in Post PROVE FileIsThere(q)'
    BY <1>3, <2>2, LostStays DEF Fetch, MediaInv, MediaTypes, FileIsThere, RefusalSteps, Filed
  <2>4. ASSUME NEW q \in Post PROVE StepsDone(q)'
    BY <1>3, <2>2 DEF Fetch, MediaInv, MediaTypes, StepsDone, RefusalSteps, Filed
  <2> QED BY <2>1, <2>2, <2>3, <2>4, OwnStays
<1>4. ASSUME NEW p \in Post, Transcribe(p) PROVE MediaInv'
  <2>1. MediaTypes'
    BY <1>4 DEF Transcribe, MediaInv, MediaTypes, Handling, RefusalSteps
  <2>2. UNCHANGED <<erased, removing>> /\ folder \subseteq folder' /\ (partial' # {} => troubles' > 0)
    BY <1>4 DEF Transcribe, MediaInv, MediaTypes
  <2>3. ASSUME NEW q \in Post PROVE FileIsThere(q)'
    BY <1>4, <2>2, LostStays DEF Transcribe, MediaInv, MediaTypes, FileIsThere, RefusalSteps, Filed
  <2>4. ASSUME NEW q \in Post PROVE StepsDone(q)'
    BY <1>4, <2>2 DEF Transcribe, MediaInv, MediaTypes, StepsDone, RefusalSteps, Filed
  <2> QED BY <2>1, <2>2, <2>3, <2>4, OwnStays
<1>5. ASSUME NEW p \in Post, Save(p) PROVE MediaInv'
  <2>1. MediaTypes'
    BY <1>5 DEF Save, Inserted, MediaInv, MediaTypes, Handling, RefusalSteps
  <2>2. UNCHANGED <<erased, removing>> /\ folder \subseteq folder' /\ (partial' # {} => troubles' > 0)
    BY <1>5 DEF Save, Inserted, MediaInv, MediaTypes
  <2>3. ASSUME NEW q \in Post PROVE FileIsThere(q)'
    BY <1>5, <2>2, LostStays DEF Save, Inserted, MediaInv, MediaTypes, FileIsThere, RefusalSteps, Filed
  <2>4. ASSUME NEW q \in Post PROVE StepsDone(q)'
    BY <1>5, <2>2 DEF Save, Inserted, MediaInv, MediaTypes, StepsDone, RefusalSteps, Filed
  <2> QED BY <2>1, <2>2, <2>3, <2>4, OwnStays
<1>6. ASSUME NEW p \in Post, Answered(p) PROVE MediaInv'
  <2>1. MediaTypes'
    BY <1>6 DEF Answered, MediaInv, MediaTypes, Handling, RefusalSteps
  <2>2. UNCHANGED <<erased, removing>> /\ folder \subseteq folder' /\ (partial' # {} => troubles' > 0)
    BY <1>6 DEF Answered, MediaInv, MediaTypes
  <2>3. ASSUME NEW q \in Post PROVE FileIsThere(q)'
    BY <1>6, <2>2, LostStays DEF Answered, MediaInv, MediaTypes, FileIsThere, RefusalSteps, Filed
  <2>4. ASSUME NEW q \in Post PROVE StepsDone(q)'
    BY <1>6, <2>2 DEF Answered, MediaInv, MediaTypes, StepsDone, RefusalSteps, Filed
  <2> QED BY <2>1, <2>2, <2>3, <2>4, OwnStays
<1>7. ASSUME NEW p \in Post, Refuse(p) PROVE MediaInv'
  <2>1. MediaTypes'
    BY <1>7 DEF Refuse, Inserted, After, MediaInv, MediaTypes, Handling, RefusalSteps
  <2>2. UNCHANGED <<erased, removing>> /\ folder \subseteq folder' /\ (partial' # {} => troubles' > 0)
    BY <1>7 DEF Refuse, Inserted, After, MediaInv, MediaTypes
  <2>3. ASSUME NEW q \in Post PROVE FileIsThere(q)'
    BY <1>7, <2>2, LostStays DEF Refuse, Inserted, After, MediaInv, MediaTypes, FileIsThere, RefusalSteps, Filed
  <2>4. ASSUME NEW q \in Post PROVE StepsDone(q)'
    BY <1>7, <2>2 DEF Refuse, Inserted, After, MediaInv, MediaTypes, StepsDone, RefusalSteps, Filed
  <2> QED BY <2>1, <2>2, <2>3, <2>4, OwnStays
<1>8. ASSUME NEW p \in Post, Stumble(p) PROVE MediaInv'
  <2>1. MediaTypes'
    <3>1. troubles' \in Nat
      BY <1>8 DEF Stumble, MediaInv, MediaTypes
    <3> QED BY <1>8, <3>1 DEF Stumble, MediaInv, MediaTypes, Handling
  <2>2. UNCHANGED <<erased, removing>> /\ folder \subseteq folder' /\ (partial' # {} => troubles' > 0)
    BY <1>8 DEF Stumble, MediaInv, MediaTypes
  <2>3. ASSUME NEW q \in Post PROVE FileIsThere(q)'
    BY <1>8, <2>2, LostStays DEF Stumble, MediaInv, MediaTypes, FileIsThere, RefusalSteps, Filed
  <2>4. ASSUME NEW q \in Post PROVE StepsDone(q)'
    BY <1>8, <2>2 DEF Stumble, MediaInv, MediaTypes, StepsDone, RefusalSteps, Filed
  <2> QED BY <2>1, <2>2, <2>3, <2>4, OwnStays
<1>12. ASSUME NEW p \in Post, RefuseUnmarked(p) PROVE MediaInv'
  <2>1. MediaTypes'
    <3>1. troubles' \in Nat
      BY <1>12 DEF RefuseUnmarked, After, MediaInv, MediaTypes
    <3> QED BY <1>12, <3>1 DEF RefuseUnmarked, After, MediaInv, MediaTypes, Handling, RefusalSteps
  <2>2. UNCHANGED <<erased, removing>> /\ folder \subseteq folder' /\ (partial' # {} => troubles' > 0)
    BY <1>12 DEF RefuseUnmarked, After, MediaInv, MediaTypes
  <2>3. ASSUME NEW q \in Post PROVE FileIsThere(q)'
    BY <1>12, <2>2, LostStays DEF RefuseUnmarked, After, MediaInv, MediaTypes, FileIsThere, RefusalSteps, Filed
  <2>4. ASSUME NEW q \in Post PROVE StepsDone(q)'
    BY <1>12, <2>2 DEF RefuseUnmarked, After, MediaInv, MediaTypes, StepsDone, RefusalSteps, Filed
  <2> QED BY <2>1, <2>2, <2>3, <2>4, OwnStays
<1>9. CASE Die
  <2>1. MediaTypes' /\ UNCHANGED erased /\ troubles' > 0
    <3>1. troubles' \in Nat /\ troubles' > 0 /\ UNCHANGED erased
      BY <1>9 DEF Die, MediaInv, MediaTypes
    <3>2. handling' \in [Post -> Handling]
      BY <1>9 DEF Die, MediaInv, MediaTypes, Handling
    <3>3. removing' \in [Sender -> SUBSET Content]
      BY <1>9 DEF Die
    <3> QED BY <1>9, <3>1, <3>2, <3>3 DEF Die, MediaInv, MediaTypes
  <2>2. RemovesOwn'
    BY <1>9 DEF Die, RemovesOwn
  <2>3. ASSUME NEW q \in Post PROVE FileIsThere(q)'
    BY <1>9, <2>1, LostStays DEF Die, MediaInv, MediaTypes, FileIsThere, Filed
  <2>4. ASSUME NEW q \in Post PROVE StepsDone(q)'
    BY <1>9, <2>1 DEF Die, MediaInv, MediaTypes, StepsDone, Filed
  <2> QED BY <2>1, <2>2, <2>3, <2>4 DEF MediaInv
<1>10. ASSUME NEW c \in Sender, EraseRows(c) PROVE MediaInv'
  <2>1. MediaTypes'
    <3>1. {Posts[q].content : q \in {r \in {r \in Post : Posts[r].from = c} : media[r] \in {"downloaded", "transcribed"}}} \subseteq Content
      BY DEF Content
    <3>2. removing' \in [Sender -> SUBSET Content]
      BY <1>10, <3>1 DEF EraseRows, MediaInv, MediaTypes
    <3> QED BY <1>10, <3>2 DEF EraseRows, MediaInv, MediaTypes, Handling
  <2>2. RemovesOwn'
    BY <1>10 DEF EraseRows, MediaInv, MediaTypes, RemovesOwn
  <2>3. ASSUME NEW q \in Post PROVE FileIsThere(q)' /\ StepsDone(q)'
    <3>1. Lost(q) => Lost(q)'
      BY <1>10 DEF EraseRows, Lost, SameFile
    <3>2. FileIsThere(q)'
      BY <1>10, <3>1 DEF EraseRows, MediaInv, MediaTypes, FileIsThere, Filed
    <3>3. StepsDone(q)'
      BY <1>10 DEF EraseRows, MediaInv, MediaTypes, StepsDone, Filed
    <3> QED BY <3>2, <3>3
  <2> QED BY <1>10, <2>1, <2>2, <2>3 DEF EraseRows, MediaInv
<1>11. ASSUME NEW c \in Sender, RemoveFile(c) PROVE MediaInv'
  <2>1. PICK content \in removing[c] :
          folder' = folder \ {content} /\ removing' = [removing EXCEPT ![c] = @ \ {content}]
    BY <1>11 DEF RemoveFile
  <2>2. UNCHANGED <<handling, partial, media, refused, apologies, alerts, handed, erased, unmarked, troubles>>
    BY <1>11 DEF RemoveFile
  <2>3. MediaTypes' /\ RemovesOwn'
    BY <2>1, <2>2 DEF MediaInv, MediaTypes, RemovesOwn
  <2>4. ASSUME NEW q \in Post PROVE FileIsThere(q)'
    <3>1. ASSUME Posts[q].content = content PROVE Lost(q)
      BY <2>1, <3>1 DEF MediaInv, RemovesOwn, Lost, SameFile
    <3> QED BY <2>1, <2>2, <3>1, LostStays DEF MediaInv, FileIsThere, Filed
  <2>5. ASSUME NEW q \in Post PROVE StepsDone(q)'
    BY <2>2 DEF MediaInv, StepsDone, Filed
  <2> QED BY <2>2, <2>3, <2>4, <2>5 DEF MediaInv
<1> QED BY <1>1, <1>2, <1>3, <1>4, <1>5, <1>6, <1>7, <1>8, <1>9, <1>10, <1>11, <1>12 DEF MediaNext

\* A row names a file that is there; what was answered has its row, and what was refused is
\* recorded as failed and told, with its row unless the insertion of it failed, whatever else
\* failed on the way (materialize, rejectMediaInput, deleteCustomerData).
THEOREM MediaStaysKept == MediaSpec => []MediaIsKept
<1>1. MediaInit => MediaInv
  <2> SUFFICES ASSUME MediaInit PROVE MediaInv
    OBVIOUS
  <2>1. MediaTypes /\ RemovesOwn /\ partial = {}
    BY DEF MediaInit, MediaTypes, RemovesOwn, Handling
  <2>2. ASSUME NEW p \in Post PROVE FileIsThere(p) /\ StepsDone(p)
    BY DEF MediaInit, FileIsThere, StepsDone
  <2> QED BY <2>1, <2>2 DEF MediaInv
<1>2. MediaInv => MediaIsKept
  BY DEF MediaInv, MediaTypes, FileIsThere, StepsDone, Lost, SameFile, MediaIsKept
<1> QED BY <1>1, <1>2, MediaStays, PTL DEF MediaSpec

-----------------------------------------------------------------------------
(* The migrations of the database.                                         *)

RequestRow == [of : Chat, resolved : BOOLEAN, status : {"unknown", "waiting", "resolved"}]

SchemaTypes ==
  /\ recorded \subseteq 1..LastVersion /\ requests \in Seq(RequestRow) /\ awaited \in [Chat -> Nat]
  /\ letters \in [Chat -> {"pending", "completed"}] /\ phone \in [Chat -> {"absent", "none", "own", "given"}]
  /\ server \in {"down", "migrating", "backfilled", "serving"}

(* Versions are applied in order, and the program serves after the last.   *)
VersionsInv ==
  /\ \A v \in recorded : 1..v \subseteq recorded
  /\ server \in {"backfilled", "serving"} =>
       recorded = 1..LastVersion /\ \A c \in Chat : KindOf[c] = "person" => phone[c] # "none"

(* A table that is there has what creates it and what was added since.     *)
Holding(db, new) == \A t \in DOMAIN new \cap DOMAIN db : new[t] \subseteq db[t]
Extended(db, v) == \A t \in DOMAIN Added(v) : t \in DOMAIN db /\ Added(v)[t] \subseteq db[t]

TablesInv ==
  /\ Holding(tables, PostgresBaseline) /\ Holding(tables, Lifecycle)
  /\ 1 \in recorded => DOMAIN PostgresBaseline \subseteq DOMAIN tables
  /\ 2 \in recorded => DOMAIN Lifecycle \subseteq DOMAIN tables
  /\ \A v \in recorded : Extended(tables, v)

(* What each version has made true of the rows stays true.                 *)
RowsInv ==
  /\ 5 \in recorded => \A i \in DOMAIN requests : ~requests[i].resolved => requests[i].status = "waiting"
  /\ 7 \in recorded => unique
  /\ unique => \A c \in Chat : \A i, k \in Active(requests, c) : i = k
  /\ 11 \in recorded => \A c \in Chat : KindOf[c] = "group" => Active(requests, c) = {} /\ letters[c] = "completed"

WaitingInv ==
  \A c \in Chat : KindOf[c] # "group" =>
    /\ awaited[c] # 0 => Newest(Active(requests, c)) = awaited[c]
    /\ letters[c] = "pending" <=> c \in owed

SchemaInv == SchemaTypes /\ VersionsInv /\ TablesInv /\ RowsInv /\ WaitingInv

(* What one version creates is no table of another.                        *)
LEMMA CreatedApart ==
  ASSUME NEW v \in 1..LastVersion, NEW new \in Created(v)
  PROVE  /\ v # 1 => DOMAIN new \cap DOMAIN PostgresBaseline = {}
         /\ v # 2 => DOMAIN new \cap DOMAIN Lifecycle = {}
         /\ v = 1 => DOMAIN new = DOMAIN PostgresBaseline /\ Holding(new, PostgresBaseline)
         /\ v = 2 => new = Lifecycle
<1> DEFINE Base == {"auth_keys", "chat_history", "leads", "handoff_log", "chat_state", "orders", "lookup_cache",
                    "inbound_messages", "outbound_messages"}
           Life == {"audit_events", "payment_events", "outbound_intents"}
<1>1. DOMAIN PostgresBaseline = Base /\ DOMAIN SqliteBaseline = Base
  BY DEF PostgresBaseline, SqliteBaseline
<1>2. DOMAIN Lifecycle = Life
  BY DEF Lifecycle
<1>3. DOMAIN BackupRuns = {"backup_runs"} /\ DOMAIN MediaInput = {"inbound_media", "inbound_media_failures"}
      /\ DOMAIN PackageD = {"communication_preferences"}
  BY DEF BackupRuns, MediaInput, PackageD
<1>4. DOMAIN PackageE = {"knowledge_corpus_versions", "knowledge_documents", "knowledge_chunks",
                         "knowledge_ingestion_jobs", "knowledge_active_corpus"}
  BY DEF PackageE
<1>5. DOMAIN << >> = {}
  OBVIOUS
<1>6. Holding(SqliteBaseline, PostgresBaseline)
  <2> DEFINE F == PostgresBaseline
  <2>1. \A t \in Base : F[t] \subseteq [F EXCEPT !["orders"] = @ \union OrderDetails][t]
    <3>1. DOMAIN F = Base
      BY <1>1
    <3> HIDE DEF F
    <3> QED BY <3>1
  <2> QED BY <1>1, <2>1 DEF Holding, SqliteBaseline
<1>7. Holding(PostgresBaseline, PostgresBaseline)
  BY DEF Holding
<1>8. CASE v = 1
  <2>1. new = PostgresBaseline \/ new = SqliteBaseline
    BY <1>8 DEF Created
  <2>2. Base \cap Life = {}
    OBVIOUS
  <2> HIDE DEF Base, Life
  <2> QED BY <1>1, <1>2, <1>6, <1>7, <1>8, <2>1, <2>2
<1>9. CASE v # 1
  <2>1. \/ v = 2 /\ new = Lifecycle
        \/ v # 2 /\ (new = BackupRuns \/ new = MediaInput \/ new = PackageD \/ new = PackageE \/ new = << >>)
    BY <1>9 DEF Created
  <2>2. DOMAIN new \cap Base = {} /\ (v # 2 => DOMAIN new \cap Life = {})
    BY <1>2, <1>3, <1>4, <1>5, <2>1
  <2> QED BY <1>1, <1>2, <1>9, <2>1, <2>2
<1> QED BY <1>8, <1>9

(* A migration takes no column away.                                       *)
LEMMA MigrationAdds ==
  ASSUME NEW db, NEW v, NEW new
  PROVE  LET m == Migrated(db, v, new)
         IN  /\ DOMAIN m = DOMAIN db \cup DOMAIN new
             /\ \A t \in DOMAIN db : db[t] \subseteq m[t]
             /\ \A t \in DOMAIN new \ DOMAIN db : new[t] \subseteq m[t]
             /\ \A t \in DOMAIN m \cap DOMAIN Added(v) : Added(v)[t] \subseteq m[t]
<1>1. \A t \in DOMAIN Added(v) : Columns(Added(v), t) = Added(v)[t]
  BY DEF Columns
<1> QED BY <1>1 DEF Migrated

(* Columns are added to tables of the first two versions.                  *)
LEMMA AddedTo ==
  ASSUME NEW v \in 1..LastVersion
  PROVE  /\ \A t \in DOMAIN Added(v) : t \in DOMAIN PostgresBaseline \/ (v = 9 /\ t \in DOMAIN Lifecycle)
<1>1. {"orders", "handoff_log", "outbound_messages"} \subseteq DOMAIN PostgresBaseline
  BY DEF PostgresBaseline
<1>2. "outbound_intents" \in DOMAIN Lifecycle
  BY DEF Lifecycle
<1>3. DOMAIN Added(v) \subseteq IF v = 9 THEN {"outbound_intents"} ELSE {"orders", "handoff_log", "outbound_messages"}
  BY DEF Added
<1> QED BY <1>1, <1>2, <1>3

(* A migration leaves every table with what its creation and the versions  *)
(* so far have given it.                                                   *)
LEMMA TablesStay ==
  ASSUME TablesInv, recorded \subseteq 1..LastVersion, NEW v \in 1..LastVersion, 1..(v - 1) \subseteq recorded,
         NEW new \in Created(v), tables' = Migrated(tables, v, new), recorded' = recorded \cup {v}
  PROVE  TablesInv'
<1>1. /\ DOMAIN tables' = DOMAIN tables \cup DOMAIN new
      /\ \A t \in DOMAIN tables : tables[t] \subseteq tables'[t]
      /\ \A t \in DOMAIN new \ DOMAIN tables : new[t] \subseteq tables'[t]
      /\ \A t \in DOMAIN tables' \cap DOMAIN Added(v) : Added(v)[t] \subseteq tables'[t]
  BY MigrationAdds
<1>2. Holding(tables', PostgresBaseline)
  BY <1>1, CreatedApart DEF Holding, TablesInv
<1>3. Holding(tables', Lifecycle)
  BY <1>1, CreatedApart DEF Holding, TablesInv
<1>4. 1 \in recorded' => DOMAIN PostgresBaseline \subseteq DOMAIN tables'
  BY <1>1, CreatedApart DEF TablesInv
<1>5. 2 \in recorded' => DOMAIN Lifecycle \subseteq DOMAIN tables'
  BY <1>1, CreatedApart DEF TablesInv
<1>6. Extended(tables', v)
  <2>1. 1 \in recorded' /\ (v = 9 => 2 \in recorded')
    OBVIOUS
  <2>2. ASSUME NEW t \in DOMAIN Added(v) PROVE t \in DOMAIN tables'
    BY <1>4, <1>5, <2>1, AddedTo
  <2> QED BY <1>1, <2>2 DEF Extended
<1>7. ASSUME NEW w \in recorded PROVE Extended(tables', w)
  BY <1>1 DEF Extended, TablesInv
<1> QED BY <1>2, <1>3, <1>4, <1>5, <1>6, <1>7 DEF TablesInv

(* A database that an older release left is such a one.                    *)
LEMMA LeftByHolds ==
  ASSUME NEW v \in 1..LastVersion, NEW base \in {PostgresBaseline, SqliteBaseline},
         tables = LeftBy(v, base), recorded = 1..v
  PROVE  TablesInv
<1> DEFINE new(w) == IF w = 1 THEN base ELSE CHOOSE n \in Created(w) : TRUE
<1>1. ASSUME NEW w \in 1..LastVersion PROVE new(w) \in Created(w)
  <2>1. base \in Created(1)
    BY DEF Created
  <2>2. \E n : n \in Created(w)
    <3>1. w \notin 1..6 => Created(w) = {<< >>}
      BY DEF Created
    <3>2. /\ w = 1 => PostgresBaseline \in Created(w)
          /\ w = 2 => Lifecycle \in Created(w)
          /\ w = 3 => BackupRuns \in Created(w)
          /\ w = 4 => MediaInput \in Created(w)
          /\ w = 5 => PackageD \in Created(w)
          /\ w = 6 => PackageE \in Created(w)
      BY DEF Created
    <3> QED BY <3>1, <3>2
  <2>3. (CHOOSE n \in Created(w) : TRUE) \in Created(w)
    BY <2>2
  <2> QED BY <2>1, <2>3
<1>2. /\ DOMAIN tables = UNION {DOMAIN new(w) : w \in 1..v}
      /\ \A t \in DOMAIN tables : \A w \in 1..v : Columns(new(w), t) \subseteq tables[t] /\ Columns(Added(w), t) \subseteq tables[t]
  <2> DEFINE T == UNION {DOMAIN new(w) : w \in 1..v}
             col(t) == UNION {Columns(new(w), t) \union Columns(Added(w), t) : w \in 1..v}
  <2>1. tables = [t \in T |-> col(t)]
    BY DEF LeftBy
  <2> HIDE DEF new
  <2>2. \A t : \A w \in 1..v : Columns(new(w), t) \subseteq col(t) /\ Columns(Added(w), t) \subseteq col(t)
    OBVIOUS
  <2>3. DOMAIN tables = T /\ \A t \in T : tables[t] = col(t)
    <3> HIDE DEF T, col
    <3> QED BY <2>1
  <2>4. \A t \in T : \A w \in 1..v : Columns(new(w), t) \subseteq tables[t] /\ Columns(Added(w), t) \subseteq tables[t]
    <3> HIDE DEF T
    <3>1. ASSUME NEW t \in T, NEW w \in 1..v
          PROVE  Columns(new(w), t) \subseteq tables[t] /\ Columns(Added(w), t) \subseteq tables[t]
      <4>1. Columns(new(w), t) \subseteq col(t) /\ Columns(Added(w), t) \subseteq col(t)
        BY <2>2
      <4> HIDE DEF col
      <4> QED BY <2>3, <4>1
    <3> QED BY <3>1
  <2> HIDE DEF col
  <2> QED BY <2>3, <2>4
<1> HIDE DEF new
<1>3. \A w \in 1..v : w \in 1..LastVersion /\ DOMAIN new(w) \subseteq DOMAIN tables
  BY <1>2 DEF LastVersion
<1>4. \A t \in DOMAIN tables : \E w \in 1..v : t \in DOMAIN new(w)
  BY <1>2
<1>5. 1 \in 1..v /\ (2 \in recorded => 2 \in 1..v)
  OBVIOUS
<1>6. DOMAIN new(1) = DOMAIN PostgresBaseline /\ Holding(new(1), PostgresBaseline)
  BY <1>1, <1>3, <1>5, CreatedApart
<1>7. Holding(tables, PostgresBaseline)
  <2>1. ASSUME NEW t \in DOMAIN PostgresBaseline, t \in DOMAIN tables PROVE PostgresBaseline[t] \subseteq tables[t]
    <3>1. Columns(new(1), t) \subseteq tables[t] /\ PostgresBaseline[t] \subseteq new(1)[t]
      BY <1>2, <1>5, <1>6, <2>1 DEF Holding
    <3> QED BY <1>6, <3>1 DEF Columns
  <2> QED BY <2>1 DEF Holding
<1>8. Holding(tables, Lifecycle)
  <2>1. ASSUME NEW t \in DOMAIN Lifecycle, t \in DOMAIN tables PROVE Lifecycle[t] \subseteq tables[t]
    <3>1. PICK w \in 1..v : t \in DOMAIN new(w)
      BY <1>4, <2>1
    <3>2. new(w) = Lifecycle
      BY <1>1, <1>3, <3>1, CreatedApart
    <3> QED BY <1>2, <2>1, <3>2 DEF Columns
  <2> QED BY <2>1 DEF Holding
<1>9. DOMAIN PostgresBaseline \subseteq DOMAIN tables
  BY <1>3, <1>5, <1>6
<1>10. 2 \in recorded => DOMAIN Lifecycle \subseteq DOMAIN tables
  BY <1>1, <1>3, <1>5, CreatedApart
<1>11. ASSUME NEW w \in recorded PROVE Extended(tables, w)
  <2>1. w \in 1..v /\ w \in 1..LastVersion /\ (w = 9 => 2 \in recorded)
    BY DEF LastVersion
  <2>2. ASSUME NEW t \in DOMAIN Added(w) PROVE t \in DOMAIN tables /\ Added(w)[t] \subseteq tables[t]
    <3>1. t \in DOMAIN tables
      BY <1>9, <1>10, <2>1, AddedTo
    <3> QED BY <1>2, <2>1, <3>1 DEF Columns
  <2> QED BY <2>2 DEF Extended
<1> QED BY <1>7, <1>8, <1>9, <1>10, <1>11 DEF TablesInv

(* After the last version the statements find their columns.               *)
LEMMA NamesAreThere ==
  ASSUME TablesInv, recorded = 1..LastVersion, NEW names \in StatementNames, NEW t \in DOMAIN names
  PROVE  t \in DOMAIN tables /\ names[t] \subseteq tables[t]
<1>1. 1 \in recorded /\ 2 \in recorded /\ 5 \in recorded /\ 8 \in recorded /\ 9 \in recorded /\ 10 \in recorded
  BY DEF LastVersion
<1>2. /\ DOMAIN PostgresBaseline \subseteq DOMAIN tables /\ DOMAIN Lifecycle \subseteq DOMAIN tables
      /\ \A s \in DOMAIN PostgresBaseline : PostgresBaseline[s] \subseteq tables[s]
      /\ \A s \in DOMAIN Lifecycle : Lifecycle[s] \subseteq tables[s]
  BY <1>1 DEF TablesInv, Holding
<1>3. /\ OrderDetails \subseteq tables["orders"] /\ FulfillmentColumns \subseteq tables["orders"]
      /\ HandoffColumns \subseteq tables["handoff_log"] /\ PostSendColumns \subseteq tables["outbound_messages"]
      /\ DeliveryColumns \subseteq tables["outbound_intents"]
  <2>1. /\ Added(1) = [orders |-> OrderDetails] /\ Added(5) = [handoff_log |-> HandoffColumns]
        /\ Added(8) = [outbound_messages |-> PostSendColumns] /\ Added(9) = [outbound_intents |-> DeliveryColumns]
        /\ Added(10) = [orders |-> FulfillmentColumns]
    BY DEF Added
  <2>2. Extended(tables, 1) /\ Extended(tables, 5) /\ Extended(tables, 8) /\ Extended(tables, 9) /\ Extended(tables, 10)
    BY <1>1 DEF TablesInv
  <2> QED BY <2>1, <2>2 DEF Extended
<1>4. CASE names = MessageStoreNames
  BY <1>2, <1>3, <1>4 DEF MessageStoreNames, PostgresBaseline
<1>5. CASE names = OrderNames
  BY <1>2, <1>3, <1>5 DEF OrderNames, PostgresBaseline, OrderDetails
<1>6. CASE names = EventNames
  BY <1>2, <1>3, <1>6 DEF EventNames, Lifecycle, DeliveryColumns
<1>7. CASE names = HandoffNames
  BY <1>2, <1>3, <1>7 DEF HandoffNames, PostgresBaseline, HandoffColumns
<1>8. CASE names = LeadNames
  BY <1>2, <1>3, <1>8 DEF LeadNames, PostgresBaseline
<1> QED BY <1>4, <1>5, <1>6, <1>7, <1>8 DEF StatementNames

-----------------------------------------------------------------------------
(* Rows.                                                                   *)

(* Requests are numbered, so that some are the newest.                     *)
LEMMA NewestIs ==
  ASSUME NEW n \in Nat, NEW ids \in SUBSET (1..n), ids # {}
  PROVE  Newest(ids) \in ids /\ \A k \in ids : k <= Newest(ids)
<1> DEFINE J == {n - i : i \in ids}
<1>1. J # {} /\ J \in SUBSET Nat
  <2>1. \A i \in ids : n - i \in Nat
    OBVIOUS
  <2> QED BY <2>1
<1>2. \A i \in ids : n - i \in J
  OBVIOUS
<1>3. \A d \in J : \E i \in ids : d = n - i
  OBVIOUS
<1> HIDE DEF J
<1>4. PICK d \in J : \A e \in J : d <= e
  BY <1>1, Least
<1>5. PICK i \in ids : d = n - i
  BY <1>3
<1>6. ASSUME NEW k \in ids PROVE k <= i
  <2>1. n - i <= n - k
    BY <1>2, <1>4, <1>5
  <2> QED BY <2>1
<1> QED BY <1>6 DEF Newest

(* ... and only one is.                                                    *)
LEMMA NewestWhen ==
  ASSUME NEW n \in Nat, NEW ids \in SUBSET (1..n), NEW i \in ids, \A k \in ids : k <= i
  PROVE  Newest(ids) = i
<1>1. Newest(ids) \in ids /\ i <= Newest(ids)
  BY NewestIs
<1>2. Newest(ids) <= i /\ Newest(ids) \in 1..n /\ i \in 1..n
  BY <1>1
<1> HIDE DEF Newest
<1> QED BY <1>1, <1>2

(* What is known of a well-typed table of requests.                        *)
LEMMA RequestsAre ==
  ASSUME SchemaTypes
  PROVE  /\ Len(requests) \in Nat /\ DOMAIN requests = 1..Len(requests)
         /\ \A i \in DOMAIN requests : requests[i] \in RequestRow
         /\ \A c : Active(requests, c) \subseteq 1..Len(requests)
<1>1. requests \in Seq(RequestRow)
  BY DEF SchemaTypes
<1>2. Len(requests) \in Nat /\ DOMAIN requests = 1..Len(requests)
  BY <1>1, LenProperties
<1>3. \A i \in 1..Len(requests) : requests[i] \in RequestRow
  BY <1>1, <1>2, ElementOfSeq
<1> QED BY <1>2, <1>3 DEF Active

(* An update of the two columns of a request.                              *)
LEMMA SettledIs ==
  ASSUME NEW row \in RequestRow
  PROVE  Settled(row) \in RequestRow /\ Settled(row).of = row.of /\ Settled(row).resolved
BY DEF Settled, RequestRow

(* What a migration does to the requests: it resolves superseded ones and  *)
(* those of groups, and leaves everything else.                            *)
LEMMA RewrittenAre ==
  ASSUME SchemaTypes, NEW v \in 1..LastVersion, NEW log, log = Rewritten(requests, v)
  PROVE  /\ log \in Seq(RequestRow) /\ DOMAIN log = DOMAIN requests
         /\ \A i \in DOMAIN requests :
              /\ log[i].of = requests[i].of
              /\ requests[i].resolved => log[i].resolved
              /\ log[i].resolved =>
                   \/ requests[i].resolved
                   \/ v = 7 /\ i \in Superseded(requests)
                   \/ v = 11 /\ KindOf[requests[i].of] = "group"
              /\ v = 7 /\ i \in Superseded(requests) => log[i].resolved
              /\ v = 11 /\ KindOf[requests[i].of] = "group" => log[i].resolved
              /\ v = 5 => log[i].status = "waiting"
              /\ v # 5 /\ ~log[i].resolved => log[i].status = requests[i].status
<1>1. /\ Len(requests) \in Nat /\ DOMAIN requests = 1..Len(requests)
      /\ \A i \in DOMAIN requests : requests[i] \in RequestRow
  BY RequestsAre
<1> DEFINE row(i) == IF v = 5 THEN [requests[i] EXCEPT !.status = "waiting"]
                     ELSE IF v = 7 /\ i \in Superseded(requests) THEN Settled(requests[i])
                     ELSE IF v = 11 /\ KindOf[requests[i].of] = "group" /\ ~requests[i].resolved THEN Settled(requests[i])
                     ELSE requests[i]
<1>2. DOMAIN log = DOMAIN requests /\ \A i \in DOMAIN requests : log[i] = row(i)
  BY DEF Rewritten
<1>3. log = [i \in 1..Len(requests) |-> row(i)]
  <2>1. requests = [i \in 1..Len(requests) |-> requests[i]]
    BY <1>1 DEF SchemaTypes
  <2>2. CASE v = 5
    BY <1>1, <2>2 DEF Rewritten
  <2>3. CASE v = 7
    BY <1>1, <2>3 DEF Rewritten
  <2>4. CASE v = 11
    BY <1>1, <2>4 DEF Rewritten
  <2>5. CASE v \notin {5, 7, 11}
    <3>1. log = requests /\ \A i \in 1..Len(requests) : row(i) = requests[i]
      BY <2>5 DEF Rewritten
    <3> HIDE DEF row
    <3> QED BY <2>1, <3>1
  <2> QED BY <2>2, <2>3, <2>4, <2>5
<1>4. ASSUME NEW i \in DOMAIN requests
      PROVE  /\ row(i) \in RequestRow /\ row(i).of = requests[i].of
             /\ row(i).resolved <=> \/ requests[i].resolved
                                    \/ v = 7 /\ i \in Superseded(requests)
                                    \/ v = 11 /\ KindOf[requests[i].of] = "group"
             /\ v = 5 => row(i).status = "waiting"
             /\ v # 5 /\ ~row(i).resolved => row(i).status = requests[i].status
  <2>1. requests[i] \in RequestRow
    BY <1>1
  <2>2. /\ Settled(requests[i]) \in RequestRow /\ Settled(requests[i]).of = requests[i].of
        /\ Settled(requests[i]).resolved
    BY <2>1, SettledIs
  <2>3. LET w == [requests[i] EXCEPT !.status = "waiting"]
        IN  w \in RequestRow /\ w.of = requests[i].of /\ w.resolved = requests[i].resolved /\ w.status = "waiting"
    BY <2>1 DEF RequestRow
  <2> QED BY <2>1, <2>2, <2>3
<1> HIDE DEF row
<1>5. log \in Seq(RequestRow)
  <2>1. \A i \in 1..Len(requests) : row(i) \in RequestRow
    BY <1>1, <1>4
  <2> QED BY <1>1, <1>3, <2>1, SeqDef
<1> QED BY <1>2, <1>4, <1>5

(* Settled rows but the newest of a chat leave it one active request, the  *)
(* same newest.                                                            *)
LEMMA RewrittenActive ==
  ASSUME SchemaTypes, NEW v \in 1..LastVersion, NEW log, log = Rewritten(requests, v), NEW c \in Chat
  PROVE  /\ Active(log, c) \subseteq Active(requests, c)
         /\ v = 7 => \A i, k \in Active(log, c) : i = k
         /\ KindOf[c] # "group" => Newest(Active(log, c)) = Newest(Active(requests, c))
         /\ v = 11 /\ KindOf[c] = "group" => Active(log, c) = {}
<1> DEFINE before == Active(requests, c)
           after == Active(log, c)
<1>1. after \subseteq before
  BY RewrittenAre DEF Active
<1>2. Len(requests) \in Nat /\ before \subseteq 1..Len(requests) /\ \A b : Active(requests, b) \subseteq 1..Len(requests)
  BY RequestsAre
<1>3. \A i \in before : i \in Superseded(requests) <=> i # Newest(before)
  <2>1. ASSUME NEW i \in before PROVE i \in Superseded(requests) <=> i # Newest(before)
    <3>1. \A b \in Chat : i \in Active(requests, b) => b = c
      BY DEF Active
    <3> QED BY <3>1 DEF Superseded
  <2> QED BY <2>1
<1>4. v = 7 => \A i \in after : i = Newest(before)
  BY <1>1, <1>3, RewrittenAre DEF Active
<1>5. ASSUME KindOf[c] # "group", before # {} PROVE Newest(before) \in after
  <2>1. Newest(before) \in before
    BY <1>2, <1>5, NewestIs
  <2>2. Newest(before) \notin Superseded(requests)
    BY <1>3, <2>1
  <2> QED BY <1>5, <2>1, <2>2, RewrittenAre DEF Active
<1>6. ASSUME KindOf[c] # "group" PROVE Newest(after) = Newest(before)
  <2>1. CASE before = {}
    BY <1>1, <2>1
  <2>2. CASE before # {}
    <3>1. after \in SUBSET (1..Len(requests)) /\ Newest(before) \in after /\ \A k \in after : k <= Newest(before)
      BY <1>1, <1>2, <1>5, <1>6, <2>2, NewestIs
    <3> QED BY <1>2, <3>1, NewestWhen
  <2> QED BY <2>1, <2>2
<1>7. v = 11 /\ KindOf[c] = "group" => after = {}
  BY RewrittenAre DEF Active
<1> QED BY <1>1, <1>4, <1>6, <1>7

(* The version applied is the first that is not recorded.                  *)
LEMMA FirstDue ==
  ASSUME SchemaTypes, Due # {}
  PROVE  LET v == CHOOSE v \in Due : \A w \in Due : v <= w
         IN  v \in 1..LastVersion /\ 1..(v - 1) \subseteq recorded /\ v \notin recorded
<1> DEFINE v == CHOOSE v \in Due : \A w \in Due : v <= w
<1>1. Due \in SUBSET Nat /\ Due \subseteq 1..LastVersion
  BY DEF Due
<1>2. \E i \in Due : \A k \in Due : i <= k
  BY <1>1, Least
<1>3. v \in Due /\ \A w \in Due : v <= w
  BY <1>2
<1> HIDE DEF v
<1>4. ASSUME NEW w \in 1..(v - 1) PROVE w \in recorded
  <2>1. w \in 1..LastVersion /\ v \in Nat /\ ~(v <= w)
    BY <1>1, <1>3 DEF LastVersion
  <2> QED BY <1>3, <2>1 DEF Due
<1>5. v \in 1..LastVersion /\ 1..(v - 1) \subseteq recorded /\ v \notin recorded
  BY <1>1, <1>3, <1>4 DEF Due
<1> QED BY <1>5 DEF v

(* A migration keeps the whole: its tables, its rows, what customers wait on. *)
LEMMA MigrationStays == ASSUME SchemaInv, ApplyMigration PROVE SchemaInv'
<1> PICK v \in 1..LastVersion :
      /\ 1..(v - 1) \subseteq recorded /\ v \notin recorded
      /\ \E new \in Created(v) : tables' = Migrated(tables, v, new)
      /\ requests' = Rewritten(requests, v) /\ unique' = (unique \/ v = 7)
      /\ letters' = [c \in Chat |-> IF v = 11 /\ KindOf[c] = "group" THEN "completed" ELSE letters[c]]
      /\ recorded' = recorded \cup {v}
  BY FirstDue DEF ApplyMigration, SchemaInv
<1>1. UNCHANGED <<edited, phone, server, starts, awaited, owed>> /\ server = "migrating"
  BY DEF ApplyMigration
<1>2. /\ requests' \in Seq(RequestRow) /\ DOMAIN requests' = DOMAIN requests
      /\ \A i \in DOMAIN requests :
           /\ requests[i].resolved => requests'[i].resolved
           /\ v = 5 => requests'[i].status = "waiting"
           /\ v # 5 /\ ~requests'[i].resolved => requests'[i].status = requests[i].status
  BY RewrittenAre DEF SchemaInv
<1>3. \A c \in Chat :
        /\ Active(requests', c) \subseteq Active(requests, c)
        /\ v = 7 => \A i, k \in Active(requests', c) : i = k
        /\ KindOf[c] # "group" => Newest(Active(requests', c)) = Newest(Active(requests, c))
        /\ v = 11 /\ KindOf[c] = "group" => Active(requests', c) = {}
  BY RewrittenActive DEF SchemaInv
<1>4. SchemaTypes'
  BY <1>1, <1>2 DEF SchemaInv, SchemaTypes
<1>5. VersionsInv'
  <2>1. ASSUME NEW w \in recorded' PROVE 1..w \subseteq recorded'
    <3>1. 1..v = 1..(v - 1) \cup {v}
      OBVIOUS
    <3> QED BY <3>1 DEF SchemaInv, VersionsInv
  <2> QED BY <1>1, <2>1 DEF VersionsInv
<1>6. TablesInv'
  BY TablesStay DEF SchemaInv, SchemaTypes
<1>7. RowsInv'
  <2>1. 5 \in recorded' => \A i \in DOMAIN requests' : ~requests'[i].resolved => requests'[i].status = "waiting"
    BY <1>2 DEF SchemaInv, RowsInv
  <2>2. unique' => \A c \in Chat : \A i, k \in Active(requests', c) : i = k
    BY <1>3 DEF SchemaInv, RowsInv
  <2>3. 11 \in recorded' => \A c \in Chat : KindOf[c] = "group" => Active(requests', c) = {} /\ letters'[c] = "completed"
    BY <1>3 DEF SchemaInv, RowsInv, SchemaTypes
  <2>4. 7 \in recorded' => unique'
    BY DEF SchemaInv, RowsInv
  <2> QED BY <2>1, <2>2, <2>3, <2>4 DEF RowsInv, Active
<1>8. WaitingInv'
  <2>1. \A c \in Chat : KindOf[c] # "group" => letters'[c] = letters[c]
    BY DEF SchemaInv, SchemaTypes
  <2> QED BY <1>1, <1>3, <2>1 DEF SchemaInv, WaitingInv
<1> QED BY <1>4, <1>5, <1>6, <1>7, <1>8 DEF SchemaInv

(* What changes no row of requests.                                        *)
LEMMA SchemaElsewhere ==
  ASSUME SchemaInv, UNCHANGED <<tables, recorded, unique, requests, letters, awaited, owed>>, VersionsInv',
         phone' \in [Chat -> {"absent", "none", "own", "given"}], server' \in {"down", "migrating", "backfilled", "serving"}
  PROVE  SchemaInv'
BY DEF SchemaInv, SchemaTypes, TablesInv, RowsInv, WaitingInv

(* The program asks for a human and resolves what it asked for.            *)
LEMMA RequestsStay ==
  ASSUME SchemaInv, NEW c \in Chat, AskForHuman(c) \/ ResolveRequest(c)
  PROVE  SchemaInv'
<1> DEFINE n == Len(requests)
<1>1. /\ n \in Nat /\ DOMAIN requests = 1..n /\ requests \in Seq(RequestRow)
      /\ \A i \in DOMAIN requests : requests[i] \in RequestRow
      /\ \A b : Active(requests, b) \subseteq 1..n
  BY RequestsAre DEF SchemaInv, SchemaTypes
<1>2. /\ UNCHANGED <<tables, recorded, edited, unique, letters, phone, server, starts, owed>>
      /\ KindOf[c] # "group" /\ server = "serving" /\ recorded = 1..LastVersion
  BY DEF AskForHuman, ResolveRequest, Serves, SchemaInv, VersionsInv
<1>3. VersionsInv' /\ TablesInv'
  BY <1>2 DEF SchemaInv, VersionsInv, TablesInv
<1>4. SUFFICES ASSUME requests' # requests \/ awaited' # awaited PROVE SchemaTypes' /\ RowsInv' /\ WaitingInv'
  <2>1. CASE UNCHANGED <<requests, awaited>>
    BY <1>2, <1>3, <2>1 DEF SchemaInv, SchemaTypes, RowsInv, WaitingInv
  <2> QED BY <1>3, <1>4, <2>1 DEF SchemaInv
<1>5. unique /\ 5 \in recorded /\ 11 \in recorded
  BY <1>2 DEF SchemaInv, RowsInv, LastVersion
<1>6. CASE AskForHuman(c)
  <2> DEFINE row == [of |-> c, resolved |-> FALSE, status |-> "waiting"]
  <2>1. requests' = Append(requests, row) /\ Active(requests, c) = {} /\ awaited' = [awaited EXCEPT ![c] = Len(requests')]
    BY <1>4, <1>5, <1>6 DEF AskForHuman
  <2>2. row \in RequestRow
    BY DEF RequestRow
  <2>3. row.of = c /\ ~row.resolved /\ row.status = "waiting"
    OBVIOUS
  <2> HIDE DEF row
  <2>4. /\ requests' \in Seq(RequestRow) /\ Len(requests') = n + 1 /\ DOMAIN requests' = 1..(n + 1)
        /\ \A i \in 1..n : requests'[i] = requests[i] /\ requests'[n + 1] = row
    <3>1. /\ requests' \in Seq(RequestRow) /\ Len(requests') = n + 1 /\ requests'[n + 1] = row
          /\ \A i \in 1..n : requests'[i] = requests[i]
      BY <1>1, <2>1, <2>2, AppendProperties
    <3> QED BY <3>1, LenProperties
  <2>5. requests'[n + 1] = row
    BY <1>1, <2>1, <2>2, AppendProperties
  <2>6. /\ Active(requests', c) = {n + 1}
        /\ \A b \in Chat \ {c} : Active(requests', b) = Active(requests, b)
    <3>1. \A i \in 1..(n + 1) : i \in 1..n \/ i = n + 1
      BY <1>1
    <3>2. ASSUME NEW b \in Chat, NEW i \in 1..n PROVE i \in Active(requests', b) <=> i \in Active(requests, b)
      BY <1>1, <2>4 DEF Active
    <3>3. \A b \in Chat : n + 1 \in Active(requests', b) <=> b = c
      BY <1>1, <2>3, <2>4, <2>5 DEF Active
    <3>4. \A b \in Chat : Active(requests', b) \subseteq 1..(n + 1) /\ Active(requests, b) \subseteq 1..n /\ n + 1 \notin 1..n
      BY <1>1, <2>4 DEF Active
    <3> QED BY <2>1, <3>1, <3>2, <3>3, <3>4
  <2>7. SchemaTypes'
    BY <1>1, <1>2, <2>1, <2>4 DEF SchemaInv, SchemaTypes
  <2>8. RowsInv'
    <3>1. \A i \in DOMAIN requests' : ~requests'[i].resolved => requests'[i].status = "waiting"
      <4>1. \A i \in 1..(n + 1) : i \in 1..n \/ i = n + 1
        BY <1>1
      <4>2. \A i \in 1..n : ~requests[i].resolved => requests[i].status = "waiting"
        BY <1>1, <1>5 DEF SchemaInv, RowsInv
      <4> QED BY <2>3, <2>4, <2>5, <4>1, <4>2
    <3>2. \A b \in Chat : \A i, k \in Active(requests', b) : i = k
      BY <1>5, <2>6 DEF SchemaInv, RowsInv
    <3>3. \A b \in Chat : KindOf[b] = "group" => Active(requests', b) = {} /\ letters'[b] = "completed"
      BY <1>2, <1>5, <2>6 DEF SchemaInv, RowsInv
    <3> QED BY <1>2, <1>5, <3>1, <3>2, <3>3 DEF RowsInv, Active
  <2>9. WaitingInv'
    <3>1. Newest(Active(requests', c)) = awaited'[c]
      <4>1. Newest({n + 1}) = n + 1
        <5>1. n + 1 \in Nat /\ {n + 1} \in SUBSET (1..(n + 1)) /\ \A k \in {n + 1} : k <= n + 1
          BY <1>1
        <5> QED BY <5>1, NewestWhen
      <4>2. awaited'[c] = n + 1
        BY <2>1, <2>4 DEF SchemaInv, SchemaTypes
      <4> QED BY <2>6, <4>1, <4>2
    <3>2. \A b \in Chat \ {c} : awaited'[b] = awaited[b]
      BY <2>1 DEF SchemaInv, SchemaTypes
    <3> QED BY <1>2, <2>6, <3>1, <3>2 DEF SchemaInv, WaitingInv, Active
  <2> QED BY <2>7, <2>8, <2>9
<1>7. CASE ResolveRequest(c)
  <2> DEFINE i == Newest(Active(requests, c))
  <2>1. requests' = [requests EXCEPT ![i] = Settled(@)] /\ awaited' = [awaited EXCEPT ![c] = 0] /\ Active(requests, c) # {}
    BY <1>7 DEF ResolveRequest
  <2>2. i \in Active(requests, c)
    BY <1>1, <2>1, NewestIs
  <2>3. i \in 1..n /\ requests[i].of = c
    BY <1>1, <2>2 DEF Active
  <2> HIDE DEF i
  <2>4. Settled(requests[i]) \in RequestRow /\ Settled(requests[i]).of = c /\ Settled(requests[i]).resolved
    BY <1>1, <2>3, SettledIs
  <2>5. /\ requests' \in Seq(RequestRow) /\ DOMAIN requests' = 1..n
        /\ requests'[i] = Settled(requests[i]) /\ \A k \in 1..n \ {i} : requests'[k] = requests[k]
    <3>1. requests \in [1..n -> RequestRow]
      BY <1>1
    <3>2. requests' \in [1..n -> RequestRow]
      BY <2>1, <2>3, <2>4, <3>1
    <3>3. requests' \in Seq(RequestRow)
      BY <1>1, <3>2, SeqDef
    <3> QED BY <2>1, <2>3, <3>1, <3>2, <3>3
  <2>6. /\ Active(requests', c) \subseteq Active(requests, c)
        /\ \A b \in Chat \ {c} : Active(requests', b) = Active(requests, b)
    <3>1. ASSUME NEW b \in Chat, NEW k \in 1..n, k # i PROVE k \in Active(requests', b) <=> k \in Active(requests, b)
      BY <1>1, <2>5, <3>1 DEF Active
    <3>2. \A b \in Chat : i \notin Active(requests', b) /\ (i \in Active(requests, b) => b = c)
      BY <2>3, <2>4, <2>5 DEF Active
    <3>3. \A b \in Chat : Active(requests', b) \subseteq 1..n
      BY <2>5 DEF Active
    <3>4. \A b \in Chat : Active(requests, b) \subseteq 1..n
      BY <1>1 DEF Active
    <3>5. ASSUME NEW b \in Chat, NEW k \in Active(requests', b) PROVE k \in Active(requests, b)
      BY <3>1, <3>2, <3>3, SMTT(30)
    <3>6. ASSUME NEW b \in Chat \ {c}, NEW k \in Active(requests, b) PROVE k \in Active(requests', b)
      BY <3>1, <3>2, <3>4, SMTT(30)
    <3> QED BY <3>5, <3>6, SMTT(30)
  <2>7. SchemaTypes'
    BY <1>2, <2>1, <2>5 DEF SchemaInv, SchemaTypes
  <2>8. RowsInv'
    <3>1. \A k \in DOMAIN requests' : ~requests'[k].resolved => requests'[k].status = "waiting"
      BY <1>1, <1>5, <2>4, <2>5 DEF SchemaInv, RowsInv
    <3>2. \A b \in Chat : \A k, l \in Active(requests', b) : k = l
      BY <1>5, <2>6 DEF SchemaInv, RowsInv
    <3>3. \A b \in Chat : KindOf[b] = "group" => Active(requests', b) = {} /\ letters'[b] = "completed"
      BY <1>2, <1>5, <2>6 DEF SchemaInv, RowsInv
    <3> QED BY <1>2, <1>5, <3>1, <3>2, <3>3 DEF RowsInv, Active
  <2>9. WaitingInv'
    <3>1. awaited'[c] = 0 /\ \A b \in Chat \ {c} : awaited'[b] = awaited[b]
      BY <2>1 DEF SchemaInv, SchemaTypes
    <3> QED BY <1>2, <2>6, <3>1 DEF SchemaInv, WaitingInv, Active
  <2> QED BY <2>7, <2>8, <2>9
<1> QED BY <1>6, <1>7

(* Each step of a start, and of the program that serves, keeps the whole.  *)
LEMMA SchemaStays == SchemaInv /\ [SchemaNext]_schemaVars => SchemaInv'
<1> SUFFICES ASSUME SchemaInv, [SchemaNext]_schemaVars PROVE SchemaInv'
  OBVIOUS
<1>1. CASE UNCHANGED schemaVars
  BY <1>1 DEF schemaVars, SchemaInv, SchemaTypes, VersionsInv, TablesInv, RowsInv, WaitingInv
<1>2. CASE Launch \/ GoDown
  <2>1. VersionsInv'
    BY <1>2 DEF Launch, GoDown, Moves, SchemaInv, VersionsInv
  <2> QED BY <1>2, <2>1, SchemaElsewhere DEF Launch, GoDown, Moves, SchemaInv, SchemaTypes
<1>3. CASE ApplyMigration
  BY <1>3, MigrationStays
<1>4. CASE Backfill \/ ClearHidden
  <2>1. recorded' = recorded /\ recorded = 1..LastVersion
    BY <1>4 DEF Backfill, ClearHidden, Moves, Due, SchemaInv, SchemaTypes, VersionsInv
  <2>2. phone' \in [Chat -> {"absent", "none", "own", "given"}]
    BY <1>4 DEF Backfill, ClearHidden, SchemaInv, SchemaTypes
  <2>3. \A c \in Chat : KindOf[c] = "person" => phone'[c] # "none"
    BY <1>4 DEF Backfill, ClearHidden, Moves, SchemaInv, SchemaTypes, VersionsInv
  <2>4. VersionsInv'
    BY <2>1, <2>3 DEF SchemaInv, VersionsInv
  <2> QED BY <1>4, <2>2, <2>4, SchemaElsewhere DEF Backfill, ClearHidden, Moves
<1>5. ASSUME NEW c \in Chat, AskForHuman(c) \/ ResolveRequest(c) PROVE SchemaInv'
  BY <1>5, RequestsStay
<1>6. ASSUME NEW c \in Chat, SaveLead(c) PROVE SchemaInv'
  <2>1. PICK p \in {"own", "given", "none", phone[c]} :
          phone' = [phone EXCEPT ![c] = p] /\ (KindOf[c] = "person" => p = "own")
    BY <1>6 DEF SaveLead
  <2>2. phone' \in [Chat -> {"absent", "none", "own", "given"}]
    BY <2>1 DEF SchemaInv, SchemaTypes
  <2>3. VersionsInv'
    BY <1>6, <2>1 DEF SaveLead, SchemaInv, SchemaTypes, VersionsInv
  <2> QED BY <1>6, <2>2, <2>3, SchemaElsewhere DEF SaveLead, SchemaInv, SchemaTypes
<1> QED BY <1>1, <1>2, <1>3, <1>4, <1>5, <1>6 DEF SchemaNext

(* At most one is at most one.                                             *)
LEMMA OneOrNone ==
  ASSUME NEW n \in Nat, NEW ids \in SUBSET (1..n)
  PROVE  Cardinality(ids) <= 1 <=> \A i, k \in ids : i = k
<1>1. IsFiniteSet(1..n) /\ IsFiniteSet(ids)
  <2>1. IsFiniteSet(1..n)
    BY FS_Interval
  <2> QED BY <2>1, FS_Subset
<1>2. ASSUME \A i, k \in ids : i = k PROVE Cardinality(ids) <= 1
  <2>1. CASE ids = {}
    BY <2>1, FS_EmptySet
  <2>2. CASE ids # {}
    <3>1. PICK i \in ids : ids = {i}
      BY <1>2, <2>2
    <3> QED BY <3>1, FS_Singleton
  <2> QED BY <2>1, <2>2
<1>3. ASSUME Cardinality(ids) <= 1, NEW i \in ids, NEW k \in ids, i # k PROVE FALSE
  <2>1. Cardinality({i}) = 1 /\ Cardinality({i, k}) = 2
    <3>1. IsFiniteSet({i}) /\ Cardinality({i}) = 1
      BY FS_Singleton
    <3>2. Cardinality({i} \cup {k}) = Cardinality({i}) + 1
      BY <1>3, <3>1, FS_AddElement
    <3>3. {i} \cup {k} = {i, k}
      OBVIOUS
    <3> QED BY <3>1, <3>2, <3>3
  <2>2. {i, k} \subseteq ids
    OBVIOUS
  <2>3. Cardinality({i, k}) <= Cardinality(ids) /\ Cardinality(ids) \in Nat
    BY <1>1, <2>2, FS_Subset, FS_CardinalityType
  <2> QED BY <1>3, <2>1, <2>3
<1> QED BY <1>2, <1>3

(* So does whatever an older release left.                                 *)
LEMMA SchemaBegins == SchemaInit => SchemaInv
<1> SUFFICES ASSUME SchemaInit PROVE SchemaInv
  OBVIOUS
<1> PICK v \in 0..LastVersion, base \in {PostgresBaseline, SqliteBaseline} :
      /\ recorded = 1..v /\ unique = (v >= 7)
      /\ tables \in IF v = 0 THEN {<< >>, base} ELSE {LeftBy(v, base)}
      /\ requests \in IF tables = << >> THEN {<< >>} ELSE UNION {[1..n -> LeftRow(v)] : n \in 0..(MaxRequests - 1)}
      /\ unique => \A c \in Chat : Cardinality(Active(requests, c)) <= 1
      /\ \A c \in Chat :
           /\ KindOf[c] = "group" /\ v = LastVersion => Active(requests, c) = {}
           /\ tables = << >> \/ (KindOf[c] = "group" /\ v = LastVersion) => letters[c] = "completed"
  BY DEF SchemaInit
<1>1. /\ letters \in [Chat -> {"pending", "completed"}] /\ phone \in [Chat -> {"absent", "none", "own", "given"}]
      /\ server = "down" /\ awaited = [c \in Chat |-> Newest(Active(requests, c))]
      /\ owed = {c \in Chat : letters[c] = "pending"}
  BY DEF SchemaInit
<1>2. PICK n \in Nat : requests \in [1..n -> LeftRow(v)]
  <2>1. << >> \in [1..0 -> LeftRow(v)]
    OBVIOUS
  <2>2. \A n \in 0..(MaxRequests - 1) : n \in Nat
    BY SchemaAssumption
  <2> QED BY <2>1, <2>2
<1>3. LeftRow(v) \subseteq RequestRow /\ (v >= 5 => \A row \in LeftRow(v) : ~row.resolved => row.status = "waiting")
  BY DEF LeftRow, RequestRow
<1>4. requests \in Seq(RequestRow) /\ DOMAIN requests = 1..n /\ \A c : Active(requests, c) \subseteq 1..n
  <2>1. requests \in [1..n -> RequestRow]
    BY <1>2, <1>3
  <2> QED BY <2>1, SeqDef DEF Active
<1>5. ASSUME NEW c \in Chat PROVE Newest(Active(requests, c)) \in Nat
  <2>1. CASE Active(requests, c) = {}
    BY <2>1 DEF Newest
  <2>2. CASE Active(requests, c) # {}
    <3>1. Newest(Active(requests, c)) \in 1..n
      BY <1>4, <2>2, NewestIs
    <3> QED BY <3>1
  <2> QED BY <2>1, <2>2
<1>6. SchemaTypes
  <2>1. awaited \in [Chat -> Nat]
    BY <1>1, <1>5
  <2> QED BY <1>1, <1>4, <2>1 DEF SchemaTypes, LastVersion
<1>7. VersionsInv
  BY <1>1 DEF VersionsInv
<1>8. TablesInv
  <2>1. CASE v # 0
    <3>1. v \in 1..LastVersion /\ tables = LeftBy(v, base)
      BY <2>1 DEF LastVersion
    <3> QED BY <3>1, LeftByHolds
  <2>2. CASE v = 0
    <3>1. recorded = {}
      BY <2>2
    <3>2. tables = << >> \/ tables \in Created(1)
      BY <2>2 DEF Created
    <3>3. Holding(tables, PostgresBaseline) /\ Holding(tables, Lifecycle)
      <4>1. CASE tables = << >>
        BY <4>1 DEF Holding
      <4>2. CASE tables \in Created(1)
        <5>1. 1 \in 1..LastVersion
          BY DEF LastVersion
        <5> QED BY <4>2, <5>1, CreatedApart DEF Holding
      <4> QED BY <3>2, <4>1, <4>2
    <3> QED BY <3>1, <3>3 DEF TablesInv
  <2> QED BY <2>1, <2>2
<1>9. RowsInv
  <2>1. (5 \in recorded => v >= 5) /\ (7 \in recorded => unique) /\ (11 \in recorded => v = LastVersion)
    <3>1. v \in 0..11 /\ recorded = 1..v
      BY DEF LastVersion
    <3>2. 7 \in recorded => v >= 7
      BY <3>1
    <3>3. 11 \in recorded => v = 11
      BY <3>1
    <3>4. v >= 7 => unique
      <4>1. unique = (v >= 7)
        OBVIOUS
      <4> QED BY <4>1, Zenon
    <3>5. 5 \in recorded => v >= 5
      BY <3>1
    <3> QED BY <3>2, <3>3, <3>4, <3>5 DEF LastVersion
  <2>2. unique => \A c \in Chat : \A i, k \in Active(requests, c) : i = k
    BY <1>4, OneOrNone
  <2>3. v >= 5 => \A i \in DOMAIN requests : ~requests[i].resolved => requests[i].status = "waiting"
    BY <1>2, <1>3, <1>4
  <2> QED BY <2>1, <2>2, <2>3 DEF RowsInv
<1>10. WaitingInv
  BY <1>1 DEF WaitingInv
<1> QED BY <1>6, <1>7, <1>8, <1>9, <1>10 DEF SchemaInv

\* Whatever database it starts on and however often a start fails, the program serves on the
\* columns its statements name, with one active request of a chat at most, each one waiting, and
\* what a customer waits on is resolved by no migration (schema.ts, applyActiveHandoffInvariant).
THEOREM UpgradesStaySound == SchemaSpec => []UpgradesAreSound
<1>1. SchemaInv => UpgradesAreSound
  <2> SUFFICES ASSUME SchemaInv PROVE UpgradesAreSound
    OBVIOUS
  <2>1. \A c \in Chat : KindOf[c] # "group" =>
          (awaited[c] # 0 => Newest(Active(requests, c)) = awaited[c]) /\ (letters[c] = "pending" <=> c \in owed)
    BY DEF SchemaInv, WaitingInv
  <2>2. ASSUME server = "serving"
        PROVE  /\ \A names \in StatementNames : \A t \in DOMAIN names : t \in DOMAIN tables /\ names[t] \subseteq tables[t]
               /\ \A c \in Chat : Cardinality(Active(requests, c)) <= 1
               /\ \A i \in DOMAIN requests : ~requests[i].resolved => requests[i].status = "waiting"
               /\ \A c \in Chat : KindOf[c] = "person" => phone[c] # "none"
               /\ \A c \in Chat : KindOf[c] = "group" => Active(requests, c) = {} /\ letters[c] = "completed"
    <3>1. recorded = 1..LastVersion /\ \A c \in Chat : KindOf[c] = "person" => phone[c] # "none"
      BY <2>2 DEF SchemaInv, VersionsInv
    <3>2. 5 \in recorded /\ 7 \in recorded /\ 11 \in recorded
      BY <3>1 DEF LastVersion
    <3>3. \A c \in Chat : Cardinality(Active(requests, c)) <= 1
      BY <3>2, RequestsAre, OneOrNone DEF SchemaInv, RowsInv
    <3>4. \A names \in StatementNames : \A t \in DOMAIN names : t \in DOMAIN tables /\ names[t] \subseteq tables[t]
      BY <3>1, NamesAreThere DEF SchemaInv
    <3> QED BY <3>1, <3>2, <3>3, <3>4 DEF SchemaInv, RowsInv
  <2> QED BY <2>1, <2>2 DEF UpgradesAreSound
<1> QED BY <1>1, SchemaBegins, SchemaStays, PTL DEF SchemaSpec

-----------------------------------------------------------------------------
(* The answers of the model: ai/agent.ts.                                  *)

(* What the model calls for.                                               *)
AnswerTypes ==
  /\ answering \in {"idle", "asking", "pacing", "bounding", "guarding", "sent"}
  /\ mode \in {"live", "preview"}
  /\ external \in BOOLEAN
  /\ round \in 0..Rounds[mode] /\ repairs \in 0..2 /\ asked \in Nat

(* What an answer may have cost where it stands: each call of the preview  *)
(* may have been made three times.                                         *)
Within(n) == IF mode = "live" THEN asked <= n ELSE asked <= 3 * n
Costs ==
  LET n == Rounds[mode]
  IN  /\ answering = "asking" => Within(round) /\ repairs = 0
      /\ answering = "pacing" => Within(n + 2) /\ repairs = 0 /\ mode = "preview"
      /\ answering = "bounding" => Within(n + (IF mode = "live" THEN 1 ELSE 4)) /\ repairs = 0
      /\ answering = "guarding" => Within(n + (IF mode = "live" THEN 2 ELSE 5) + repairs)
      /\ Within(n + (IF mode = "live" THEN 4 ELSE 7))

(* What a text may be where it stands.                                     *)
Clean ==
  /\ answering \in {"pacing", "bounding", "guarding"} => text \cap Stripped = {}
  /\ answering = "guarding" /\ external => "external" \notin text
  /\ answering = "guarding" /\ Supported(text) => repairs = 0
  /\ answering = "sent" /\ origin # "markup" =>
       /\ text \cap (Claims \cup Stripped) = {}
       /\ external /\ "external" \in text => repairs > 0
       /\ "internal" \in text => repairs = 0
  /\ origin = "markup" => mode = "preview"
  /\ answering \in {"asking", "pacing", "bounding", "guarding"} => origin = "model"

AnswersInv == AnswerTypes /\ Costs /\ Clean

(* What was sanitised holds nothing that sanitising strips.               *)
LEMMA SanitizedIs ==
  ASSUME NEW f, NEW s \in Sanitized(f)
  PROVE  s \cap Stripped = {}
  BY DEF Sanitized, Stripped, Empty

(* Calls of a live turn are made once, those of the preview three times at *)
(* most.                                                                   *)
Made(n) ==
  /\ asked' \in Nat
  /\ mode = "live" => asked' = asked + n
  /\ mode = "preview" => asked' <= asked + 3 * n
LEMMA CallsCost ==
  ASSUME AnswerTypes, NEW n \in 0..3, Calls(n)
  PROVE  Made(n)
<1>1. PICK more \in 0..(Repeats * n) : asked' = asked + n + more
  BY DEF Calls
<1>2. CASE mode = "live"
  <2>1. Repeats * n = 0
    BY <1>2 DEF Repeats
  <2> QED BY <1>1, <1>2, <2>1 DEF AnswerTypes, Made
<1>3. CASE mode = "preview"
  <2>1. Repeats * n = 2 * n
    BY <1>3 DEF Repeats
  <2> QED BY <1>1, <1>3, <2>1 DEF AnswerTypes, Made
<1> QED BY <1>2, <1>3 DEF AnswerTypes

(* No step of a turn costs more than what it stands for, or lets markup or *)
(* another script through.                                                 *)
LEMMA AnswersInvStep == ASSUME AnswersInv, AnswersNext PROVE AnswersInv'
<1> USE AnswersAssumption DEF AnswersInv
<1>r. \A k \in {"live", "preview"} : Rounds[k] \in Nat
  BY AnswersAssumption
<1>1. CASE Begin
  <2>1. /\ mode' \in {"live", "preview"} /\ external' \in BOOLEAN /\ text' = {}
        /\ round' = 0 /\ repairs' = 0 /\ asked' = 0
        /\ \/ origin' = "rule" /\ answering' = "sent"
           \/ origin' = "model" /\ answering' = "asking"
    BY <1>1 DEF Begin
  <2> QED BY <1>r, <2>1 DEF AnswerTypes, Costs, Within, Clean
<1>2. CASE Tools
  <2>1. /\ answering = "asking" /\ round < Rounds[mode] /\ Calls(1)
        /\ UNCHANGED <<mode, repairs>> /\ external' \in BOOLEAN
        /\ \/ round' = round + 1 /\ UNCHANGED <<answering, text, origin>>
           \/ answering' = "sent" /\ text' = {} /\ origin' = "shipping" /\ round' = round
    BY <1>2 DEF Tools, Sends, Becoming, AnswerTypes
  <2>c. Made(1)
    BY <2>1, CallsCost
  <2>2. AnswerTypes'
    BY <1>r, <2>1, <2>c DEF AnswerTypes, Made
  <2>3. Costs'
    BY <1>r, <2>1, <2>c DEF AnswerTypes, Costs, Within, Made
  <2>4. Clean'
    BY <2>1 DEF Clean
  <2> QED BY <2>2, <2>3, <2>4
<1>3. CASE LiveText
  <2>1. PICK s : Becoming("bounding", s) /\ s \cap Stripped = {}
    BY <1>r, <1>3, SanitizedIs DEF LiveText, Stripped
  <2>c. Made(1)
    BY <1>3, CallsCost DEF LiveText
  <2>2. AnswerTypes' /\ Costs' /\ Clean'
    BY <1>r, <1>3, <2>1, <2>c DEF LiveText, Made, Within, Turned, Becoming, AnswerTypes, Costs, Clean
  <2> QED BY <2>2
<1>4. CASE PreviewMarkup
  <2>c. Made(1)
    BY <1>4, CallsCost DEF PreviewMarkup
  <2>1. AnswerTypes'
    BY <1>r, <1>4, <2>c DEF PreviewMarkup, Made, Sends, Becoming, AnswerTypes
  <2>2. Costs'
    BY <1>r, <1>4, <2>c DEF PreviewMarkup, Made, Within, Sends, Becoming, AnswerTypes, Costs
  <2>3. Clean'
    BY <1>r, <1>4 DEF PreviewMarkup, Sends, Becoming, AnswerTypes, Clean
  <2> QED BY <2>1, <2>2, <2>3
<1>5. CASE PreviewText \/ PreviewLast
  <2>1. asked' \in Nat /\ asked' <= 3 * (Rounds[mode] + 2)
    <3>1. Calls(1) \/ ((Calls(2) \/ Calls(3)) /\ round < Rounds[mode])
      BY <1>5 DEF PreviewText, PreviewLast
    <3>2. answering = "asking" /\ mode = "preview"
      BY <1>5 DEF PreviewText, PreviewLast
    <3>3. Made(1) \/ ((Made(2) \/ Made(3)) /\ round < Rounds[mode])
      BY <3>1, CallsCost
    <3> QED BY <1>r, <3>2, <3>3 DEF AnswerTypes, Costs, Within, Made
  <2>2. PICK s : Becoming("pacing", s) /\ s \cap Stripped = {}
    <3>1. CASE PreviewText
      <4>1. PICK f \in Outputs :
              /\ "markup" \notin f
              /\ \/ "foreign" \notin f /\ Becoming("pacing", f)
                 \/ \E g : \E s \in Sanitized(g) : Becoming("pacing", s)
                 \/ \E g : Becoming("pacing", (f \cup g) \ Stripped)
                 \/ \E g : \E s \in Sanitized(g) : Becoming("pacing", IF s = Empty THEN {} ELSE s)
        BY <3>1 DEF PreviewText
      <4>2. CASE "foreign" \notin f /\ Becoming("pacing", f)
        BY <4>1, <4>2 DEF Stripped
      <4>3. CASE \E g : Becoming("pacing", (f \cup g) \ Stripped)
        <5>1. PICK g : Becoming("pacing", (f \cup g) \ Stripped)
          BY <4>3
        <5>2. ((f \cup g) \ Stripped) \cap Stripped = {}
          OBVIOUS
        <5> QED BY <5>1, <5>2
      <4>4. CASE \E g : \E s \in Sanitized(g) : Becoming("pacing", s)
        BY <4>4, SanitizedIs
      <4>5. CASE \E g : \E s \in Sanitized(g) : Becoming("pacing", IF s = Empty THEN {} ELSE s)
        BY <4>5, SanitizedIs
      <4> QED BY <4>1, <4>2, <4>3, <4>4, <4>5
    <3>2. CASE PreviewLast
      BY <3>2, SanitizedIs DEF PreviewLast
    <3> QED BY <1>r, <1>5, <3>1, <3>2
  <2>3. answering = "asking" /\ mode = "preview" /\ UNCHANGED origin /\ Turned
    BY <1>r, <1>5 DEF PreviewText, PreviewLast
  <2>4. AnswerTypes' /\ Costs' /\ Clean'
    BY <1>r, <2>1, <2>2, <2>3 DEF Turned, Becoming, AnswerTypes, Costs, Within, Clean
  <2> QED BY <2>4
<1>6. CASE Pace
  <2>1. PICK n \in 0..2 : Calls(n)
    BY <1>r, <1>6 DEF Pace
  <2>2. PICK s : Becoming("bounding", s) /\ s \cap Stripped = {}
    BY <1>r, <1>6, SanitizedIs DEF Pace, Clean
  <2>c. Made(n)
    BY <2>1, CallsCost
  <2>3. AnswerTypes' /\ Costs' /\ Clean'
    BY <1>r, <1>6, <2>c, <2>2 DEF Pace, Made, Within, Turned, Becoming, AnswerTypes, Costs, Clean
  <2> QED BY <2>3
<1>7. CASE Bound
  <2>1. Made(0) \/ Made(1)
    <3>1. CASE Calls(1)
      BY <3>1, CallsCost
    <3>2. CASE UNCHANGED asked
      BY <3>2 DEF Made, AnswerTypes
    <3> QED BY <1>7, <3>1, <3>2 DEF Bound
  <2>2. PICK s : Becoming("guarding", s) /\ s \cap Stripped = {} /\ (external => "external" \notin s)
    BY <1>r, <1>7, SanitizedIs DEF Bound, Clean
  <2>3. AnswerTypes' /\ Costs' /\ Clean'
    BY <1>r, <1>7, <2>1, <2>2 DEF Bound, Made, Within, Turned, Becoming, AnswerTypes, Costs, Clean
  <2> QED BY <2>3
<1>8. CASE Pass \/ Trim
  <2>1. PICK s : /\ Sends(s, "model") /\ s \cap (Claims \cup Stripped) = {} /\ s \subseteq text
                 /\ ("internal" \in s => repairs = 0)
    <3>1. CASE Pass
      BY <3>1 DEF Pass, Supported, Clean, Claims, Stripped
    <3>2. CASE Trim
      <4>1. Sends(text \ {"stock"}, "model") /\ "claim" \notin text /\ text \cap Stripped = {} /\ repairs = 0
        BY <3>2 DEF Trim, Trimmed, Claims, Clean
      <4> QED BY <4>1 DEF Claims
    <3> QED BY <1>8, <3>1, <3>2
  <2>3. AnswerTypes' /\ Costs' /\ Clean'
    BY <1>r, <1>8, <2>1 DEF Pass, Trim, Sends, Turned, Becoming, AnswerTypes, Costs, Within, Clean
  <2> QED BY <2>3
<1>9. CASE Repair
  <2>1. \/ \E s : Sends(s, "model") /\ s \cap (Claims \cup Stripped) = {} /\ "internal" \notin s
        \/ UNCHANGED <<answering, text, origin>>
    BY <1>r, <1>9, SanitizedIs DEF Repair, Accepted
  <2>2. /\ answering = "guarding" /\ ~Supported(text) /\ repairs < 2 /\ repairs' = repairs + 1
        /\ Calls(1) /\ UNCHANGED <<mode, round, external>>
    BY <1>r, <1>9 DEF Repair
  <2>c. Made(1)
    BY <2>2, CallsCost
  <2>3. AnswerTypes' /\ Costs' /\ Clean'
    BY <1>r, <2>1, <2>2, <2>c DEF Sends, Made, Within, Becoming, Supported, AnswerTypes, Costs, Clean
  <2> QED BY <2>3
<1>10. CASE GiveUp \/ Fails
  <2>1. \E from \in {"fallback", "error"} : Sends({}, from)
    BY <1>r, <1>10 DEF GiveUp, Fails
  <2>2. AnswerTypes' /\ Clean'
    <3>1. asked' \in Nat
      <4>1. CASE GiveUp
        BY <4>1 DEF GiveUp, AnswerTypes
      <4>2. CASE Fails
        <5>1. PICK n \in 1..UpToFailing : Calls(n)
          BY <4>2 DEF Fails
        <5>2. n \in 0..3
          BY DEF UpToFailing
        <5> QED BY <5>1, <5>2, CallsCost DEF Made
      <4> QED BY <1>10, <4>1, <4>2
    <3>2. Turned
      BY <1>10 DEF GiveUp, Fails
    <3> QED BY <2>1, <3>1, <3>2 DEF Sends, Turned, Becoming, AnswerTypes, Clean
  <2>3. Costs'
    <3>1. CASE GiveUp
      BY <1>r, <3>1 DEF GiveUp, Sends, Turned, Becoming, AnswerTypes, Costs, Within
    <3>2. CASE Fails
      <4>1. PICK n \in 1..UpToFailing : Calls(n)
        BY <3>2 DEF Fails
      <4>2. /\ n \in 1..3
            /\ answering = "asking" => n = 1 \/ (mode = "preview" /\ round < Rounds[mode])
            /\ answering = "pacing" => n <= 2
            /\ answering \in {"bounding", "guarding"} => n = 1
        BY DEF UpToFailing
      <4>3. Made(n)
        BY <4>1, <4>2, CallsCost
      <4>4. /\ answering \in {"asking", "pacing", "bounding", "guarding"}
            /\ answering = "guarding" => repairs < 2
            /\ answering' = "sent" /\ Turned
        BY <3>2 DEF Fails, Sends, Becoming
      <4>5. CASE mode = "live"
        BY <1>r, <4>2, <4>3, <4>4, <4>5 DEF Made, Turned, AnswerTypes, Costs, Within
      <4>6. CASE mode = "preview"
        BY <1>r, <4>2, <4>3, <4>4, <4>6 DEF Made, Turned, AnswerTypes, Costs, Within
      <4> QED BY <4>5, <4>6 DEF AnswerTypes
    <3> QED BY <1>10, <3>1, <3>2
  <2> QED BY <2>2, <2>3
<1>11. CASE Sent
  BY <1>r, <1>11 DEF Sent, AnswerTypes, Costs, Within, Clean
<1> QED BY <1>r, <1>1, <1>2, <1>3, <1>4, <1>5, <1>6, <1>7, <1>8, <1>9, <1>10, <1>11 DEF AnswersNext

(* No customer gets a claim the evidence does not have, markup or Chinese, *)
(* however often the text was written again, and an answer costs no more   *)
(* calls of the model than its rounds and four, in the simulator than      *)
(* three times its rounds and seven: for any numbers of rounds.            *)
THEOREM AnswersStayGrounded == AnswersSpec => []AnswersAreGrounded
<1>1. AnswersInit => AnswersInv
  <2> SUFFICES ASSUME AnswersInit PROVE AnswersInv
    OBVIOUS
  <2>1. AnswerTypes
    <3>1. Rounds[mode] \in Nat /\ round = 0
      BY AnswersAssumption DEF AnswersInit
    <3>2. external \in BOOLEAN
      BY Zenon DEF AnswersInit
    <3> QED BY <3>1, <3>2 DEF AnswersInit, AnswerTypes
  <2>2. Costs
    BY AnswersAssumption DEF AnswersInit, Costs, Within
  <2>3. Clean
    BY DEF AnswersInit, Clean
  <2> QED BY <2>1, <2>2, <2>3 DEF AnswersInv
<1>2. AnswersInv /\ [AnswersNext]_answerVars => AnswersInv'
  <2>1. CASE UNCHANGED answerVars
    BY <2>1 DEF answerVars, AnswersInv, AnswerTypes, Costs, Within, Clean
  <2> QED BY <2>1, AnswersInvStep
<1>3. AnswersInv => AnswersAreGrounded
  BY AnswersAssumption DEF AnswersInv, AnswersAreGrounded, AnswerTypes, Costs, Within, Clean
<1> QED BY <1>1, <1>2, <1>3, PTL DEF AnswersSpec

-----------------------------------------------------------------------------
(* Prices: catalog/product-catalog.ts and the turns that use it.           *)

AnyVariant == Scheme \cup {NoValue}
AnyPrice == Prices \cup {0, NoValue}
Offers == [variant : AnyVariant, options : Options, price : AnyPrice]

(* The prices of a scheme are of all combinations of some values.          *)
IsForm(f) ==
  \E v \in [Axis -> (SUBSET Values) \ {{}}] :
    (\A a \in Axis : v[a] \subseteq ValuesOf[a]) /\ f \in [Combinations(v) -> Prices \cup {0}]

CatalogueTypes ==
  /\ DOMAIN catalogue \subseteq Scheme /\ \A s \in DOMAIN catalogue : IsForm(catalogue[s])
  /\ chat \in Offers
  /\ draft \in Offers \cup {NoDraft}
  /\ todo \in Seq([to : {"chat", "draft"}, offer : Offers])

(* What the catalogue said when the draft was checked.                     *)
Priced(row) ==
  DOMAIN against # {} =>
    \E s \in DOMAIN against :
      /\ row.variant \in {s, NoValue} \cup (Scheme \ DOMAIN against)
      /\ row.options \in DOMAIN against[s]
      /\ row.price = against[s][row.options]

CatalogueInv ==
  /\ CatalogueTypes
  /\ turn \in {"idle", "confirming"} => todo = << >>
  /\ turn = "confirming" => Priced(draft)
  /\ order # None => turn = "idle" /\ Priced(order)

(* Nothing chosen is a choice of options.                                  *)
LEMMA NoOptions == << >> \in Options
<1>1. << >> \in [{} -> Values]
  OBVIOUS
<1> QED BY <1>1 DEF Options, Partial

(* The combinations of a form are a product: one value of a combination    *)
(* may take the place of another's.                                        *)
LEMMA FormIs ==
  ASSUME NEW f, IsForm(f), CatalogueAssumption
  PROVE  /\ DOMAIN f \subseteq Options /\ DOMAIN f \subseteq [Axis -> Values] /\ DOMAIN f # {}
         /\ \A o \in DOMAIN f : f[o] \in Prices \cup {0} /\ \A a \in Axis : o[a] \in ValuesOf[a]
         /\ \A o, p \in DOMAIN f, a \in Axis : [o EXCEPT ![a] = p[a]] \in DOMAIN f
<1>1. PICK v \in [Axis -> (SUBSET Values) \ {{}}] :
        (\A a \in Axis : v[a] \subseteq ValuesOf[a]) /\ f \in [Combinations(v) -> Prices \cup {0}]
  BY DEF IsForm
<1>2. DOMAIN f = {o \in [Axis -> Values] : \A a \in Axis : o[a] \in v[a]}
  BY <1>1 DEF Combinations
<1>3. DOMAIN f \subseteq Options
  BY <1>1, <1>2 DEF Options, Partial
<1>4. DOMAIN f # {}
  <2> DEFINE o == [a \in Axis |-> CHOOSE x \in v[a] : TRUE]
  <2>1. \A a \in Axis : (CHOOSE x \in v[a] : TRUE) \in v[a] /\ v[a] \subseteq Values
    BY <1>1
  <2>2. o \in [Axis -> Values] /\ \A a \in Axis : o[a] \in v[a]
    BY <2>1
  <2> HIDE DEF o
  <2>3. o \in DOMAIN f
    BY <1>2, <2>2
  <2> QED BY <2>3
<1>5. \A o, p \in DOMAIN f, a \in Axis : [o EXCEPT ![a] = p[a]] \in DOMAIN f
  BY <1>2
<1> QED BY <1>1, <1>2, <1>3, <1>4, <1>5

(* What is resolved is a row of the catalogue that fits.                   *)
LEMMA ResolveIs ==
  ASSUME NEW class, NEW attrs, NEW r \in Resolve(class, attrs)
  PROVE  /\ r.variant \in DOMAIN catalogue /\ (class \in DOMAIN catalogue => r.variant = class)
         /\ r.options \in Fitting(r.variant, attrs) /\ DOMAIN attrs = Axis
         /\ r.price = catalogue[r.variant][r.options]
         /\ r = [variant |-> r.variant, options |-> r.options, price |-> r.price]
<1> DEFINE matching == {s \in DOMAIN catalogue : Cardinality(Fitting(s, attrs)) = 1}
           found == IF class \in DOMAIN catalogue THEN {class} ELSE IF Cardinality(matching) = 1 THEN matching ELSE {}
           complete == {s \in found : DOMAIN attrs = Axis /\ Cardinality(Fitting(s, attrs)) = 1}
           row(s, o) == [variant |-> s, options |-> o, price |-> catalogue[s][o]]
<1>1. r \in UNION {{row(s, o) : o \in Fitting(s, attrs)} : s \in complete}
  BY DEF Resolve, Sole
<1>2. PICK s \in complete : r \in {row(s, o) : o \in Fitting(s, attrs)}
  BY <1>1
<1>3. PICK o \in Fitting(s, attrs) : r = row(s, o)
  BY <1>2
<1>4. s \in DOMAIN catalogue /\ (class \in DOMAIN catalogue => s = class) /\ DOMAIN attrs = Axis
  BY <1>2
<1> QED BY <1>3, <1>4

(* So it is an offer, whichever class and attributes it is resolved from.  *)
LEMMA ResolveTypes ==
  ASSUME CatalogueTypes, CatalogueAssumption, NEW class, NEW attrs
  PROVE  Resolve(class, attrs) \subseteq Offers
<1> SUFFICES ASSUME NEW r \in Resolve(class, attrs) PROVE r \in Offers
  OBVIOUS
<1>1. /\ r.variant \in DOMAIN catalogue /\ r.options \in DOMAIN catalogue[r.variant]
      /\ r.price = catalogue[r.variant][r.options]
      /\ r = [variant |-> r.variant, options |-> r.options, price |-> r.price]
  BY ResolveIs DEF Fitting
<1>2. r.variant \in AnyVariant /\ IsForm(catalogue[r.variant])
  BY <1>1 DEF CatalogueTypes, AnyVariant
<1>3. r.options \in Options /\ r.price \in AnyPrice
  BY <1>1, <1>2, FormIs DEF AnyPrice
<1> QED BY <1>1, <1>2, <1>3 DEF Offers

(* So is the offer that a text names,                                      *)
LEMMA OfferTypes ==
  ASSUME CatalogueTypes, CatalogueAssumption, NEW words
  PROVE  OfferInText(words) \subseteq Offers
<1> DEFINE last == LastOf(words, DOMAIN catalogue)
           candidates == IF last > 0 THEN {words[last]}
                         ELSE {s \in DOMAIN catalogue : \A a \in Axis : LastValue(words, s, a) # NoValue}
           resolved == UNION {Resolve(s, [a \in Axis |-> LastValue(words, s, a)]) : s \in candidates}
<1>1. resolved \subseteq Offers
  <2> SUFFICES ASSUME NEW s \in candidates, NEW r \in Resolve(s, [a \in Axis |-> LastValue(words, s, a)])
               PROVE  r \in Offers
    OBVIOUS
  <2> QED BY ResolveTypes
<1> QED BY <1>1 DEF OfferInText, Sole

(* the one that a text selects,                                            *)
LEMMA SelectionTypes ==
  ASSUME CatalogueTypes, CatalogueAssumption, NEW said, NEW previous
  PROVE  SelectionUpdate(said, previous) \subseteq Offers
<1> DEFINE before == <<previous.variant>> \o SetToSeq(Range(previous.options))
<1>1. OfferInText(said.words) \subseteq Offers /\ OfferInText(before \o said.words) \subseteq Offers
  BY OfferTypes
<1> HIDE DEF before
<1> QED BY <1>1 DEF SelectionUpdate, before

(* and the one of an earlier message.                                      *)
LEMMA PreviousTypes ==
  ASSUME CatalogueTypes, CatalogueAssumption, NEW words, NEW previous \in Previous(words)
  PROVE  previous \subseteq Offers
<1>1. \/ previous = {} \/ \E class, attrs : previous = Resolve(class, attrs)
  BY DEF Previous
<1> QED BY <1>1, ResolveTypes

(* An offer is kept by two writes.                                         *)
LEMMA LockTypes ==
  ASSUME NEW offer \in Offers
  PROVE  Lock(offer) \in Seq([to : {"chat", "draft"}, offer : Offers])
  BY DEF Lock

(* A turn writes offers, or nothing.                                       *)
LEMMA AnswerWrites ==
  ASSUME CatalogueTypes, CatalogueAssumption, NEW said, NEW live, NEW words, NEW previous \in Previous(words),
         Answer(said, live, previous)
  PROVE  /\ todo' \in Seq([to : {"chat", "draft"}, offer : Offers])
         /\ turn' \in {"writing", "asking", "locked"}
<1> DEFINE P == IF previous = {} THEN None ELSE CHOOSE p \in previous : TRUE
           base == [variant |-> IF live.variant # NoValue THEN live.variant ELSE P.variant,
                    options |-> IF live.options # << >> THEN live.options ELSE P.options]
           selected == SelectionUpdate(said, base)
<1>1. previous # {} => P \in Offers
  BY PreviousTypes
<1>2. selected # {} => (CHOOSE s \in selected : TRUE) \in Offers
  BY SelectionTypes
<1> HIDE DEF P, selected
<1>3. \/ previous # {} /\ todo' = Lock(P)
      \/ selected # {} /\ todo' = Lock(CHOOSE s \in selected : TRUE)
      \/ todo' = << >>
  BY DEF Answer, P, selected
<1>4. turn' \in {"writing", "asking", "locked"}
  BY DEF Answer
<1>5. << >> \in Seq([to : {"chat", "draft"}, offer : Offers])
  OBVIOUS
<1> QED BY <1>1, <1>2, <1>3, <1>4, <1>5, LockTypes

(* What is written leaves an offer in the row.                             *)
LEMMA MergedTypes ==
  ASSUME NEW offer \in Offers, NEW row \in Offers \cup {NoDraft}
  PROVE  Merged(row, offer) \in Offers
<1>1. offer.variant \in AnyVariant /\ offer.options \in Options /\ offer.price \in AnyPrice
  BY DEF Offers
<1>2. /\ row.variant \in AnyVariant /\ row.options \in Options \cup {NoValue} /\ row.price \in AnyPrice
  BY DEF Offers, NoDraft, None, AnyVariant, AnyPrice
<1> QED BY <1>1, <1>2, NoOptions DEF Merged, Offers

(* A draft that is valid has the price of the catalogue.                   *)
LEMMA ValidIsPriced ==
  ASSUME CatalogueTypes, CatalogueAssumption, Valid, against' = catalogue, draft' = draft
  PROVE  Priced(draft)'
<1> SUFFICES ASSUME DOMAIN catalogue # {}
             PROVE  \E s \in DOMAIN catalogue :
                      /\ draft.variant \in {s, NoValue} \cup (Scheme \ DOMAIN catalogue)
                      /\ draft.options \in DOMAIN catalogue[s]
                      /\ draft.price = catalogue[s][draft.options]
  BY DEF Priced
<1>1. PICK r \in Resolve(draft.variant, draft.options) : r.price = draft.price
  BY DEF Valid
<1> DEFINE s == r.variant
           attrs == draft.options
<1>d. draft \in Offers
  BY DEF CatalogueTypes, Valid, NoDraft, None
<1>2. /\ s \in DOMAIN catalogue /\ (draft.variant \in DOMAIN catalogue => s = draft.variant)
      /\ r.options \in Fitting(s, attrs) /\ DOMAIN attrs = Axis /\ r.price = catalogue[s][r.options]
  BY <1>1, ResolveIs
<1> HIDE DEF s
<1>3. draft.variant \in {s, NoValue} \cup (Scheme \ DOMAIN catalogue)
  BY <1>2, <1>d DEF CatalogueTypes, AnyVariant, Offers
<1>4. r.options \in DOMAIN catalogue[s] /\ \A a \in Axis : attrs[a] \in {NoValue, r.options[a]}
  BY <1>2 DEF Fitting
<1>5. r.options \in [Axis -> Values]
  BY <1>2, <1>4, FormIs DEF CatalogueTypes
<1>6. attrs \in Options
  BY <1>d DEF Offers
<1>7. attrs \in [Axis -> Values]
  BY <1>2, <1>6 DEF Options, Partial
<1>8. attrs = r.options
  <2>1. \A a \in Axis : attrs[a] = r.options[a]
    BY <1>4, <1>7 DEF CatalogueAssumption
  <2> QED BY <1>5, <1>7, <2>1
<1> QED BY <1>1, <1>2, <1>3, <1>4, <1>8

(* The forms of the panel leave catalogues.                                *)
LEMMA EditTypes ==
  ASSUME CatalogueTypes, CatalogueAssumption, SaveScheme \/ AddScheme \/ DeleteScheme
  PROVE  DOMAIN catalogue' \subseteq Scheme /\ \A s \in DOMAIN catalogue' : IsForm(catalogue'[s])
<1>1. CASE SaveScheme
  <2>1. PICK s \in DOMAIN catalogue, form \in SchemeForms : catalogue' = [catalogue EXCEPT ![s] = form]
    BY <1>1 DEF SaveScheme, Edit
  <2>2. IsForm(form)
    <3>1. PICK v \in {w \in [Axis -> (SUBSET Values) \ {{}}] : \A a \in Axis : w[a] \subseteq ValuesOf[a]} :
                 form \in [Combinations(v) -> Prices]
      BY DEF SchemeForms
    <3>2. form \in [Combinations(v) -> Prices \cup {0}]
      BY <3>1
    <3> QED BY <3>1, <3>2 DEF IsForm
  <2> QED BY <2>1, <2>2 DEF CatalogueTypes
<1>2. CASE AddScheme
  <2>1. PICK s \in Scheme \ DOMAIN catalogue, o \in {p \in Options : DOMAIN p = Axis} :
               catalogue' = [t \in DOMAIN catalogue \cup {s} |-> IF t = s THEN [p \in {o} |-> 0] ELSE catalogue[t]]
    BY <1>2 DEF AddScheme, Edit
  <2>2. o \in [Axis -> Values] /\ \A a \in Axis : o[a] \in ValuesOf[a]
    BY DEF Options, Partial
  <2> DEFINE v == [a \in Axis |-> {o[a]}]
  <2>3. v \in [Axis -> (SUBSET Values) \ {{}}] /\ \A a \in Axis : v[a] \subseteq ValuesOf[a]
    BY <2>2
  <2>4. Combinations(v) = {o}
    <3>1. o \in Combinations(v)
      BY <2>2 DEF Combinations
    <3>2. ASSUME NEW p \in Combinations(v) PROVE p = o
      <4>1. p \in [Axis -> Values] /\ \A a \in Axis : p[a] = o[a]
        BY DEF Combinations
      <4> QED BY <2>2, <4>1
    <3> QED BY <3>1, <3>2
  <2>5. IsForm([p \in {o} |-> 0])
    <3>1. [p \in {o} |-> 0] \in [Combinations(v) -> Prices \cup {0}]
      BY <2>4
    <3> HIDE DEF v
    <3> QED BY <2>3, <3>1 DEF IsForm
  <2> QED BY <2>1, <2>5 DEF CatalogueTypes
<1>3. CASE DeleteScheme
  BY <1>3 DEF DeleteScheme, Edit, CatalogueTypes
<1> QED BY <1>1, <1>2, <1>3

(* A draft that was checked keeps its price until it is confirmed, since   *)
(* nothing is left to write then.                                          *)
LEMMA CatalogueInvStep ==
  ASSUME CatalogueInv, CatalogueAssumption, [CatalogueNext]_catalogueVars
  PROVE  CatalogueInv'
<1> USE DEF CatalogueInv
<1>1. CASE Message
  <2>1. /\ todo' \in Seq([to : {"chat", "draft"}, offer : Offers]) /\ turn' \in {"writing", "asking", "locked"}
        /\ order = None /\ UNCHANGED <<catalogue, chat, draft, against, order, edits>>
    BY <1>1, AnswerWrites DEF Message
  <2> QED BY <2>1 DEF CatalogueTypes
<1>2. CASE Write
  <2>1. /\ Head(todo) \in [to : {"chat", "draft"}, offer : Offers]
        /\ Tail(todo) \in Seq([to : {"chat", "draft"}, offer : Offers])
    BY <1>2, HeadTailProperties DEF Write, CatalogueTypes
  <2>2. Merged(chat, Head(todo).offer) \in Offers /\ Merged(draft, Head(todo).offer) \in Offers
    BY <2>1, MergedTypes DEF CatalogueTypes
  <2>3. turn \notin {"idle", "confirming"}
    BY <1>2 DEF Write
  <2>4. chat' \in {chat, Merged(chat, Head(todo).offer)} /\ draft' \in {draft, Merged(draft, Head(todo).offer)}
        /\ todo' = Tail(todo) /\ UNCHANGED <<catalogue, turn, against, order, edits>>
    BY <1>2 DEF Write
  <2> QED BY <2>1, <2>2, <2>3, <2>4 DEF CatalogueTypes
<1>3. CASE EndTurn
  BY <1>3 DEF EndTurn, CatalogueTypes, Priced
<1>4. CASE SaveDraft
  <2>1. PICK variant \in AnyVariant, options \in Options, price \in AnyPrice :
          todo' = Lock([variant |-> variant, options |-> options, price |-> price])
    <3>1. PICK variant \in Scheme \cup {NoValue}, options \in Options, price \in Prices \cup {NoValue} :
            LET offer == IF options = << >> THEN {} ELSE Resolve(variant, options)
                paid == IF offer = {} THEN price ELSE (CHOOSE o \in offer : TRUE).price
            IN  todo' = Lock([variant |-> variant, options |-> options, price |-> paid])
      BY <1>4 DEF SaveDraft
    <3> DEFINE offer == IF options = << >> THEN {} ELSE Resolve(variant, options)
               paid == IF offer = {} THEN price ELSE (CHOOSE o \in offer : TRUE).price
    <3>2. offer \subseteq Offers
      BY ResolveTypes
    <3> HIDE DEF offer
    <3>3. paid \in AnyPrice
      BY <3>2 DEF Offers, AnyPrice
    <3> HIDE DEF paid
    <3>4. todo' = Lock([variant |-> variant, options |-> options, price |-> paid])
      BY <3>1 DEF paid, offer
    <3> QED BY <3>3, <3>4 DEF AnyVariant
  <2>2. todo' \in Seq([to : {"chat", "draft"}, offer : Offers])
    BY <2>1, LockTypes DEF Offers
  <2> QED BY <1>4, <2>2 DEF SaveDraft, CatalogueTypes
<1>5. CASE Validate
  <2>1. Priced(draft)'
    BY <1>5, ValidIsPriced DEF Validate
  <2>2. order = None
    BY <1>5 DEF Validate
  <2> QED BY <1>5, <2>1, <2>2 DEF Validate, CatalogueTypes
<1>6. CASE Confirm
  BY <1>6 DEF Confirm, CatalogueTypes, Priced
<1>7. CASE SaveScheme \/ AddScheme \/ DeleteScheme
  <2>1. UNCHANGED <<chat, draft, turn, todo, against, order>>
    BY <1>7 DEF SaveScheme, AddScheme, DeleteScheme, Edit
  <2> QED BY <1>7, <2>1, EditTypes DEF CatalogueTypes, Priced
<1>8. CASE UNCHANGED catalogueVars
  BY <1>8 DEF catalogueVars, CatalogueTypes, Priced
<1> QED BY <1>1, <1>2, <1>3, <1>4, <1>5, <1>6, <1>7, <1>8 DEF CatalogueNext

(* And so it begins.                                                       *)
LEMMA CatalogueInvInit == ASSUME CatalogueInit PROVE CatalogueInv
<1>1. PICK S \in {{}, Scheme}, f \in {g \in SchemeForms : Cardinality(DOMAIN g) > 1} : catalogue = [s \in S |-> f]
  BY DEF CatalogueInit
<1>2. IsForm(f)
  <2>1. PICK v \in {w \in [Axis -> (SUBSET Values) \ {{}}] : \A a \in Axis : w[a] \subseteq ValuesOf[a]} :
               f \in [Combinations(v) -> Prices]
    BY DEF SchemeForms
  <2>2. f \in [Combinations(v) -> Prices \cup {0}]
    BY <2>1
  <2> QED BY <2>1, <2>2 DEF IsForm
<1>3. None \in Offers
  BY NoOptions DEF None, Offers, AnyVariant, AnyPrice
<1>4. CatalogueTypes
  BY <1>1, <1>2, <1>3 DEF CatalogueInit, CatalogueTypes
<1> QED BY <1>4 DEF CatalogueInit, CatalogueInv

-----------------------------------------------------------------------------
(* The texts of a customer.                                                *)

(* Of some numbers up to a bound Max is the greatest.                      *)
LEMMA Greatest ==
  ASSUME NEW n \in Nat, NEW S \in SUBSET (0..n), S # {}
  PROVE  Max(S) \in S /\ \A i \in S : i <= Max(S)
<1> DEFINE below == {n - i : i \in S}
<1>1. \A i \in S : n - i \in Nat
  OBVIOUS
<1>0. below \in SUBSET Nat /\ below # {}
  BY <1>1
<1>2. PICK k \in below : \A l \in below : k <= l
  BY <1>0, Least
<1>3. PICK x \in S : k = n - x
  OBVIOUS
<1>4. \A y \in S : x >= y
  <2> SUFFICES ASSUME NEW y \in S PROVE x >= y
    OBVIOUS
  <2>1. n - x <= n - y
    BY <1>2, <1>3
  <2> QED BY <2>1
<1>5. Max(S) \in S /\ \A y \in S : Max(S) >= y
  BY <1>4 DEF Max
<1> QED BY <1>5

(* Where the last word of a kind is in two parts of a text.                *)
HitsLast(front, w, C, u, i) ==
  /\ Range(w) \cap C # {} => i > 0 /\ u[i] \in Range(w) \cap C
  /\ Range(w) \cap C = {} /\ Range(front) \cap C # {} => i > 0 /\ u[i] \in Range(front) \cap C
  /\ Range(w) \cap C = {} /\ Range(front) \cap C = {} => i = 0

(* The last word of a kind is in the second part if there is one.          *)
LEMMA LastIn ==
  ASSUME NEW X, NEW front \in Seq(X), NEW w \in Seq(X), NEW C
  PROVE  HitsLast(front, w, C, front \o w, LastOf(front \o w, C))
<1> DEFINE u == front \o w
           i == LastOf(u, C)
           m == Len(front)
           n == Len(w)
           hits == {k \in DOMAIN u : u[k] \in C}
<1>1. /\ m \in Nat /\ n \in Nat /\ DOMAIN front = 1..m /\ DOMAIN w = 1..n
      /\ DOMAIN u = 1..(m + n)
      /\ \A k \in 1..m : u[k] = front[k]
      /\ \A k \in 1..n : u[m + k] = w[k]
  BY ConcatProperties, LenProperties
<1> HIDE DEF m, n, u
<1>2. i \in {0} \cup hits /\ \A k \in hits : k <= i
  <2>1. {0} \cup hits \in SUBSET (0..(m + n)) /\ {0} \cup hits # {} /\ m + n \in Nat
    BY <1>1
  <2>2. i = Max({0} \cup hits)
    BY DEF LastOf
  <2> HIDE DEF hits, i
  <2> QED BY <2>1, <2>2, Greatest
<1> HIDE DEF i
<1>3. \A k \in hits : k > 0 /\ k \in 1..(m + n) /\ u[k] \in C
  BY <1>1
<1>4. \A k \in DOMAIN w : w[k] \in C => m + k \in hits
  BY <1>1
<1>5. \A k \in DOMAIN front : front[k] \in C => k \in hits
  BY <1>1
<1> HIDE DEF hits
<1>6. ASSUME Range(w) \cap C # {} PROVE i > 0 /\ u[i] \in Range(w) \cap C
  <2>1. PICK j \in DOMAIN w : w[j] \in C
    BY <1>6 DEF Range
  <2>2. m + j \in hits /\ m + j <= i
    BY <1>2, <1>4, <2>1
  <2>3. i \in hits /\ i \in (m + 1)..(m + n)
    BY <1>1, <1>2, <1>3, <2>2
  <2>4. i - m \in DOMAIN w /\ u[i] = w[i - m]
    BY <1>1, <2>3
  <2> QED BY <1>3, <1>6, <2>3, <2>4 DEF Range
<1>7. ASSUME Range(w) \cap C = {}
      PROVE  /\ Range(front) \cap C # {} => i > 0 /\ u[i] \in Range(front) \cap C
             /\ Range(front) \cap C = {} => i = 0
  <2>1. \A k \in hits : k \in DOMAIN front /\ u[k] = front[k] /\ front[k] \in C
    <3> SUFFICES ASSUME NEW k \in hits PROVE k \in 1..m
      BY <1>1, <1>3
    <3>1. CASE k > m
      <4>1. k - m \in 1..n /\ u[k] = w[k - m]
        BY <1>1, <1>3, <3>1
      <4> QED BY <1>1, <1>3, <1>7, <4>1 DEF Range
    <3> QED BY <1>1, <1>3, <3>1
  <2>2. ASSUME Range(front) \cap C # {} PROVE i > 0 /\ u[i] \in Range(front) \cap C
    <3>1. PICK k \in DOMAIN front : front[k] \in C
      BY <2>2 DEF Range
    <3>2. k \in hits /\ k <= i
      BY <1>2, <1>5, <3>1
    <3>3. i \in hits
      BY <1>1, <1>2, <1>3, <3>2
    <3> QED BY <1>3, <2>1, <3>3 DEF Range
  <2>3. ASSUME Range(front) \cap C = {} PROVE i = 0
    BY <1>2, <2>1, <2>3 DEF Range
  <2> QED BY <1>7, <2>2, <2>3
<1>8. HitsLast(front, w, C, u, i)
  BY <1>6, <1>7 DEF HitsLast
<1> QED BY <1>8 DEF u, i

(* If there is none, it is the last of the first part, at its place there. *)
LEMMA LastKept ==
  ASSUME NEW X, NEW front \in Seq(X), NEW w \in Seq(X), NEW C, Range(w) \cap C = {}
  PROVE  /\ LastOf(front \o w, C) = LastOf(front, C)
         /\ LastOf(front, C) # 0 => (front \o w)[LastOf(front, C)] = front[LastOf(front, C)] /\ front[LastOf(front, C)] \in C
<1> DEFINE u == front \o w
           m == Len(front)
           n == Len(w)
           hits == {k \in DOMAIN front : front[k] \in C}
<1>1. /\ m \in Nat /\ n \in Nat /\ DOMAIN front = 1..m /\ DOMAIN w = 1..n
      /\ DOMAIN u = 1..(m + n)
      /\ \A k \in 1..m : u[k] = front[k]
      /\ \A k \in 1..n : u[m + k] = w[k]
  BY ConcatProperties, LenProperties
<1> HIDE DEF m, n, u
<1>2. \A k \in 1..(m + n) : u[k] \in C => k \in 1..m
  <2> SUFFICES ASSUME NEW k \in 1..(m + n), u[k] \in C, k > m PROVE FALSE
    BY <1>1
  <2>1. k - m \in 1..n /\ u[k] = w[k - m]
    BY <1>1
  <2> QED BY <1>1, <2>1 DEF Range
<1>3. {k \in DOMAIN u : u[k] \in C} = hits
  BY <1>1, <1>2
<1>4. LastOf(u, C) = LastOf(front, C) /\ LastOf(front, C) = Max({0} \cup hits)
  BY <1>3 DEF LastOf
<1>5. {0} \cup hits \in SUBSET (0..m) /\ {0} \cup hits # {}
  BY <1>1
<1> HIDE DEF hits
<1>6. Max({0} \cup hits) \in {0} \cup hits
  BY <1>1, <1>5, Greatest
<1>7. \A k \in hits : u[k] = front[k] /\ front[k] \in C
  BY <1>1 DEF hits
<1> QED BY <1>4, <1>6, <1>7 DEF u

(* Of a finite set as a sequence nothing is lost.                          *)
LEMMA SetAsSeq ==
  ASSUME NEW S, IsFiniteSet(S)
  PROVE  SetToSeq(S) \in Seq(S) /\ Range(SetToSeq(S)) = S
<1> DEFINE n == Cardinality(S)
<1>1. n \in Nat /\ ExistsBijection(1..n, S)
  BY FS_CardinalityType
<1> HIDE DEF n
<1>2. PICK g \in [1..n -> S] : IsInjective(g)
  BY <1>1 DEF ExistsBijection, Bijection, Injection
<1>3. SetToSeq(S) \in [1..n -> S] /\ IsInjective(SetToSeq(S))
  <2>1. SetToSeq(S) = CHOOSE f \in [1..n -> S] : IsInjective(f)
    BY DEF SetToSeq, n
  <2> QED BY <1>2, <2>1
<1> DEFINE q == SetToSeq(S)
<1> HIDE DEF q
<1>4. q \in Injection(1..n, S)
  BY <1>3 DEF Injection, q
<1>5. IsFiniteSet(1..n) /\ Cardinality(1..n) = n
  BY <1>1, FS_Interval
<1>6. q \in Surjection(1..n, S)
  BY <1>4, <1>5, FS_Injection DEF n
<1>7. \A x \in S : \E i \in DOMAIN q : q[i] = x
  BY <1>6, <1>3 DEF Surjection, q
<1>8. q \in Seq(S)
  BY <1>1, <1>3 DEF q
<1> QED BY <1>3, <1>7, <1>8 DEF Range, q

(* In a set of one at most, all are equal.                                 *)
LEMMA FewAreEqual ==
  ASSUME NEW S, IsFiniteSet(S), Cardinality(S) <= 1
  PROVE  \A x, y \in S : x = y
<1>1. Cardinality(S) \in Nat
  BY FS_CardinalityType
<1>2. Cardinality(S) = 0 \/ Cardinality(S) = 1
  BY <1>1
<1> QED BY <1>2, FS_EmptySet, FS_Singleton
-----------------------------------------------------------------------------
(* The values of an axis that a text mentions, and those it asks for after *)
(* what is known from before it.                                           *)
SaidIn(w, s, a) == Range(w) \cap ValuesIn(s, a)
WantedOf(before, w, s, a) ==
  IF SaidIn(w, s, a) # {} THEN SaidIn(w, s, a)
  ELSE IF before[a] \cap ValuesIn(s, a) # {} THEN before[a] \cap ValuesIn(s, a) ELSE ValuesIn(s, a)
RowsOf(s, F) == {[variant |-> s, options |-> o, price |-> catalogue[s][o]] : o \in F}
Vocabulary == Scheme \cup Values \cup {NoValue}

(* A combination is wanted when each axis has a value that is.             *)
LEMMA WantedIs ==
  ASSUME NEW s, NEW w, NEW before
  PROVE  Wanted(s, w, before) = {o \in DOMAIN catalogue[s] : \A a \in Axis : o[a] \in WantedOf(before, w, s, a)}
  BY DEF Wanted, WantedOf, SaidIn, Otherwise

(* So what is wanted depends on what is known only by the values of the    *)
(* scheme.                                                                 *)
LEMMA SameIsWanted ==
  ASSUME NEW s, NEW w, NEW one, NEW other, \A a \in Axis : one[a] \cap ValuesIn(s, a) = other[a] \cap ValuesIn(s, a)
  PROVE  Wanted(s, w, one) = Wanted(s, w, other)
<1>1. \A a \in Axis : WantedOf(one, w, s, a) = WantedOf(other, w, s, a)
  BY DEF WantedOf
<1> QED BY <1>1, WantedIs

(* The combinations of a scheme are few enough to count.                   *)
LEMMA CombinationsAreFinite ==
  ASSUME CatalogueTypes, CatalogueAssumption, NEW s \in DOMAIN catalogue, NEW F \in SUBSET DOMAIN catalogue[s]
  PROVE  IsFiniteSet(F) /\ (Cardinality(F) = 1 <=> \E o : F = {o})
<1>1. F \in SUBSET Options /\ IsFiniteSet(Options)
  BY FormIs DEF CatalogueTypes, CatalogueAssumption
<1> QED BY <1>1, FS_Subset, FS_Singleton

(* The last value of an axis fits as the text and the words before say.    *)
LEMMA LastFits ==
  ASSUME CatalogueTypes, CatalogueAssumption,
         NEW front \in Seq(Vocabulary), NEW w \in Seq(Vocabulary), NEW s \in DOMAIN catalogue, NEW a \in Axis,
         \A x, y \in SaidIn(w, s, a) : x = y,
         NEW o \in DOMAIN catalogue[s]
  PROVE  LastValue(front \o w, s, a) \in {NoValue, o[a]} <=> o[a] \in WantedOf(Heard(front, s), w, s, a)
<1> DEFINE u == front \o w
           C == ValuesIn(s, a)
           i == LastOf(u, C)
           j == LastOf(front, C)
<1>1. /\ LastValue(u, s, a) = IF i = 0 THEN NoValue ELSE u[i]
      /\ LastValue(front, s, a) = IF j = 0 THEN NoValue ELSE front[j]
      /\ Heard(front, s)[a] = {LastValue(front, s, a)}
  BY DEF LastValue, Heard
<1>2. SaidIn(w, s, a) # {} => i # 0 /\ u[i] \in SaidIn(w, s, a)
  <2>1. HitsLast(front, w, C, u, i)
    BY LastIn
  <2> HIDE DEF u, i
  <2> QED BY <2>1 DEF HitsLast, SaidIn
<1>3. SaidIn(w, s, a) = {} => i = j /\ (j # 0 => u[j] = front[j] /\ front[j] \in C)
  <2> SUFFICES ASSUME SaidIn(w, s, a) = {} PROVE i = j /\ (j # 0 => u[j] = front[j] /\ front[j] \in C)
    OBVIOUS
  <2>1. Range(w) \cap C = {}
    BY DEF SaidIn
  <2> HIDE DEF C
  <2> QED BY <2>1, LastKept
<1>4. C \subseteq Values /\ o[a] \in C
  BY FormIs DEF CatalogueTypes, ValuesIn
<1>5. \A v \in C : v # NoValue
  BY <1>4 DEF CatalogueAssumption
<1> HIDE DEF u, i, j
<1>6. ASSUME SaidIn(w, s, a) # {}
      PROVE  LastValue(u, s, a) \in {NoValue, o[a]} <=> o[a] \in WantedOf(Heard(front, s), w, s, a)
  BY <1>1, <1>2, <1>5, <1>6 DEF WantedOf, SaidIn
<1>7. ASSUME SaidIn(w, s, a) = {}, j # 0
      PROVE  LastValue(u, s, a) \in {NoValue, o[a]} <=> o[a] \in WantedOf(Heard(front, s), w, s, a)
  <2>1. LastValue(u, s, a) = front[j] /\ front[j] # NoValue /\ Heard(front, s)[a] \cap C = {front[j]}
    BY <1>1, <1>3, <1>5, <1>7
  <2> QED BY <1>7, <2>1 DEF WantedOf
<1>8. ASSUME SaidIn(w, s, a) = {}, j = 0
      PROVE  LastValue(u, s, a) \in {NoValue, o[a]} <=> o[a] \in WantedOf(Heard(front, s), w, s, a)
  <2>1. LastValue(u, s, a) = NoValue /\ Heard(front, s)[a] \cap C = {}
    BY <1>1, <1>3, <1>5, <1>8
  <2> QED BY <1>4, <1>8, <2>1 DEF WantedOf
<1> QED BY <1>6, <1>7, <1>8 DEF u

(* The offer of a text is the one combination that fits it.                *)
LEMMA OfferIs ==
  ASSUME CatalogueTypes, CatalogueAssumption,
         NEW front \in Seq(Vocabulary), NEW w \in Seq(Vocabulary), NEW s, Range(w) \cap DOMAIN catalogue = {s},
         \A a \in Axis : \A x, y \in SaidIn(w, s, a) : x = y
  PROVE  OfferInText(front \o w) =
           LET F == Wanted(s, w, Heard(front, s)) IN IF Cardinality(F) = 1 THEN RowsOf(s, F) ELSE {}
<1> DEFINE u == front \o w
           last == LastOf(u, DOMAIN catalogue)
           attrs == [a \in Axis |-> LastValue(u, s, a)]
           F == Wanted(s, w, Heard(front, s))
           Attrs(t) == [a \in Axis |-> LastValue(u, t, a)]
           candidates == IF last > 0 THEN {u[last]}
                         ELSE {t \in DOMAIN catalogue : \A a \in Axis : LastValue(u, t, a) # NoValue}
           resolved == UNION {Resolve(t, Attrs(t)) : t \in candidates}
<1>0. s \in DOMAIN catalogue
  OBVIOUS
<1>1. last > 0 /\ u[last] \in {s}
  <2>1. HitsLast(front, w, DOMAIN catalogue, u, last)
    BY LastIn
  <2> HIDE DEF u, last
  <2>2. Range(w) \cap DOMAIN catalogue # {}
    BY <1>0
  <2>3. last > 0 /\ u[last] \in Range(w) \cap DOMAIN catalogue
    BY <2>1, <2>2 DEF HitsLast
  <2> QED BY <2>3
<1>2. OfferInText(u) = IF Cardinality(resolved) = 1 THEN resolved ELSE {}
  BY DEF OfferInText, Sole
<1> HIDE DEF last, u
<1>3. candidates = {s}
  BY <1>1
<1>4. resolved = Resolve(s, attrs)
  <2> HIDE DEF candidates
  <2>1. attrs = Attrs(s)
    OBVIOUS
  <2> HIDE DEF attrs, Attrs
  <2>2. resolved = Resolve(s, Attrs(s))
    BY <1>3
  <2> QED BY <2>1, <2>2
<1>5. Fitting(s, attrs) = F
  <2>1. attrs # << >> /\ DOMAIN attrs = Axis
    <3>1. DOMAIN attrs = Axis /\ Axis # {}
      BY DEF CatalogueAssumption
    <3> HIDE DEF attrs
    <3>2. attrs = << >> => DOMAIN attrs = {}
      OBVIOUS
    <3> QED BY <3>1, <3>2
  <2>2. \A o \in DOMAIN catalogue[s], a \in Axis : attrs[a] \in {NoValue, o[a]} <=> o[a] \in WantedOf(Heard(front, s), w, s, a)
    BY <1>0, LastFits DEF u
  <2> HIDE DEF attrs
  <2>3. F = {o \in DOMAIN catalogue[s] : \A a \in Axis : o[a] \in WantedOf(Heard(front, s), w, s, a)}
    BY WantedIs
  <2> HIDE DEF F
  <2> QED BY <2>1, <2>2, <2>3 DEF Fitting
<1>6. DOMAIN attrs = Axis
  OBVIOUS
<1> HIDE DEF attrs, F, resolved
<1>7. Resolve(s, attrs) = IF Cardinality(F) = 1 THEN RowsOf(s, F) ELSE {}
  <2> DEFINE found == IF s \in DOMAIN catalogue THEN {s}
                      ELSE IF Cardinality({t \in DOMAIN catalogue : Cardinality(Fitting(t, attrs)) = 1}) = 1
                           THEN {t \in DOMAIN catalogue : Cardinality(Fitting(t, attrs)) = 1} ELSE {}
             complete == {t \in found : DOMAIN attrs = Axis /\ Cardinality(Fitting(t, attrs)) = 1}
  <2>1. Resolve(s, attrs) = UNION {RowsOf(t, Fitting(t, attrs)) : t \in complete}
    BY DEF Resolve, RowsOf, Sole
  <2>2. found = {s}
    BY <1>0
  <2> HIDE DEF found
  <2>3. complete = IF Cardinality(F) = 1 THEN {s} ELSE {}
    BY <2>2, <1>5, <1>6
  <2> HIDE DEF complete
  <2> QED BY <2>1, <2>3, <1>5
<1>8. Cardinality(F) = 1 => Cardinality(RowsOf(s, F)) = 1
  <2> SUFFICES ASSUME Cardinality(F) = 1 PROVE Cardinality(RowsOf(s, F)) = 1
    OBVIOUS
  <2>1. F \in SUBSET DOMAIN catalogue[s]
    BY WantedIs DEF F
  <2>2. PICK o : F = {o}
    BY <1>0, <2>1, CombinationsAreFinite
  <2>3. RowsOf(s, F) = {[variant |-> s, options |-> o, price |-> catalogue[s][o]]}
    BY <2>2 DEF RowsOf
  <2> QED BY <2>3, FS_Singleton
<1>9. OfferInText(u) = Resolve(s, attrs)
  <2>1. CASE Cardinality(F) = 1
    BY <1>2, <1>4, <1>7, <1>8, <2>1
  <2>2. CASE Cardinality(F) # 1
    BY <1>2, <1>4, <1>7, <2>2
  <2> QED BY <2>1, <2>2
<1> QED BY <1>7, <1>9 DEF u, F

(* What is known of a customer is a choice of options.                     *)
LEMMA KnownTypes ==
  ASSUME CatalogueTypes
  PROVE  Known.variant \in AnyVariant /\ Known.options \in Options
<1>1. /\ chat.variant \in AnyVariant /\ chat.options \in Options
      /\ draft.variant \in AnyVariant /\ (draft.options # NoValue => draft.options \in Options)
  BY DEF CatalogueTypes, Offers, NoDraft, None, AnyVariant
<1>2. /\ Known.variant = IF draft.variant # NoValue THEN draft.variant ELSE chat.variant
      /\ Known.options = IF draft.options # NoValue THEN draft.options ELSE chat.options
  BY DEF Known
<1> QED BY <1>1, <1>2

(* A selection of earlier is put before a text by its scheme and values;   *)
(* of an axis it says the value that it chose there.                       *)
SelectedBefore(variant, options) == <<variant>> \o SetToSeq(Range(options))

(* Its words are the scheme and the values.                                *)
LEMMA SelectedBeforeIs ==
  ASSUME CatalogueAssumption, NEW variant \in AnyVariant, NEW options \in Options
  PROVE  SelectedBefore(variant, options) \in Seq(Vocabulary) /\ Range(SelectedBefore(variant, options)) = {variant} \cup Range(options)
<1>1. options \in [DOMAIN options -> Values] /\ DOMAIN options \subseteq Axis
  BY DEF Options, Partial
<1>2. IsFiniteSet(DOMAIN options)
  BY <1>1, FS_Subset DEF CatalogueAssumption
<1>3. options \in Surjection(DOMAIN options, Range(options))
  BY <1>1 DEF Surjection, Range
<1>4. IsFiniteSet(Range(options))
  BY <1>2, <1>3, FS_Surjection
<1> DEFINE q == SetToSeq(Range(options))
<1>5. q \in Seq(Range(options)) /\ Range(q) = Range(options)
  BY <1>4, SetAsSeq
<1>6. Range(options) \subseteq Vocabulary /\ variant \in Vocabulary
  BY <1>1 DEF Range, Vocabulary, AnyVariant
<1> HIDE DEF q
<1>7. q \in Seq(Vocabulary) /\ <<variant>> \in Seq(Vocabulary)
  BY <1>5, <1>6
<1>8. Range(<<variant>>) = {variant}
  BY DEF Range
<1> DEFINE p == <<variant>>
<1>p. p \in Seq(Vocabulary)
  BY <1>7
<1> HIDE DEF p
<1>9. p \o q \in Seq(Vocabulary) /\ Range(p \o q) = Range(p) \cup Range(q)
  <2>1. p \o q \in Seq(Vocabulary)
    BY <1>p, <1>7, ConcatProperties
  <2>2. Range(p \o q) = Range(p) \cup Range(q)
    BY <1>p, <1>7, RangeConcatenation
  <2> QED BY <2>1, <2>2
<1> QED BY <1>5, <1>8, <1>9 DEF SelectedBefore, q, p

KeptIn(options, s, a) == {options[b] : b \in {a} \cap DOMAIN options} \cap ValuesIn(s, a)

(* No value is of two axes, so it says of an axis what was chosen there.   *)
LEMMA SelectedBeforeSays ==
  ASSUME CatalogueTypes, CatalogueAssumption, NEW variant \in AnyVariant, NEW options \in Options,
         NEW s \in DOMAIN catalogue, NEW a \in Axis
  PROVE  SaidIn(SelectedBefore(variant, options), s, a) = KeptIn(options, s, a)
<1>1. ValuesIn(s, a) \subseteq ValuesOf[a] /\ ValuesIn(s, a) \subseteq Values
  BY FormIs DEF CatalogueTypes, ValuesIn
<1>2. variant \notin ValuesIn(s, a)
  BY <1>1 DEF CatalogueAssumption, AnyVariant
<1>3. DOMAIN options \subseteq Axis /\ \A b \in DOMAIN options : options[b] \in ValuesOf[b]
  BY DEF Options, Partial
<1>4. \A b \in DOMAIN options : options[b] \in ValuesIn(s, a) => b = a
  BY <1>1, <1>3 DEF CatalogueAssumption
<1>5. \A x : x \in Range(options) <=> \E b \in DOMAIN options : x = options[b]
  BY DEF Range
<1>6. Range(SelectedBefore(variant, options)) = {variant} \cup Range(options)
  BY SelectedBeforeIs
<1> QED BY <1>2, <1>4, <1>5, <1>6 DEF SaidIn, KeptIn

(* A text is of words the catalogue and the customers know.                *)
LEMMA SayingInVocabulary ==
  ASSUME CatalogueAssumption, NEW w \in Sayings
  PROVE  w \in Seq(Vocabulary)
<1>1. PICK m \in 0..MaxWords : w \in [1..m -> Scheme \cup Values]
  BY DEF Sayings, SeqOf
<1> QED BY <1>1 DEF CatalogueAssumption, Vocabulary

(* What one text says of an axis, when it says at most one value.          *)
LEMMA SayingIs ==
  ASSUME CatalogueAssumption, NEW w \in Sayings, NEW s, NEW a, Cardinality(SaidIn(w, s, a)) <= 1
  PROVE  w \in Seq(Vocabulary) /\ \A x, y \in SaidIn(w, s, a) : x = y
<1>1. PICK m \in 0..MaxWords : w \in [1..m -> Scheme \cup Values]
  BY DEF Sayings, SeqOf
<1>2. m \in Nat /\ w \in Seq(Vocabulary)
  BY <1>1 DEF CatalogueAssumption, Vocabulary
<1>3. IsFiniteSet(1..m)
  BY <1>2, FS_Interval
<1>4. w \in Surjection(1..m, Range(w))
  BY <1>1 DEF Surjection, Range
<1>5. IsFiniteSet(Range(w))
  BY <1>3, <1>4, FS_Surjection
<1>6. IsFiniteSet(SaidIn(w, s, a))
  BY <1>5, FS_Subset DEF SaidIn
<1> QED BY <1>2, <1>6, FewAreEqual

(* What a text adds to a selection is a choice of options of a scheme,     *)
LEMMA PartialTypes ==
  ASSUME CatalogueTypes, CatalogueAssumption, NEW words, NEW n \in PartialSelection(words)
  PROVE  n.variant \in AnyVariant /\ n.options \in Options
<1> DEFINE told(s, a) == Range(words) \cap ValuesIn(s, a)
           attrs(s) == [a \in {b \in Axis : Cardinality(told(s, b)) = 1} |-> CHOOSE v \in told(s, a) : TRUE]
<1>1. PICK s \in DOMAIN catalogue : n = [variant |-> s, options |-> attrs(s)]
  BY DEF PartialSelection
<1>2. \A a \in Axis : told(s, a) \subseteq ValuesOf[a]
  BY <1>1, FormIs DEF CatalogueTypes, ValuesIn
<1>3. ASSUME NEW a \in Axis, Cardinality(told(s, a)) = 1
      PROVE  (CHOOSE v \in told(s, a) : TRUE) \in ValuesOf[a]
  <2>1. told(s, a) # {}
    BY <1>3, FS_EmptySet
  <2> HIDE DEF told
  <2> QED BY <1>2, <2>1
<1> HIDE DEF told
<1>4. attrs(s) \in Options
  <2> DEFINE A == {b \in Axis : Cardinality(told(s, b)) = 1}
  <2>1. \A a \in A : a \in Axis /\ (CHOOSE v \in told(s, a) : TRUE) \in ValuesOf[a]
    BY <1>3
  <2>2. attrs(s) \in [A -> Values] /\ DOMAIN attrs(s) = A /\ \A a \in A : attrs(s)[a] \in ValuesOf[a]
    BY <2>1 DEF Values
  <2> HIDE DEF attrs
  <2>3. A \in SUBSET Axis
    OBVIOUS
  <2> HIDE DEF A
  <2> QED BY <2>2, <2>3 DEF Options, Partial
<1> QED BY <1>1, <1>4 DEF CatalogueTypes, AnyVariant

(* so the state of a turn is one,                                          *)
LEMMA LiveTypes ==
  ASSUME CatalogueTypes, CatalogueAssumption, NEW words
  PROVE  Live(words).variant \in AnyVariant /\ Live(words).options \in Options
<1> DEFINE Rest(n) == IF Known.variant = n.variant THEN Known.options ELSE << >>
           Over(f, g) == [a \in DOMAIN f \cup DOMAIN g |-> IF a \in DOMAIN f THEN f[a] ELSE g[a]]
           With(n) == [Known EXCEPT !.variant = n.variant, !.options = Over(n.options, Rest(n))]
           told == {With(n) : n \in PartialSelection(words)}
<1>1. ASSUME NEW f \in Options, NEW g \in Options PROVE Over(f, g) \in Options
  <2> DEFINE D == DOMAIN f \cup DOMAIN g
  <2>1. D \in SUBSET Axis /\ (\A a \in DOMAIN f : f[a] \in ValuesOf[a]) /\ (\A a \in DOMAIN g : g[a] \in ValuesOf[a])
    BY DEF Options, Partial
  <2> DEFINE h == [a \in D |-> IF a \in DOMAIN f THEN f[a] ELSE g[a]]
  <2>2. \A a \in D : a \in Axis /\ (IF a \in DOMAIN f THEN f[a] ELSE g[a]) \in ValuesOf[a]
    BY <2>1
  <2>3. h \in [D -> Values] /\ DOMAIN h = D /\ \A a \in D : h[a] \in ValuesOf[a]
    BY <2>2 DEF Values
  <2> HIDE DEF h, D
  <2>4. h \in Options
    BY <2>1, <2>3 DEF Options, Partial
  <2> QED BY <2>4 DEF h, D
<1>2. ASSUME NEW n \in PartialSelection(words)
      PROVE  With(n).variant \in AnyVariant /\ With(n).options \in Options
  <2>1. n.variant \in AnyVariant /\ n.options \in Options
    BY PartialTypes
  <2>2. Rest(n) \in Options
    BY KnownTypes, NoOptions
  <2> HIDE DEF Over, Rest
  <2>3. With(n).variant = n.variant /\ With(n).options = Over(n.options, Rest(n))
    BY DEF Known
  <2> QED BY <2>1, <2>2, <2>3, <1>1
<1>3. Live(words) = CHOOSE live \in Otherwise(told, {Known}) : TRUE
  BY DEF Live
<1> HIDE DEF With
<1>4. \A live \in Otherwise(told, {Known}) : live.variant \in AnyVariant /\ live.options \in Options
  BY <1>2, KnownTypes DEF Otherwise
<1>5. Otherwise(told, {Known}) # {}
  BY DEF Otherwise
<1> QED BY <1>3, <1>4, <1>5

(* and the selection that a question for prices is answered with.          *)
LEMMA HandedTypes ==
  ASSUME CatalogueTypes, CatalogueAssumption, NEW words, NEW previous \in Handed(words)
  PROVE  previous.variant \in AnyVariant /\ previous.options \in Options
<1>1. \/ previous = None
      \/ \E s \in DOMAIN catalogue, o \in Options : previous = [variant |-> s, options |-> o, price |-> NoValue]
      \/ previous = Live(words)
  <2> DEFINE offer == {} \notin Previous(words)
             pointed == {[variant |-> s, options |-> o, price |-> NoValue] : s \in DOMAIN catalogue, o \in Options}
             state == {l \in {Live(words)} : l.variant # NoValue}
  <2>1. previous \in {None} \cup (IF offer THEN {} ELSE pointed \cup state)
    BY DEF Handed
  <2>2. state \subseteq {Live(words)} /\ \A p \in pointed : \E s \in DOMAIN catalogue, o \in Options :
                                             p = [variant |-> s, options |-> o, price |-> NoValue]
    OBVIOUS
  <2> HIDE DEF offer, state, pointed
  <2> QED BY <2>1, <2>2
<1>2. CASE previous = None
  BY <1>2, NoOptions DEF None, AnyVariant
<1>3. ASSUME NEW s \in DOMAIN catalogue, NEW o \in Options, previous = [variant |-> s, options |-> o, price |-> NoValue]
      PROVE  previous.variant \in AnyVariant /\ previous.options \in Options
  <2>1. previous.variant = s /\ previous.options = o
    BY <1>3 DEF None
  <2> QED BY <2>1 DEF AnyVariant, CatalogueTypes
<1>4. CASE previous = Live(words)
  BY <1>4, LiveTypes
<1> QED BY <1>1, <1>2, <1>3, <1>4

(* Nothing was heard before the first text.                                *)
LEMMA NothingHeard ==
  ASSUME CatalogueTypes, CatalogueAssumption, NEW s \in DOMAIN catalogue, NEW w
  PROVE  Wanted(s, w, Heard(<< >>, s)) = Wanted(s, w, Nowhere)
<1>1. ASSUME NEW a \in Axis PROVE Heard(<< >>, s)[a] \cap ValuesIn(s, a) = Nowhere[a] \cap ValuesIn(s, a)
  <2>1. ValuesIn(s, a) \subseteq Values
    BY FormIs DEF CatalogueTypes, ValuesIn
  <2> DEFINE i == LastOf(<< >>, ValuesIn(s, a))
  <2>2. << >> \in Seq(Values) /\ << >> \o << >> = << >> /\ Range(<< >>) = {}
    BY DEF Range
  <2>3. HitsLast(<< >>, << >>, ValuesIn(s, a), << >> \o << >>, LastOf(<< >> \o << >>, ValuesIn(s, a)))
    BY <2>2, LastIn
  <2>4. i = 0
    BY <2>2, <2>3 DEF HitsLast
  <2>5. LastValue(<< >>, s, a) = NoValue
    BY <2>4 DEF LastValue
  <2> QED BY <2>1, <2>5 DEF Heard, Nowhere, CatalogueAssumption
<1> QED BY <1>1, SameIsWanted

(* Of a selection put before a text is heard what it chose.                *)
LEMMA KeptIsHeard ==
  ASSUME CatalogueTypes, CatalogueAssumption, NEW s \in DOMAIN catalogue, NEW w,
         NEW previous, previous.variant \in AnyVariant, previous.options \in Options
  PROVE  Wanted(s, w, Heard(SelectedBefore(previous.variant, previous.options), s)) = Wanted(s, w, Recalled(previous))
<1> DEFINE front == SelectedBefore(previous.variant, previous.options)
<1>1. ASSUME NEW a \in Axis PROVE Heard(front, s)[a] \cap ValuesIn(s, a) = Recalled(previous)[a] \cap ValuesIn(s, a)
  <2> DEFINE C == ValuesIn(s, a)
             i == LastOf(front, C)
             kept == KeptIn(previous.options, s, a)
  <2>1. \A v \in C : v # NoValue
    BY FormIs DEF CatalogueTypes, ValuesIn, CatalogueAssumption
  <2>2. Range(front) \cap C = kept
    BY SelectedBeforeSays DEF SaidIn
  <2>3. kept = Recalled(previous)[a] \cap C /\ \A x, y \in kept : x = y
    BY DEF KeptIn, Recalled
  <2>4. front \in Seq(Vocabulary)
    BY SelectedBeforeIs
  <2> HIDE DEF front
  <2>5. << >> \in Seq(Vocabulary) /\ << >> \o front = front /\ Range(<< >>) = {}
    BY <2>4, ConcatEmptySeq DEF Range
  <2>6. HitsLast(<< >>, front, C, << >> \o front, LastOf(<< >> \o front, C))
    BY <2>4, <2>5, LastIn
  <2>7. /\ kept # {} => i > 0 /\ front[i] \in kept
        /\ kept = {} => i = 0
    <3> HIDE DEF C, kept
    <3> QED BY <2>2, <2>5, <2>6 DEF HitsLast
  <2>8. Heard(front, s)[a] = {IF i = 0 THEN NoValue ELSE front[i]}
    BY DEF Heard, LastValue
  <2> HIDE DEF i, C, kept
  <2>9. Heard(front, s)[a] \cap C = kept
    <3>1. kept \subseteq C
      BY <2>3
    <3>2. CASE kept = {}
      BY <2>1, <2>7, <2>8, <3>2
    <3>3. CASE kept # {}
      <4>1. i # 0 /\ front[i] \in kept
        BY <2>7, <3>3
      <4> QED BY <2>3, <2>8, <3>1, <4>1
    <3> QED BY <3>2, <3>3
  <2> QED BY <2>3, <2>9 DEF C
<1> HIDE DEF front
<1>2. Wanted(s, w, Heard(front, s)) = Wanted(s, w, Recalled(previous))
  BY <1>1, SameIsWanted
<1> QED BY <1>2 DEF front

(* What leaves one combination, with what is known from nowhere, from the  *)
(* selection before or from the words before; and the rows of it.          *)
Leaves(s, w, before) == Cardinality(Wanted(s, w, before)) = 1
Source(s, w, earlier, previous) ==
  IF Leaves(s, w, Nowhere) THEN Nowhere ELSE IF Leaves(s, w, Recalled(previous)) THEN Recalled(previous) ELSE Heard(earlier, s)
RowsWanted(s, w, before) == IF Leaves(s, w, before) THEN RowsOf(s, Wanted(s, w, before)) ELSE {}

(* There is such a row when one combination is left.                       *)
LEMMA RowsAreThere ==
  ASSUME CatalogueTypes, CatalogueAssumption, NEW s \in DOMAIN catalogue, NEW w, NEW before
  PROVE  RowsWanted(s, w, before) # {} <=> Leaves(s, w, before)
<1> DEFINE F == Wanted(s, w, before)
<1>1. F \in SUBSET DOMAIN catalogue[s]
  BY WantedIs
<1> HIDE DEF F
<1>2. Cardinality(F) = 1 => \E o : F = {o}
  BY <1>1, CombinationsAreFinite
<1>3. \A o : F = {o} => [variant |-> s, options |-> o, price |-> catalogue[s][o]] \in RowsOf(s, F)
  BY DEF RowsOf
<1>4. Cardinality(F) = 1 => RowsOf(s, F) # {}
  BY <1>2, <1>3
<1> QED BY <1>4 DEF RowsWanted, Leaves, F

(* What a question for a price is answered, of the scheme it names.        *)
LEMMA QuotesFit ==
  ASSUME CatalogueTypes, CatalogueAssumption, NEW s \in DOMAIN catalogue, NEW w \in Asking(s), NEW earlier \in Sayings,
         NEW previous, previous.variant \in AnyVariant, previous.options \in Options
  PROVE  PriceReply([words |-> w, kinds |-> {"asks"}], earlier \o w, previous) =
           RowsWanted(s, w, Source(s, w, earlier, previous))
<1> DEFINE front == SelectedBefore(previous.variant, previous.options)
           quoted == PriceReply([words |-> w, kinds |-> {"asks"}], earlier \o w, previous)
           inPrompt == OfferInText(w)
           inState == IF previous.options = << >> THEN {} ELSE OfferInText(front \o w)
           inTalk == OfferInText(earlier \o w)
<1>1. /\ w \in Seq(Vocabulary) /\ Range(w) \cap DOMAIN catalogue = {s}
      /\ \A a \in Axis : \A x, y \in SaidIn(w, s, a) : x = y
  <2>1. w \in Sayings /\ Range(w) \cap DOMAIN catalogue = {s} /\ \A a \in Axis : Cardinality(SaidIn(w, s, a)) <= 1
    BY DEF Asking, SaidIn
  <2>2. Axis # {}
    BY DEF CatalogueAssumption
  <2> QED BY <2>1, <2>2, SayingIs
<1>2. earlier \in Seq(Vocabulary)
  BY SayingInVocabulary
<1>3. front \in Seq(Vocabulary)
  BY SelectedBeforeIs
<1>4. quoted = IF inPrompt # {} THEN inPrompt ELSE IF inState # {} THEN inState ELSE inTalk
  <2> DEFINE question == [words |-> w, kinds |-> {"asks"}]
             talk == earlier \o w
  <2>1. question.words = w /\ ~("all" \in question.kinds)
    OBVIOUS
  <2> HIDE DEF question, talk
  <2>2. PriceReply(question, talk, previous) =
          IF inPrompt # {} THEN inPrompt ELSE IF inState # {} THEN inState ELSE OfferInText(talk)
    BY <2>1 DEF PriceReply, SelectedBefore, Otherwise
  <2> QED BY <2>2 DEF question, talk
<1>5. ASSUME NEW before \in Seq(Vocabulary)
      PROVE  OfferInText(before \o w) = RowsWanted(s, w, Heard(before, s))
  BY <1>1, <1>5, OfferIs DEF RowsWanted, Leaves
<1> HIDE DEF front
<1>6. inPrompt = RowsWanted(s, w, Nowhere)
  <2>1. << >> \in Seq(Vocabulary) /\ << >> \o w = w
    BY <1>1, ConcatEmptySeq
  <2>2. OfferInText(<< >> \o w) = RowsWanted(s, w, Heard(<< >>, s))
    BY <1>5, <2>1
  <2>3. RowsWanted(s, w, Heard(<< >>, s)) = RowsWanted(s, w, Nowhere)
    BY NothingHeard DEF RowsWanted, Leaves
  <2> QED BY <2>1, <2>2, <2>3
<1>7. OfferInText(front \o w) = RowsWanted(s, w, Recalled(previous))
  <2>1. Wanted(s, w, Heard(front, s)) = Wanted(s, w, Recalled(previous))
    BY KeptIsHeard DEF front
  <2> QED BY <1>3, <1>5, <2>1 DEF RowsWanted, Leaves
<1>8. previous.options = << >> => (Leaves(s, w, Recalled(previous)) <=> Leaves(s, w, Nowhere))
  <2> SUFFICES ASSUME previous.options = << >> PROVE Leaves(s, w, Recalled(previous)) <=> Leaves(s, w, Nowhere)
    OBVIOUS
  <2>1. \A a \in Axis : Recalled(previous)[a] = {} /\ Nowhere[a] = {}
    BY DEF Recalled, Nowhere
  <2>2. Wanted(s, w, Recalled(previous)) = Wanted(s, w, Nowhere)
    BY <2>1, SameIsWanted
  <2> QED BY <2>2 DEF Leaves
<1>9. inTalk = RowsWanted(s, w, Heard(earlier, s))
  BY <1>2, <1>5
<1> HIDE DEF quoted, inPrompt, inTalk
<1>10. /\ inPrompt # {} <=> Leaves(s, w, Nowhere)
       /\ ~Leaves(s, w, Nowhere) => (inState # {} <=> Leaves(s, w, Recalled(previous)))
       /\ inState # {} => inState = RowsWanted(s, w, Recalled(previous))
  BY <1>6, <1>7, <1>8, RowsAreThere
<1> HIDE DEF inState
<1>11. quoted = RowsWanted(s, w, Source(s, w, earlier, previous))
  BY <1>4, <1>6, <1>9, <1>10 DEF Source
<1> QED BY <1>11 DEF quoted

(* A list of all prices has the rows of the catalogue, or is the answer to *)
(* the question without "all".                                             *)
LEMMA ListsHold ==
  ASSUME NEW w, NEW talk, NEW previous, NEW q \in PriceReply([words |-> w, kinds |-> {"asks", "all"}], talk, previous)
  PROVE  \/ q \in PriceReply([words |-> w, kinds |-> {"asks"}], talk, previous)
         \/ q.price = catalogue[q.variant][q.options]
<1> DEFINE known == {previous.variant} \cap DOMAIN catalogue
           inPrompt == OfferInText(w)
           inState == IF previous.options = << >> THEN {}
                      ELSE OfferInText(SelectedBefore(previous.variant, previous.options) \o w)
           offers == IF inPrompt # {} THEN inPrompt ELSE IF inState # {} THEN inState ELSE OfferInText(talk)
           Listed(s, picked) == {[variant |-> s, options |-> o, price |-> catalogue[s][o]] :
                                   o \in {p \in DOMAIN catalogue[s] : \A v \in picked : v \in Range(p)}}
           mentioned == Range(w) \cap Values
           last == LastOf(talk, UNION {ValuesIn(s, a) : s \in DOMAIN catalogue, a \in Axis})
           recent == {s \in DOMAIN catalogue : last > 0 /\ \E a \in Axis : talk[last] \in ValuesIn(s, a)}
           all == IF known # {} THEN UNION {Listed(s, Otherwise(mentioned, Range(previous.options))) : s \in known}
                  ELSE IF recent # {} THEN Listed(CHOOSE s \in recent : TRUE, {talk[last]})
                  ELSE {}
<1>1. \A r \in all : r.price = catalogue[r.variant][r.options]
  <2>1. \A s, picked : \A r \in Listed(s, picked) : r.price = catalogue[r.variant][r.options]
    OBVIOUS
  <2> HIDE DEF Listed
  <2> QED BY <2>1
<1>2. ASSUME NEW kinds
      PROVE  PriceReply([words |-> w, kinds |-> kinds], talk, previous) = IF "all" \in kinds /\ all # {} THEN all ELSE offers
  <2> DEFINE question == [words |-> w, kinds |-> kinds]
  <2>1. question.words = w /\ question.kinds = kinds
    OBVIOUS
  <2> HIDE DEF question
  <2>2. PriceReply(question, talk, previous) =
          Otherwise(IF "all" \in kinds THEN all ELSE {}, Otherwise(inPrompt, Otherwise(inState, OfferInText(talk))))
    BY <2>1 DEF PriceReply, SelectedBefore
  <2> HIDE DEF all, inPrompt, inState
  <2> QED BY <2>2 DEF question, Otherwise
<1> HIDE DEF all, offers
<1>3. PriceReply([words |-> w, kinds |-> {"asks"}], talk, previous) = offers
  BY <1>2
<1>4. PriceReply([words |-> w, kinds |-> {"asks", "all"}], talk, previous) = IF all # {} THEN all ELSE offers
  BY <1>2
<1> QED BY <1>1, <1>3, <1>4

(* The combination asked for is the one the source leaves, if it does.     *)
LEMMA OneIsWanted ==
  ASSUME CatalogueAssumption, NEW s, NEW w, NEW earlier, NEW previous
  PROVE  Otherwise(Sole(Wanted(s, w, Nowhere)),
                   Otherwise(Sole(Wanted(s, w, Recalled(previous))), Sole(Wanted(s, w, Heard(earlier, s)))))
           = Sole(Wanted(s, w, Source(s, w, earlier, previous)))
<1>1. ASSUME NEW before
      PROVE  Sole(Wanted(s, w, before)) # {} <=> Leaves(s, w, before)
  <2> DEFINE F == Wanted(s, w, before)
  <2>1. Leaves(s, w, before) <=> Cardinality(F) = 1
    BY DEF Leaves
  <2> HIDE DEF F
  <2>2. Cardinality(F) = 1 => F # {}
    BY FS_EmptySet
  <2> QED BY <2>1, <2>2 DEF Sole, F
<1> QED BY <1>1 DEF Otherwise, Source

(* So a question for a price is answered as it should be.                  *)
LEMMA QuotesHold == ASSUME CatalogueTypes, CatalogueAssumption PROVE QuotedAtPrice
<1>1. ASSUME NEW s \in DOMAIN catalogue, NEW w \in Asking(s), NEW previous \in Handed(w), NEW earlier \in SaidBefore(w, previous)
      PROVE  /\ PriceReply([words |-> w, kinds |-> {"asks"}], earlier \o w, previous)
                  = RowsOf(s, Sole(Wanted(s, w, Source(s, w, earlier, previous))))
             /\ \A q \in PriceReply([words |-> w, kinds |-> {"asks", "all"}], earlier \o w, previous) :
                  q.price = catalogue[q.variant][q.options]
  <2> DEFINE quoted == PriceReply([words |-> w, kinds |-> {"asks"}], earlier \o w, previous)
             every == PriceReply([words |-> w, kinds |-> {"asks", "all"}], earlier \o w, previous)
             fit == Wanted(s, w, Source(s, w, earlier, previous))
  <2>1. earlier \in Sayings /\ previous.variant \in AnyVariant /\ previous.options \in Options
    BY HandedTypes DEF SaidBefore
  <2>2. quoted = IF Cardinality(fit) = 1 THEN RowsOf(s, fit) ELSE {}
    BY <2>1, QuotesFit DEF RowsWanted, Leaves
  <2>3. \A q \in every : q \in quoted \/ q.price = catalogue[q.variant][q.options]
    BY ListsHold
  <2> HIDE DEF fit, quoted, every
  <2>4. RowsOf(s, {}) = {} /\ \A F : \A q \in RowsOf(s, F) : q.price = catalogue[q.variant][q.options]
    BY DEF RowsOf
  <2>5. quoted = RowsOf(s, Sole(fit))
    BY <2>2, <2>4 DEF Sole
  <2> QED BY <2>3, <2>4, <2>5 DEF fit, quoted, every
<1> QED BY <1>1, OneIsWanted DEF QuotedAtPrice, RowsOf

(* What a customer is told a price is, and what an order is confirmed at,  *)
(* is the catalogue's for the one combination it is about: whatever        *)
(* the schemes, their attributes, the prices, the messages and the forms   *)
(* saved meanwhile.                                                        *)
THEOREM PricesAlwaysHold == CatalogueSpec => []PricesHold
<1>1. CatalogueInit => CatalogueInv
  BY CatalogueInvInit
<1>2. CatalogueInv /\ [CatalogueNext]_catalogueVars => CatalogueInv'
  BY CatalogueAssumption, CatalogueInvStep
<1>3. CatalogueInv => PricesHold
  BY CatalogueAssumption, QuotesHold DEF CatalogueInv, ConfirmedAtPrice, Priced, PricesHold
<1> QED BY <1>1, <1>2, <1>3, PTL DEF CatalogueSpec
=============================================================================
