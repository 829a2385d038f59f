------------------------------ MODULE Process ------------------------------
(***************************************************************************)
(* Starting and stopping: the lock file (src/src/config/instance-lock.ts), *)
(* the migrations (src/src/config/schema.ts) and the order in which a      *)
(* process brings its parts up and takes them down (src/src/index.ts).     *)
(* Processes of the program and of the backup tool                         *)
(* (src/src/config/backup-cli.ts), which takes no lock and migrates too,   *)
(* run beside each other.                                                  *)
(*                                                                         *)
(* Abstractions:                                                           *)
(*  - a process starts once, and the pid of a dead one is not used again;  *)
(*  - what a migration does to the tables is in Schema; here, that it is done *)
(*    in the transaction that records it;                                  *)
(*  - the workers, the panel and the connections are what is drained and   *)
(*    closed; only the backup under way is told apart, for stop awaits it. *)
(***************************************************************************)
EXTENDS Naturals, FiniteSets

CONSTANTS
  Proc, Tool,  \* of which Tool are backup tools
  NoPid,
  Migrations   \* how many there are

ASSUME ProcessAssumption == NoPid \notin Proc /\ Tool \subseteq Proc /\ Migrations \in Nat

VARIABLES
  lock,      \* the pid in data/voidlark.lock
  starting,  \* how far init() of each process is
  missing,   \* the migration it has found missing
  stopping,  \* how far shutdown() is
  backup,    \* of the scheduler of each process
  applied,   \* schema_migrations: how often each was applied
  acquiring, \* ghost: those between the look at the lock and their own
  raced      \* ghost: two of them have been there at once

processVars == <<lock, starting, missing, stopping, backup, applied, acquiring, raced>>

ProcessInit ==
  /\ lock = NoPid /\ acquiring = {} /\ raced = FALSE
  /\ starting = [p \in Proc |-> "off"] /\ stopping = [p \in Proc |-> "no"]
  /\ backup = [p \in Proc |-> "none"] /\ missing = [p \in Proc |-> 0]
  /\ applied = [v \in 1..Migrations |-> 0]

Alive(p) == starting[p] \notin {"off", "dead"}
Goes(p, from, to) == starting[p] = from /\ starting' = [starting EXCEPT ![p] = to]
Stops(p, from, to) == stopping[p] = from /\ stopping' = [stopping EXCEPT ![p] = to]

-----------------------------------------------------------------------------
(* acquireInstanceLock.  Each of its calls of the file system is a step.   *)

\* a plausible mistake: a lock that is there is taken for a stale one
StaleAlways(pid) == TRUE

Stale(pid) == pid = NoPid \/ ~Alive(pid)

LookAtLock(p) ==
  /\ p \notin Tool
  /\ IF Stale(lock)
     THEN /\ Goes(p, "off", IF lock = NoPid THEN "unlocked" ELSE "stale")
          /\ raced' = (raced \/ acquiring # {}) /\ acquiring' = acquiring \cup {p}
     ELSE Goes(p, "off", "dead") /\ UNCHANGED <<acquiring, raced>>
  /\ UNCHANGED <<missing, lock, stopping, backup, applied>>

(* whatever the file holds by now                                          *)
Unlink(p) ==
  /\ Goes(p, "stale", "unlocked") /\ lock' = NoPid
  /\ UNCHANGED <<missing, stopping, backup, applied, acquiring, raced>>

WriteLock(p) ==
  /\ Goes(p, "unlocked", "schema") /\ lock' = p /\ acquiring' = acquiring \ {p}
  /\ UNCHANGED <<missing, stopping, backup, applied, raced>>

StartTool(p) ==
  /\ p \in Tool /\ Goes(p, "off", "schema")
  /\ UNCHANGED <<missing, lock, stopping, backup, applied, acquiring, raced>>

-----------------------------------------------------------------------------
(* initSchema: one migration after the other, each read and then applied   *)
(* in a transaction whose last statement, the INSERT of its version, fails *)
(* when another process was faster.                                        *)

Missing == {v \in 1..Migrations : applied[v] = 0}
NextMissing == CHOOSE v \in Missing : \A w \in Missing : v <= w

ReadMigrations(p) ==
  /\ IF Missing = {} THEN Goes(p, "schema", "migrated") /\ UNCHANGED missing
     ELSE Goes(p, "schema", "migrating") /\ missing' = [missing EXCEPT ![p] = NextMissing]
  /\ UNCHANGED <<lock, stopping, backup, applied, acquiring, raced>>

Taken(v) == applied[v] > 0

Migrate(p) ==
  /\ starting[p] = "migrating"
  /\ IF Taken(missing[p])
     THEN Goes(p, "migrating", "failed") /\ UNCHANGED applied
     ELSE Goes(p, "migrating", "schema") /\ applied' = [applied EXCEPT ![missing[p]] = @ + 1]
  /\ UNCHANGED <<lock, missing, stopping, backup, acquiring, raced>>

-----------------------------------------------------------------------------
(* The scheduler starts, at once with a backup where the settings say so;  *)
(* then the panel and the connections.                                     *)
StartScheduler(p) ==
  /\ p \notin Tool /\ Goes(p, "migrated", "scheduled")
  /\ \E b \in {"waiting", "running"} : backup' = [backup EXCEPT ![p] = b]
  /\ UNCHANGED <<missing, lock, stopping, applied, acquiring, raced>>

StartPanel(p) ==
  /\ Goes(p, "scheduled", "up")
  /\ UNCHANGED <<missing, lock, stopping, backup, applied, acquiring, raced>>

StartFails(p) ==
  /\ starting[p] \in {"schema", "migrated", "scheduled"}
  /\ starting' = [starting EXCEPT ![p] = "failed"]
  /\ UNCHANGED <<missing, lock, stopping, backup, applied, acquiring, raced>>

RunBackup(p) ==
  /\ Alive(p) /\ backup[p] = "waiting" /\ backup' = [backup EXCEPT ![p] = "running"]
  /\ UNCHANGED <<missing, lock, starting, stopping, applied, acquiring, raced>>

(* a run that ends after stop() schedules no other                         *)
EndBackup(p) ==
  /\ Alive(p) /\ backup[p] \in {"running", "last"}
  /\ backup' = [backup EXCEPT ![p] = IF @ = "last" THEN "none" ELSE "waiting"]
  /\ UNCHANGED <<missing, lock, starting, stopping, applied, acquiring, raced>>

-----------------------------------------------------------------------------
(* shutdown(): by a signal, at any moment after the lock, with init()      *)
(* going on beside it; or because init() has failed.  The scheduler is     *)
(* told to stop if it is there.                                            *)
Shutdown(p) ==
  /\ Alive(p) /\ p \notin Tool /\ starting[p] \notin {"stale", "unlocked"}
  /\ Stops(p, "no", IF backup[p] = "none" THEN "unwatched" ELSE "awaiting")
  /\ backup' = [backup EXCEPT ![p] = IF @ = "running" THEN "last" ELSE "none"]
  /\ UNCHANGED <<missing, lock, starting, applied, acquiring, raced>>

BackupIsDone(p) == backup[p] = "none"

(* the backup, the workers, the connections, the panel, the database; then *)
(* the lock                                                                *)
CloseAll(p) ==
  /\ \/ BackupIsDone(p) /\ Stops(p, "awaiting", "closed")
     \/ Stops(p, "unwatched", "closed blindly")
  /\ lock' = IF lock = p THEN NoPid ELSE lock
  /\ UNCHANGED <<missing, starting, backup, applied, acquiring, raced>>

Ends(p) ==
  /\ starting' = [starting EXCEPT ![p] = "dead"] /\ stopping' = [stopping EXCEPT ![p] = "no"]
  /\ backup' = [backup EXCEPT ![p] = "none"] /\ missing' = [missing EXCEPT ![p] = 0]
  /\ acquiring' = acquiring \ {p}
  /\ UNCHANGED <<applied, raced>>

(* on the way out the lock is given back once more                         *)
Exit(p) ==
  /\ IF p \in Tool THEN starting[p] \in {"migrated", "failed"}
     ELSE stopping[p] \in {"closed", "closed blindly"}
  /\ Ends(p) /\ lock' = IF lock = p THEN NoPid ELSE lock

Kill(p) == Alive(p) /\ Ends(p) /\ UNCHANGED lock

ProcessNext == \E p \in Proc :
  \/ LookAtLock(p) \/ Unlink(p) \/ WriteLock(p) \/ StartTool(p)
  \/ ReadMigrations(p) \/ Migrate(p)
  \/ StartScheduler(p) \/ StartPanel(p) \/ StartFails(p) \/ RunBackup(p) \/ EndBackup(p)
  \/ Shutdown(p) \/ CloseAll(p) \/ Exit(p) \/ Kill(p)

-----------------------------------------------------------------------------
Holds(p) == Alive(p) /\ p \notin Tool \cup acquiring /\ stopping[p] \in {"no", "awaiting", "unwatched"}

(* However many processes start, stop and are killed, at whatever moment:  *)
(* one works at a time, unless two have looked at the lock before either   *)
(* had written it; the migrations are applied once each, in order, and     *)
(* what works, works on all of them; a shutdown cuts a backup short only   *)
(* if it came before there was a scheduler to stop, while init() went on.  *)
StartsAreSound ==
  /\ raced \/ \A p, q \in Proc : Holds(p) /\ Holds(q) => p = q
  /\ \A v \in 1..Migrations : applied[v] <= 1 /\ (applied[v] = 1 => \A w \in 1..v : applied[w] = 1)
  /\ \A p \in Proc :
       /\ starting[p] \in {"migrated", "scheduled", "up"} => Missing = {}
       /\ stopping[p] = "closed" => backup[p] \notin {"running", "last"}
=============================================================================
