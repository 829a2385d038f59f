------------------------------ MODULE Backups ------------------------------
(***************************************************************************)
(* Backups of the database and their restoration                           *)
(* (src/src/config/database-backup.ts).  The scheduler of the process and  *)
(* the backup tool make backups in the same directory, at once if it so    *)
(* happens; every call of the file system or of the database is a step, a  *)
(* process may die between two, and each may fail.                         *)
(*                                                                         *)
(* Abstractions:                                                           *)
(*  - backups are numbered in the order of the time stamps in their names; *)
(*  - a file is whole or not there: what sha256 and the integrity checks   *)
(*    would refuse is a file left under its temporary name;                *)
(*  - the removals of a catch block succeed, and the paths, sizes, metrics *)
(*    and the scratch copy of a drill are left out.                        *)
(***************************************************************************)
EXTENDS Naturals, FiniteSets

CONSTANTS
  MaxBackups, \* bound of the model
  Retention   \* DB_BACKUP_RETENTION

ASSUME BackupsAssumption == MaxBackups \in Nat /\ Retention \in Nat \ {0}

VARIABLES
  making,    \* how far createDatabaseBackup is with each backup
  files,     \* of the backup directory: <<what, under which name, backup>>
  audit,     \* backup_runs.status
  doomed,    \* what the retention of each backup is about to delete
  restoring, \* how far restoreSqliteBackup is
  copied,    \* the backup it restores
  places     \* the database: what is under its name, as .previous, as .tmp

backupVars == <<making, files, audit, doomed, restoring, copied, places>>

Backup == 1..MaxBackups

BackupsInit ==
  /\ making = [b \in Backup |-> "no"] /\ files = {} /\ audit = [b \in Backup |-> "none"]
  /\ doomed = [b \in Backup |-> {}] /\ restoring = "no" /\ copied = 0
  /\ places = [name |-> "old", previous |-> "none", tmp |-> "none"]

OfRestore == <<restoring, copied, places>>
Makes(b, from, to) == making[b] = from /\ making' = [making EXCEPT ![b] = to]

Published == {b \in Backup : <<"data", "final", b>> \in files}
Restorable == {b \in Published : <<"sum", "final", b>> \in files}

-----------------------------------------------------------------------------
(* createDatabaseBackup, up to the end of publishBackup                    *)

BeginBackup(b) ==
  /\ \A c \in 1..(b - 1) : making[c] # "no"
  /\ Makes(b, "no", "begun") /\ audit' = [audit EXCEPT ![b] = "running"]
  /\ UNCHANGED <<files, doomed, OfRestore>>

DumpBackup(b) ==
  /\ Makes(b, "begun", "dumped") /\ files' = files \cup {<<"data", "tmp", b>>}
  /\ UNCHANGED <<audit, doomed, OfRestore>>

WriteChecksum(b) ==
  /\ Makes(b, "dumped", "summed") /\ files' = files \cup {<<"sum", "tmp", b>>}
  /\ UNCHANGED <<audit, doomed, OfRestore>>

Renamed(what, b) == (files \ {<<what, "tmp", b>>}) \cup {<<what, "final", b>>}

PublishData(b) ==
  /\ Makes(b, "summed", "half published") /\ files' = Renamed("data", b)
  /\ UNCHANGED <<audit, doomed, OfRestore>>

PublishChecksum(b) ==
  /\ Makes(b, "half published", "published") /\ files' = Renamed("sum", b)
  /\ UNCHANGED <<audit, doomed, OfRestore>>

CompleteAuditRun(b) ==
  /\ Makes(b, "published", "recorded") /\ audit' = [audit EXCEPT ![b] = "succeeded"]
  /\ UNCHANGED <<files, doomed, OfRestore>>

-----------------------------------------------------------------------------
(* enforceBackupRetention: what is beyond the newest, complete or not      *)

\* a plausible mistake: one too many
BeyondOne(b) == Cardinality({c \in Published : c > b}) + 1 >= Retention

Beyond(b) == Cardinality({c \in Published : c > b}) >= Retention

ListBackups(b) ==
  /\ Makes(b, "recorded", "listed")
  /\ doomed' = [doomed EXCEPT ![b] = {c \in Published : Beyond(c)}]
  /\ UNCHANGED <<files, audit, OfRestore>>

(* an unlink that fails is skipped                                         *)
Unlinked(b, c) ==
  /\ making[b] = "listed" /\ c \in doomed[b]
  /\ doomed' = [doomed EXCEPT ![b] = @ \ {c}]
  /\ \E gone \in SUBSET {<<"data", "final", c>>, <<"sum", "final", c>>} : files' = files \ gone
  /\ UNCHANGED <<making, audit, OfRestore>>

EndBackupRun(b) ==
  /\ doomed[b] = {} /\ Makes(b, "listed", "done")
  /\ UNCHANGED <<files, audit, doomed, OfRestore>>

(* The catch block: after whichever step, the published checksum goes too, *)
(* the published data stay.  The UPDATE of the audit may fail as well.     *)
FailBackup(b) ==
  /\ making[b] \notin {"no", "listed", "done", "failed"}
  /\ making' = [making EXCEPT ![b] = "failed"]
  /\ files' = files \ {<<"data", "tmp", b>>, <<"sum", "tmp", b>>, <<"sum", "final", b>>}
  /\ \E s \in {"failed", audit[b]} : audit' = [audit EXCEPT ![b] = s]
  /\ UNCHANGED <<doomed, OfRestore>>

DieInBackup(b) ==
  /\ making[b] \notin {"no", "done", "failed"}
  /\ making' = [making EXCEPT ![b] = IF @ \in {"recorded", "listed"} THEN "done" ELSE "failed"]
  /\ doomed' = [doomed EXCEPT ![b] = {}]
  /\ UNCHANGED <<files, audit, OfRestore>>

-----------------------------------------------------------------------------
(* restoreSqliteBackup                                                     *)

Restores(from, to) == restoring = from /\ restoring' = to
OfMaking == <<making, files, audit, doomed>>

(* validateDatabaseBackup wants the checksum beside the file               *)
ValidateBackup(b) ==
  /\ b \in Restorable /\ Restores("no", "valid") /\ copied' = b
  /\ UNCHANGED <<places, OfMaking>>

(* the file may have gone meanwhile                                        *)
CopyBackup ==
  /\ IF copied \in Published
     THEN Restores("valid", "copied") /\ places' = [places EXCEPT !.tmp = "restored"]
     ELSE Restores("valid", "no") /\ UNCHANGED places
  /\ UNCHANGED <<copied, OfMaking>>

Aside == [name |-> "none", previous |-> places.name, tmp |-> places.tmp]

SetAside ==
  /\ Restores("copied", "aside") /\ places' = IF places.name = "none" THEN places ELSE Aside
  /\ UNCHANGED <<copied, OfMaking>>

Install ==
  /\ Restores("aside", "installed")
  /\ places' = [name |-> places.tmp, previous |-> places.previous, tmp |-> "none"]
  /\ UNCHANGED <<copied, OfMaking>>

RemovePrevious ==
  /\ Restores("installed", "no") /\ places' = [places EXCEPT !.previous = "none"]
  /\ UNCHANGED <<copied, OfMaking>>

(* the catch block: the old database comes back if nothing took its place  *)
FailRestore ==
  /\ restoring \in {"copied", "aside", "installed"} /\ restoring' = "no"
  /\ places' = IF places.previous # "none" /\ places.name = "none"
               THEN [name |-> places.previous, previous |-> "none", tmp |-> "none"]
               ELSE [places EXCEPT !.tmp = "none"]
  /\ UNCHANGED <<copied, OfMaking>>

(* what is left as .tmp and as .previous is not looked at again: the next  *)
(* restoration has names of its own                                        *)
DieInRestore == restoring # "no" /\ restoring' = "dead" /\ UNCHANGED <<copied, places, OfMaking>>

BackupsNext ==
  \/ \E b \in Backup :
       \/ BeginBackup(b) \/ DumpBackup(b) \/ WriteChecksum(b) \/ PublishData(b) \/ PublishChecksum(b)
       \/ CompleteAuditRun(b) \/ ListBackups(b) \/ EndBackupRun(b) \/ FailBackup(b) \/ DieInBackup(b)
       \/ ValidateBackup(b) \/ \E c \in Backup : Unlinked(b, c)
  \/ CopyBackup \/ SetAside \/ Install \/ RemovePrevious \/ FailRestore \/ DieInRestore

-----------------------------------------------------------------------------
(* A backup that was made to the end is given up only for Retention newer  *)
(* files, restorable or not, whoever makes backups beside it and fails or  *)
(* dies doing so; and the database that a restoration replaces is under    *)
(* its name, or kept aside, until the restored one is in its place.        *)
DataSurvives ==
  /\ \A b \in Backup : making[b] \in {"recorded", "listed", "done"} /\ b \notin Restorable =>
       Cardinality({c \in Published : c > b}) >= Retention
  /\ places.name # "none" \/ places.previous # "none"
=============================================================================
