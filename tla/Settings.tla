------------------------------ MODULE Settings ------------------------------
(***************************************************************************)
(* The settings on disk, how the panel saves them, and how a backup made   *)
(* in the panel is restored over them (restoreBackupPayload,               *)
(* src/src/admin/server.ts).  In one synchronous stretch every target is   *)
(* copied, then what is restored is swapped in target by target; the       *)
(* handler awaits the ingestion of the restored knowledge, during which    *)
(* the panel goes on; at last the files renamed aside are removed one by   *)
(* one.  Each of these may fail, and then everything is taken back as far  *)
(* as it can be.                                                           *)
(*                                                                         *)
(* Abstractions: a file is one of a few editions of its content; the       *)
(* ingestion reads the folder in one step (Knowledge has the details), and *)
(* uploads are left out; taking back does not fail itself.                 *)
(***************************************************************************)
EXTENDS Sequences, SequencesExt

CONSTANTS
  Targets,  \* BACKUP_FILES, 'knowledge_base', '.env': in the order of the swap
  Payloads, \* the sets of targets a backup may hold
  Edition,
  Restore,  \* a backup, once it is uploaded
  Remnant,  \* what is left of a file that was copied or removed in part
  Gone,     \* in place of what was renamed aside and has been removed
  NoFile, NoRestore

ASSUME SettingsAssumption ==
  /\ Targets \in Seq(ToSet(Targets))
  /\ {"config", "prompt", "builder", "knowledge", "env"} \subseteq ToSet(Targets)
  /\ Payloads \subseteq SUBSET ToSet(Targets) /\ {NoFile, Remnant, Gone} \cap (Edition \cup Restore) = {}
  /\ NoFile # Remnant /\ NoFile # Gone /\ Remnant # Gone /\ NoRestore \notin Restore /\ Edition \cap Restore = {}

VARIABLES
  disk,      \* what each target holds
  env,       \* the operational settings in process.env
  corpus,    \* the knowledge the bot answers from
  progress, \* "none", "shown", "copying", "swapping", "activating", "removing", "done", "failed" or "cut off"
  carried,   \* what the backup holds
  snapshot,  \* the copy of everything, in the stage
  displaced, \* what was renamed aside, NoFile where nothing was
  left,      \* the targets still to be copied, swapped or removed
  busy,      \* the restore whose synchronous stretch runs
  ingest,    \* the job of each restore: its status and what it has read
  mixed,     \* ghost: the panel has saved or restored while a restore was
             \* not at its end, or an ingestion has outlived its restore
  former,    \* ghost: what each target held when the restore began
  lost,      \* ghost: the targets a failed restore has not brought back
  apart      \* ghost: the targets a restore has left otherwise than what runs

settingsVars ==
  <<disk, env, corpus, progress, carried, snapshot, displaced, left, busy, ingest, mixed,
    former, lost, apart>>

settingsGhosts == <<former, lost, apart>>

Target == ToSet(Targets)
NoFiles == [t \in Target |-> NoFile]

SettingsInit ==
  /\ \E e \in Edition : \E absent \in SUBSET (Target \ {"knowledge", "env"}) :
       /\ disk = [t \in Target |-> IF t \in absent THEN NoFile ELSE e]
       /\ env = e /\ corpus = e
  /\ progress = [r \in Restore |-> "none"] /\ carried = [r \in Restore |-> {}]
  /\ snapshot = [r \in Restore |-> NoFiles] /\ displaced = [r \in Restore |-> NoFiles]
  /\ left = {} /\ busy = NoRestore /\ mixed = FALSE /\ lost = {} /\ apart = {} /\ former = [r \in Restore |-> NoFiles]
  /\ ingest = [r \in Restore |-> [status |-> "none", read |-> NoFile]]

Becomes(r, from, to) == progress[r] \in from /\ progress' = [progress EXCEPT ![r] = to]
UnderWay == {r \in Restore : progress[r] \in {"copying", "swapping", "activating", "removing"}}
Pending == {r \in Restore : ingest[r].status \in {"queued", "reading"}}

-----------------------------------------------------------------------------
(* The handlers of the panel: the profile and the raw JSON write the       *)
(* prompt too, as the builder does.                                        *)
WriteFiles(ts, e) ==
  /\ busy = NoRestore
  /\ disk' = [t \in Target |-> IF t \in ts THEN e ELSE disk[t]]
  /\ mixed' = (mixed \/ UnderWay # {})
  /\ UNCHANGED <<corpus, progress, carried, snapshot, displaced, left, busy, ingest, settingsGhosts>>

(* readPromptBuilder writes the default when there is no builder.          *)
SaveProfile(e) == WriteFiles({"config", "prompt"} \cup {t \in {"builder"} : disk[t] = NoFile}, e) /\ UNCHANGED env
SavePrompt(e) == WriteFiles({"builder", "prompt"}, e) /\ UNCHANGED env
(* and both test and save load what they wrote                             *)
SaveEnvironment(e) == WriteFiles({"env"}, e) /\ env' = e

(* What was uploaded is kept for 15 minutes under a token for one use.     *)
PreviewBackup(r) ==
  /\ busy = NoRestore /\ Becomes(r, {"none"}, "shown")
  /\ \E ts \in Payloads : carried' = [carried EXCEPT ![r] = ts \cup {"knowledge"}]
  /\ UNCHANGED <<disk, env, corpus, snapshot, displaced, left, busy, ingest, mixed, settingsGhosts>>

PreviewExpires(r) ==
  /\ busy = NoRestore /\ Becomes(r, {"shown"}, "failed")
  /\ UNCHANGED <<disk, env, corpus, carried, snapshot, displaced, left, busy, ingest, mixed, settingsGhosts>>

BeginRestore(r) ==
  /\ busy = NoRestore /\ busy' = r /\ Becomes(r, {"shown"}, "copying")
  /\ left' = Target /\ former' = [former EXCEPT ![r] = disk]
  /\ mixed' = (mixed \/ UnderWay # {} \/ Pending # {})
  /\ UNCHANGED <<disk, env, corpus, carried, snapshot, displaced, ingest, lost, apart>>

-----------------------------------------------------------------------------
(* The next target of a loop; the copies leave the knowledge to the end.   *)
First(ts) == Targets[Min({i \in DOMAIN Targets : Targets[i] \in ts})]
ToCopy == IF left = {"knowledge"} THEN "knowledge" ELSE First(left \ {"knowledge"})

CopyNext(r) ==
  /\ busy = r /\ progress[r] = "copying" /\ left # {}
  /\ snapshot' = [snapshot EXCEPT ![r][ToCopy] = disk[ToCopy]] /\ left' = left \ {ToCopy}
  /\ UNCHANGED <<disk, env, corpus, progress, carried, displaced, busy, ingest, mixed, settingsGhosts>>

(* What the backup holds is written beside the copy.                       *)
Stage(r) ==
  /\ busy = r /\ left = {} /\ Becomes(r, {"copying"}, "swapping") /\ left' = carried[r]
  /\ UNCHANGED <<disk, env, corpus, carried, snapshot, displaced, busy, ingest, mixed, settingsGhosts>>

(* swap: two renames, of one target after the other                        *)
Displace(r) ==
  /\ busy = r /\ progress[r] = "swapping" /\ left # {}
  /\ disk[First(left)] # NoFile /\ displaced[r][First(left)] = NoFile
  /\ displaced' = [displaced EXCEPT ![r][First(left)] = disk[First(left)]]
  /\ disk' = [disk EXCEPT ![First(left)] = NoFile]
  /\ UNCHANGED <<env, corpus, progress, carried, snapshot, left, busy, ingest, mixed, settingsGhosts>>

PutInPlace(r) ==
  /\ busy = r /\ progress[r] = "swapping" /\ left # {} /\ disk[First(left)] = NoFile
  /\ disk' = [disk EXCEPT ![First(left)] = r] /\ left' = left \ {First(left)}
  /\ UNCHANGED <<env, corpus, progress, carried, snapshot, displaced, busy, ingest, mixed, settingsGhosts>>

(* loadKnowledgeBase enqueues a job and waits for it.                      *)
Activate(r) ==
  /\ busy = r /\ left = {} /\ busy' = NoRestore /\ Becomes(r, {"swapping"}, "activating")
  /\ ingest' = [ingest EXCEPT ![r] = [status |-> "queued", read |-> NoFile]]
  /\ UNCHANGED <<disk, env, corpus, carried, snapshot, displaced, left, mixed, settingsGhosts>>

ReadFolder(r) ==
  /\ busy = NoRestore /\ ingest[r].status = "queued" /\ \A q \in Restore : ingest[q].status # "reading"
  /\ ingest' = [ingest EXCEPT ![r] = [status |-> "reading", read |-> disk["knowledge"]]]
  /\ UNCHANGED <<disk, env, corpus, progress, carried, snapshot, displaced, left, busy, mixed, settingsGhosts>>

EndIngestion(r, status) ==
  /\ busy = NoRestore /\ ingest[r].status = "reading"
  /\ ingest' = [ingest EXCEPT ![r] = [status |-> status, read |-> NoFile]]
  /\ corpus' = IF status = "succeeded" THEN ingest[r].read ELSE corpus
  /\ UNCHANGED <<disk, env, progress, carried, snapshot, displaced, left, busy, mixed, settingsGhosts>>

-----------------------------------------------------------------------------
(* With the knowledge active, what was renamed aside is removed.           *)
BeginRemoval(r) ==
  /\ busy = NoRestore /\ ingest[r].status = "succeeded" /\ busy' = r /\ Becomes(r, {"activating"}, "removing")
  /\ left' = {t \in Target : displaced[r][t] # NoFile}
  /\ UNCHANGED <<disk, env, corpus, carried, snapshot, displaced, ingest, mixed, settingsGhosts>>

RemoveDisplaced(r) ==
  /\ busy = r /\ progress[r] = "removing" /\ left # {}
  /\ displaced' = [displaced EXCEPT ![r][First(left)] = Gone] /\ left' = left \ {First(left)}
  /\ UNCHANGED <<disk, env, corpus, progress, carried, snapshot, busy, ingest, mixed, settingsGhosts>>

(* The settings are loaded where the backup had some, but not where the    *)
(* stage cannot be removed (finally) and the restore is told to have       *)
(* failed.                                                                 *)
Succeed(r) ==
  /\ busy = r /\ left = {} /\ busy' = NoRestore /\ Becomes(r, {"removing"}, "done")
  /\ env' \in {env, IF "env" \in carried[r] THEN disk["env"] ELSE env}
  /\ apart' = apart \cup IF env' = disk["env"] THEN {} ELSE {"env"}
  /\ displaced' = [displaced EXCEPT ![r] = NoFiles] /\ former' = [former EXCEPT ![r] = NoFiles]
  /\ snapshot' = [snapshot EXCEPT ![r] = NoFiles] /\ carried' = [carried EXCEPT ![r] = {}]
  /\ UNCHANGED <<disk, corpus, left, ingest, mixed, lost>>

\* a plausible mistake: what had nothing to displace is not taken back
OnlyDisplaced(t, copies, aside) == IF aside[t] = NoFile THEN disk[t] ELSE IF aside[t] = Gone THEN NoFile ELSE aside[t]

(* The catch: the target is removed; what was renamed aside is renamed     *)
(* back if it is still there; of the others what was copied is copied.     *)
TakenBack(t, copies, aside) ==
  IF aside[t] = NoFile THEN copies[t] ELSE IF aside[t] = Gone THEN NoFile ELSE aside[t]

RollBack(r, copies, aside) ==
  /\ disk' = [t \in Target |-> TakenBack(t, copies, aside)]
  /\ lost' = lost \cup {t \in Target : disk'[t] # former[r][t]}
  /\ apart' = IF progress[r] = "removing" THEN apart \cup {"knowledge"} ELSE apart
  /\ displaced' = [displaced EXCEPT ![r] = NoFiles] /\ left' = {} /\ busy' = NoRestore
  /\ snapshot' = [snapshot EXCEPT ![r] = NoFiles] /\ carried' = [carried EXCEPT ![r] = {}]
  /\ former' = [former EXCEPT ![r] = NoFiles]
  /\ UNCHANGED <<env, corpus, ingest>>

(* A copy fails: of this target there is a part or nothing, of those after *)
(* it nothing.                                                             *)
CopyFails(r) ==
  /\ busy = r /\ left # {} /\ disk[ToCopy] # NoFile /\ Becomes(r, {"copying"}, "failed") /\ UNCHANGED mixed
  /\ \E part \in {NoFile, Remnant} : RollBack(r, [snapshot[r] EXCEPT ![ToCopy] = part], displaced[r])

(* A rename fails, or what goes before it (the staging).                   *)
SwapFails(r) ==
  /\ busy = r /\ Becomes(r, {"swapping"}, "failed") /\ RollBack(r, snapshot[r], displaced[r]) /\ UNCHANGED mixed

(* A removal fails: a file stays, of a folder there may be a part.         *)
RemovalFails(r) ==
  /\ busy = r /\ left # {} /\ Becomes(r, {"removing"}, "failed") /\ UNCHANGED mixed
  /\ \E rest \in {displaced[r][First(left)]} \cup IF First(left) = "knowledge" THEN {Remnant} ELSE {} :
       RollBack(r, snapshot[r], [displaced[r] EXCEPT ![First(left)] = rest])

(* The job has failed, or has not ended after two minutes; then it goes on *)
(* and may yet activate what it has read.                                  *)
RestoreFails(r) ==
  /\ busy = NoRestore /\ ingest[r].status # "succeeded"
  /\ Becomes(r, {"activating"}, "failed") /\ RollBack(r, snapshot[r], displaced[r])
  /\ mixed' = (mixed \/ ingest[r].status = "reading")

(* The stage and what was renamed stay where they are: nothing looks for   *)
(* them at the next start.  The job runs again.                            *)
Crash ==
  /\ UnderWay # {}
  /\ progress' = [r \in Restore |-> IF r \in UnderWay THEN "cut off"
                                     ELSE IF progress[r] = "shown" THEN "failed" ELSE progress[r]]
  /\ ingest' = [r \in Restore |-> IF ingest[r].status = "reading"
                                  THEN [status |-> "queued", read |-> NoFile] ELSE ingest[r]]
  /\ env' = disk["env"] /\ left' = {} /\ busy' = NoRestore
  /\ UNCHANGED <<disk, corpus, carried, snapshot, displaced, mixed, settingsGhosts>>

(* Nothing is claimed of what follows a mixture: behaviours end there.     *)
SettingsNext ==
  /\ ~mixed
  /\ \/ \E e \in Edition : SaveProfile(e) \/ SavePrompt(e) \/ SaveEnvironment(e)
     \/ \E r \in Restore :
          \/ PreviewBackup(r) \/ PreviewExpires(r) \/ BeginRestore(r) \/ CopyNext(r) \/ CopyFails(r) \/ Stage(r)
          \/ Displace(r) \/ PutInPlace(r) \/ SwapFails(r) \/ Activate(r) \/ ReadFolder(r)
          \/ \E status \in {"succeeded", "failed"} : EndIngestion(r, status)
          \/ BeginRemoval(r) \/ RemoveDisplaced(r) \/ RemovalFails(r) \/ Succeed(r) \/ RestoreFails(r)
     \/ Crash

-----------------------------------------------------------------------------
Restored(r) == [t \in Target |-> IF t \in carried[r] THEN r ELSE former[r][t]]

(* What a failure may lose: the targets not copied yet, or those whose     *)
(* former file is removed.                                                 *)
Exposed(r) ==
  CASE progress[r] = "copying" -> left
    [] progress[r] = "removing" -> carried[r] \ (left \ {First(left)})
    [] OTHER -> {}

EndsWhole(r) == progress[r] # progress'[r] =>
  /\ progress'[r] = "done" => disk' = Restored(r)
  /\ progress'[r] = "failed" /\ progress[r] # "shown" =>
       \A t \in Target : disk'[t] = former[r][t] \/ (t \in Exposed(r) /\ disk'[t] \in {NoFile, Remnant})
  /\ progress'[r] = "cut off" =>
       \/ \A t \in Target : former[r][t] \in {disk'[t], displaced'[r][t]}
       \/ progress[r] = "removing" /\ disk' = Restored(r)

(* Memory and disk, but for what a failure has lost or left apart.         *)
Agree ==
  /\ UnderWay = {} => env = disk["env"] \/ "env" \in lost \cup apart
  /\ UnderWay = {} /\ Pending = {} /\ (\A r \in Restore : progress[r] # "cut off")
       => corpus = disk["knowledge"] \/ "knowledge" \in lost \cup apart

(* A restore that ends well has replaced what the backup holds and nothing *)
(* else; one whose renames or activation fail leaves every file as it was; *)
(* one whose copies or removals fail loses at most what was not copied, or *)
(* already removed, and leaves nothing of the backup; a crash leaves every *)
(* former file in its place or beside it, or what was restored in place;   *)
(* and what runs is what is on the disk, where no failure has lost it or   *)
(* left it apart.  Not so once the panel has saved while the knowledge was *)
(* being activated (a failure takes the save back too), or once two        *)
(* restores have overlapped.                                               *)
RestoreIsAllOrNothing ==
  [][~mixed' => Agree' /\ \A r \in Restore : EndsWhole(r)]_settingsVars
=============================================================================
