----------------------------- MODULE Knowledge ------------------------------
(***************************************************************************)
(* The knowledge of Voidlark: files that operators put into a folder, jobs *)
(* that turn the folder into a version of the corpus                       *)
(* (src/src/ai/knowledge-store.ts, knowledge-worker.ts), the one active    *)
(* version, and the copy of it in memory that the bot answers from         *)
(* (src/src/ai/knowledge.ts).                                              *)
(*                                                                         *)
(* One process runs at a time (src/src/config/instance-lock.ts) and has    *)
(* one worker, which does one job after the other; beside it requests of   *)
(* operators change the folder, add jobs, and perhaps wait for them.  A    *)
(* step is one query or transaction, or one look at the folder.            *)
(* Abstractions:                                                           *)
(*  - the folder is one value of Content, of which the worker first takes  *)
(*    the checksum and later, from the files again, the text;              *)
(*  - the two queries of refreshKnowledgeCache and the assignment of their *)
(*    results are one step, as the queue of db.ts makes them on SQLite;    *)
(*  - a lease can only be seen to run out, and a token to be an old one,   *)
(*    when the process that held them is gone, since a worker claims       *)
(*    nothing while it has a job; so neither is a variable, and the        *)
(*    attempts of the row are those the worker has read;                   *)
(*  - available_at and lease_until of a job that waits for its retry, or   *)
(*    was left behind, may have come or not whenever jobs are claimed;     *)
(*  - the shutdown, which does not wait for the worker, is a crash.        *)
(***************************************************************************)
EXTENDS Naturals, Sequences

CONSTANTS
  Content,      \* what can be in the folder
  NoFiles,      \* the empty folder, whose corpus has no chunks
  Broken,       \* contents with a file that has no text
  None,
  Request,      \* requests of operators in progress at the same time
  MaxAttempts,  \* max_attempts of a job
  MaxRequests,  \* bound: requests of operators
  MaxMishaps    \* bound: deaths of the process and failing queries

ASSUME KnowledgeAssumption ==
  /\ Broken \subseteq Content /\ NoFiles \in Content \ Broken /\ None \notin Content
  /\ MaxAttempts \in Nat \ {0}
  /\ MaxRequests \in Nat /\ MaxMishaps \in Nat

\* Ids of jobs; a start of the process adds one at most.
Job == 1..(MaxRequests + MaxMishaps + 1)

Startup == "startup"  \* initializeKnowledgeBase, the asker that is no request
Asker == Request \cup {Startup}

ASSUME StartupAssumption == Startup \notin Request

VARIABLES
  folder,    \* the files
  status, attempts, version,  \* columns of knowledge_ingestion_jobs
  last,      \* the last id of a job
  fresh,     \* the jobs added since the files were last changed
  corpus,    \* knowledge_corpus_versions: status, source_checksum, documents
  current,   \* knowledge_active_corpus; 0 for no row
  up,        \* a process runs
  served,    \* the version in cachedChunks and cachedKnowledgeBase
  pc, cur,   \* where the worker is, and its job
  read,      \* the checksum it has taken
  mine,      \* current.corpus_version_id of the worker
  ask,       \* what each request is doing
  missed,    \* the refresh after the last activation has failed
  torn,      \* the folder has changed between checksum and text
  requests, mishaps

jobVars    == <<status, attempts, version, last>>
fileVars   == <<folder, fresh>>
corpusVars == <<corpus, current>>
workerVars == <<pc, cur, read, mine>>
ghosts     == <<missed, torn>>
boundVars  == <<requests, mishaps>>
vars == <<fileVars, jobVars, corpusVars, up, served, workerVars, ask, ghosts, boundVars>>

Status  == {"absent", "queued", "processing", "retry", "succeeded", "failed"}
Version == [status : {"building", "active", "failed", "superseded"},
            source : Content, docs : Content \cup {None}]
PC == {"idle",
       "reading",     \* about to read the files
       "duplicate",   \* about to complete the job without a version
       "inserting", "linking",  \* the two queries of beginVersion
       "extracting",  \* about to read the text of the files
       "activating",
       "refreshing",  \* in onActivated
       "failing"}     \* about to fail the job
Doing == [at : {"none",      \* no request
                "saved",     \* files changed, the job is not yet added
                "waiting",   \* in waitFor
                "loaded"},   \* about to refresh
          job  : Job \cup {0},
          wait : BOOLEAN,               \* loadKnowledgeBase, not only enqueue
          old  : Content \cup {None}]   \* what a restore puts back when it fails
NoRequest == [at |-> "none", job |-> 0, wait |-> FALSE, old |-> None]

Init ==
  /\ folder \in Content /\ fresh = {}
  /\ status = [j \in Job |-> "absent"] /\ attempts = [j \in Job |-> 0]
  /\ version = [j \in Job |-> 0] /\ last = 0
  /\ corpus = <<>> /\ current = 0
  /\ up = FALSE /\ served = 0
  /\ pc = "idle" /\ cur = 1 /\ read = NoFiles /\ mine = 0
  /\ ask = [r \in Asker |-> NoRequest]
  /\ missed = FALSE /\ torn = FALSE
  /\ requests = 0 /\ mishaps = 0

-----------------------------------------------------------------------------
(* Jobs.                                                                   *)

\* KnowledgeStore.enqueue: the row, available at once.
AddJob ==
  /\ last' = last + 1 /\ last' \in Job
  /\ status' = [status EXCEPT ![last + 1] = "queued"]
  /\ fresh' = fresh \cup {last + 1}
  /\ UNCHANGED <<folder, attempts, version>>

\* knowledgeStore.retry, of a job that was given up or waits for its retry.
Retry(j) ==
  /\ up /\ ask[Startup] = NoRequest
  /\ requests < MaxRequests /\ requests' = requests + 1
  /\ status[j] \in {"retry", "failed"}
  /\ status' = [status EXCEPT ![j] = "queued"]
  /\ attempts' = [attempts EXCEPT ![j] = 0]
  /\ UNCHANGED <<fileVars, version, last, corpusVars, up, served, workerVars, ask,
                 ghosts, mishaps>>

-----------------------------------------------------------------------------
(* The worker.                                                             *)

ClaimableOnce(j) == status[j] \in {"queued", "retry"}
Claimable(j)     == status[j] \in {"queued", "retry", "processing"}

\* The earliest job there is; one that was tried before may have to wait.
Claim ==
  /\ up /\ pc = "idle" /\ pc' = "reading"
  /\ \E j \in Job :
       /\ Claimable(j) /\ \A k \in 1..(j - 1) : status[k] # "queued"
       /\ status' = [status EXCEPT ![j] = "processing"]
       /\ cur' = j /\ mine' = version[j]
  /\ UNCHANGED <<fileVars, attempts, version, last, corpusVars, up, served, read, ask, ghosts,
                 boundVars>>

At(p, q) == up /\ pc = p /\ pc' = q

\* process() returns.
Done == pc' = "idle" /\ cur' = 1 /\ read' = NoFiles /\ mine' = 0

\* What a step of the worker leaves alone unless it says otherwise.
OutsideWorker == <<fileVars, last, up, ask, requests>>

\* Is the corpus that answers made from these files?
IsActive(c)  == current # 0 /\ corpus[current].source = c

\* The checksum of the files, and the comparison with the one of the active
\* version, which no one else can change.
ReadFolder ==
  /\ up /\ pc = "reading"
  /\ read' = folder
  /\ pc' = IF IsActive(folder) THEN "duplicate" ELSE "inserting"
  /\ UNCHANGED <<OutsideWorker, status, attempts, version, corpusVars, served, cur, mine, ghosts,
                 mishaps>>

Succeed ==
  /\ status' = [status EXCEPT ![cur] = "succeeded"]
  /\ UNCHANGED attempts

CompleteDuplicate ==
  /\ up /\ pc = "duplicate" /\ Done
  /\ Succeed
  /\ UNCHANGED <<OutsideWorker, version, corpusVars, served, ghosts, mishaps>>

InsertVersion ==
  /\ At("inserting", "linking")
  /\ corpus' = Append(corpus, [status |-> "building", source |-> read, docs |-> None])
  /\ UNCHANGED <<OutsideWorker, status, attempts, version, current, served, cur, read, mine,
                 ghosts, mishaps>>

LinkVersion ==
  /\ At("linking", "extracting")
  /\ version' = [version EXCEPT ![cur] = Len(corpus)]
  /\ mine' = Len(corpus)
  /\ UNCHANGED <<OutsideWorker, status, attempts, corpusVars, served, cur, read, ghosts,
                 mishaps>>

SetVersion(v, st, docs) ==
  [corpus EXCEPT ![v] = [status |-> st, source |-> corpus[v].source, docs |-> docs]]

\* The documents stay in memory until they are activated; docs of a version
\* that is being built stands for them.
Extract ==
  /\ up /\ pc = "extracting"
  /\ IF folder \in Broken
       THEN pc' = "failing" /\ UNCHANGED corpus
       ELSE pc' = "activating" /\ corpus' = SetVersion(mine, corpus[mine].status, folder)
  /\ UNCHANGED <<OutsideWorker, status, attempts, version, current, served, cur, read, mine,
                 ghosts, mishaps>>

KeepOld(v)   == corpus[v].status
Supersede(v) == IF corpus[v].status = "active" THEN "superseded" ELSE corpus[v].status

Activate ==
  /\ At("activating", "refreshing")
  /\ corpus' = [v \in DOMAIN corpus |->
                  [status |-> IF v = mine THEN "active" ELSE Supersede(v),
                   source |-> corpus[v].source, docs |-> corpus[v].docs]]
  /\ current' = mine
  /\ Succeed
  /\ UNCHANGED <<OutsideWorker, version, served, cur, read, mine, ghosts, mishaps>>

\* refreshKnowledgeCache.
Refresh(v) == served' = v /\ missed' = FALSE

OnActivated ==
  /\ up /\ pc = "refreshing" /\ Done
  /\ Refresh(current)
  /\ UNCHANGED <<OutsideWorker, status, attempts, version, corpusVars, torn, mishaps>>

\* A query of the job, or of the refresh after it, fails.
Fault ==
  /\ up /\ pc \notin {"idle", "failing"}
  /\ mishaps < MaxMishaps /\ mishaps' = mishaps + 1
  /\ pc' = "failing"
  /\ missed' = (missed \/ pc = "refreshing")
  /\ UNCHANGED <<OutsideWorker, status, attempts, version, corpusVars, served, cur, read,
                 mine, torn>>

Spent(n) == n >= MaxAttempts

AnyVersion(v)   == v # 0
Unfinished(v)   == v # 0 /\ corpus[v].status = "building"

FailJob ==
  /\ up /\ pc = "failing" /\ Done
  /\ corpus' = IF Unfinished(mine) THEN SetVersion(mine, "failed", corpus[mine].docs) ELSE corpus
  /\ attempts' = [attempts EXCEPT ![cur] = @ + 1]
  /\ status' = [status EXCEPT ![cur] = IF Spent(attempts[cur] + 1) THEN "failed" ELSE "retry"]
  /\ UNCHANGED <<OutsideWorker, version, current, served, ghosts, mishaps>>

WorkerStep ==
  \/ Claim \/ ReadFolder \/ CompleteDuplicate \/ InsertVersion \/ LinkVersion
  \/ Extract \/ Activate \/ OnActivated \/ FailJob

-----------------------------------------------------------------------------
(* The operators.                                                          *)

\* What a step of a request leaves alone unless it says otherwise.
OutsideRequests == <<corpusVars, up, workerVars, mishaps>>

\* The admin server is started after initializeKnowledgeBase.
Accepts(r) ==
  /\ up /\ ask[Startup] = NoRequest /\ ask[r] = NoRequest
  /\ requests < MaxRequests /\ requests' = requests + 1

Edit(c) ==
  /\ folder' = c /\ fresh' = {}
  /\ torn' = (torn \/ pc \in {"inserting", "linking", "extracting"})

Saved(wait, old) == [at |-> "saved", job |-> 0, wait |-> wait, old |-> old]

\* An upload; /admin/knowledge/delete and the restore of a backup load what
\* is left and wait for it.
Save(r, c) ==
  /\ Accepts(r)
  /\ Edit(c)
  /\ \E s \in {Saved(FALSE, None), Saved(TRUE, None), Saved(TRUE, folder)} :
       ask' = [ask EXCEPT ![r] = s]
  /\ UNCHANGED <<OutsideRequests, jobVars, served, missed>>

\* /admin/knowledge/reload.
Reload(r) ==
  /\ Accepts(r)
  /\ ask' = [ask EXCEPT ![r] = Saved(FALSE, None)]
  /\ UNCHANGED <<OutsideRequests, fileVars, jobVars, served, ghosts>>

Await(r, at, job) == [at |-> at, job |-> job, wait |-> TRUE, old |-> ask[r].old]

Enqueue(r) ==
  /\ ask[r].at = "saved"
  /\ AddJob
  /\ ask' = [ask EXCEPT ![r] = IF ask[r].wait THEN Await(r, "waiting", last + 1) ELSE NoRequest]
  /\ UNCHANGED <<OutsideRequests, served, ghosts, requests>>

\* waitFor sees that the job has succeeded.
Wait(r) ==
  /\ ask[r].at = "waiting" /\ status[ask[r].job] = "succeeded"
  /\ ask' = [ask EXCEPT ![r] = Await(r, "loaded", ask[r].job)]
  /\ UNCHANGED <<OutsideRequests, fileVars, jobVars, served, ghosts, requests>>

Load(r) ==
  /\ ask[r].at = "loaded"
  /\ Refresh(current)
  /\ ask' = [ask EXCEPT ![r] = NoRequest]
  /\ UNCHANGED <<OutsideRequests, fileVars, jobVars, torn, requests>>

\* The job has failed, it takes too long, or a query of the request fails:
\* a restore puts the old files back.
GiveUp(r) ==
  /\ ask[r] # NoRequest
  /\ IF ask[r].old = None THEN UNCHANGED <<fileVars, torn>> ELSE Edit(ask[r].old)
  /\ ask' = [ask EXCEPT ![r] = NoRequest]
  /\ UNCHANGED <<OutsideRequests, jobVars, served, missed, requests>>

-----------------------------------------------------------------------------
(* The process.                                                            *)

\* initializeKnowledgeBase: what is active is served, and if that has no
\* chunks the folder is loaded.
Boot ==
  /\ ~up /\ up' = TRUE
  /\ Refresh(current)
  /\ IF current = 0 \/ corpus[current].docs = NoFiles
       THEN /\ AddJob
            /\ ask' = [ask EXCEPT ![Startup] =
                         [at |-> "waiting", job |-> last + 1, wait |-> TRUE, old |-> None]]
       ELSE UNCHANGED <<jobVars, fileVars, ask>>
  /\ UNCHANGED <<corpusVars, workerVars, torn, boundVars>>

\* The process dies, is shut down, or gives up its start; so does everything
\* in progress.  Also the end of a query outside the try of process(), or in
\* its catch: loop() has none, and nothing handles the rejection.
Crash ==
  /\ up /\ mishaps < MaxMishaps
  /\ up' = FALSE /\ mishaps' = mishaps + 1
  /\ served' = 0 /\ missed' = FALSE
  /\ Done
  /\ ask' = [r \in Asker |-> NoRequest]
  /\ UNCHANGED <<fileVars, jobVars, corpusVars, torn, requests>>

\* The poll of a worker that finds no job, every second.
Poll ==
  /\ up /\ pc = "idle" /\ \A j \in Job : status[j] # "queued"
  /\ UNCHANGED vars

RequestStep(r) == Enqueue(r) \/ Wait(r) \/ Load(r)

Next ==
  \/ WorkerStep \/ Fault \/ Poll
  \/ \E j \in Job : Retry(j)
  \/ \E r \in Request : Reload(r) \/ GiveUp(r) \/ \E c \in Content : Save(r, c)
  \/ \E r \in Asker : RequestStep(r)
  \/ Boot \/ Crash

\* The worker goes on with what it does and its poll comes again, a retry and
\* the end of a lease too, and a process that died is started again.
Fairness == WF_vars(WorkerStep) /\ WF_vars(Boot)

Spec == Init /\ [][Next]_vars /\ Fairness

-----------------------------------------------------------------------------
(* Properties.                                                             *)

\* The types of the variables.
TypeOK ==
  /\ folder \in Content /\ fresh \subseteq Job
  /\ status \in [Job -> Status] /\ attempts \in [Job -> 0..MaxAttempts]
  /\ version \in [Job -> 0..Len(corpus)] /\ last \in Job \cup {0}
  /\ corpus \in Seq(Version) /\ current \in 0..Len(corpus)
  /\ up \in BOOLEAN /\ served \in 0..Len(corpus)
  /\ pc \in PC /\ cur \in Job /\ read \in Content /\ mine \in 0..Len(corpus)
  /\ ask \in [Asker -> Doing]
  /\ missed \in BOOLEAN /\ torn \in BOOLEAN
  /\ requests \in 0..MaxRequests /\ mishaps \in 0..MaxMishaps

\* The version that answers is the one and only active one and has its
\* documents, whatever failed, also after its activation.
OneActive ==
  \A v \in DOMAIN corpus : corpus[v].status = "active" <=> v = current

\* A job that has succeeded is true to its word as long as nobody changes the
\* files again: the active corpus was made for them, from them unless they
\* were changed while some version was being built.
UploadsApplied ==
  \A j \in fresh :
    status[j] = "succeeded" =>
      /\ current # 0 /\ corpus[current].source = folder
      /\ torn \/ corpus[current].docs = folder

\* The bot answers from the active version, unless the refresh after its
\* activation failed: then the job is retried, finds its own version active
\* and succeeds, and the bot goes on with the old one.
ServedIsActive == up /\ pc # "refreshing" /\ ~missed => served = current

\* A version is built, activated and superseded in this order, or fails before
\* it was active; its documents are never touched again.
VersionsAdvance ==
  [][\A v \in DOMAIN corpus :
       /\ v \in DOMAIN corpus' /\ corpus'[v].source = corpus[v].source
       /\ corpus[v].status # "building" =>
            /\ corpus'[v].docs = corpus[v].docs
            /\ \/ corpus'[v].status = corpus[v].status
               \/ corpus[v].status = "active" /\ corpus'[v].status = "superseded"]_vars

\* A job is given up when its attempts are spent and not before; one that has
\* succeeded is only done again by the worker whose refresh has failed, right
\* after it activated the version of that job.
SettledIsEarned ==
  [][\A j \in Job :
       /\ status[j] # "failed" /\ status'[j] = "failed" => attempts'[j] = MaxAttempts
       /\ status[j] = "succeeded" /\ status'[j] # "succeeded" =>
            pc = "failing" /\ j = cur /\ version[j] = current]_vars

\* As long as requests and mishaps end, so do the jobs: each succeeds or is
\* given up, through crashes, failures and retries, and the queue is empty.
QueueEmpties == []<>(\A j \in Job : status[j] \notin {"queued", "processing", "retry"})

\* One version is active, holds what was uploaded, and is what the bot answers from.
CorpusIsSound == OneActive /\ UploadsApplied /\ ServedIsActive

\* What was activated or settled stays so.
NoWayBack == VersionsAdvance /\ SettledIsEarned
=============================================================================
