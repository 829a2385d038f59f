--------------------------- MODULE KnowledgeProofs --------------------------
(***************************************************************************)
(* Proofs about Knowledge, for any contents of the folder and any number   *)
(* of requests, crashes and failures.  KInv is the inductive invariant.    *)
(* At the end Texts: DocInv says that what is not in a chunk yet begins    *)
(* where the next chunk does, or later; AnswerInv, that what is sent is    *)
(* what SingleQuestion makes of the answer and the bubbles are its plan,   *)
(* and what these two keep of the words follows from lemmas about          *)
(* sequences that are flattened, pieces that are put together and folds.   *)
(***************************************************************************)
EXTENDS Knowledge, Texts, SequenceTheorems, FiniteSetTheorems, TLAPS

\* Jobs get their ids in order, and one that is not given up has attempts left.
JobsOK ==
  \A j \in Job :
    /\ j > last => status[j] = "absent"
    /\ status[j] # "failed" => attempts[j] < MaxAttempts

Trying   == {"reading", "duplicate", "inserting", "linking", "extracting", "activating"}
Building == {"inserting", "linking", "extracting", "activating"}

\* Where the worker is, and what the row of its job says.
Activated == status[cur] = "succeeded" /\ current # 0 /\ version[cur] = current

RunOK ==
  /\ pc # "idle" => up /\ cur <= last
  /\ pc \in Trying => status[cur] = "processing"
  /\ pc = "failing" => status[cur] = "processing" \/ Activated
  /\ pc = "refreshing" => Activated

\* The version that the worker makes is its own until it is activated.
BuildOK ==
  /\ pc = "linking" =>
       /\ Len(corpus) # 0
       /\ corpus[Len(corpus)].status = "building" /\ corpus[Len(corpus)].source = read
  /\ pc \in {"extracting", "activating"} =>
       /\ mine # 0 /\ version[cur] = mine
       /\ corpus[mine].status = "building" /\ corpus[mine].source = read

\* What a job promises, kept until the job is done, while nobody changes the
\* files again.
PromiseOK ==
  /\ current # 0 => torn \/ corpus[current].docs = corpus[current].source
  /\ pc = "duplicate" /\ cur \in fresh => IsActive(folder)
  /\ pc \in Building /\ (cur \in fresh \/ \E j \in fresh : status[j] = "succeeded") => read = folder
  /\ pc \in {"inserting", "linking", "extracting"} => torn \/ folder = read
  /\ pc = "activating" => torn \/ corpus[mine].docs = read

KInv == /\ TypeOK /\ JobsOK /\ RunOK /\ BuildOK /\ OneActive /\ PromiseOK /\ UploadsApplied
        /\ ServedIsActive

-----------------------------------------------------------------------------
(* The versions of the corpus.                                             *)

VersionStatus == {"building", "active", "failed", "superseded"}
Docs == Content \cup {None}

\* What SetVersion changes.
LEMMA SetVersionChanges ==
  ASSUME corpus \in Seq(Version), NEW v \in 1..Len(corpus),
         NEW st \in VersionStatus, NEW d \in Docs, NEW new, new = SetVersion(v, st, d)
  PROVE  /\ new \in Seq(Version) /\ Len(new) = Len(corpus) /\ DOMAIN new = 1..Len(corpus)
         /\ new[v].status = st /\ new[v].source = corpus[v].source /\ new[v].docs = d
         /\ \A w \in 1..Len(corpus) : w # v => new[w] = corpus[w]
<1> DEFINE e == [status |-> st, source |-> corpus[v].source, docs |-> d]
<1>1. corpus[v] \in Version
  BY ElementOfSeq
<1>2. e \in Version
  BY <1>1 DEF Version, VersionStatus, Docs
<1>3. new = [corpus EXCEPT ![v] = e]
  BY DEF SetVersion
<1> HIDE DEF e
<1>4. new \in Seq(Version) /\ Len(new) = Len(corpus) /\ \A w \in 1..Len(corpus) : new[w] = IF w = v THEN e ELSE corpus[w]
  BY <1>2, <1>3, ExceptSeq
<1>5. DOMAIN new = 1..Len(corpus)
  BY <1>4, LenProperties
<1> QED
  BY <1>4, <1>5 DEF e

\* Activation keeps every version, and only its status changes.
LEMMA ActivateChanges ==
  ASSUME TypeOK, OneActive, BuildOK, Activate
  PROVE  /\ mine \in 1..Len(corpus) /\ corpus' \in Seq(Version) /\ Len(corpus') = Len(corpus)
         /\ DOMAIN corpus' = 1..Len(corpus)
         /\ \A w \in 1..Len(corpus) :
              /\ corpus'[w].status = (IF w = mine THEN "active" ELSE Supersede(w))
              /\ corpus'[w].source = corpus[w].source /\ corpus'[w].docs = corpus[w].docs
<1>1. mine \in 1..Len(corpus)
  BY DEF TypeOK, BuildOK, Activate, At
<1>2. DOMAIN corpus = 1..Len(corpus) /\ Len(corpus) \in Nat
  BY LenProperties DEF TypeOK
<1> DEFINE e(w) == [status |-> IF w = mine THEN "active" ELSE Supersede(w),
                    source |-> corpus[w].source, docs |-> corpus[w].docs]
<1>3. \A w \in 1..Len(corpus) : e(w) \in Version
  <2> SUFFICES ASSUME NEW w \in 1..Len(corpus) PROVE e(w) \in Version
    OBVIOUS
  <2>1. corpus[w] \in Version
    BY ElementOfSeq DEF TypeOK
  <2> QED
    BY <2>1 DEF Version, Supersede
<1>4. corpus' = [w \in 1..Len(corpus) |-> e(w)]
  BY <1>2 DEF Activate
<1> HIDE DEF e
<1>5. corpus' \in [1..Len(corpus) -> Version]
  BY <1>3, <1>4
<1>6. corpus' \in Seq(Version)
  BY <1>2, <1>5, SeqDef
<1>7. DOMAIN corpus' = 1..Len(corpus) /\ Len(corpus') = Len(corpus)
  BY <1>2, <1>4, <1>6, LenProperties
<1>8. \A w \in 1..Len(corpus) : corpus'[w] = e(w)
  BY <1>4
<1> QED
  BY <1>1, <1>6, <1>7, <1>8 DEF e

-----------------------------------------------------------------------------
(* Steps of others than the worker and the crash.                          *)

Others ==
  \/ Poll \/ UNCHANGED vars \/ Boot
  \/ \E j \in Job : Retry(j)
  \/ \E r \in Request : Reload(r) \/ GiveUp(r) \/ \E c \in Content : Save(r, c)
  \/ \E r \in Asker : RequestStep(r)

\* They leave the worker and the corpus alone, and of the jobs those that the
\* worker has or has done; jobs added are fresh, an edit makes all others old.
OthersShape ==
  /\ UNCHANGED <<corpus, current, pc, cur, read, mine, version>>
  /\ last' \in {last, last + 1}
  /\ up => up'
  /\ \A k \in Job : k =< last /\ status[k] \in {"processing", "succeeded"} => status'[k] = status[k]
  /\ \A k \in Job : status'[k] = "succeeded" => status[k] = "succeeded"
  /\ \/ folder' = folder /\ torn' = torn /\ fresh' \subseteq Job \cap (fresh \cup {last + 1})
     \/ fresh' = {} /\ torn' = (torn \/ pc \in {"inserting", "linking", "extracting"})

LEMMA OthersStep ==
  ASSUME TypeOK, JobsOK, Others
  PROVE  OthersShape
<1> USE DEF fileVars, jobVars, corpusVars, workerVars, ghosts, boundVars
<1> USE DEF OthersShape
<1>0. last \in Nat /\ fresh \subseteq Job
  BY DEF TypeOK, Job
<1> USE <1>0
<1>1. ASSUME AddJob, UNCHANGED <<corpusVars, workerVars, torn>>, up => up' PROVE OthersShape
  <2>1. status' = [status EXCEPT ![last + 1] = "queued"] /\ last' = last + 1 /\ last' \in Job
    BY <1>1 DEF AddJob
  <2>2. \A k \in Job : status'[k] = IF k = last + 1 THEN "queued" ELSE status[k]
    BY <2>1 DEF TypeOK
  <2>3. status[last + 1] = "absent"
    BY <1>0, <2>1 DEF JobsOK
  <2> QED
    BY <1>0, <1>1, <2>1, <2>2, <2>3 DEF AddJob, TypeOK
<1>2. CASE Poll \/ UNCHANGED vars
  BY <1>2 DEF Poll, vars
<1>3. CASE Boot
  <2>1. CASE AddJob
    BY <1>1, <1>3, <2>1 DEF Boot
  <2>2. CASE UNCHANGED <<jobVars, fileVars, ask>>
    BY <1>3, <2>2 DEF Boot
  <2> QED
    BY <1>3, <2>1, <2>2 DEF Boot
<1>4. ASSUME NEW j \in Job, Retry(j) PROVE OthersShape
  <2>1. \A k \in Job : status'[k] = IF k = j THEN "queued" ELSE status[k]
    BY <1>4 DEF Retry, TypeOK
  <2> QED
    BY <1>4, <2>1 DEF Retry
<1>5. ASSUME NEW r \in Request, Reload(r) PROVE OthersShape
  BY <1>5 DEF Reload, OutsideRequests
<1>6. ASSUME NEW r \in Request, GiveUp(r) PROVE OthersShape
  BY <1>6 DEF GiveUp, Edit, OutsideRequests
<1>7. ASSUME NEW r \in Request, NEW c \in Content, Save(r, c) PROVE OthersShape
  BY <1>7 DEF Save, Edit, OutsideRequests
<1>8. ASSUME NEW r \in Asker, RequestStep(r) PROVE OthersShape
  <2>1. CASE Enqueue(r)
    BY <1>1, <2>1 DEF Enqueue, OutsideRequests
  <2>2. CASE Wait(r)
    BY <2>2 DEF Wait, OutsideRequests
  <2>3. CASE Load(r)
    BY <2>3 DEF Load, OutsideRequests
  <2> QED
    BY <1>8, <2>1, <2>2, <2>3 DEF RequestStep
<1> QED
  BY <1>2, <1>3, <1>4, <1>5, <1>6, <1>7, <1>8 DEF Others

\* What the worker relies on survives them.
LEMMA OthersKeep ==
  ASSUME KInv, OthersShape
  PROVE  RunOK' /\ BuildOK' /\ OneActive' /\ PromiseOK' /\ UploadsApplied'
<1> USE DEF KInv, OthersShape
<1>1. last \in Nat /\ cur \in Job /\ cur \in Nat /\ fresh \subseteq Job /\ pc \in PC
  BY DEF TypeOK, Job
<1>2. RunOK'
  <2>1. pc # "idle" => up /\ cur =< last
    BY DEF RunOK
  <2>2. ASSUME pc # "idle", status[cur] \in {"processing", "succeeded"} PROVE status'[cur] = status[cur]
    BY <1>1, <2>1, <2>2
  <2> QED
    BY <1>1, <2>1, <2>2 DEF RunOK, Activated, Trying
<1>3. BuildOK'
  BY DEF BuildOK
<1>4. OneActive'
  BY DEF OneActive
<1>5. UploadsApplied'
  <2> SUFFICES ASSUME NEW j \in fresh', status'[j] = "succeeded"
               PROVE  current # 0 /\ corpus[current].source = folder'
                      /\ (torn' \/ corpus[current].docs = folder')
    BY DEF UploadsApplied
  <2>1. folder' = folder /\ torn' = torn /\ j \in Job /\ (j \in fresh \/ j = last + 1)
    OBVIOUS
  <2>2. CASE j \in fresh
    <3>1. status[j] = "succeeded"
      BY <1>1, <2>2
    <3> QED
      BY <2>1, <2>2, <3>1 DEF UploadsApplied
  <2>3. CASE j = last + 1
    <3>1. status[j] = "absent"
      BY <1>1, <2>1, <2>3 DEF JobsOK
    <3> QED
      BY <2>1, <3>1
  <2> QED
    BY <2>1, <2>2, <2>3
<1>6. PromiseOK'
  <2>2. CASE fresh' = {} /\ torn' = (torn \/ pc \in {"inserting", "linking", "extracting"})
    BY <2>2 DEF PromiseOK
  <2>3. CASE folder' = folder /\ torn' = torn /\ fresh' \subseteq Job \cap (fresh \cup {last + 1})
    <3>1. pc # "idle" /\ cur \in fresh' => cur \in fresh
      BY <1>1, <2>3 DEF RunOK
    <3>2. ASSUME NEW j \in fresh', status'[j] = "succeeded" PROVE j \in fresh /\ status[j] = "succeeded"
      BY <1>1, <2>3, <3>2 DEF JobsOK
    <3>3. IsActive(folder)' = IsActive(folder)
      BY <2>3 DEF IsActive
    <3> QED
      BY <1>1, <2>3, <3>1, <3>2, <3>3 DEF PromiseOK, Building
  <2> QED
    BY <2>2, <2>3
<1> QED
  BY <1>2, <1>3, <1>4, <1>5, <1>6

-----------------------------------------------------------------------------
(* Steps of the worker, its faults, and the crash.                         *)

\* A job that is not given up has attempts left; ids go up.
LEMMA JobsStep ==
  ASSUME KInv, [Next]_vars
  PROVE  JobsOK'
<1> USE DEF KInv, fileVars, jobVars, corpusVars, workerVars, ghosts, boundVars, OutsideWorker,
        OutsideRequests
<1>0. last \in Nat /\ cur \in Job /\ status \in [Job -> Status] /\ attempts \in [Job -> 0..MaxAttempts]
      /\ MaxAttempts \in Nat \ {0}
  BY KnowledgeAssumption DEF TypeOK, Job
<1> USE <1>0
<1>1. ASSUME UNCHANGED <<status, attempts, last>> PROVE JobsOK'
  BY <1>1 DEF JobsOK
<1>2. ASSUME NEW j \in Job, NEW st \in Status, status' = [status EXCEPT ![j] = st],
             UNCHANGED <<attempts, last>>, j =< last, status[j] # "failed"
      PROVE  JobsOK'
  <2>1. \A k \in Job : status'[k] = IF k = j THEN st ELSE status[k]
    BY <1>2
  <2> QED
    BY <1>2, <2>1 DEF JobsOK, Job
<1>3. ASSUME AddJob PROVE JobsOK'
  <2>1. \A k \in Job : status'[k] = IF k = last + 1 THEN "queued" ELSE status[k]
    BY <1>3 DEF AddJob
  <2> QED
    BY <1>3, <2>1 DEF JobsOK, Job, AddJob
<1>4. CASE Claim
  <2> PICK j \in Job : Claimable(j) /\ status' = [status EXCEPT ![j] = "processing"]
    BY <1>4 DEF Claim
  <2>1. status[j] # "failed" /\ status[j] # "absent"
    BY DEF Claimable
  <2>2. j =< last
    BY <2>1 DEF JobsOK, Job
  <2>3. UNCHANGED <<attempts, last>>
    BY <1>4 DEF Claim
  <2> QED
    BY <1>2, <2>1, <2>2, <2>3 DEF Status
<1>5. CASE CompleteDuplicate
  <2>1. cur =< last /\ status[cur] = "processing"
    BY <1>5 DEF CompleteDuplicate, RunOK, Trying
  <2> QED
    BY <1>2, <1>5, <2>1 DEF CompleteDuplicate, Succeed, Status
<1>6. CASE Activate
  <2>1. cur =< last /\ status[cur] = "processing"
    BY <1>6 DEF Activate, At, RunOK, Trying
  <2> QED
    BY <1>2, <1>6, <2>1 DEF Activate, Succeed, Status
<1>7. CASE FailJob
  <2>1. cur =< last /\ status[cur] # "failed"
    BY <1>7 DEF FailJob, RunOK, Activated
  <2>2. attempts[cur] < MaxAttempts
    BY <2>1 DEF JobsOK
  <2>3. \A k \in Job : k # cur => status'[k] = status[k] /\ attempts'[k] = attempts[k]
    BY <1>7 DEF FailJob
  <2>4. /\ status'[cur] = (IF attempts[cur] + 1 >= MaxAttempts THEN "failed" ELSE "retry")
        /\ attempts'[cur] = attempts[cur] + 1 /\ last' = last
    BY <1>7 DEF FailJob, Spent
  <2> QED
    BY <2>1, <2>2, <2>3, <2>4 DEF JobsOK, Job
<1>8. ASSUME NEW j \in Job, Retry(j) PROVE JobsOK'
  <2>1. j =< last
    BY <1>8 DEF Retry, JobsOK, Job
  <2>2. \A k \in Job : k # j => status'[k] = status[k] /\ attempts'[k] = attempts[k]
    BY <1>8 DEF Retry
  <2>3. status'[j] = "queued" /\ attempts'[j] = 0 /\ last' = last
    BY <1>8 DEF Retry
  <2> QED
    BY <2>1, <2>2, <2>3 DEF JobsOK, Job
<1>9. CASE ReadFolder \/ InsertVersion \/ LinkVersion \/ Extract \/ OnActivated \/ Fault \/ Crash
  BY <1>1, <1>9 DEF ReadFolder, InsertVersion, LinkVersion, Extract, OnActivated, Fault, Crash
<1>10. CASE Boot
  BY <1>1, <1>3, <1>10 DEF Boot
<1>11. CASE Poll \/ UNCHANGED vars
  BY <1>1, <1>11 DEF Poll, vars
<1>12. ASSUME NEW r \in Request, Reload(r) \/ GiveUp(r) \/ \E c \in Content : Save(r, c) PROVE JobsOK'
  BY <1>1, <1>12 DEF Reload, GiveUp, Save
<1>13. ASSUME NEW r \in Asker, RequestStep(r) PROVE JobsOK'
  BY <1>1, <1>3, <1>13 DEF RequestStep, Enqueue, Wait, Load
<1> QED
  BY <1>4, <1>5, <1>6, <1>7, <1>8, <1>9, <1>10, <1>11, <1>12, <1>13 DEF Next, WorkerStep

\* The row of the job says what the worker takes it to say.
LEMMA RunStep ==
  ASSUME KInv, WorkerStep \/ Fault \/ Crash
  PROVE  RunOK'
<1> USE DEF KInv, RunOK, Trying, Activated, jobVars, corpusVars, OutsideWorker, boundVars
<1>0. last \in Nat /\ cur \in Job /\ status \in [Job -> Status] /\ version \in [Job -> 0..Len(corpus)]
      /\ pc \in PC
  BY DEF TypeOK, Job
<1> USE <1>0
<1>1. CASE Claim
  <2> PICK j \in Job : Claimable(j) /\ status' = [status EXCEPT ![j] = "processing"] /\ cur' = j
    BY <1>1 DEF Claim
  <2>1. j =< last
    BY DEF JobsOK, Job, Claimable
  <2> QED
    BY <1>1, <2>1 DEF Claim
<1>2. CASE ReadFolder
  BY <1>2 DEF ReadFolder
<1>3. CASE CompleteDuplicate \/ OnActivated \/ FailJob \/ Crash
  BY <1>3 DEF CompleteDuplicate, OnActivated, FailJob, Crash, Done
<1>4. CASE InsertVersion \/ LinkVersion
  BY <1>4 DEF InsertVersion, LinkVersion, At
<1>5. CASE Extract
  BY <1>5 DEF Extract
<1>6. CASE Activate
  BY <1>6 DEF Activate, At, Succeed, BuildOK
<1>7. CASE Fault
  BY <1>7 DEF Fault, PC
<1> QED
  BY <1>1, <1>2, <1>3, <1>4, <1>5, <1>6, <1>7 DEF WorkerStep

\* The versions after each step that changes them.
LEMMA InsertChanges ==
  ASSUME TypeOK, InsertVersion
  PROVE  /\ corpus' \in Seq(Version) /\ Len(corpus') = Len(corpus) + 1 /\ Len(corpus) \in Nat
         /\ DOMAIN corpus' = 1..(Len(corpus) + 1) /\ DOMAIN corpus = 1..Len(corpus)
         /\ \A w \in 1..Len(corpus) : corpus'[w] = corpus[w]
         /\ corpus'[Len(corpus) + 1] = [status |-> "building", source |-> read, docs |-> None]
<1> DEFINE e == [status |-> "building", source |-> read, docs |-> None]
<1>1. e \in Version
  BY DEF TypeOK, Version
<1>2. corpus' = Append(corpus, e) /\ corpus \in Seq(Version)
  BY DEF InsertVersion, TypeOK
<1> HIDE DEF e
<1>3. /\ corpus' \in Seq(Version) /\ Len(corpus') = Len(corpus) + 1
      /\ \A w \in 1..Len(corpus) : corpus'[w] = corpus[w]
      /\ corpus'[Len(corpus) + 1] = e
  BY <1>1, <1>2, AppendProperties
<1>4. DOMAIN corpus = 1..Len(corpus) /\ Len(corpus) \in Nat
  BY <1>2, LenProperties
<1>5. DOMAIN corpus' = 1..(Len(corpus) + 1)
  BY <1>3, LenProperties
<1> QED
  BY <1>3, <1>4, <1>5 DEF e

LEMMA ExtractChanges ==
  ASSUME TypeOK, BuildOK, Extract, pc' = "activating"
  PROVE  /\ mine \in 1..Len(corpus)
         /\ corpus' \in Seq(Version) /\ Len(corpus') = Len(corpus) /\ DOMAIN corpus' = 1..Len(corpus)
         /\ corpus'[mine].status = corpus[mine].status /\ corpus'[mine].source = corpus[mine].source
         /\ corpus'[mine].docs = folder
         /\ \A w \in 1..Len(corpus) : w # mine => corpus'[w] = corpus[w]
<1>1. mine \in 1..Len(corpus)
  BY DEF TypeOK, BuildOK, Extract
<1>2. corpus[mine] \in Version
  BY <1>1, ElementOfSeq DEF TypeOK
<1>3. corpus' = SetVersion(mine, corpus[mine].status, folder)
  BY DEF Extract
<1>4. corpus[mine].status \in VersionStatus /\ folder \in Docs
  BY <1>2 DEF TypeOK, Version, VersionStatus, Docs
<1> HIDE DEF Extract
<1> QED
  BY <1>1, <1>3, <1>4, SetVersionChanges DEF TypeOK

LEMMA FailChanges ==
  ASSUME TypeOK, FailJob
  PROVE  \/ corpus' = corpus
         \/ /\ mine \in 1..Len(corpus) /\ corpus[mine].status = "building"
            /\ corpus' \in Seq(Version) /\ Len(corpus') = Len(corpus) /\ DOMAIN corpus' = 1..Len(corpus)
            /\ corpus'[mine].status = "failed" /\ corpus'[mine].source = corpus[mine].source
            /\ corpus'[mine].docs = corpus[mine].docs
            /\ \A w \in 1..Len(corpus) : w # mine => corpus'[w] = corpus[w]
<1>1. CASE ~Unfinished(mine)
  BY <1>1 DEF FailJob
<1>2. CASE Unfinished(mine)
  <2>1. mine \in 1..Len(corpus) /\ corpus[mine].status = "building"
    BY <1>2 DEF TypeOK, Unfinished
  <2>2. corpus[mine] \in Version
    BY <2>1, ElementOfSeq DEF TypeOK
  <2>3. corpus' = SetVersion(mine, "failed", corpus[mine].docs)
    BY <1>2 DEF FailJob
  <2>4. "failed" \in VersionStatus /\ corpus[mine].docs \in Docs
    BY <2>2 DEF Version, VersionStatus, Docs
  <2>5. corpus \in Seq(Version)
    BY DEF TypeOK
  <2>6. /\ corpus' \in Seq(Version) /\ Len(corpus') = Len(corpus) /\ DOMAIN corpus' = 1..Len(corpus)
        /\ corpus'[mine].status = "failed" /\ corpus'[mine].source = corpus[mine].source
        /\ corpus'[mine].docs = corpus[mine].docs
        /\ \A w \in 1..Len(corpus) : w # mine => corpus'[w] = corpus[w]
    BY <2>1, <2>3, <2>4, <2>5, SetVersionChanges
  <2> QED
    BY <2>1, <2>6
<1> QED
  BY <1>1, <1>2

\* What is being built belongs to the worker.
LEMMA BuildStep ==
  ASSUME KInv, WorkerStep \/ Fault \/ Crash
  PROVE  BuildOK'
<1> USE DEF KInv, jobVars, corpusVars, OutsideWorker, boundVars
<1>0. cur \in Job /\ version \in [Job -> 0..Len(corpus)] /\ Len(corpus) \in Nat
  BY LenProperties DEF TypeOK
<1>1. CASE Claim
  BY <1>1 DEF Claim, BuildOK
<1>2. CASE ReadFolder
  BY <1>2 DEF ReadFolder, BuildOK
<1>3. CASE CompleteDuplicate \/ OnActivated \/ FailJob \/ Crash
  BY <1>3 DEF CompleteDuplicate, OnActivated, FailJob, Crash, Done, BuildOK
<1>4. CASE InsertVersion
  <2>1. pc' = "linking" /\ read' = read
    BY <1>4 DEF InsertVersion, At
  <2> QED
    BY <1>4, <2>1, InsertChanges DEF BuildOK
<1>5. CASE LinkVersion
  BY <1>0, <1>5 DEF LinkVersion, At, BuildOK
<1>6. CASE Extract
  <2>1. CASE pc' = "activating"
    BY <1>6, <2>1, ExtractChanges DEF Extract, BuildOK
  <2>2. CASE pc' = "failing"
    BY <2>2 DEF BuildOK
  <2> QED
    BY <1>6, <2>1, <2>2 DEF Extract
<1>7. CASE Activate
  BY <1>7 DEF Activate, At, BuildOK
<1>8. CASE Fault
  BY <1>8 DEF Fault, BuildOK
<1> QED
  BY <1>1, <1>2, <1>3, <1>4, <1>5, <1>6, <1>7, <1>8 DEF WorkerStep

\* One version is active, and it is the one the singleton row names.
LEMMA ActiveStep ==
  ASSUME KInv, WorkerStep \/ Fault \/ Crash
  PROVE  OneActive'
<1> USE DEF KInv, corpusVars
<1>0. Len(corpus) \in Nat /\ DOMAIN corpus = 1..Len(corpus) /\ current \in 0..Len(corpus)
  BY LenProperties DEF TypeOK
<1>1. ASSUME UNCHANGED corpusVars PROVE OneActive'
  BY <1>1 DEF OneActive
<1>2. CASE InsertVersion
  BY <1>0, <1>2, InsertChanges DEF InsertVersion, OneActive
<1>3. CASE Extract
  <2>1. CASE pc' = "activating"
    <3>1. corpus[mine].status = "building"
      BY <1>3 DEF Extract, BuildOK
    <3> QED
      BY <1>0, <1>3, <2>1, <3>1, ExtractChanges DEF Extract, OneActive
  <2>2. CASE pc' = "failing"
    BY <1>1, <1>3, <2>2 DEF Extract
  <2> QED
    BY <1>3, <2>1, <2>2 DEF Extract
<1>4. CASE Activate
  BY <1>0, <1>4, ActivateChanges DEF Activate, Supersede, OneActive
<1>5. CASE FailJob
  <2>1. current' = current
    BY <1>5 DEF FailJob
  <2> QED
    BY <1>0, <1>5, <2>1, FailChanges DEF OneActive
<1>6. CASE Claim \/ ReadFolder \/ CompleteDuplicate \/ LinkVersion \/ OnActivated \/ Fault \/ Crash
  BY <1>1, <1>6 DEF Claim, ReadFolder, CompleteDuplicate, LinkVersion, OnActivated, Fault, Crash
<1> QED
  BY <1>2, <1>3, <1>4, <1>5, <1>6 DEF WorkerStep

\* The bot answers from the active version unless a refresh has failed.
LEMMA ServedStep ==
  ASSUME KInv, [Next]_vars
  PROVE  ServedIsActive'
<1> USE DEF KInv, ServedIsActive, Refresh, fileVars, jobVars, corpusVars, workerVars, ghosts, boundVars,
        OutsideWorker, OutsideRequests
<1>1. CASE Claim \/ ReadFolder \/ CompleteDuplicate \/ InsertVersion \/ LinkVersion \/ FailJob
  BY <1>1 DEF Claim, ReadFolder, CompleteDuplicate, InsertVersion, LinkVersion, FailJob, At, Done
<1>2. CASE Extract \/ Activate \/ OnActivated
  BY <1>2 DEF Extract, Activate, OnActivated, At
<1>3. CASE Fault \/ Crash \/ Boot \/ Poll \/ UNCHANGED vars
  BY <1>3 DEF Fault, Crash, Boot, Poll, vars
<1>4. ASSUME NEW j \in Job, Retry(j) PROVE ServedIsActive'
  BY <1>4 DEF Retry
<1>5. ASSUME NEW r \in Request, Reload(r) \/ GiveUp(r) \/ \E c \in Content : Save(r, c)
      PROVE  ServedIsActive'
  BY <1>5 DEF Reload, GiveUp, Save
<1>6. ASSUME NEW r \in Asker, RequestStep(r) PROVE ServedIsActive'
  BY <1>6 DEF RequestStep, Enqueue, Wait, Load
<1> QED
  BY <1>1, <1>2, <1>3, <1>4, <1>5, <1>6 DEF Next, WorkerStep

\* Only the activation changes what the active version is made of.
LEMMA CurrentKept ==
  ASSUME KInv, WorkerStep \/ Fault \/ Crash, ~Activate
  PROVE  /\ current' = current
         /\ current # 0 => /\ corpus'[current].source = corpus[current].source
                           /\ corpus'[current].docs = corpus[current].docs
<1> USE DEF KInv, corpusVars
<1>0. Len(corpus) \in Nat /\ DOMAIN corpus = 1..Len(corpus) /\ current \in 0..Len(corpus)
  BY LenProperties DEF TypeOK
<1>1. CASE InsertVersion
  BY <1>0, <1>1, InsertChanges DEF InsertVersion
<1>2. CASE Extract
  <2>1. corpus[mine].status = "building" /\ current' = current
    BY <1>2 DEF Extract, BuildOK
  <2>2. CASE pc' = "activating"
    BY <1>0, <1>2, <2>1, <2>2, ExtractChanges DEF OneActive
  <2>3. CASE pc' = "failing"
    BY <1>2, <2>3 DEF Extract
  <2> QED
    BY <1>2, <2>2, <2>3 DEF Extract
<1>3. CASE FailJob
  <2>1. current' = current
    BY <1>3 DEF FailJob
  <2> QED
    BY <1>0, <1>3, <2>1, FailChanges DEF OneActive
<1>4. CASE Claim \/ ReadFolder \/ CompleteDuplicate \/ LinkVersion \/ OnActivated \/ Fault \/ Crash
  BY <1>4 DEF Claim, ReadFolder, CompleteDuplicate, LinkVersion, OnActivated, Fault, Crash
<1> QED
  BY <1>1, <1>2, <1>3, <1>4 DEF WorkerStep

\* What was promised is kept while the worker goes on.
LEMMA PromiseStep ==
  ASSUME KInv, WorkerStep \/ Fault \/ Crash
  PROVE  PromiseOK'
<1> USE DEF KInv, PromiseOK, Building, fileVars, ghosts, OutsideWorker
<1>0. cur \in Job /\ status \in [Job -> Status] /\ fresh \subseteq Job /\ fresh' = fresh
  BY DEF TypeOK, WorkerStep, Claim, ReadFolder, CompleteDuplicate, InsertVersion, LinkVersion, Extract,
         Activate, OnActivated, FailJob, Fault, Crash
<1>1. CASE Claim \/ CompleteDuplicate \/ OnActivated \/ FailJob \/ Fault \/ Crash
  <2>1. pc' \notin Building \cup {"duplicate"} /\ folder' = folder /\ torn' = torn
    BY <1>1 DEF Claim, CompleteDuplicate, OnActivated, FailJob, Fault, Crash, Done
  <2>2. ~Activate
    BY <1>1 DEF Claim, CompleteDuplicate, OnActivated, FailJob, Fault, Crash, Done, Activate, At
  <2> QED
    BY <2>1, <2>2, CurrentKept
<1>2. CASE ReadFolder
  BY <1>2 DEF ReadFolder, corpusVars, IsActive
<1>3. CASE InsertVersion \/ LinkVersion
  <2>1. ~Activate /\ UNCHANGED <<folder, torn, read, cur, status>> /\ pc' \in {"linking", "extracting"}
        /\ pc \in {"inserting", "linking"}
    BY <1>3 DEF InsertVersion, LinkVersion, Activate, At
  <2> QED
    BY <1>0, <1>3, <2>1, CurrentKept
<1>4. CASE Extract
  <2>1. ~Activate /\ UNCHANGED <<folder, torn, read, cur, status, mine>> /\ pc' \in {"activating", "failing"}
        /\ pc = "extracting"
    BY <1>4 DEF Extract, Activate, At
  <2>2. pc' = "activating" => corpus'[mine].docs = folder
    BY <1>4, ExtractChanges
  <2> QED
    BY <1>0, <1>4, <2>1, <2>2, CurrentKept
<1>5. CASE Activate
  <2>1. pc = "activating" /\ pc' = "refreshing" /\ current' = mine /\ torn' = torn
    BY <1>5 DEF Activate, At
  <2>2. corpus[mine].source = read
    BY <2>1 DEF BuildOK
  <2> QED
    BY <1>5, <2>1, <2>2, ActivateChanges
<1> QED
  BY <1>1, <1>2, <1>3, <1>4, <1>5 DEF WorkerStep

\* A job that succeeded has been true to its word.
LEMMA UploadsStep ==
  ASSUME KInv, WorkerStep \/ Fault \/ Crash
  PROVE  UploadsApplied'
<1> USE DEF KInv, fileVars, ghosts, OutsideWorker
<1>0. /\ cur \in Job /\ status \in [Job -> Status] /\ fresh \subseteq Job
      /\ fresh' = fresh /\ folder' = folder /\ torn' = torn
  BY DEF TypeOK, WorkerStep, Claim, ReadFolder, CompleteDuplicate, InsertVersion, LinkVersion, Extract,
         Activate, OnActivated, FailJob, Fault, Crash
<1> SUFFICES ASSUME NEW j \in fresh, status'[j] = "succeeded"
             PROVE  current' # 0 /\ corpus'[current'].source = folder
                    /\ (torn \/ corpus'[current'].docs = folder)
  BY <1>0 DEF UploadsApplied
<1>1. CASE Activate
  <2>1. pc = "activating" /\ current' = mine /\ status' = [status EXCEPT ![cur] = "succeeded"]
    BY <1>1 DEF Activate, At, Succeed
  <2>2. j = cur \/ status[j] = "succeeded"
    BY <1>0, <2>1
  <2>3. read = folder
    BY <2>1, <2>2 DEF PromiseOK, Building
  <2>4. mine # 0 /\ corpus[mine].source = read /\ (torn \/ corpus[mine].docs = read)
    BY <2>1 DEF BuildOK, PromiseOK
  <2> QED
    BY <1>1, <2>1, <2>3, <2>4, ActivateChanges
<1>2. CASE ~Activate
  <2>1. CASE CompleteDuplicate /\ j = cur
    <3>1. IsActive(folder)
      BY <2>1 DEF CompleteDuplicate, PromiseOK
    <3> QED
      BY <1>2, <2>1, <3>1, CurrentKept DEF IsActive, PromiseOK
  <2>2. CASE ~(CompleteDuplicate /\ j = cur)
    <3>1. status[j] = "succeeded"
      BY <1>0, <1>2, <2>2 DEF WorkerStep, Claim, ReadFolder, CompleteDuplicate, Succeed, InsertVersion,
         LinkVersion, Extract, OnActivated, FailJob, Fault, Crash, jobVars
    <3> QED
      BY <1>2, <3>1, CurrentKept DEF UploadsApplied
  <2> QED
    BY <2>1, <2>2
<1> QED
  BY <1>1, <1>2

-----------------------------------------------------------------------------
(* Types.                                                                  *)

\* The variables in three groups, of which most steps leave some alone.
JobTypes ==
  /\ status \in [Job -> Status] /\ attempts \in [Job -> 0..MaxAttempts]
  /\ last \in Job \cup {0} /\ folder \in Content /\ fresh \subseteq Job
CorpusTypes ==
  /\ version \in [Job -> 0..Len(corpus)] /\ corpus \in Seq(Version) /\ current \in 0..Len(corpus)
  /\ served \in 0..Len(corpus) /\ mine \in 0..Len(corpus)
OtherTypes ==
  /\ up \in BOOLEAN /\ pc \in PC /\ cur \in Job /\ read \in Content /\ ask \in [Asker -> Doing]
  /\ missed \in BOOLEAN /\ torn \in BOOLEAN /\ requests \in 0..MaxRequests /\ mishaps \in 0..MaxMishaps

LEMMA TypeParts == TypeOK <=> JobTypes /\ CorpusTypes /\ OtherTypes
BY DEF TypeOK, JobTypes, CorpusTypes, OtherTypes

LEMMA JobTypesStep ==
  ASSUME KInv, [Next]_vars
  PROVE  JobTypes'
<1> USE DEF KInv, fileVars, jobVars, corpusVars, workerVars, ghosts, boundVars, OutsideWorker,
        OutsideRequests
<1>0. JobTypes /\ cur \in Job /\ MaxAttempts \in Nat \ {0} /\ NoFiles \in Content
      /\ ask \in [Asker -> Doing] /\ Request \subseteq Asker
  BY TypeParts, KnowledgeAssumption DEF OtherTypes, Asker
<1> USE <1>0 DEF JobTypes
<1>1. ASSUME UNCHANGED <<status, attempts, last, folder, fresh>> PROVE JobTypes'
  BY <1>1
<1>2. ASSUME AddJob PROVE JobTypes'
  BY <1>2 DEF AddJob, Status
<1>3. CASE Claim
  <2> PICK j \in Job : status' = [status EXCEPT ![j] = "processing"]
    BY <1>3 DEF Claim
  <2> QED
    BY <1>3 DEF Claim, Status
<1>4. CASE CompleteDuplicate \/ Activate
  BY <1>4 DEF CompleteDuplicate, Activate, Succeed, Status
<1>5. CASE FailJob
  <2>1. status[cur] # "failed"
    BY <1>5 DEF FailJob, RunOK, Activated
  <2>2. attempts[cur] + 1 \in 0..MaxAttempts
    BY <2>1 DEF JobsOK
  <2>3. attempts' = [attempts EXCEPT ![cur] = attempts[cur] + 1]
    BY <1>5 DEF FailJob
  <2>4. attempts' \in [Job -> 0..MaxAttempts]
    BY <2>2, <2>3
  <2>5. status' \in [Job -> Status]
    BY <1>5 DEF FailJob, Status
  <2> QED
    BY <1>5, <2>4, <2>5 DEF FailJob
<1>6. ASSUME NEW j \in Job, Retry(j) PROVE JobTypes'
  BY <1>6 DEF Retry, Status
<1>7. CASE ReadFolder \/ InsertVersion \/ LinkVersion \/ Extract \/ OnActivated \/ Fault \/ Crash
  BY <1>1, <1>7 DEF ReadFolder, InsertVersion, LinkVersion, Extract, OnActivated, Fault, Crash
<1>8. CASE Boot
  BY <1>1, <1>2, <1>8 DEF Boot
<1>9. CASE Poll \/ UNCHANGED vars
  BY <1>1, <1>9 DEF Poll, vars
<1>10. ASSUME NEW r \in Request, Reload(r) PROVE JobTypes'
  BY <1>1, <1>10 DEF Reload
<1>11. ASSUME NEW r \in Request, NEW c \in Content, Save(r, c) PROVE JobTypes'
  BY <1>11 DEF Save, Edit
<1>12. ASSUME NEW r \in Request, GiveUp(r) PROVE JobTypes'
  <2>1. ask[r].old \in Content \cup {None}
    BY DEF Doing
  <2> QED
    BY <1>1, <1>12, <2>1 DEF GiveUp, Edit
<1>13. ASSUME NEW r \in Asker, RequestStep(r) PROVE JobTypes'
  BY <1>1, <1>2, <1>13 DEF RequestStep, Enqueue, Wait, Load
<1> QED
  BY <1>3, <1>4, <1>5, <1>6, <1>7, <1>8, <1>9, <1>10, <1>11, <1>12, <1>13 DEF Next, WorkerStep

LEMMA CorpusTypesStep ==
  ASSUME KInv, [Next]_vars
  PROVE  CorpusTypes'
<1> USE DEF KInv, fileVars, jobVars, corpusVars, workerVars, ghosts, boundVars, OutsideWorker,
        OutsideRequests
<1>0. CorpusTypes /\ cur \in Job /\ Len(corpus) \in Nat
  BY TypeParts, LenProperties DEF OtherTypes, CorpusTypes
<1> USE <1>0 DEF CorpusTypes
<1>1. ASSUME UNCHANGED <<version, corpus, current>>, served' \in {served, current, 0},
             mine' \in {mine, 0}
      PROVE  CorpusTypes'
  BY <1>1
<1>2. CASE Claim
  BY <1>2 DEF Claim
<1>3. CASE CompleteDuplicate \/ OnActivated \/ Crash
  BY <1>1, <1>3 DEF CompleteDuplicate, OnActivated, Crash, Done, Refresh
<1>4. CASE InsertVersion
  BY <1>4, InsertChanges DEF InsertVersion
<1>5. CASE LinkVersion
  BY <1>5 DEF LinkVersion
<1>6. CASE Extract
  <2>1. CASE pc' = "activating"
    BY <1>6, <2>1, ExtractChanges DEF Extract
  <2>2. CASE pc' = "failing"
    BY <1>1, <1>6, <2>2 DEF Extract
  <2> QED
    BY <1>6, <2>1, <2>2 DEF Extract
<1>7. CASE Activate
  BY <1>7, ActivateChanges DEF Activate
<1>8. CASE FailJob
  <2>1. UNCHANGED <<version, current, served>> /\ mine' = 0
    BY <1>8 DEF FailJob, Done
  <2> QED
    BY <1>8, <2>1, FailChanges
<1>9. CASE ReadFolder \/ Fault \/ Poll \/ UNCHANGED vars
  BY <1>1, <1>9 DEF ReadFolder, Fault, Poll, vars
<1>10. CASE Boot
  BY <1>1, <1>10 DEF Boot, Refresh, AddJob
<1>11. ASSUME NEW j \in Job, Retry(j) PROVE CorpusTypes'
  BY <1>1, <1>11 DEF Retry
<1>12. ASSUME NEW r \in Request, Reload(r) \/ GiveUp(r) \/ \E c \in Content : Save(r, c)
      PROVE  CorpusTypes'
  BY <1>1, <1>12 DEF Reload, GiveUp, Save
<1>13. ASSUME NEW r \in Asker, RequestStep(r) PROVE CorpusTypes'
  BY <1>1, <1>13 DEF RequestStep, Enqueue, Wait, Load, Refresh, AddJob
<1> QED
  BY <1>2, <1>3, <1>4, <1>5, <1>6, <1>7, <1>8, <1>9, <1>10, <1>11, <1>12, <1>13 DEF Next, WorkerStep

LEMMA OtherTypesStep ==
  ASSUME KInv, [Next]_vars
  PROVE  OtherTypes'
<1> USE DEF KInv, fileVars, jobVars, corpusVars, workerVars, ghosts, boundVars, OutsideWorker,
        OutsideRequests
<1>0. OtherTypes /\ JobTypes /\ 1 \in Job /\ NoFiles \in Content
      /\ MaxRequests \in Nat /\ MaxMishaps \in Nat /\ Request \subseteq Asker /\ Startup \in Asker
  BY TypeParts, KnowledgeAssumption DEF Job, Asker
<1> USE <1>0 DEF OtherTypes
<1>1. NoRequest \in Doing
  BY DEF NoRequest, Doing
<1>2. CASE Claim
  BY <1>2 DEF Claim, PC
<1>3. CASE ReadFolder
  BY <1>3 DEF ReadFolder, PC, JobTypes
<1>4. CASE CompleteDuplicate \/ OnActivated \/ FailJob
  BY <1>4 DEF CompleteDuplicate, OnActivated, FailJob, Done, Refresh, PC
<1>5. CASE InsertVersion \/ LinkVersion \/ Activate
  BY <1>5 DEF InsertVersion, LinkVersion, Activate, At, PC
<1>6. CASE Extract
  BY <1>6 DEF Extract, PC
<1>7. CASE Fault
  BY <1>7 DEF Fault, PC
<1>8. CASE Crash
  <2>1. ask' = [r \in Asker |-> NoRequest]
    BY <1>8 DEF Crash
  <2>2. ask' \in [Asker -> Doing]
    BY <1>1, <2>1
  <2>3. /\ up' = FALSE /\ missed' = FALSE /\ pc' = "idle" /\ cur' = 1 /\ read' = NoFiles
        /\ UNCHANGED <<torn, requests>>
    BY <1>8 DEF Crash, Done
  <2>4. mishaps' \in 0..MaxMishaps
    BY <1>8 DEF Crash
  <2> QED
    BY <2>2, <2>3, <2>4 DEF PC
<1>9. CASE Poll \/ UNCHANGED vars
  BY <1>9 DEF Poll, vars
<1>10. CASE Boot
  <2> DEFINE a == [at |-> "waiting", job |-> last + 1, wait |-> TRUE, old |-> None]
  <2>1. ASSUME AddJob PROVE a \in Doing
    BY <2>1 DEF AddJob, Doing
  <2>2. AddJob => ask' = [ask EXCEPT ![Startup] = a] \/ UNCHANGED ask
    BY <1>10 DEF Boot
  <2>3. UNCHANGED ask \/ (AddJob /\ ask' = [ask EXCEPT ![Startup] = a])
    BY <1>10 DEF Boot
  <2> HIDE DEF a
  <2>4. ask' \in [Asker -> Doing]
    BY <2>1, <2>3
  <2> QED
    BY <1>10, <2>4 DEF Boot, Refresh
<1>11. ASSUME NEW j \in Job, Retry(j) PROVE OtherTypes'
  BY <1>11 DEF Retry
<1>12. ASSUME NEW w \in BOOLEAN, NEW o \in Content \cup {None} PROVE Saved(w, o) \in Doing
  BY <1>12 DEF Saved, Doing
<1>13. ASSUME NEW r \in Request, Reload(r) PROVE OtherTypes'
  <2>1. Saved(FALSE, None) \in Doing
    BY <1>12
  <2>2. ask' = [ask EXCEPT ![r] = Saved(FALSE, None)]
    BY <1>13 DEF Reload
  <2>3. ask' \in [Asker -> Doing]
    BY <2>1, <2>2
  <2>4. UNCHANGED <<up, pc, cur, read, missed, torn, mishaps>>
    BY <1>13 DEF Reload
  <2>5. requests' \in 0..MaxRequests
    BY <1>13 DEF Reload, Accepts
  <2> QED
    BY <2>3, <2>4, <2>5
<1>14. ASSUME NEW r \in Request, NEW c \in Content, Save(r, c) PROVE OtherTypes'
  <2>1. PICK s \in {Saved(FALSE, None), Saved(TRUE, None), Saved(TRUE, folder)} :
          ask' = [ask EXCEPT ![r] = s]
    BY <1>14 DEF Save
  <2>2. s \in Doing
    BY <1>12 DEF JobTypes
  <2>3. ask' \in [Asker -> Doing]
    BY <2>1, <2>2
  <2> QED
    BY <1>14, <2>3 DEF Save, Edit, Accepts
<1>15. ASSUME NEW r \in Request, GiveUp(r) PROVE OtherTypes'
  BY <1>1, <1>15 DEF GiveUp, Edit
<1>16. ASSUME NEW r \in Asker, NEW at \in {"waiting", "loaded"}, NEW j \in Job \cup {0}
      PROVE  Await(r, at, j) \in Doing
  <2>1. ask[r].old \in Content \cup {None}
    BY DEF Doing
  <2> QED
    BY <2>1 DEF Await, Doing
<1>17. ASSUME NEW r \in Asker, RequestStep(r) PROVE OtherTypes'
  <2>1. CASE Enqueue(r)
    <3>1. last + 1 \in Job
      BY <2>1 DEF Enqueue, AddJob
    <3>2. Await(r, "waiting", last + 1) \in Doing
      BY <1>16, <3>1
    <3>3. ask' \in [Asker -> Doing]
      BY <1>1, <2>1, <3>2 DEF Enqueue
    <3> QED
      BY <2>1, <3>3 DEF Enqueue
  <2>2. CASE Wait(r)
    <3>1. ask[r].job \in Job \cup {0}
      BY DEF Doing
    <3>2. Await(r, "loaded", ask[r].job) \in Doing
      BY <1>16, <3>1
    <3> QED
      BY <2>2, <3>2 DEF Wait
  <2>3. CASE Load(r)
    BY <1>1, <2>3 DEF Load, Refresh
  <2> QED
    BY <1>17, <2>1, <2>2, <2>3 DEF RequestStep
<1> QED
  BY <1>2, <1>3, <1>4, <1>5, <1>6, <1>7, <1>8, <1>9, <1>10, <1>11, <1>13, <1>14, <1>15, <1>17
     DEF Next, WorkerStep

-----------------------------------------------------------------------------
(* The theorems.                                                           *)

LEMMA InitInv == Init => KInv
<1> SUFFICES ASSUME Init PROVE KInv
  OBVIOUS
<1> USE DEF Init
<1>0. corpus \in Seq(Version) /\ Len(corpus) = 0
  BY EmptySeq
<1>1. /\ corpus \in Seq(Version) /\ Len(corpus) = 0 /\ DOMAIN corpus = {}
      /\ 1 \in Job /\ MaxAttempts \in Nat \ {0}
      /\ MaxRequests \in Nat /\ MaxMishaps \in Nat /\ NoFiles \in Content
  BY <1>0, LenProperties, KnowledgeAssumption DEF Job
<1>2. NoRequest \in Doing
  BY DEF NoRequest, Doing
<1>3. TypeOK
  <2>1. JobTypes
    BY <1>1 DEF JobTypes, Status
  <2>2. CorpusTypes
    BY <1>1 DEF CorpusTypes
  <2>3. ask \in [Asker -> Doing]
    BY <1>2
  <2>4. requests \in 0..MaxRequests /\ mishaps \in 0..MaxMishaps
    BY <1>1
  <2>5. up \in BOOLEAN /\ missed \in BOOLEAN /\ torn \in BOOLEAN /\ pc \in PC /\ cur \in Job /\ read \in Content
    BY <1>1 DEF PC
  <2> QED
    BY <2>1, <2>2, <2>3, <2>4, <2>5, TypeParts DEF OtherTypes
<1>4. JobsOK
  BY <1>1 DEF JobsOK
<1>5. RunOK /\ BuildOK /\ PromiseOK
  BY DEF RunOK, BuildOK, PromiseOK, Trying, Building
<1>6. OneActive /\ UploadsApplied /\ ServedIsActive
  BY <1>1 DEF OneActive, UploadsApplied, ServedIsActive
<1> QED
  BY <1>3, <1>4, <1>5, <1>6 DEF KInv

LEMMA NextInv == KInv /\ [Next]_vars => KInv'
<1> SUFFICES ASSUME KInv, [Next]_vars PROVE KInv'
  OBVIOUS
<1>1. TypeOK'
  <2>1. (JobTypes /\ CorpusTypes /\ OtherTypes)'
    BY JobTypesStep, CorpusTypesStep, OtherTypesStep
  <2> QED
    BY <2>1 DEF TypeOK, JobTypes, CorpusTypes, OtherTypes
<1>2. JobsOK' /\ ServedIsActive'
  BY JobsStep, ServedStep
<1>3. RunOK' /\ BuildOK' /\ OneActive' /\ PromiseOK' /\ UploadsApplied'
  <2>1. CASE WorkerStep \/ Fault \/ Crash
    BY <2>1, RunStep, BuildStep, ActiveStep, PromiseStep, UploadsStep
  <2>2. CASE Others
    BY <2>2, OthersStep, OthersKeep DEF KInv
  <2> QED
    BY <2>1, <2>2 DEF Next, Others
<1> QED
  BY <1>1, <1>2, <1>3 DEF KInv

THEOREM KnowledgeInvariant == Spec => []KInv
BY InitInv, NextInv, PTL DEF Spec

\* The types of Knowledge are kept.
THEOREM KnowledgeTypeCorrect == Spec => []TypeOK
<1>1. KInv => TypeOK
  BY DEF KInv
<1> QED
  BY <1>1, KnowledgeInvariant, PTL

\* One version is active at any time, and it is the one the singleton row of
\* knowledge_active_corpus names.
THEOREM OneActiveVersion == Spec => []OneActive
<1>1. KInv => OneActive
  BY DEF KInv
<1> QED
  BY <1>1, KnowledgeInvariant, PTL

\* A job that succeeded after the last change of the files left an active
\* corpus made for these files.
THEOREM UploadsAreApplied == Spec => []UploadsApplied
<1>1. KInv => UploadsApplied
  BY DEF KInv
<1> QED
  BY <1>1, KnowledgeInvariant, PTL

\* The cache in memory follows the active corpus, but for a failed refresh.
THEOREM CacheFollowsCorpus == Spec => []ServedIsActive
<1>1. KInv => ServedIsActive
  BY DEF KInv
<1> QED
  BY <1>1, KnowledgeInvariant, PTL

\* A version keeps its source, and once built its documents; its status goes
\* from building to active to superseded, or to failed before it was active.
THEOREM VersionsOnlyAdvance == Spec => VersionsAdvance
<1> DEFINE Adv == \A v \in DOMAIN corpus :
       /\ v \in DOMAIN corpus' /\ corpus'[v].source = corpus[v].source
       /\ corpus[v].status # "building" =>
            /\ corpus'[v].docs = corpus[v].docs
            /\ \/ corpus'[v].status = corpus[v].status
               \/ corpus[v].status = "active" /\ corpus'[v].status = "superseded"
<1>1. ASSUME KInv, [Next]_vars PROVE [Adv]_vars
  <2> USE <1>1 DEF KInv, corpusVars
  <2>0. Len(corpus) \in Nat /\ DOMAIN corpus = 1..Len(corpus)
    BY LenProperties DEF TypeOK
  <2>1. ASSUME corpus' = corpus PROVE Adv
    BY <2>1
  <2>2. CASE InsertVersion
    BY <2>0, <2>2, InsertChanges
  <2>3. CASE Extract
    <3>1. corpus[mine].status = "building" /\ (pc' = "activating" \/ corpus' = corpus)
      BY <2>3 DEF Extract, BuildOK
    <3> QED
      BY <2>0, <2>1, <2>3, <3>1, ExtractChanges
  <2>4. CASE Activate
    <3>1. corpus[mine].status = "building"
      BY <2>4 DEF Activate, At, BuildOK
    <3> QED
      BY <2>0, <2>4, <3>1, ActivateChanges DEF Supersede
  <2>5. CASE FailJob
    BY <2>0, <2>1, <2>5, FailChanges
  <2>6. CASE Claim \/ ReadFolder \/ CompleteDuplicate \/ LinkVersion \/ OnActivated \/ Fault \/ Crash
    BY <2>1, <2>6 DEF Claim, ReadFolder, CompleteDuplicate, LinkVersion, OnActivated, Fault, Crash
  <2>7. CASE Others
    <3>1. corpus' = corpus
      BY <2>7, OthersStep DEF OthersShape
    <3> QED
      BY <2>1, <3>1
  <2> QED
    BY <2>2, <2>3, <2>4, <2>5, <2>6, <2>7 DEF Next, WorkerStep, Others
<1> QED
  BY <1>1, KnowledgeInvariant, PTL DEF Spec, VersionsAdvance

\* A job is given up with its attempts spent, and one that has succeeded is
\* taken up again only after a failed refresh of its own version.
THEOREM JobsSettleEarned == Spec => SettledIsEarned
<1> DEFINE Fair == \A j \in Job :
       /\ status[j] # "failed" /\ status'[j] = "failed" => attempts'[j] = MaxAttempts
       /\ status[j] = "succeeded" /\ status'[j] # "succeeded" =>
            pc = "failing" /\ j = cur /\ version[j] = current
<1>1. ASSUME KInv, [Next]_vars PROVE [Fair]_vars
  <2> USE <1>1 DEF KInv
  <2>0. /\ cur \in Job /\ status \in [Job -> Status] /\ attempts \in [Job -> 0..MaxAttempts]
        /\ last \in Nat /\ MaxAttempts \in Nat
    BY KnowledgeAssumption DEF TypeOK, Job
  <2>1. ASSUME UNCHANGED status PROVE Fair
    BY <2>1
  <2>2. CASE Claim
    <3> PICK j \in Job : Claimable(j) /\ status' = [status EXCEPT ![j] = "processing"]
      BY <2>2 DEF Claim
    <3> QED
      BY <2>0 DEF Claimable
  <2>3. CASE CompleteDuplicate \/ Activate
    BY <2>0, <2>3 DEF CompleteDuplicate, Activate, Succeed
  <2>4. CASE FailJob
    <3>1. \A k \in Job : k # cur => status'[k] = status[k]
      BY <2>0, <2>4 DEF FailJob
    <3>2. /\ status'[cur] = (IF attempts[cur] + 1 >= MaxAttempts THEN "failed" ELSE "retry")
          /\ attempts'[cur] = attempts[cur] + 1 /\ pc = "failing"
      BY <2>0, <2>4 DEF FailJob, Spent
    <3>3. status[cur] = "processing" \/ (status[cur] = "succeeded" /\ version[cur] = current)
      BY <3>2 DEF RunOK, Activated
    <3>4. attempts[cur] < MaxAttempts
      BY <2>0, <3>3 DEF JobsOK
    <3> QED
      BY <2>0, <3>1, <3>2, <3>3, <3>4
  <2>5. CASE ReadFolder \/ InsertVersion \/ LinkVersion \/ Extract \/ OnActivated \/ Fault \/ Crash
    BY <2>1, <2>5 DEF ReadFolder, InsertVersion, LinkVersion, Extract, OnActivated, Fault, Crash, jobVars
  <2>6. ASSUME AddJob PROVE Fair
    <3>1. status[last + 1] = "absent"
      BY <2>0, <2>6 DEF JobsOK, AddJob
    <3> QED
      BY <2>0, <2>6, <3>1 DEF AddJob
  <2>7. CASE Boot \/ Poll \/ UNCHANGED vars
    BY <2>1, <2>6, <2>7 DEF Boot, Poll, vars, jobVars
  <2>8. ASSUME NEW j \in Job, Retry(j) PROVE Fair
    BY <2>0, <2>8 DEF Retry
  <2>9. ASSUME NEW r \in Request, Reload(r) \/ GiveUp(r) \/ \E c \in Content : Save(r, c) PROVE Fair
    BY <2>1, <2>9 DEF Reload, GiveUp, Save, jobVars
  <2>10. ASSUME NEW r \in Asker, RequestStep(r) PROVE Fair
    BY <2>1, <2>6, <2>10 DEF RequestStep, Enqueue, Wait, Load, jobVars
  <2> QED
    BY <2>2, <2>3, <2>4, <2>5, <2>7, <2>8, <2>9, <2>10 DEF Next, WorkerStep
<1> QED
  BY <1>1, KnowledgeInvariant, PTL DEF Spec, SettledIsEarned

\* The corpus: one active version, made from the files of finished uploads, and it is
\* what the bot answers from but for a failed refresh.
THEOREM CorpusAlwaysSound == Spec => []CorpusIsSound
BY OneActiveVersion, UploadsAreApplied, CacheFollowsCorpus, PTL DEF CorpusIsSound

\* Versions and jobs never go back.
THEOREM CorpusNeverGoesBack == Spec => NoWayBack
BY VersionsOnlyAdvance, JobsSettleEarned DEF NoWayBack

-----------------------------------------------------------------------------
(* Documents (Texts).                                                      *)

(* The cutting of documents, and of answers, on its own.                   *)
TextsSpec == TextsInit /\ [][TextsNext]_textVars

(* Of some numbers up to a bound Max is the greatest and Min the least.    *)
LEMMA Extremes ==
  ASSUME NEW n \in Nat, NEW S \in SUBSET (0..n), S # {}
  PROVE  /\ Max(S) \in S /\ \A i \in S : i <= Max(S)
         /\ Min(S) \in S /\ \A i \in S : Min(S) <= i
<1> DEFINE R == OpToRel(<, Nat)
<1>1. IsWellFoundedOn(R, Nat)
  BY NatLessThanWellFounded
<1>2. \A i, k \in Nat : <<i, k>> \in R <=> i < k
  BY DEF OpToRel
<1> HIDE DEF R
<1>3. ASSUME NEW T \in SUBSET Nat, T # {} PROVE \E i \in T : \A k \in T : i <= k
  <2>1. PICK i \in T : \A k \in T : ~(<<k, i>> \in R)
    BY <1>1, <1>3, WFMin
  <2>2. ASSUME NEW k \in T PROVE i <= k
    <3>1. i \in Nat /\ k \in Nat /\ ~(k < i)
      BY <1>2, <2>1
    <3> QED BY <3>1
  <2> QED BY <2>2
<1>4. \E x \in S : \A y \in S : x <= y
  BY <1>3
<1>5. Min(S) \in S /\ \A i \in S : Min(S) <= i
  BY <1>4 DEF Min
<1> DEFINE below == {n - i : i \in S}
<1>6. below \in SUBSET Nat /\ below # {}
  <2>1. \A i \in S : n - i \in Nat
    OBVIOUS
  <2> QED BY <2>1
<1>7. PICK k \in below : \A l \in below : k <= l
  BY <1>3, <1>6
<1>8. PICK x \in S : k = n - x
  OBVIOUS
<1>9. \A y \in S : x >= y
  <2> SUFFICES ASSUME NEW y \in S PROVE x >= y
    OBVIOUS
  <2>1. n - x <= n - y
    BY <1>7, <1>8
  <2> QED BY <2>1
<1>10. Max(S) \in S /\ \A y \in S : Max(S) >= y
  BY <1>9 DEF Max
<1> QED BY <1>5, <1>10
-----------------------------------------------------------------------------
(* One cut of a document.                                                  *)

Doc == script \in Seq(Letters \cup Atom) /\ IsDocument

(* A document has a last place, and no blank in it.                        *)
LEMMA DocIs ==
  ASSUME Doc
  PROVE  /\ Len(script) \in Nat /\ DOMAIN script = 1..Len(script) /\ Len(script) > 0
         /\ script[Len(script)] \notin Blank
<1>1. Len(script) \in Nat /\ DOMAIN script = 1..Len(script) /\ (script # << >> => Len(script) # 0)
  BY LenProperties, EmptySeq DEF Doc
<1>2. script # << >> /\ script[Len(script)] \notin Blank
  BY DEF Doc, IsDocument, Last
<1> QED BY <1>1, <1>2

(* Where a document is cut the chunk has begun, it is short enough, and    *)
(* a word that it does not hold begins behind the cut.                     *)
LEMMA CutIs ==
  ASSUME Doc, TextsAssumption, NEW start \in Nat, start < Len(script),
         NEW hard, hard = Min({Len(script), start + ChunkChars}), NEW end, end = ChooseEnd(start, hard)
  PROVE  /\ end \in Nat /\ start < end /\ end <= start + ChunkChars /\ end <= Len(script)
         /\ end < Len(script) =>
              \A a \in 0..Len(script), b \in 0..Len(script) :
                Word(a, b) /\ b - a <= ChunkChars - LeastChars /\ start <= a => b <= end \/ a > end
<1> DEFINE n == Len(script)
           blanks == {p \in (start + LeastChars)..(hard - 1) : script[p + 1] \in Blank}
<1>c. ChunkChars \in Nat /\ LeastChars \in Nat /\ 1 <= LeastChars /\ LeastChars <= ChunkChars
  BY DEF TextsAssumption
<1>1. n \in Nat /\ DOMAIN script = 1..n
  BY DocIs
<1>2. hard \in Nat /\ hard <= n /\ hard <= start + ChunkChars /\ (hard = n \/ hard = start + ChunkChars)
  <2>1. {n, start + ChunkChars} \in SUBSET (0..(n + start + ChunkChars)) /\ n + start + ChunkChars \in Nat
    BY <1>1, <1>c
  <2>2. /\ hard \in {n, start + ChunkChars} /\ \A i \in {n, start + ChunkChars} : hard <= i
    BY <2>1, Extremes
  <2> QED BY <1>1, <1>c, <2>2
<1>3. end = IF hard >= n THEN n ELSE IF blanks = {} THEN hard ELSE Max(blanks)
  BY DEF ChooseEnd
<1>4. ASSUME hard < n, blanks # {} PROVE end \in blanks /\ \A p \in blanks : p <= end
  <2>1. blanks \in SUBSET (0..n)
    BY <1>1, <1>2, <1>c
  <2> HIDE DEF blanks
  <2>2. Max(blanks) \in blanks /\ \A p \in blanks : p <= Max(blanks)
    BY <1>1, <1>4, <2>1, Extremes
  <2>3. end = Max(blanks)
    BY <1>1, <1>2, <1>3, <1>4
  <2> QED BY <2>2, <2>3
<1>5. end \in Nat /\ start < end /\ end <= start + ChunkChars /\ end <= n
  <2>1. CASE hard >= n
    BY <1>1, <1>2, <1>3, <2>1
  <2>2. CASE hard < n /\ blanks = {}
    BY <1>1, <1>2, <1>3, <1>c, <2>2
  <2>3. CASE hard < n /\ blanks # {}
    <3> HIDE DEF blanks
    <3>1. end \in blanks
      BY <1>4, <2>3
    <3>2. end \in (start + LeastChars)..(hard - 1)
      BY <3>1 DEF blanks
    <3> QED BY <1>1, <1>2, <1>c, <3>2
  <2> HIDE DEF blanks
  <2> QED BY <1>1, <1>2, <2>1, <2>2, <2>3
<1>6. ASSUME end < n, NEW a \in 0..n, NEW b \in 0..n, Word(a, b), b - a <= ChunkChars - LeastChars, start <= a, end < b
      PROVE  a > end
  <2>1. hard < n
    BY <1>1, <1>2, <1>3, <1>6
  <2>2. \A p \in a..(b - 1) : script[p + 1] \notin Blank
    BY <1>6 DEF Word
  <2>3. CASE blanks # {}
    <3>1. end \in Nat /\ script[end + 1] \in Blank
      BY <1>4, <1>5, <2>1, <2>3
    <3>2. end \notin a..(b - 1)
      BY <2>2, <3>1
    <3> QED BY <1>6, <3>1, <3>2
  <2>4. CASE blanks = {}
    <3>1. end = hard /\ end = start + ChunkChars
      BY <1>1, <1>2, <1>3, <2>1, <2>4
    <3>2. a > start + LeastChars
      BY <1>6, <1>c, <3>1
    <3>3. script[a] \in Blank
      BY <1>6, <1>c, <3>2 DEF Word
    <3>4. PICK p \in Nat : a = p + 1
      <4>1. a - 1 \in Nat /\ a = (a - 1) + 1
        BY <1>c, <3>2
      <4> QED BY <4>1
    <3>5. p \notin (start + LeastChars)..(hard - 1)
      BY <2>4, <3>3, <3>4
    <3>6. p >= start + LeastChars
      BY <1>c, <3>2, <3>4
    <3>7. p > hard - 1
      BY <1>2, <1>c, <3>5, <3>6
    <3> QED BY <1>2, <3>1, <3>4, <3>7
  <2> QED BY <2>3, <2>4
<1>7. ASSUME end < n
      PROVE  \A a \in 0..n, b \in 0..n :
               Word(a, b) /\ b - a <= ChunkChars - LeastChars /\ start <= a => b <= end \/ a > end
  <2> SUFFICES ASSUME NEW a \in 0..n, NEW b \in 0..n, Word(a, b), b - a <= ChunkChars - LeastChars, start <= a, ~(b <= end)
               PROVE  a > end
    OBVIOUS
  <2>1. end < b
    BY <1>5
  <2> QED BY <1>6, <1>7, <2>1
<1> QED BY <1>5, <1>7

(* The next chunk begins before all that this one did not hold.            *)
LEMMA NextIs ==
  ASSUME Doc, TextsAssumption, NEW start \in Nat, NEW end \in Nat, start < end, end <= Len(script),
         NEW next, next = NextStart(start, end)
  PROVE  next \in Nat /\ start < next /\ next <= end + 1 /\ (end < Len(script) => next < Len(script))
<1> DEFINE n == Len(script)
           first == Max({start + 1, end - OverlapChars})
           paragraphs == {p \in first..(end - 1) : p + 2 <= n /\ script[p + 1] = "n" /\ script[p + 2] = "n"}
<1>c. OverlapChars \in Nat
  BY DEF TextsAssumption
<1>1. n \in Nat /\ script[n] \notin Blank
  BY DocIs
<1>2. first \in Nat /\ start < first /\ first <= end
  <2>1. \E x \in {start + 1, end - OverlapChars} : \A y \in {start + 1, end - OverlapChars} : x >= y
    BY <1>c
  <2>2. first \in {start + 1, end - OverlapChars} /\ \A y \in {start + 1, end - OverlapChars} : first >= y
    <3> DEFINE S == {start + 1, end - OverlapChars}
    <3> HIDE DEF S
    <3>1. Max(S) \in S /\ \A y \in S : Max(S) >= y
      BY <2>1 DEF Max, S
    <3> QED BY <3>1 DEF S
  <2> HIDE DEF first
  <2> QED BY <1>c, <2>2
<1>3. next = IF paragraphs = {} THEN first ELSE Min(paragraphs) + 2
  BY DEF NextStart
<1> HIDE DEF first
<1>4. CASE paragraphs = {}
  BY <1>1, <1>2, <1>3, <1>4
<1>5. CASE paragraphs # {}
  <2>1. paragraphs \in SUBSET (0..n)
    BY <1>1, <1>2
  <2>2. Min(paragraphs) \in paragraphs
    <3> HIDE DEF paragraphs
    <3> QED BY <1>1, <1>5, <2>1, Extremes
  <2>3. PICK p \in first..(end - 1) : p + 2 <= n /\ script[p + 2] = "n" /\ next = p + 2
    BY <1>3, <1>5, <2>2
  <2>4. p + 2 # n
    BY <1>1, <2>3 DEF Blank
  <2> QED BY <1>1, <1>2, <2>3, <2>4
<1> QED BY <1>4, <1>5
-----------------------------------------------------------------------------
(* Sums of a sequence: a fold over the places of it, from the last.  What  *)
(* it computes follows by taking a least set for which the claim fails.    *)
SumAt(q, S) == MapThenFoldSet(LAMBDA x, y : y + x, 0, LAMBDA i : q[i], LAMBDA T : Max(T), S)

(* The fold of the library is a sum over the places of the sequence.       *)
LEMMA SumIs == ASSUME NEW q PROVE FoldLeft(+, 0, q) = SumAt(q, DOMAIN q)
  BY DEF FoldLeft, SumAt

(* Among sets of subsets of a finite set there is a least one.             *)
LEMMA LeastSubset ==
  ASSUME NEW S, IsFiniteSet(S), NEW B, B \subseteq SUBSET S, B # {}
  PROVE  \E T \in B : \A U \in B : ~(U \subseteq T /\ U # T)
<1>1. B \subseteq FiniteSubsetsOf(S)
  BY FS_Subset DEF FiniteSubsetsOf
<1>2. \E T \in B : \A U \in B : ~(<<U, T>> \in StrictSubsetOrdering(S))
  <2> DEFINE R == StrictSubsetOrdering(S)
             F == FiniteSubsetsOf(S)
  <2>1. IsWellFoundedOn(R, F)
    BY FS_StrictSubsetOrderingWellFounded
  <2> HIDE DEF R, F
  <2> QED BY <1>1, <2>1, WFMin DEF F, R
<1> QED BY <1>2 DEF StrictSubsetOrdering

(* The recursion that SumAt unfolds to, over the subsets of S.             *)
Adds(q, S, g) == g = [s \in SUBSET S |-> IF s = {} THEN 0 ELSE g[s \ {Max(s)}] + q[Max(s)]]

(* A sum is the last value of the function that the recursion defines.     *)
LEMMA SumIsFold == ASSUME NEW q, NEW S PROVE SumAt(q, S) = (CHOOSE g : Adds(q, S, g))[S]
  BY DEF SumAt, MapThenFoldSet, Adds

\* What a sum is taken over: places of a sequence.
Places(S) == \E n \in Nat : S \subseteq 1..n

(* Sums of the same numbers are the same.                                  *)
LEMMA AddsAgree ==
  ASSUME NEW S, Places(S), NEW T, NEW q, NEW r, NEW g, NEW h, Adds(q, S, g), Adds(r, T, h),
         NEW u, u \subseteq S, u \subseteq T, \A i \in u : q[i] = r[i]
  PROVE  g[u] = h[u]
<1> DEFINE B == {s \in SUBSET u : g[s] # h[s]}
<1> SUFFICES ASSUME B # {} PROVE FALSE
  OBVIOUS
<1>1. B # {}
  OBVIOUS
<1>n. PICK n \in Nat : S \subseteq 1..n
  BY DEF Places
<1>2. IsFiniteSet(u)
  <2>1. IsFiniteSet(1..n) /\ u \in SUBSET (1..n)
    BY <1>n, FS_Interval
  <2> QED BY <2>1, FS_Subset
<1>3. PICK s \in B : \A U \in B : ~(U \subseteq s /\ U # s)
  <2>1. B \subseteq SUBSET u
    OBVIOUS
  <2> HIDE DEF B
  <2> QED BY <1>1, <1>2, <2>1, LeastSubset
<1>s. s \in SUBSET S /\ s \in SUBSET T /\ s \in SUBSET u /\ g[s] # h[s]
  OBVIOUS
<1>4. g[s] = IF s = {} THEN 0 ELSE g[s \ {Max(s)}] + q[Max(s)]
  BY <1>s DEF Adds
<1>5. h[s] = IF s = {} THEN 0 ELSE h[s \ {Max(s)}] + r[Max(s)]
  BY <1>s DEF Adds
<1>6. CASE s = {}
  BY <1>s, <1>4, <1>5, <1>6
<1>7. CASE s # {}
  <2>1. Max(s) \in s
    <3>1. s \in SUBSET (0..n)
      <4>1. s \subseteq 1..n
        BY <1>s, <1>n
      <4> QED BY <1>n, <4>1
    <3> QED BY <1>7, <1>n, <3>1, Extremes
  <2> DEFINE t == s \ {Max(s)}
  <2>2. t \subseteq s /\ t # s /\ t \in SUBSET u
    BY <1>s, <2>1
  <2>3. g[t] = h[t]
    BY <1>3, <2>2
  <2>4. q[Max(s)] = r[Max(s)]
    BY <1>s, <2>1
  <2> QED BY <1>s, <1>4, <1>5, <1>7, <2>3, <2>4
<1> QED BY <1>6, <1>7

(* ... and the sum over a part is a value of the function for the whole.   *)
LEMMA AddsSame ==
  ASSUME NEW q, NEW S, Places(S), NEW T, T \subseteq S, NEW g, NEW h, Adds(q, S, g), Adds(q, T, h)
  PROVE  g[T] = h[T]
<1>1. \A i \in T : q[i] = q[i]
  OBVIOUS
<1>2. T \subseteq T
  OBVIOUS
<1> QED BY <1>1, <1>2, AddsAgree

(* A sum is the value at the last place and the sum over the others.       *)
LEMMA SumUnfolds ==
  ASSUME NEW q, NEW u, Places(u), u # {}, \E g : Adds(q, u, g), \E g : Adds(q, u \ {Max(u)}, g)
  PROVE  SumAt(q, u) = SumAt(q, u \ {Max(u)}) + q[Max(u)]
<1> DEFINE t == u \ {Max(u)}
<1>1. PICK h : Adds(q, u, h) /\ SumAt(q, u) = h[u]
  <2>1. Adds(q, u, CHOOSE g : Adds(q, u, g))
    OBVIOUS
  <2> QED BY <2>1, SumIsFold
<1>2. PICK k : Adds(q, t, k) /\ SumAt(q, t) = k[t]
  <2>1. Adds(q, t, CHOOSE g : Adds(q, t, g))
    OBVIOUS
  <2> HIDE DEF t
  <2> QED BY <2>1, SumIsFold
<1>3. h[u] = h[t] + q[Max(u)]
  <2>1. u \in SUBSET u
    OBVIOUS
  <2> QED BY <1>1, <2>1 DEF Adds
<1>4. t \subseteq u
  OBVIOUS
<1> HIDE DEF t
<1>5. h[t] = k[t]
  BY <1>1, <1>2, <1>4, AddsSame
<1> QED BY <1>1, <1>2, <1>3, <1>5 DEF t

(* The recursion has a solution: without one for a set there would be a    *)
(* least such set, and the sums over its parts make one for it.            *)
LEMMA AddsExist ==
  ASSUME NEW q, NEW S, Places(S)
  PROVE  Adds(q, S, CHOOSE g : Adds(q, S, g))
<1> DEFINE B == {s \in SUBSET S : ~ \E g : Adds(q, s, g)}
<1> SUFFICES ASSUME B # {} PROVE FALSE
  OBVIOUS
<1>1. B # {}
  OBVIOUS
<1>n. PICK n \in Nat : S \subseteq 1..n
  BY DEF Places
<1>2. IsFiniteSet(S)
  <2>1. IsFiniteSet(1..n)
    BY <1>n, FS_Interval
  <2> QED BY <1>n, <2>1, FS_Subset
<1>3. PICK T \in B : \A U \in B : ~(U \subseteq T /\ U # T)
  <2>1. B \subseteq SUBSET S
    OBVIOUS
  <2> HIDE DEF B
  <2> QED BY <1>1, <1>2, <2>1, LeastSubset
<1>t. T \in SUBSET S /\ ~ \E g : Adds(q, T, g)
  OBVIOUS
<1>4. ASSUME NEW u \in SUBSET T, u # T
      PROVE  Adds(q, u, CHOOSE g : Adds(q, u, g)) /\ SumAt(q, u) = (CHOOSE g : Adds(q, u, g))[u]
  <2>1. \E g : Adds(q, u, g)
    BY <1>3, <1>4
  <2> QED BY <2>1, SumIsFold
<1>5. ASSUME NEW u \in SUBSET T, u # T
      PROVE  SumAt(q, u) = IF u = {} THEN 0 ELSE SumAt(q, u \ {Max(u)}) + q[Max(u)]
  <2> HIDE DEF B
  <2>1. CASE u # {}
    <3>1. Places(u) /\ u \in SUBSET (0..n)
      BY <1>5, <1>n, <1>t DEF Places
    <3>2. Max(u) \in u
      BY <1>n, <2>1, <3>1, Extremes
    <3>3. \E g : Adds(q, u, g)
      BY <1>4, <1>5
    <3>4. \E g : Adds(q, u \ {Max(u)}, g)
      <4>1. u \ {Max(u)} \in SUBSET T /\ u \ {Max(u)} # T
        BY <1>5, <3>2
      <4> QED BY <1>4, <4>1
    <3>5. Places(u)
      BY <3>1
    <3>6. SumAt(q, u) = SumAt(q, u \ {Max(u)}) + q[Max(u)]
      BY <2>1, <3>3, <3>4, <3>5, SumUnfolds
    <3> QED BY <2>1, <3>6
  <2>2. CASE u = {}
    <3>1. Adds(q, u, CHOOSE g : Adds(q, u, g)) /\ SumAt(q, u) = (CHOOSE g : Adds(q, u, g))[u]
      BY <1>4, <1>5
    <3> DEFINE h == CHOOSE g : Adds(q, u, g)
    <3> HIDE DEF h
    <3>2. Adds(q, u, h) /\ SumAt(q, u) = h[u]
      BY <3>1 DEF h
    <3>3. u \in SUBSET u
      OBVIOUS
    <3> QED BY <2>2, <3>2, <3>3 DEF Adds
  <2> QED BY <2>1, <2>2
<1> DEFINE g == [s \in SUBSET T |-> IF s = {} THEN 0 ELSE SumAt(q, s \ {Max(s)}) + q[Max(s)]]
<1>6. ASSUME NEW s \in SUBSET T, s # {} PROVE SumAt(q, s \ {Max(s)}) = g[s \ {Max(s)}]
  <2> DEFINE t == s \ {Max(s)}
  <2>1. Max(s) \in s
    <3>1. s \in SUBSET (0..n)
      BY <1>6, <1>n, <1>t
    <3> QED BY <1>6, <1>n, <3>1, Extremes
  <2>2. t \in SUBSET T /\ t # T
    BY <2>1
  <2> HIDE DEF t
  <2>3. g[t] = IF t = {} THEN 0 ELSE SumAt(q, t \ {Max(t)}) + q[Max(t)]
    BY <2>2
  <2>4. SumAt(q, t) = g[t]
    BY <1>5, <2>2, <2>3
  <2> QED BY <2>4 DEF t
<1>7. Adds(q, T, g)
  BY <1>6 DEF Adds
<1> QED BY <1>t, <1>7

\* What TakeEvidence has used of its room.
SumOf(q) == FoldLeft(+, 0, q)

(* A sum takes in what is appended.                                        *)
LEMMA SumAppends ==
  ASSUME NEW q \in Seq(Int), NEW x \in Int
  PROVE  SumOf(Append(q, x)) = SumOf(q) + x
<1> DEFINE n == Len(q)
           r == Append(q, x)
<1>1. /\ n \in Nat /\ DOMAIN q = 1..n /\ DOMAIN r = 1..(n + 1)
      /\ r[n + 1] = x /\ \A i \in 1..n : r[i] = q[i]
  BY LenProperties, AppendProperties
<1> HIDE DEF n, r
<1> DEFINE g == CHOOSE k : Adds(r, 1..(n + 1), k)
           h == CHOOSE k : Adds(q, 1..n, k)
<1>2. Adds(r, 1..(n + 1), g)
  <2>1. Places(1..(n + 1))
    <3> HIDE DEF g, h
    <3>1. n + 1 \in Nat
      BY <1>1
    <3> QED BY <3>1 DEF Places
  <2> QED BY <2>1, AddsExist
<1>3. Adds(q, 1..n, h)
  <2>1. Places(1..n)
    BY <1>1 DEF Places
  <2> QED BY <1>1, <2>1, AddsExist
<1>4. SumAt(r, 1..(n + 1)) = g[1..(n + 1)] /\ SumAt(q, 1..n) = h[1..n]
  BY SumIsFold
<1> HIDE DEF g, h
<1>5. Max(1..(n + 1)) = n + 1 /\ (1..(n + 1)) \ {n + 1} = 1..n
  <2> DEFINE S == 1..(n + 1)
  <2>1. S \in SUBSET (0..(n + 1)) /\ n + 1 \in Nat /\ n + 1 \in S
    BY <1>1
  <2>2. Max(S) \in S /\ n + 1 <= Max(S)
    <3> HIDE DEF S
    <3> QED BY <2>1, Extremes
  <2>3. Max(S) = n + 1
    <3>1. Max(S) \in 1..(n + 1)
      BY <2>2
    <3> HIDE DEF S
    <3> QED BY <1>1, <2>2, <3>1
  <2>4. S \ {n + 1} = 1..n
    BY <1>1
  <2> QED BY <2>3, <2>4
<1>6. g[1..(n + 1)] = g[1..n] + x
  <2> DEFINE S == 1..(n + 1)
  <2>1. S # {} /\ S \in SUBSET S
    <3>1. 1 \in S
      BY <1>1
    <3> QED BY <3>1
  <2>2. Max(S) = n + 1 /\ S \ {Max(S)} = 1..n /\ Adds(r, S, g)
    BY <1>2, <1>5
  <2> HIDE DEF S
  <2>3. g[S] = g[S \ {Max(S)}] + r[Max(S)]
    BY <2>1, <2>2 DEF Adds
  <2> QED BY <1>1, <2>2, <2>3 DEF S
<1>7. g[1..n] = h[1..n]
  <2> DEFINE S == 1..(n + 1)
             u == 1..n
  <2>0. n + 1 \in Nat /\ S = 1..(n + 1)
    BY <1>1
  <2>1. Places(S) /\ u \in SUBSET S /\ \A i \in u : r[i] = q[i]
    <3>1. Places(S)
      BY <2>0 DEF Places
    <3>2. u \subseteq S
      BY <1>1
    <3>3. \A i \in u : r[i] = q[i]
      BY <1>1
    <3> QED BY <3>1, <3>2, <3>3
  <2>2. Adds(r, S, g) /\ Adds(q, u, h)
    BY <1>2, <1>3
  <2> HIDE DEF S, u
  <2>3. u \subseteq S /\ u \subseteq u
    BY <2>1
  <2>4. g[u] = h[u]
    BY <2>1, <2>2, <2>3, AddsAgree
  <2> QED BY <2>4 DEF u
<1>8. SumOf(q) = SumAt(q, 1..n)
  <2>1. SumOf(q) = SumAt(q, DOMAIN q)
    BY SumIs DEF SumOf
  <2> QED BY <1>1, <2>1
<1>9. SumOf(r) = SumAt(r, 1..(n + 1))
  <2>1. SumOf(r) = SumAt(r, DOMAIN r)
    BY SumIs DEF SumOf
  <2> QED BY <1>1, <2>1
<1> QED BY <1>4, <1>6, <1>7, <1>8, <1>9 DEF r

(* Nothing sums to nothing.                                                *)
LEMMA SumOfNothing == SumOf(<< >>) = 0
<1>1. SumOf(<< >>) = SumAt(<< >>, {})
  <2>1. SumOf(<< >>) = SumAt(<< >>, DOMAIN << >>)
    BY SumIs DEF SumOf
  <2>2. DOMAIN << >> = {}
    OBVIOUS
  <2> QED BY <2>1, <2>2
<1> DEFINE h == CHOOSE k : Adds(<< >>, {}, k)
<1>2. Adds(<< >>, {}, h)
  <2>1. Places({})
    BY DEF Places
  <2> QED BY <2>1, AddsExist
<1>3. SumAt(<< >>, {}) = h[{}]
  BY SumIsFold
<1> HIDE DEF h
<1>4. h[{}] = 0
  <2>1. {} \in SUBSET {}
    OBVIOUS
  <2> QED BY <1>2, <2>1 DEF Adds
<1> QED BY <1>1, <1>3, <1>4
-----------------------------------------------------------------------------
(* What a cut has done so far, for documents of any length.                *)
DocTypes ==
  /\ script \in Seq(Letters \cup Atom) /\ from \in Nat /\ room \in Int
  /\ evidence \in Seq(Int) /\ chunks \in Seq(Nat \X Nat)

(* Nothing is cut while the text is written, and only a document is cut.   *)
CutsDocuments ==
  /\ cutting = "writing" => chunks = << >> /\ from = 0
  /\ cutting = "chunks" => IsDocument /\ from < Len(script)

ChunksFit ==
  \A k \in DOMAIN chunks :
    /\ chunks[k][2] - chunks[k][1] \in 1..ChunkChars
    /\ k > 1 => chunks[k - 1][1] < chunks[k][1]
    /\ cutting = "chunks" => chunks[k][1] < from

(* What is not in a chunk yet begins where the next chunk does, or later.  *)
Covered ==
  cutting \in {"chunks", "evidence"} =>
    \A a \in 0..Len(script), b \in 0..Len(script) :
      Word(a, b) /\ b - a <= ChunkChars - LeastChars =>
        \/ \E c \in Range(chunks) : c[1] <= a /\ b <= c[2]
        \/ cutting = "chunks" /\ from <= a

RoomLeft ==
  /\ SumOf(evidence) \in Int /\ room >= -2
  /\ room = EvidenceChars - SumOf(evidence) - 2 * Len(evidence)

DocInv == DocTypes /\ CutsDocuments /\ ChunksFit /\ Covered /\ RoomLeft

(* DocInv is inductive.                                                    *)
LEMMA DocInvInit == TextsInit => DocInv
<1> SUFFICES ASSUME TextsInit PROVE DocInv
  OBVIOUS
<1> USE DEF TextsInit
<1>1. EvidenceChars \in Nat
  BY TextsAssumption DEF TextsAssumption
<1>2. DocTypes
  <2>1. script \in Seq(Letters \cup Atom) /\ evidence \in Seq(Int) /\ chunks \in Seq(Nat \X Nat)
    BY EmptySeq
  <2> QED BY <1>1, <2>1 DEF DocTypes
<1>3. CutsDocuments /\ Covered
  BY DEF CutsDocuments, Covered
<1>4. ChunksFit
  <2>1. DOMAIN chunks = {}
    BY EmptySeq
  <2> QED BY <2>1 DEF ChunksFit
<1>5. RoomLeft
  <2>1. Len(evidence) = 0
    BY EmptySeq
  <2> QED BY <1>1, <2>1, SumOfNothing DEF RoomLeft
<1> QED BY <1>2, <1>3, <1>4, <1>5 DEF DocInv

(* Each step keeps DocInv; CutChunk is what it is about.                   *)
LEMMA DocInvNext == DocInv /\ [TextsNext]_textVars => DocInv'
<1> SUFFICES ASSUME DocInv, [TextsNext]_textVars PROVE DocInv'
  OBVIOUS
<1> USE DEF DocInv
<1>c. /\ ChunkChars \in Nat /\ LeastChars \in Nat /\ 1 <= LeastChars /\ LeastChars <= ChunkChars
      /\ EvidenceChars \in Nat /\ HeadingChars \in Nat
  BY TextsAssumption DEF TextsAssumption
<1>t. DocTypes
  OBVIOUS
<1>1. CASE WriteDocument
  <2> USE DEF WriteDocument
  <2>1. DocTypes'
    <3>1. PICK c \in Letters : script' = Append(script, c)
      BY <1>1
    <3>2. script' \in Seq(Letters \cup Atom)
      BY <3>1, AppendProperties DEF DocTypes
    <3> QED BY <1>1, <3>2 DEF DocTypes
  <2> QED BY <1>1, <2>1 DEF CutsDocuments, ChunksFit, Covered, RoomLeft
<1>2. CASE WriteAnswer
  <2> USE DEF WriteAnswer
  <2>1. DocTypes'
    <3>1. script \in Seq(Letters \cup Atom) /\ Price \in Seq(Letters \cup Atom)
      BY <1>t DEF DocTypes, Price, Atom
    <3>2. (\E c \in Atom : script' = Append(script, c)) \/ script' = script \o Price
      BY <1>2 DEF Atom
    <3>3. script' \in Seq(Letters \cup Atom)
      <4> DEFINE S == Letters \cup Atom
      <4>1. script \in Seq(S) /\ Price \in Seq(S) /\ Atom \subseteq S
        BY <3>1
      <4> HIDE DEF S
      <4>2. ASSUME NEW c \in Atom PROVE Append(script, c) \in Seq(S)
        BY <4>1, AppendProperties
      <4>3. script \o Price \in Seq(S)
        BY <4>1, ConcatProperties
      <4> QED BY <3>2, <4>2, <4>3 DEF S
    <3> QED BY <1>2, <3>3 DEF DocTypes
  <2> QED BY <1>2, <2>1 DEF CutsDocuments, ChunksFit, Covered, RoomLeft
<1>3. CASE StartChunks
  <2> USE DEF StartChunks
  <2>1. IsDocument /\ IsDocument' /\ chunks = << >> /\ chunks' = << >> /\ from = 0 /\ from' = 0
    BY <1>3 DEF CutsDocuments, IsDocument
  <2>2. 0 < Len(script)
    BY <1>t, <2>1, DocIs DEF Doc, DocTypes
  <2>3. DocTypes' /\ RoomLeft'
    BY <1>3 DEF DocTypes, RoomLeft
  <2>4. CutsDocuments'
    BY <1>3, <2>1, <2>2 DEF CutsDocuments
  <2>5. ChunksFit'
    <3>1. DOMAIN chunks' = {}
      BY <2>1, EmptySeq
    <3> QED BY <3>1 DEF ChunksFit
  <2>6. Covered'
    <3>1. cutting' = "chunks" /\ from' = 0
      BY <1>3, <2>1
    <3>2. \A a \in 0..Len(script') : from' <= a
      BY <3>1
    <3> QED BY <3>1, <3>2 DEF Covered
  <2> QED BY <2>3, <2>4, <2>5, <2>6
<1>4. CASE CutChunk
  <2> DEFINE n == Len(script)
             end == ChooseEnd(from, Min({Len(script), from + ChunkChars}))
             cut == SubSeq(script, from + 1, end)
             next == NextStart(from, end)
  <2>1. /\ chunks' = IF Range(cut) \subseteq Blank THEN chunks ELSE Append(chunks, <<from, end>>)
        /\ from' = next /\ cutting' = (IF end >= n THEN "evidence" ELSE "chunks")
        /\ cutting = "chunks" /\ UNCHANGED <<script, room, evidence, sent, bubbles>>
    BY <1>4 DEF CutChunk
  <2>2. /\ Doc /\ from \in Nat /\ from < n /\ n \in Nat /\ chunks \in Seq(Nat \X Nat)
        /\ DOMAIN script = 1..n /\ IsDocument' = IsDocument
    BY <2>1, DocIs DEF Doc, DocTypes, CutsDocuments, IsDocument
  <2>3. /\ end \in Nat /\ from < end /\ end <= from + ChunkChars /\ end <= n
        /\ end < n => \A a \in 0..n, b \in 0..n :
             Word(a, b) /\ b - a <= ChunkChars - LeastChars /\ from <= a => b <= end \/ a > end
    BY <2>2, CutIs, TextsAssumption
  <2>4. next \in Nat /\ from < next /\ next <= end + 1 /\ (end < n => next < n)
    <3>1. end \in Nat /\ from < end /\ end <= n
      BY <2>3
    <3> HIDE DEF end
    <3> QED BY <2>2, <3>1, NextIs, TextsAssumption
  <2>5. ASSUME NEW a \in 0..n, NEW b \in 0..n, Word(a, b), from <= a, b <= end
        PROVE  chunks' = Append(chunks, <<from, end>>)
    <3> HIDE DEF end
    <3>1. a < b /\ script[a + 1] \notin Blank
      BY <2>5 DEF Word
    <3>2. from + 1 \in 1..n + 1 /\ end \in from..n /\ script \in Seq(Letters \cup Atom)
      BY <2>2, <2>3 DEF Doc
    <3>3. Len(cut) = end - from /\ \A i \in 1..Len(cut) : cut[i] = script[from + i]
      BY <2>2, <2>3, <3>2, SubSeqProperties
    <3>4. a - from + 1 \in 1..Len(cut) /\ from + (a - from + 1) = a + 1
      BY <2>2, <2>3, <2>5, <3>1, <3>3
    <3>5. DOMAIN cut = 1..Len(cut)
      BY <2>2, <2>3, <3>2, SubSeqProperties
    <3>6. cut[a - from + 1] \notin Blank /\ a - from + 1 \in DOMAIN cut
      <4>1. cut[a - from + 1] = script[from + (a - from + 1)]
        BY <3>3, <3>4
      <4>2. cut[a - from + 1] = script[a + 1]
        BY <3>4, <4>1
      <4> QED BY <3>1, <3>4, <3>5, <4>2
    <3>7. ~(Range(cut) \subseteq Blank)
      BY <3>6 DEF Range
    <3> QED BY <2>1, <3>7 DEF end
  <2>6. \/ chunks' = chunks
        \/ /\ chunks' = Append(chunks, <<from, end>>) /\ <<from, end>> \in Nat \X Nat
           /\ Len(chunks') = Len(chunks) + 1 /\ chunks' \in Seq(Nat \X Nat)
           /\ chunks'[Len(chunks) + 1] = <<from, end>>
           /\ \A k \in 1..Len(chunks) : chunks'[k] = chunks[k]
    <3>1. <<from, end>> \in Nat \X Nat
      BY <2>2, <2>3
    <3>2. chunks' = chunks \/ chunks' = Append(chunks, <<from, end>>)
      BY <2>1
    <3> DEFINE e == <<from, end>>
    <3> HIDE DEF e, end
    <3>3. /\ Len(Append(chunks, e)) = Len(chunks) + 1 /\ Append(chunks, e) \in Seq(Nat \X Nat)
          /\ Append(chunks, e)[Len(chunks) + 1] = e
          /\ \A k \in 1..Len(chunks) : Append(chunks, e)[k] = chunks[k]
      BY <2>2, <3>1, AppendProperties DEF e
    <3> QED BY <3>1, <3>2, <3>3 DEF e
  <2>7. chunks' \in Seq(Nat \X Nat) /\ DOMAIN chunks' = 1..Len(chunks') /\ DOMAIN chunks = 1..Len(chunks) /\ Len(chunks) \in Nat
    <3>1. chunks' \in Seq(Nat \X Nat)
      BY <2>2, <2>6
    <3> QED BY <2>2, <3>1, LenProperties
  <2> HIDE DEF end, next, cut, n
  <2>8. DocTypes'
    BY <2>1, <2>4, <2>7 DEF DocTypes
  <2>9. CutsDocuments'
    BY <2>1, <2>2, <2>3, <2>4 DEF CutsDocuments, n
  <2>10. ChunksFit'
    <3> SUFFICES ASSUME NEW k \in DOMAIN chunks'
                 PROVE  /\ chunks'[k][2] - chunks'[k][1] \in 1..ChunkChars
                        /\ k > 1 => chunks'[k - 1][1] < chunks'[k][1]
                        /\ cutting' = "chunks" => chunks'[k][1] < from'
      BY DEF ChunksFit
    <3>1. ASSUME NEW i \in DOMAIN chunks
          PROVE  /\ chunks[i] \in Nat \X Nat /\ chunks[i][2] - chunks[i][1] \in 1..ChunkChars
                 /\ i > 1 => chunks[i - 1][1] < chunks[i][1]
                 /\ chunks[i][1] < from
      <4>1. chunks[i] \in Nat \X Nat
        BY <2>2, <2>7, <3>1, ElementOfSeq
      <4> QED BY <2>1, <3>1, <4>1 DEF ChunksFit
    <3>2. CASE k \in DOMAIN chunks /\ (chunks' = chunks \/ \A i \in 1..Len(chunks) : chunks'[i] = chunks[i])
      <4>1. chunks'[k] = chunks[k] /\ (k > 1 => chunks'[k - 1] = chunks[k - 1])
        <5>1. k \in Nat /\ (k > 1 => k - 1 \in 1..Len(chunks))
          BY <2>7, <3>2
        <5> QED BY <2>7, <3>2, <5>1
      <4>2. chunks[k] \in Nat \X Nat /\ chunks[k][1] < from /\ from < from' /\ from' \in Nat /\ from \in Nat
        BY <2>1, <2>2, <2>4, <3>1, <3>2
      <4>3. chunks[k][1] < from'
        BY <4>2
      <4> QED BY <3>1, <3>2, <4>1, <4>3
    <3>3. CASE k = Len(chunks) + 1 /\ chunks'[k] = <<from, end>> /\ \A i \in 1..Len(chunks) : chunks'[i] = chunks[i]
      <4>1. ASSUME k > 1 PROVE chunks'[k - 1][1] < from
        <5>1. k - 1 \in 1..Len(chunks) /\ k - 1 \in DOMAIN chunks
          BY <2>7, <3>3, <4>1
        <5> QED BY <3>1, <3>3, <5>1
      <4>2. chunks'[k][1] = from /\ chunks'[k][2] = end
        BY <3>3
      <4>3. end - from \in 1..ChunkChars
        BY <1>c, <2>2, <2>3
      <4> QED BY <2>1, <2>4, <4>1, <4>2, <4>3
    <3>4. k \in 1..Len(chunks')
      BY <2>7
    <3>5. k \in 1..Len(chunks) \/ k = Len(chunks) + 1
      <4>1. Len(chunks') = Len(chunks) \/ Len(chunks') = Len(chunks) + 1
        BY <2>6
      <4> DEFINE l == Len(chunks)
                 m == Len(chunks')
      <4>2. l \in Nat /\ (m = l \/ m = l + 1) /\ k \in 1..m
        BY <2>7, <3>4, <4>1
      <4> HIDE DEF l, m
      <4>3. k \in 1..l \/ k = l + 1
        BY <4>2
      <4> QED BY <4>3 DEF l
    <3> QED BY <2>6, <2>7, <3>2, <3>3, <3>4, <3>5
  <2>11. Covered'
    <3>1. \A c \in Range(chunks) : c \in Range(chunks')
      <4> SUFFICES ASSUME NEW i \in DOMAIN chunks PROVE chunks[i] \in Range(chunks')
        BY DEF Range
      <4>1. i \in DOMAIN chunks' /\ chunks'[i] = chunks[i]
        <5>1. CASE chunks' = chunks
          BY <5>1
        <5>2. CASE Len(chunks') = Len(chunks) + 1 /\ \A k \in 1..Len(chunks) : chunks'[k] = chunks[k]
          <6>1. i \in 1..Len(chunks) /\ i \in 1..(Len(chunks) + 1)
            BY <2>7
          <6> QED BY <2>7, <5>2, <6>1
        <5> QED BY <2>6, <5>1, <5>2
      <4> QED BY <4>1 DEF Range
    <3> SUFFICES ASSUME NEW a \in 0..n, NEW b \in 0..n, Word(a, b), b - a <= ChunkChars - LeastChars
                 PROVE  \/ \E c \in Range(chunks') : c[1] <= a /\ b <= c[2]
                        \/ cutting' = "chunks" /\ from' <= a
      BY <2>1 DEF Covered, Word, n
    <3>2. \/ \E c \in Range(chunks) : c[1] <= a /\ b <= c[2]
          \/ from <= a
      BY <2>1 DEF Covered, n
    <3>3. CASE \E c \in Range(chunks) : c[1] <= a /\ b <= c[2]
      BY <3>1, <3>3
    <3>4. CASE from <= a /\ b <= end
      <4>1. chunks' = Append(chunks, <<from, end>>)
        BY <2>5, <3>4
      <4>2. Len(chunks) + 1 \in DOMAIN chunks' /\ chunks'[Len(chunks) + 1] = <<from, end>>
        <5> DEFINE e == <<from, end>>
        <5> HIDE DEF e
        <5>1. e \in Nat \X Nat /\ chunks' = Append(chunks, e)
          BY <2>2, <2>3, <4>1 DEF e
        <5>2. Len(chunks') = Len(chunks) + 1 /\ chunks'[Len(chunks) + 1] = e
          BY <2>2, <5>1, AppendProperties
        <5> QED BY <2>7, <5>2 DEF e
      <4>3. <<from, end>> \in Range(chunks')
        BY <4>2 DEF Range
      <4> QED BY <3>4, <4>3
    <3>5. CASE from <= a /\ b > end
      <4>1. end < n
        BY <2>2, <2>3, <3>5
      <4>2. a > end
        BY <2>2, <2>3, <3>5, <4>1 DEF n
      <4> QED BY <2>1, <2>2, <2>3, <2>4, <4>1, <4>2
    <3> QED BY <2>3, <3>2, <3>3, <3>4, <3>5
  <2>12. RoomLeft'
    BY <2>1 DEF RoomLeft
  <2> QED BY <2>8, <2>9, <2>10, <2>11, <2>12
<1>5. CASE TakeEvidence
  <2>1. UNCHANGED <<script, from, chunks>> /\ cutting = "evidence" /\ cutting' \in {"evidence", "done"}
    BY <1>5 DEF TakeEvidence
  <2>2. CASE room > 0 /\ \E c \in Range(chunks) :
               LET size == Min({room, HeadingChars + c[2] - c[1]})
               IN  evidence' = Append(evidence, size) /\ room' = room - size - 2
    <3>1. PICK c \in Range(chunks) : LET size == Min({room, HeadingChars + c[2] - c[1]})
                                     IN  evidence' = Append(evidence, size) /\ room' = room - size - 2
      BY <2>2
    <3> DEFINE most == HeadingChars + c[2] - c[1]
               size == Min({room, most})
    <3>2. evidence' = Append(evidence, size) /\ room' = room - size - 2
      BY <3>1
    <3>3. most \in Int /\ room \in Int
      <4>1. PICK k \in DOMAIN chunks : c = chunks[k]
        BY DEF Range
      <4>2. c[2] - c[1] \in 1..ChunkChars /\ c \in Nat \X Nat
        <5>1. chunks \in Seq(Nat \X Nat)
          BY DEF DocTypes
        <5>2. DOMAIN chunks = 1..Len(chunks)
          BY <5>1, LenProperties
        <5>3. c \in Nat \X Nat
          BY <4>1, <5>1, <5>2, ElementOfSeq
        <5> QED BY <4>1, <5>3 DEF ChunksFit
      <4> QED BY <1>c, <4>2 DEF DocTypes
    <3> HIDE DEF most
    <3>4. size \in Int /\ size <= room
      <4> DEFINE S == {room, most}
      <4>1. \E x \in S : \A y \in S : x <= y
        BY <3>3
      <4> HIDE DEF S
      <4>2. Min(S) \in S /\ \A i \in S : Min(S) <= i
        BY <4>1 DEF Min
      <4> QED BY <3>3, <4>2 DEF S
    <3> HIDE DEF size
    <3>5. evidence \in Seq(Int) /\ room \in Int
      BY DEF DocTypes
    <3>6. evidence' \in Seq(Int) /\ Len(evidence') = Len(evidence) + 1 /\ Len(evidence) \in Nat
      BY <3>2, <3>4, <3>5, AppendProperties, LenProperties
    <3>7. SumOf(evidence') = SumOf(evidence) + size
      BY <3>2, <3>4, <3>5, SumAppends
    <3>8. RoomLeft'
      BY <1>c, <3>2, <3>4, <3>5, <3>6, <3>7 DEF RoomLeft
    <3> QED BY <2>1, <3>2, <3>4, <3>5, <3>6, <3>8 DEF DocTypes, CutsDocuments, ChunksFit, Covered, Word
  <2>3. CASE UNCHANGED <<room, evidence>>
    BY <2>1, <2>3 DEF DocTypes, CutsDocuments, ChunksFit, Covered, Word, RoomLeft
  <2> QED BY <1>5, <2>2, <2>3 DEF TakeEvidence
<1>6. CASE SendAnswer \/ PlanBubbles
  BY <1>6 DEF SendAnswer, PlanBubbles, DocTypes, CutsDocuments, ChunksFit, Covered, RoomLeft
<1>7. CASE UNCHANGED textVars
  BY <1>7 DEF textVars, DocTypes, CutsDocuments, ChunksFit, Covered, Word, RoomLeft, IsDocument
<1> QED BY <1>1, <1>2, <1>3, <1>4, <1>5, <1>6, <1>7 DEF TextsNext

(* Cutting a document loses no word that a chunk can hold, no chunk is     *)
(* too long, they go forward, and the evidence fits in its room.           *)
THEOREM DocumentsStayWhole == TextsSpec => []DocumentsArriveWhole
<1>1. DocInv => DocumentsArriveWhole
  <2> SUFFICES ASSUME DocInv PROVE DocumentsArriveWhole
    OBVIOUS
  <2>1. \A k \in DOMAIN chunks :
          /\ chunks[k][2] - chunks[k][1] \in 1..ChunkChars
          /\ k > 1 => chunks[k - 1][1] < chunks[k][1]
    BY DEF DocInv, ChunksFit
  <2>2. cutting = "evidence" =>
          \A a \in 0..Len(script), b \in 0..Len(script) :
            Word(a, b) /\ b - a <= ChunkChars - LeastChars =>
              \E c \in Range(chunks) : c[1] <= a /\ b <= c[2]
    BY DEF DocInv, Covered
  <2>3. FoldLeft(+, 0, evidence) + 2 * (Len(evidence) - 1) <= EvidenceChars
    <3>1. SumOf(evidence) + 2 * (Len(evidence) - 1) <= EvidenceChars
      BY TextsAssumption, LenProperties DEF DocInv, RoomLeft, DocTypes, TextsAssumption
    <3> QED BY <3>1 DEF SumOf
  <2> QED BY <2>1, <2>2, <2>3 DEF DocumentsArriveWhole
<1> QED BY <1>1, DocInvInit, DocInvNext, PTL DEF TextsSpec

-----------------------------------------------------------------------------
(* Answers (Texts).  A function that is defined by recursion over the      *)
(* numbers up to a bound has the values that the recursion gives it.       *)
Folds(g, n, X, base, step) ==
  g \in [0..n -> X] /\ g[0] = base /\ \A k \in 1..n : g[k] = step[<<k, g[k - 1]>>]

LEMMA FoldExists ==
  ASSUME NEW N, NEW X, NEW base, NEW step, N \in Nat, base \in X, step \in [(1..N) \X X -> X]
  PROVE  \E g : Folds(g, N, X, base, step)
<1> DEFINE Good(n) == \E g \in [0..n -> X] : g[0] = base /\ \A k \in 1..n : g[k] = step[<<k, g[k - 1]>>]
           bad == {n \in 0..N : ~Good(n)}
<1>1. SUFFICES ASSUME bad # {} PROVE FALSE
  <2>1. N \in 0..N
    OBVIOUS
  <2> QED BY <2>1 DEF Folds
<1> DEFINE m == Min(bad)
<1>2. m \in bad /\ \A i \in bad : m <= i
  <2>1. bad \in SUBSET (0..N)
    OBVIOUS
  <2> HIDE DEF bad
  <2> QED BY <1>1, <2>1, Extremes
<1>3. m \in 0..N /\ ~Good(m)
  BY <1>2
<1> HIDE DEF m
<1>4. CASE m = 0
  <2> DEFINE g == [i \in 0..0 |-> base]
  <2>1. g \in [0..0 -> X] /\ g[0] = base /\ \A k \in 1..0 : g[k] = step[<<k, g[k - 1]>>]
    OBVIOUS
  <2> QED BY <1>3, <1>4, <2>1
<1>5. CASE m # 0
  <2>1. m - 1 \in 0..N /\ Good(m - 1)
    BY <1>2, <1>3, <1>5
  <2>2. PICK g \in [0..(m - 1) -> X] : g[0] = base /\ \A k \in 1..(m - 1) : g[k] = step[<<k, g[k - 1]>>]
    BY <2>1
  <2> DEFINE h == [i \in 0..m |-> IF i = m THEN step[<<m, g[m - 1]>>] ELSE g[i]]
  <2>3. m \in 1..N /\ g[m - 1] \in X /\ step[<<m, g[m - 1]>>] \in X
    <3>1. m \in 1..N /\ m - 1 \in 0..(m - 1)
      BY <1>3, <1>5
    <3>2. <<m, g[m - 1]>> \in (1..N) \X X
      BY <2>2, <3>1
    <3> QED BY <2>2, <3>1, <3>2
  <2>4. h \in [0..m -> X] /\ h[0] = base
    BY <1>5, <2>2, <2>3
  <2>5. ASSUME NEW k \in 1..m PROVE h[k] = step[<<k, h[k - 1]>>]
    <3>1. CASE k = m
      <4>1. h[m] = step[<<m, g[m - 1]>>] /\ h[m - 1] = g[m - 1]
        BY <1>3, <1>5
      <4> HIDE DEF h
      <4> QED BY <3>1, <4>1
    <3>2. CASE k # m
      <4>1. k \in 1..(m - 1) /\ k \in 0..m /\ k - 1 \in 0..m /\ k - 1 # m
        BY <1>3, <1>5, <2>5, <3>2
      <4>2. h[k] = g[k] /\ h[k - 1] = g[k - 1]
        BY <3>2, <4>1
      <4> HIDE DEF h
      <4> QED BY <2>2, <4>1, <4>2
    <3> QED BY <3>1, <3>2
  <2> QED BY <1>3, <2>4, <2>5
<1> QED BY <1>4, <1>5

(* What FlattenSeq chooses.                                                *)
Flattens(ss, f) == f = [i \in 1..Len(ss) |-> IF i = 1 THEN ss[i] ELSE f[i - 1] \o ss[i]]
Flattening(ss) == CHOOSE f : Flattens(ss, f)

LEMMA FlattenIsChosen ==
  ASSUME NEW ss
  PROVE  FlattenSeq(ss) = IF Len(ss) = 0 THEN ss ELSE Flattening(ss)[Len(ss)]
BY DEF FlattenSeq, Flattens, Flattening

\* Two sequences agree up to a place.
Agree(f, h, m) == \A i \in 1..m : f[i] = h[i]

(* The same beginnings are flattened to the same.                          *)
LEMMA FlattensAgree ==
  ASSUME NEW ss, NEW tt, NEW f, NEW h, Flattens(ss, f), Flattens(tt, h), NEW m \in Nat,
         Len(ss) \in Nat, Len(tt) \in Nat, m <= Len(ss), m <= Len(tt), Agree(ss, tt, m)
  PROVE  Agree(f, h, m)
<1> USE DEF Agree
<1> DEFINE bad == {i \in 1..m : f[i] # h[i]}
           k == Min(bad)
<1>1. SUFFICES ASSUME bad # {} PROVE FALSE
  OBVIOUS
<1>2. k \in bad /\ \A i \in bad : k <= i
  <2>1. bad \in SUBSET (0..m)
    OBVIOUS
  <2> HIDE DEF bad
  <2> QED BY <1>1, <2>1, Extremes
<1>3. k \in 1..m /\ f[k] # h[k] /\ (k # 1 => k - 1 \in 1..m /\ k - 1 \notin bad)
  BY <1>2
<1> HIDE DEF k
<1>4. k # 1 => f[k - 1] = h[k - 1]
  BY <1>3
<1>5. k \in 1..Len(ss) /\ k \in 1..Len(tt) /\ ss[k] = tt[k]
  BY <1>3
<1>6. f[k] = IF k = 1 THEN ss[k] ELSE f[k - 1] \o ss[k]
  BY <1>5 DEF Flattens
<1>7. h[k] = IF k = 1 THEN tt[k] ELSE h[k - 1] \o tt[k]
  BY <1>5 DEF Flattens
<1> QED BY <1>3, <1>4, <1>5, <1>6, <1>7

IsFlattening(S, ss, f) ==
  /\ Flattens(ss, f) /\ FlattenSeq(ss) = f[Len(ss)] /\ Len(ss) \in Nat /\ Len(ss) >= 1
  /\ \A i \in 1..Len(ss) : f[i] \in Seq(S) /\ f[i] = IF i = 1 THEN ss[i] ELSE f[i - 1] \o ss[i]

(* Its values are sequences, each the one before with another piece.       *)
LEMMA FlattenIs ==
  ASSUME NEW S, NEW ss \in Seq(Seq(S)), ss # << >>, NEW f, f = Flattening(ss)
  PROVE  IsFlattening(S, ss, f)
<1> DEFINE n == Len(ss)
<1>1. n \in Nat /\ n >= 1 /\ DOMAIN ss = 1..n /\ \A i \in 1..n : ss[i] \in Seq(S)
  <2>1. n \in Nat /\ DOMAIN ss = 1..n /\ \A i \in 1..n : ss[i] \in Seq(S)
    BY LenProperties, ElementOfSeq
  <2>2. n # 0
    BY EmptySeq
  <2> QED BY <2>1, <2>2
<1> DEFINE step == [p \in (1..n) \X Seq(S) |-> IF p[1] = 1 THEN ss[1] ELSE p[2] \o ss[p[1]]]
<1>2. step \in [(1..n) \X Seq(S) -> Seq(S)]
  <2>1. ASSUME NEW p \in (1..n) \X Seq(S) PROVE (IF p[1] = 1 THEN ss[1] ELSE p[2] \o ss[p[1]]) \in Seq(S)
    <3>1. p[1] \in 1..n /\ p[2] \in Seq(S) /\ ss[p[1]] \in Seq(S) /\ 1 \in 1..n
      BY <1>1, <2>1
    <3>2. p[2] \o ss[p[1]] \in Seq(S)
      BY <3>1, ConcatProperties
    <3> QED BY <1>1, <3>1, <3>2
  <2> QED BY <2>1
<1>3. << >> \in Seq(Seq(S)) /\ << >> \in Seq(S)
  BY EmptySeq
<1>4. PICK g \in [0..n -> Seq(S)] : g[0] = << >> /\ \A i \in 1..n : g[i] = step[<<i, g[i - 1]>>]
  <2> DEFINE X == Seq(S)
             none == << >>
  <2>1. n \in Nat /\ none \in X /\ step \in [(1..n) \X X -> X]
    BY <1>1, <1>2, <1>3
  <2> HIDE DEF step, n, X, none
  <2>2. \E g : Folds(g, n, X, none, step)
    BY <2>1, FoldExists
  <2> QED BY <2>2 DEF X, none, Folds
<1>5. ASSUME NEW i \in 1..n
      PROVE  g[i] \in Seq(S) /\ g[i] = IF i = 1 THEN ss[i] ELSE g[i - 1] \o ss[i]
  <2>1. i - 1 \in 0..n /\ i \in 0..n
    BY <1>1
  <2>2. <<i, g[i - 1]>> \in (1..n) \X Seq(S) /\ g[i] \in Seq(S) /\ g[i] = step[<<i, g[i - 1]>>]
    BY <1>4, <2>1
  <2>3. step[<<i, g[i - 1]>>] = IF i = 1 THEN ss[1] ELSE g[i - 1] \o ss[i]
    BY <2>2
  <2> QED BY <2>2, <2>3
<1> HIDE DEF step
<1> DEFINE h == [i \in 1..n |-> g[i]]
<1>6. Flattens(ss, h)
  <2>1. ASSUME NEW i \in 1..n PROVE h[i] = IF i = 1 THEN ss[i] ELSE h[i - 1] \o ss[i]
    <3>1. i # 1 => i - 1 \in 1..n
      BY <1>1
    <3> QED BY <1>5, <3>1
  <2>2. h = [i \in 1..n |-> h[i]]
    OBVIOUS
  <2> HIDE DEF h
  <2>3. h = [i \in 1..n |-> IF i = 1 THEN ss[i] ELSE h[i - 1] \o ss[i]]
    BY <2>1, <2>2
  <2> QED BY <2>3 DEF Flattens
<1>7. Flattens(ss, f)
  BY <1>6 DEF Flattening
<1>8. \A i \in 1..n : f[i] = h[i]
  <2> HIDE DEF h
  <2>1. n <= n /\ Agree(ss, ss, n)
    BY <1>1 DEF Agree
  <2>2. Agree(f, h, n)
    BY <1>1, <1>6, <1>7, <2>1, FlattensAgree
  <2> QED BY <2>2 DEF Agree
<1>9. \A i \in 1..n : f[i] \in Seq(S) /\ f[i] = IF i = 1 THEN ss[i] ELSE f[i - 1] \o ss[i]
  <2>1. ASSUME NEW i \in 1..n PROVE f[i] \in Seq(S)
    BY <1>5, <1>8
  <2>2. ASSUME NEW i \in 1..n PROVE f[i] = IF i = 1 THEN ss[i] ELSE f[i - 1] \o ss[i]
    BY <1>7 DEF Flattens
  <2> QED BY <2>1, <2>2
<1>10. FlattenSeq(ss) = f[n]
  BY <1>1, FlattenIsChosen
<1> QED BY <1>1, <1>7, <1>9, <1>10 DEF IsFlattening

(* Nothing is flattened to nothing, and what is appended comes last.       *)
LEMMA FlattenNothing == FlattenSeq(<< >>) = << >>
BY FlattenIsChosen, EmptySeq

LEMMA FlattenAppends ==
  ASSUME NEW S, NEW ss \in Seq(Seq(S)), NEW s \in Seq(S)
  PROVE  FlattenSeq(ss) \in Seq(S) /\ FlattenSeq(Append(ss, s)) = FlattenSeq(ss) \o s
<1> DEFINE n == Len(ss)
           tt == Append(ss, s)
           f == Flattening(ss)
           h == Flattening(tt)
<1>1. /\ n \in Nat /\ tt \in Seq(Seq(S)) /\ Len(tt) = n + 1 /\ tt # << >>
      /\ tt[n + 1] = s /\ \A i \in 1..n : tt[i] = ss[i]
  BY LenProperties, AppendProperties
<1> HIDE DEF tt, n, f, h
<1>2. /\ FlattenSeq(tt) = h[n + 1]
      /\ \A i \in 1..(n + 1) : h[i] \in Seq(S) /\ h[i] = IF i = 1 THEN tt[i] ELSE h[i - 1] \o tt[i]
      /\ Flattens(tt, h)
  <2>1. /\ Flattens(tt, h) /\ FlattenSeq(tt) = h[Len(tt)]
        /\ \A i \in 1..Len(tt) : h[i] \in Seq(S) /\ h[i] = IF i = 1 THEN tt[i] ELSE h[i - 1] \o tt[i]
    <3>1. h = Flattening(tt)
      BY DEF h
    <3>2. IsFlattening(S, tt, h)
      BY <1>1, <3>1, FlattenIs
    <3> QED BY <3>2 DEF IsFlattening
  <2> QED BY <1>1, <2>1
<1>3. CASE ss = << >>
  <2>1. n = 0 /\ FlattenSeq(ss) = << >>
    BY <1>3, EmptySeq, FlattenNothing DEF n
  <2>2. h[1] = s /\ FlattenSeq(tt) = h[1]
    BY <1>1, <1>2, <2>1
  <2> QED BY <2>1, <2>2, EmptySeq, ConcatEmptySeq DEF tt
<1>4. CASE ss # << >>
  <2>1. /\ FlattenSeq(ss) = f[n] /\ n >= 1 /\ Flattens(ss, f)
        /\ \A i \in 1..n : f[i] \in Seq(S)
    <3>1. IsFlattening(S, ss, f)
      BY <1>4, FlattenIs DEF f
    <3> QED BY <3>1 DEF IsFlattening, n
  <2>2. f[n] = h[n]
    <3>1. n <= n /\ n <= n + 1 /\ n \in 1..n /\ n + 1 \in Nat
      BY <1>1, <2>1
    <3>2. Len(ss) = n /\ Agree(ss, tt, n)
      BY <1>1 DEF n, Agree
    <3>3. Flattens(ss, f) /\ Flattens(tt, h)
      BY <1>2, <2>1
    <3>4. Agree(f, h, n)
      BY <1>1, <3>1, <3>2, <3>3, FlattensAgree
    <3> QED BY <3>1, <3>4 DEF Agree
  <2>3. h[n + 1] = h[n] \o s
    <3>1. n + 1 \in 1..(n + 1) /\ n + 1 # 1 /\ (n + 1) - 1 = n
      BY <1>1, <2>1
    <3> QED BY <1>1, <1>2, <3>1
  <2>4. n \in 1..n
    BY <1>1, <2>1
  <2> QED BY <1>2, <2>1, <2>2, <2>3, <2>4 DEF tt
<1> QED BY <1>3, <1>4

(* Inductions go by prefixes: the first place where something fails comes  *)
(* after one where it does not, unless it is the first of all.             *)
LEMMA FirstFailure ==
  ASSUME NEW n, n \in Nat, NEW bad, bad \subseteq 0..n, bad # {}
  PROVE  \E m \in bad : m \in 0..n /\ (m = 0 \/ (m \in 1..n /\ m - 1 \in 0..n /\ m - 1 \notin bad))
<1> DEFINE m == Min(bad)
<1>1. m \in bad /\ \A i \in bad : m <= i
  <2>1. bad \in SUBSET (0..n)
    OBVIOUS
  <2> QED BY <2>1, Extremes
<1> HIDE DEF m
<1>2. m \in 0..n /\ m - 1 \notin bad
  BY <1>1
<1>3. m = 0 \/ (m \in 1..n /\ m - 1 \in 0..n)
  BY <1>2
<1> QED BY <1>1, <1>2, <1>3

Prefix(s, n) == SubSeq(s, 1, n)

LEMMA PrefixGrows ==
  ASSUME NEW S, NEW s, s \in Seq(S), NEW m, m \in 1..Len(s)
  PROVE  Prefix(s, m - 1) \in Seq(S) /\ Prefix(s, m) = Append(Prefix(s, m - 1), s[m]) /\ s[m] \in S
<1>1. Len(s) \in Nat /\ m \in 1..Len(s) /\ 1 \in 1..Len(s) /\ s[m] \in S /\ \A i \in 1..(m - 1) : s[i] \in S
  BY LenProperties, ElementOfSeq
<1>2. Prefix(s, m) = Prefix(s, m - 1) \o <<s[m]>>
  BY <1>1, SubSeqRecursiveSecond DEF Prefix
<1>3. Prefix(s, m - 1) \in Seq(S)
  <2>1. 1 \in Int /\ m - 1 \in Int
    BY <1>1
  <2> QED BY <1>1, <2>1, SubSeqProperties DEF Prefix
<1> QED BY <1>1, <1>2, <1>3, AppendIsConcat

LEMMA PrefixEnds ==
  ASSUME NEW S, NEW s, s \in Seq(S)
  PROVE  Prefix(s, 0) = << >> /\ Prefix(s, Len(s)) = s /\ Len(s) \in Nat /\ << >> \in Seq(S)
BY SubSeqEmpty, SubSeqFull, LenProperties, EmptySeq DEF Prefix

LEMMA OneIs ==
  ASSUME NEW S, NEW e, e \in S
  PROVE  /\ <<e>> \in Seq(S) /\ Len(<<e>>) = 1 /\ <<e>>[1] = e
         /\ Append(<< >>, e) = <<e>> /\ << >> \in Seq(S)
<1>1. << >> \in Seq(S) /\ Len(<< >>) = 0
  BY EmptySeq
<1>2. Append(<< >>, e) = <<e>>
  BY <1>1, AppendIsConcat, ConcatEmptySeq
<1> QED BY <1>1, <1>2, AppendProperties

LEMMA AppendAfter ==
  ASSUME NEW S, NEW a, a \in Seq(S), NEW p, p \in Seq(S), NEW e, e \in S
  PROVE  a \o Append(p, e) = Append(a \o p, e) /\ a \o p \in Seq(S)
<1>1. Append(p, e) = p \o <<e>> /\ <<e>> \in Seq(S)
  BY AppendIsConcat, OneIs
<1>2. a \o p \in Seq(S) /\ (a \o p) \o <<e>> = a \o (p \o <<e>>)
  BY <1>1, ConcatProperties, ConcatAssociative
<1>3. Append(a \o p, e) = (a \o p) \o <<e>>
  BY <1>2, AppendIsConcat
<1> QED BY <1>1, <1>2, <1>3

(* Two sequences one after the other are flattened one after the other.    *)
LEMMA FlattenOfTwo ==
  ASSUME NEW S, NEW a, a \in Seq(Seq(S)), NEW b, b \in Seq(Seq(S))
  PROVE  FlattenSeq(a \o b) = FlattenSeq(a) \o FlattenSeq(b) /\ FlattenSeq(a) \in Seq(S) /\ FlattenSeq(b) \in Seq(S)
<1>1. \A x \in Seq(Seq(S)) : FlattenSeq(x) \in Seq(S)
  <2> SUFFICES ASSUME NEW x \in Seq(Seq(S)) PROVE FlattenSeq(x) \in Seq(S)
    OBVIOUS
  <2>1. << >> \in Seq(S)
    BY EmptySeq
  <2> QED BY <2>1, FlattenAppends
<1> DEFINE n == Len(b)
           bad == {i \in 0..n : FlattenSeq(a \o Prefix(b, i)) # FlattenSeq(a) \o FlattenSeq(Prefix(b, i))}
<1>2. n \in Nat /\ Prefix(b, 0) = << >> /\ Prefix(b, n) = b
  BY PrefixEnds
<1>3. ASSUME bad # {} PROVE FALSE
  <2>1. bad \subseteq 0..n
    OBVIOUS
  <2> DEFINE Fails(m) == FlattenSeq(a \o Prefix(b, m)) # FlattenSeq(a) \o FlattenSeq(Prefix(b, m))
  <2>2. \A m \in 0..n : m \in bad <=> Fails(m)
    OBVIOUS
  <2>3. PICK m \in bad : m \in 0..n /\ (m = 0 \/ (m \in 1..n /\ m - 1 \in 0..n /\ m - 1 \notin bad))
    <3> HIDE DEF bad, n
    <3> QED BY <1>2, <1>3, <2>1, FirstFailure
  <2>4. Fails(m) /\ (m = 0 \/ (m \in 1..n /\ ~Fails(m - 1)))
    <3> HIDE DEF bad, Fails, n
    <3> QED BY <2>2, <2>3
  <2>5. CASE m = 0
    <3>1. a \o Prefix(b, 0) = a /\ FlattenSeq(a) \o FlattenSeq(Prefix(b, 0)) = FlattenSeq(a)
      <4>1. a \o << >> = a
        BY ConcatEmptySeq
      <4>2. FlattenSeq(a) \o << >> = FlattenSeq(a)
        BY <1>1, ConcatEmptySeq
      <4> QED BY <1>2, <4>1, <4>2, FlattenNothing
    <3> QED BY <2>4, <2>5, <3>1
  <2>6. CASE m \in 1..n /\ ~Fails(m - 1)
    <3> DEFINE p == Prefix(b, m - 1)
               e == b[m]
    <3>1. p \in Seq(Seq(S)) /\ e \in Seq(S) /\ Prefix(b, m) = Append(p, e)
      BY <2>6, PrefixGrows
    <3>2. FlattenSeq(a \o p) = FlattenSeq(a) \o FlattenSeq(p)
      BY <2>6
    <3>3. FlattenSeq(a \o Prefix(b, m)) # FlattenSeq(a) \o FlattenSeq(Prefix(b, m))
      BY <2>4
    <3> HIDE DEF p, e, n, bad, Fails
    <3>4. a \o Append(p, e) = Append(a \o p, e) /\ a \o p \in Seq(Seq(S))
      BY <3>1, AppendAfter
    <3>5. FlattenSeq(Append(p, e)) = FlattenSeq(p) \o e
      BY <3>1, FlattenAppends
    <3>6. FlattenSeq(Append(a \o p, e)) = FlattenSeq(a \o p) \o e
      BY <3>1, <3>4, FlattenAppends
    <3>7. (FlattenSeq(a) \o FlattenSeq(p)) \o e = FlattenSeq(a) \o (FlattenSeq(p) \o e)
      <4> DEFINE c == FlattenSeq(a)
                 d == FlattenSeq(p)
      <4>1. c \in Seq(S) /\ d \in Seq(S) /\ e \in Seq(S)
        BY <1>1, <3>1
      <4> HIDE DEF c, d
      <4>2. (c \o d) \o e = c \o (d \o e)
        BY <4>1, ConcatAssociative
      <4> QED BY <4>2 DEF c, d
    <3> QED BY <3>1, <3>2, <3>3, <3>4, <3>5, <3>6, <3>7
  <2> QED BY <2>4, <2>5, <2>6
<1>4. FlattenSeq(a \o Prefix(b, n)) = FlattenSeq(a) \o FlattenSeq(Prefix(b, n))
  <2>1. n \in 0..n
    BY <1>2
  <2> QED BY <1>3, <2>1
<1> QED BY <1>1, <1>2, <1>4

(* One piece is flattened to itself.                                       *)
LEMMA FlattenOne ==
  ASSUME NEW S, NEW s, s \in Seq(S)
  PROVE  FlattenSeq(<<s>>) = s
<1>1. << >> \in Seq(Seq(S)) /\ Append(<< >>, s) = <<s>> /\ << >> \o s = s
  BY EmptySeq, ConcatEmptySeq
<1> QED BY <1>1, FlattenAppends, FlattenNothing

(* Sequences by their places.                                              *)
LEMMA FunctionIsSeq ==
  ASSUME NEW S, NEW n, n \in Nat, NEW f, f \in [1..n -> S]
  PROVE  f \in Seq(S) /\ Len(f) = n /\ DOMAIN f = 1..n
<1>1. f \in Seq(S)
  BY SeqDef
<1>2. Len(f) \in Nat /\ DOMAIN f = 1..Len(f) /\ DOMAIN f = 1..n
  BY <1>1, LenProperties
<1>3. Len(f) = n
  BY <1>2
<1> QED BY <1>1, <1>2, <1>3

\* The values of F at the elements of u.
Mapped(u, F) == [i \in DOMAIN u |-> F[u[i]]]

IsMapped(t, u, F, B) ==
  t \in Seq(B) /\ Len(t) = Len(u) /\ \A i \in 1..Len(u) : t[i] = F[u[i]]
Maps(F, A, B) == F \in [A -> B]

LEMMA MappedIs ==
  ASSUME NEW A, NEW B, NEW F, Maps(F, A, B), NEW u, u \in Seq(A)
  PROVE  IsMapped(Mapped(u, F), u, F, B)
<1>1. Len(u) \in Nat /\ DOMAIN u = 1..Len(u) /\ \A i \in 1..Len(u) : u[i] \in A
  BY LenProperties, ElementOfSeq
<1>2. Mapped(u, F) \in [1..Len(u) -> B] /\ \A i \in 1..Len(u) : Mapped(u, F)[i] = F[u[i]]
  BY <1>1 DEF Mapped, Maps
<1> HIDE DEF Mapped
<1> QED BY <1>1, <1>2, FunctionIsSeq DEF IsMapped

LEMMA MappedNothing ==
  ASSUME NEW A, NEW B, NEW F, Maps(F, A, B)
  PROVE  Mapped(<< >>, F) = << >>
<1> DEFINE none == << >>
<1>1. none \in Seq(A) /\ Len(none) = 0
  BY EmptySeq
<1> HIDE DEF none
<1>2. IsMapped(Mapped(none, F), none, F, B)
  BY <1>1, MappedIs
<1>3. Mapped(none, F) \in Seq(B) /\ Len(Mapped(none, F)) = 0
  BY <1>1, <1>2 DEF IsMapped
<1> QED BY <1>3, EmptySeq DEF none

LEMMA MappedOfTwo ==
  ASSUME NEW A, NEW B, NEW F, Maps(F, A, B), NEW u, u \in Seq(A), NEW v, v \in Seq(A)
  PROVE  Mapped(u \o v, F) = Mapped(u, F) \o Mapped(v, F)
<1> DEFINE m == Len(u)
           n == Len(v)
           w == u \o v
           s == Mapped(w, F)
           p == Mapped(u, F)
           q == Mapped(v, F)
           t == p \o q
<1>1. /\ w \in Seq(A) /\ Len(w) = m + n /\ m \in Nat /\ n \in Nat
      /\ \A i \in 1..(m + n) : w[i] = IF i <= m THEN u[i] ELSE v[i - m]
  BY ConcatProperties, LenProperties
<1> HIDE DEF w, m, n
<1>2. s \in Seq(B) /\ Len(s) = m + n /\ \A i \in 1..(m + n) : s[i] = F[w[i]]
  BY <1>1, MappedIs DEF IsMapped
<1>3. /\ p \in Seq(B) /\ Len(p) = m /\ \A i \in 1..m : p[i] = F[u[i]]
      /\ q \in Seq(B) /\ Len(q) = n /\ \A i \in 1..n : q[i] = F[v[i]]
  BY MappedIs DEF m, n, IsMapped
<1> HIDE DEF s, p, q
<1>4. t \in Seq(B) /\ Len(t) = m + n /\ \A i \in 1..(m + n) : t[i] = IF i <= m THEN p[i] ELSE q[i - m]
  BY <1>3, ConcatProperties
<1> HIDE DEF t
<1>5. ASSUME NEW i \in 1..(m + n) PROVE s[i] = t[i]
  <2>0. s[i] = F[w[i]] /\ w[i] = (IF i <= m THEN u[i] ELSE v[i - m]) /\ t[i] = (IF i <= m THEN p[i] ELSE q[i - m])
    BY <1>1, <1>2, <1>4
  <2>1. CASE i <= m
    <3>1. i \in 1..m
      BY <1>1, <2>1
    <3>2. p[i] = F[u[i]]
      BY <1>3, <3>1
    <3> QED BY <2>0, <2>1, <3>2
  <2>2. CASE ~(i <= m)
    <3>1. i - m \in 1..n
      BY <1>1, <2>2
    <3>2. q[i - m] = F[v[i - m]]
      BY <1>3, <3>1
    <3> QED BY <2>0, <2>2, <3>2
  <2> QED BY <2>1, <2>2
<1>6. s = t
  BY <1>2, <1>4, <1>5, SeqEqual
<1> QED BY <1>6 DEF s, t, p, q, w

(* The words of atoms, of atoms one after the other, and of pieces.        *)
Atomic == [a \in Atom |-> IF a \in Gap THEN << >> ELSE <<a>>]

LEMMA AtomicIs == Maps(Atomic, Atom, Seq(Atom))
<1>1. ASSUME NEW a \in Atom PROVE (IF a \in Gap THEN << >> ELSE <<a>>) \in Seq(Atom)
  BY OneIs
<1> QED BY <1>1 DEF Atomic, Maps

LEMMA WordsAre ==
  ASSUME NEW u, u \in Seq(Atom)
  PROVE  Words(u) = FlattenSeq(Mapped(u, Atomic)) /\ Words(u) \in Seq(Atom)
<1>1. \A i \in DOMAIN u : u[i] \in Atom
  BY LenProperties, ElementOfSeq
<1>2. Mapped(u, Atomic) = [i \in DOMAIN u |-> IF u[i] \in Gap THEN << >> ELSE <<u[i]>>]
  BY <1>1 DEF Mapped, Atomic
<1>3. Words(u) = FlattenSeq(Mapped(u, Atomic))
  BY <1>2 DEF Words
<1>4. Mapped(u, Atomic) \in Seq(Seq(Atom)) /\ << >> \in Seq(Atom)
  BY AtomicIs, MappedIs, EmptySeq DEF IsMapped
<1>5. FlattenSeq(Mapped(u, Atomic)) \in Seq(Atom)
  <2> DEFINE t == Mapped(u, Atomic)
  <2> HIDE DEF t
  <2> QED BY <1>4, FlattenAppends DEF t
<1> QED BY <1>3, <1>5

LEMMA WordsOfNothing == Words(<< >>) = << >>
<1>1. << >> \in Seq(Atom)
  BY EmptySeq
<1>2. Mapped(<< >>, Atomic) = << >>
  BY AtomicIs, MappedNothing
<1> QED BY <1>1, <1>2, WordsAre, FlattenNothing

LEMMA WordsOfTwo ==
  ASSUME NEW u, u \in Seq(Atom), NEW v, v \in Seq(Atom)
  PROVE  Words(u \o v) = Words(u) \o Words(v)
<1> DEFINE S == Atom
           F == Atomic
           p == Mapped(u, F)
           q == Mapped(v, F)
<1>1. u \o v \in Seq(Atom)
  BY ConcatProperties
<1>2. Words(u \o v) = FlattenSeq(Mapped(u \o v, F)) /\ Words(u) = FlattenSeq(p) /\ Words(v) = FlattenSeq(q)
  BY <1>1, WordsAre
<1>3. Mapped(u \o v, F) = p \o q /\ p \in Seq(Seq(S)) /\ q \in Seq(Seq(S))
  BY AtomicIs, MappedOfTwo, MappedIs DEF IsMapped
<1> HIDE DEF p, q, F, S
<1>4. FlattenSeq(p \o q) = FlattenSeq(p) \o FlattenSeq(q)
  BY <1>3, FlattenOfTwo
<1> QED BY <1>2, <1>3, <1>4

LEMMA WordsOfOne ==
  ASSUME NEW a, a \in Atom
  PROVE  Words(<<a>>) = IF a \in Gap THEN << >> ELSE <<a>>
<1> DEFINE u == <<a>>
           t == Mapped(u, Atomic)
           e == Atomic[a]
<1>1. u \in Seq(Atom) /\ Len(u) = 1 /\ u[1] = a
  BY OneIs
<1>2. e = (IF a \in Gap THEN << >> ELSE <<a>>) /\ e \in Seq(Atom)
  BY AtomicIs DEF Atomic, Maps
<1> HIDE DEF u
<1>3. t \in Seq(Seq(Atom)) /\ Len(t) = 1 /\ t[1] = e
  BY <1>1, AtomicIs, MappedIs DEF IsMapped
<1> HIDE DEF t, e
<1>4. <<e>> \in Seq(Seq(Atom)) /\ Len(<<e>>) = 1 /\ <<e>>[1] = e
  BY <1>2, OneIs
<1>5. t = <<e>>
  <2>1. \A i \in 1..Len(t) : t[i] = <<e>>[i]
    BY <1>3, <1>4
  <2> QED BY <1>3, <1>4, <2>1, SeqEqual
<1>6. FlattenSeq(t) = e
  BY <1>2, <1>5, FlattenOne
<1> QED BY <1>1, <1>2, <1>6, WordsAre DEF u, t

(* What holds at first, and at a place if it holds before it, holds at     *)
(* every place up to n.                                                    *)
Climbs(good, n) == 0 \in good /\ \A m \in 1..n : m - 1 \in good => m \in good

LEMMA Climb ==
  ASSUME NEW n, n \in Nat, NEW good, Climbs(good, n), NEW k, k \in 0..n
  PROVE  k \in good
<1> DEFINE bad == (0..n) \ good
<1>1. ASSUME bad # {} PROVE FALSE
  <2>1. bad \subseteq 0..n
    OBVIOUS
  <2>2. PICK m \in bad : m \in 0..n /\ (m = 0 \/ (m \in 1..n /\ m - 1 \in 0..n /\ m - 1 \notin bad))
    <3> HIDE DEF bad
    <3> QED BY <1>1, <2>1, FirstFailure
  <2> QED BY <2>2 DEF Climbs
<1> QED BY <1>1

\* Pieces with the same words.
SameWords(f, h) == Len(f) = Len(h) /\ \A i \in 1..Len(f) : Words(f[i]) = Words(h[i])

LEMMA WordsOfPieces ==
  ASSUME NEW f, f \in Seq(Seq(Atom)), NEW h, h \in Seq(Seq(Atom)), SameWords(f, h)
  PROVE  Words(FlattenSeq(f)) = Words(FlattenSeq(h))
<1> DEFINE n == Len(f)
           Holds(m) == Words(FlattenSeq(Prefix(f, m))) = Words(FlattenSeq(Prefix(h, m)))
           good == {m \in 0..n : Holds(m)}
<1>1. /\ n \in Nat /\ Len(h) = n /\ Prefix(f, 0) = << >> /\ Prefix(h, 0) = << >>
      /\ Prefix(f, n) = f /\ Prefix(h, n) = h
  BY PrefixEnds DEF SameWords
<1>2. 0 \in good
  BY <1>1
<1>3. ASSUME NEW m \in 1..n, m - 1 \in good PROVE m \in good
  <2> DEFINE p == Prefix(f, m - 1)
             q == Prefix(h, m - 1)
             d == f[m]
             e == h[m]
  <2>1. /\ p \in Seq(Seq(Atom)) /\ d \in Seq(Atom) /\ Prefix(f, m) = Append(p, d)
        /\ q \in Seq(Seq(Atom)) /\ e \in Seq(Atom) /\ Prefix(h, m) = Append(q, e)
    BY <1>1, PrefixGrows
  <2>2. Words(FlattenSeq(p)) = Words(FlattenSeq(q)) /\ Words(d) = Words(e)
    BY <1>3 DEF SameWords
  <2> HIDE DEF p, q, d, e
  <2>3. /\ FlattenSeq(Append(p, d)) = FlattenSeq(p) \o d /\ FlattenSeq(p) \in Seq(Atom)
        /\ FlattenSeq(Append(q, e)) = FlattenSeq(q) \o e /\ FlattenSeq(q) \in Seq(Atom)
    BY <2>1, FlattenAppends
  <2>4. /\ Words(FlattenSeq(p) \o d) = Words(FlattenSeq(p)) \o Words(d)
        /\ Words(FlattenSeq(q) \o e) = Words(FlattenSeq(q)) \o Words(e)
    BY <2>1, <2>3, WordsOfTwo
  <2>5. Holds(m)
    BY <2>1, <2>2, <2>3, <2>4
  <2>6. m \in 0..n
    BY <1>1
  <2> QED BY <2>5, <2>6
<1>4. n \in good
  <2>1. Climbs(good, n) /\ n \in 0..n
    <3> HIDE DEF good
    <3> QED BY <1>1, <1>2, <1>3 DEF Climbs
  <2> HIDE DEF good, n
  <2> QED BY <1>1, <2>1, Climb
<1> QED BY <1>1, <1>4

\* Each element on its own.
Singles(h, u) == Len(h) = Len(u) /\ \A i \in 1..Len(u) : h[i] = <<u[i]>>

LEMMA FlattenSingles ==
  ASSUME NEW S, NEW u, u \in Seq(S), NEW h, h \in Seq(Seq(S)), Singles(h, u)
  PROVE  FlattenSeq(h) = u
<1> DEFINE n == Len(u)
           Holds(m) == FlattenSeq(Prefix(h, m)) = Prefix(u, m)
           good == {m \in 0..n : Holds(m)}
<1>1. /\ n \in Nat /\ Len(h) = n /\ Prefix(u, 0) = << >> /\ Prefix(h, 0) = << >>
      /\ Prefix(u, n) = u /\ Prefix(h, n) = h
  BY PrefixEnds DEF Singles
<1>2. 0 \in good
  BY <1>1, FlattenNothing
<1>3. ASSUME NEW m \in 1..n, m - 1 \in good PROVE m \in good
  <2> DEFINE p == Prefix(u, m - 1)
             q == Prefix(h, m - 1)
             d == u[m]
             e == h[m]
  <2>1. /\ p \in Seq(S) /\ d \in S /\ Prefix(u, m) = Append(p, d)
        /\ q \in Seq(Seq(S)) /\ e \in Seq(S) /\ Prefix(h, m) = Append(q, e)
    BY <1>1, PrefixGrows
  <2>2. FlattenSeq(q) = p /\ e = <<d>>
    BY <1>3 DEF Singles
  <2> HIDE DEF p, q, d, e
  <2>3. FlattenSeq(Append(q, e)) = FlattenSeq(q) \o e
    BY <2>1, FlattenAppends
  <2>4. Append(p, d) = p \o <<d>>
    BY <2>1, AppendIsConcat
  <2>5. Holds(m)
    BY <2>1, <2>2, <2>3, <2>4
  <2>6. m \in 0..n
    BY <1>1
  <2> QED BY <2>5, <2>6
<1>4. n \in good
  <2>1. Climbs(good, n) /\ n \in 0..n
    <3> HIDE DEF good
    <3> QED BY <1>1, <1>2, <1>3 DEF Climbs
  <2> HIDE DEF good, n
  <2> QED BY <1>1, <2>1, Climb
<1> QED BY <1>1, <1>4

\* Pieces that are each an atom, or what has the same words.
SamePieces(f, u) == Len(f) = Len(u) /\ \A i \in 1..Len(u) : Words(f[i]) = Words(<<u[i]>>)

LEMMA WordsByPieces ==
  ASSUME NEW u, u \in Seq(Atom), NEW f, f \in Seq(Seq(Atom)), SamePieces(f, u)
  PROVE  Words(FlattenSeq(f)) = Words(u)
<1> DEFINE F == [a \in Atom |-> <<a>>]
           h == Mapped(u, F)
<1>1. Maps(F, Atom, Seq(Atom))
  BY OneIs DEF Maps
<1>2. \A i \in 1..Len(u) : F[u[i]] = <<u[i]>>
  BY ElementOfSeq
<1> HIDE DEF F
<1>3. IsMapped(h, u, F, Seq(Atom))
  BY <1>1, MappedIs
<1> HIDE DEF h
<1>4. h \in Seq(Seq(Atom)) /\ Singles(h, u) /\ SameWords(f, h)
  BY <1>2, <1>3 DEF IsMapped, Singles, SameWords, SamePieces
<1>5. FlattenSeq(h) = u
  BY <1>4, FlattenSingles
<1> QED BY <1>4, <1>5, WordsOfPieces

(* Sizes add up.                                                           *)
Widths == [a \in Atom |-> Width(a)]

LEMMA SizeIs ==
  ASSUME NEW u, u \in Seq(Atom)
  PROVE  Size(u) = SumOf(Mapped(u, Widths)) /\ IsMapped(Mapped(u, Widths), u, Widths, Int)
<1>1. Maps(Widths, Atom, Int)
  BY DEF Maps, Widths, Width
<1>2. \A i \in DOMAIN u : Widths[u[i]] = Width(u[i])
  <2>1. \A i \in DOMAIN u : u[i] \in Atom
    BY LenProperties, ElementOfSeq
  <2> QED BY <2>1 DEF Widths
<1>3. Mapped(u, Widths) = [i \in DOMAIN u |-> Width(u[i])]
  BY <1>2 DEF Mapped
<1>4. IsMapped(Mapped(u, Widths), u, Widths, Int)
  BY <1>1, MappedIs
<1> QED BY <1>3, <1>4 DEF Size, SumOf

LEMMA SumOfAny ==
  ASSUME NEW x, x \in Seq(Int)
  PROVE  SumOf(x) \in Int
<1> DEFINE n == Len(x)
           good == {m \in 0..n : SumOf(Prefix(x, m)) \in Int}
<1>1. n \in Nat /\ Prefix(x, 0) = << >> /\ Prefix(x, n) = x
  BY PrefixEnds
<1>2. 0 \in good
  BY <1>1, SumOfNothing
<1>3. ASSUME NEW m \in 1..n, m - 1 \in good PROVE m \in good
  <2> DEFINE p == Prefix(x, m - 1)
  <2>1. p \in Seq(Int) /\ x[m] \in Int /\ Prefix(x, m) = Append(p, x[m]) /\ SumOf(p) \in Int
    BY <1>3, PrefixGrows
  <2> HIDE DEF p
  <2>2. SumOf(Append(p, x[m])) = SumOf(p) + x[m]
    BY <2>1, SumAppends
  <2>3. m \in 0..n
    BY <1>1
  <2>4. SumOf(Prefix(x, m)) \in Int
    BY <2>1, <2>2
  <2> QED BY <2>3, <2>4
<1>4. Climbs(good, n) /\ n \in 0..n
  <2> HIDE DEF good
  <2> QED BY <1>1, <1>2, <1>3 DEF Climbs
<1>5. n \in good
  <2> HIDE DEF good, n
  <2> QED BY <1>1, <1>4, Climb
<1> QED BY <1>1, <1>5

LEMMA SumOfTwo ==
  ASSUME NEW Z, Z = Int, NEW a, a \in Seq(Z), NEW b, b \in Seq(Z)
  PROVE  SumOf(a \o b) = SumOf(a) + SumOf(b) /\ SumOf(a) \in Z /\ SumOf(b) \in Z
<1>0. SumOf(a) \in Z /\ SumOf(b) \in Z
  BY SumOfAny
<1> DEFINE n == Len(b)
           Holds(m) == SumOf(a \o Prefix(b, m)) = SumOf(a) + SumOf(Prefix(b, m))
           good == {m \in 0..n : Holds(m)}
<1>1. n \in Nat /\ Prefix(b, 0) = << >> /\ Prefix(b, n) = b
  BY PrefixEnds
<1>2. 0 \in good
  <2>1. a \o << >> = a
    BY ConcatEmptySeq
  <2>2. SumOf(a \o Prefix(b, 0)) = SumOf(a) /\ SumOf(Prefix(b, 0)) = 0
    BY <1>1, <2>1, SumOfNothing
  <2>3. Holds(0)
    BY <1>0, <2>2
  <2> QED BY <1>1, <2>3
<1>3. ASSUME NEW m \in 1..n, m - 1 \in good PROVE m \in good
  <2> DEFINE p == Prefix(b, m - 1)
             e == b[m]
             t == Append(p, e)
  <2>1. p \in Seq(Z) /\ e \in Z /\ Prefix(b, m) = t
    BY PrefixGrows
  <2>2. SumOf(a \o p) = SumOf(a) + SumOf(p)
    BY <1>3
  <2> HIDE DEF p, e
  <2>3. a \o t = Append(a \o p, e) /\ a \o p \in Seq(Z)
    BY <2>1, AppendAfter
  <2>4. SumOf(t) = SumOf(p) + e /\ SumOf(Append(a \o p, e)) = SumOf(a \o p) + e /\ SumOf(p) \in Z
    BY <2>1, <2>3, SumAppends, SumOfAny
  <2> HIDE DEF t
  <2>5. Holds(m)
    BY <1>0, <2>1, <2>2, <2>3, <2>4
  <2>6. m \in 0..n
    BY <1>1
  <2> QED BY <2>5, <2>6
<1>4. n \in good
  <2>1. Climbs(good, n) /\ n \in 0..n
    <3> HIDE DEF good
    <3> QED BY <1>1, <1>2, <1>3 DEF Climbs
  <2> HIDE DEF good, n
  <2> QED BY <1>1, <2>1, Climb
<1> QED BY <1>0, <1>1, <1>4

LEMMA SizeOfTwo ==
  ASSUME NEW u, u \in Seq(Atom), NEW v, v \in Seq(Atom)
  PROVE  Size(u \o v) = Size(u) + Size(v) /\ Size(u) \in Int /\ Size(v) \in Int
<1> DEFINE p == Mapped(u, Widths)
           q == Mapped(v, Widths)
<1>1. u \o v \in Seq(Atom)
  BY ConcatProperties
<1>2. /\ Size(u) = SumOf(p) /\ Size(v) = SumOf(q) /\ Size(u \o v) = SumOf(Mapped(u \o v, Widths))
      /\ p \in Seq(Int) /\ q \in Seq(Int)
  BY <1>1, SizeIs DEF IsMapped
<1>3. Maps(Widths, Atom, Int)
  BY DEF Maps, Widths, Width
<1>4. Mapped(u \o v, Widths) = p \o q
  BY <1>3, MappedOfTwo
<1> HIDE DEF p, q
<1> QED BY <1>2, <1>4, SumOfTwo

-----------------------------------------------------------------------------
(* Pieces put together.                                                    *)
SomePieces(S) == Seq(Seq(S)) \ {<< >>}
Joined(done, p) == Append(Front(done), Last(done) \o p)

LEMMA FrontAndLast ==
  ASSUME NEW S, NEW s, s \in Seq(S), s # << >>
  PROVE  /\ Front(s) \in Seq(S) /\ Last(s) \in S /\ Append(Front(s), Last(s)) = s
         /\ Last(s) = s[Len(s)] /\ Len(Front(s)) = Len(s) - 1 /\ Len(s) \in Nat /\ Len(s) >= 1
         /\ \A i \in 1..(Len(s) - 1) : Front(s)[i] = s[i]
<1> DEFINE n == Len(s)
<1>1. n \in Nat /\ n # 0
  BY LenProperties, EmptySeq
<1>2. n \in 1..n
  BY <1>1
<1>3. Front(s) = Prefix(s, n - 1) /\ Last(s) = s[n]
  BY DEF Front, Last, Prefix
<1>4. Prefix(s, n - 1) \in Seq(S) /\ Prefix(s, n) = Append(Prefix(s, n - 1), s[n]) /\ s[n] \in S /\ Prefix(s, n) = s
  BY <1>2, PrefixGrows, PrefixEnds
<1>5. Len(Append(Front(s), Last(s))) = Len(Front(s)) + 1 /\ \A i \in 1..Len(Front(s)) : Append(Front(s), Last(s))[i] = Front(s)[i]
  BY <1>3, <1>4, AppendProperties
<1>6. Len(Front(s)) \in Nat
  BY <1>3, <1>4, LenProperties
<1>7. Append(Front(s), Last(s)) = s
  BY <1>3, <1>4
<1>8. Len(Front(s)) = n - 1
  BY <1>1, <1>5, <1>6, <1>7
<1>9. \A i \in 1..(n - 1) : Front(s)[i] = s[i]
  BY <1>5, <1>7, <1>8
<1> QED BY <1>1, <1>3, <1>4, <1>7, <1>8, <1>9

\* What becomes of the groups with another piece.
IsJoined(S, t, done, p) ==
  /\ t \in SomePieces(S) /\ FlattenSeq(t) = FlattenSeq(done) \o p /\ Len(t) = Len(done)
  /\ t[Len(done)] = done[Len(done)] \o p /\ \A k \in 1..(Len(done) - 1) : t[k] = done[k]

LEMMA JoinedIs ==
  ASSUME NEW S, NEW done, done \in SomePieces(S), NEW p, p \in Seq(S)
  PROVE  IsJoined(S, Joined(done, p), done, p)
<1> DEFINE a == Front(done)
           l == Last(done)
           n == Len(done)
<1>1. done \in Seq(Seq(S)) /\ done # << >>
  BY DEF SomePieces
<1>2. /\ a \in Seq(Seq(S)) /\ l \in Seq(S) /\ Append(a, l) = done /\ l = done[n]
      /\ Len(a) = n - 1 /\ n \in Nat /\ n >= 1 /\ \A k \in 1..(n - 1) : a[k] = done[k]
  <2> DEFINE Z == Seq(S)
  <2>1. done \in Seq(Z)
    BY <1>1
  <2> HIDE DEF Z
  <2>2. /\ a \in Seq(Z) /\ l \in Z /\ Append(a, l) = done /\ l = done[n]
        /\ Len(a) = n - 1 /\ n \in Nat /\ n >= 1 /\ \A k \in 1..(n - 1) : a[k] = done[k]
    BY <1>1, <2>1, FrontAndLast
  <2> QED BY <2>2 DEF Z
<1> HIDE DEF a, l, n
<1>3. l \o p \in Seq(S)
  BY <1>2, ConcatProperties
<1>4. /\ Append(a, l \o p) \in Seq(Seq(S)) /\ Append(a, l \o p) # << >> /\ Len(Append(a, l \o p)) = Len(a) + 1
      /\ \A k \in 1..Len(a) : Append(a, l \o p)[k] = a[k]
      /\ Append(a, l \o p)[Len(a) + 1] = l \o p
  BY <1>2, <1>3, AppendProperties
<1>5. /\ FlattenSeq(Append(a, l \o p)) = FlattenSeq(a) \o (l \o p) /\ FlattenSeq(a) \in Seq(S)
      /\ FlattenSeq(done) = FlattenSeq(a) \o l
  <2>1. FlattenSeq(Append(a, l)) = FlattenSeq(a) \o l
    BY <1>2, FlattenAppends
  <2> QED BY <1>2, <1>3, <2>1, FlattenAppends
<1>6. (FlattenSeq(a) \o l) \o p = FlattenSeq(a) \o (l \o p)
  <2> DEFINE b == FlattenSeq(a)
  <2>1. b \in Seq(S) /\ l \in Seq(S) /\ p \in Seq(S)
    BY <1>2, <1>5
  <2> HIDE DEF b
  <2>2. (b \o l) \o p = b \o (l \o p)
    BY <2>1, ConcatAssociative
  <2> QED BY <2>2 DEF b
<1> DEFINE t == Append(a, l \o p)
<1>7. t = Joined(done, p)
  BY DEF Joined, a, l
<1>8. t \in SomePieces(S) /\ FlattenSeq(t) = FlattenSeq(done) \o p
  BY <1>4, <1>5, <1>6 DEF SomePieces
<1>9. Len(t) = n /\ t[n] = done[n] \o p /\ \A k \in 1..(n - 1) : t[k] = done[k]
  <2> HIDE DEF t
  <2>1. Len(t) = Len(a) + 1 /\ t[Len(a) + 1] = l \o p /\ \A k \in 1..Len(a) : t[k] = a[k]
    BY <1>4 DEF t
  <2>2. Len(a) + 1 = n /\ Len(a) = n - 1
    BY <1>2
  <2> QED BY <1>2, <2>1, <2>2
<1> QED BY <1>7, <1>8, <1>9 DEF IsJoined, n

GroupStep(pieces, starts, n, done) == IF n \in starts THEN Append(done, pieces[n]) ELSE Joined(done, pieces[n])
Groups(pieces, starts, f) ==
  f = [n \in 0..Len(pieces) |-> IF n = 0 THEN << << >> >> ELSE GroupStep(pieces, starts, n, f[n - 1])]
Grouping(pieces, starts) == CHOOSE f : Groups(pieces, starts, f)

LEMMA GroupedIsChosen ==
  ASSUME NEW pieces, NEW starts
  PROVE  Grouped(pieces, starts) = Grouping(pieces, starts)[Len(pieces)]
BY DEF Grouped, Grouping, Groups, GroupStep, Joined

IsGrouping(S, pieces, starts, g) ==
  /\ Len(pieces) \in Nat /\ Grouped(pieces, starts) = g[Len(pieces)] /\ g[0] = << << >> >>
  /\ \A m \in 0..Len(pieces) : g[m] \in SomePieces(S) /\ FlattenSeq(g[m]) = FlattenSeq(Prefix(pieces, m))
  /\ \A m \in 1..Len(pieces) : g[m] = GroupStep(pieces, starts, m, g[m - 1])

Continues(S, t, done, p) == t \in SomePieces(S) /\ FlattenSeq(t) = FlattenSeq(done) \o p

LEMMA StepIs ==
  ASSUME NEW S, NEW pieces, pieces \in Seq(Seq(S)), NEW starts, NEW n, n \in 1..Len(pieces), NEW done, done \in SomePieces(S)
  PROVE  Continues(S, GroupStep(pieces, starts, n, done), done, pieces[n])
<1>1. pieces[n] \in Seq(S)
  BY ElementOfSeq
<1>2. IsJoined(S, Joined(done, pieces[n]), done, pieces[n])
  BY <1>1, JoinedIs
<1>3. /\ Append(done, pieces[n]) \in SomePieces(S)
      /\ FlattenSeq(Append(done, pieces[n])) = FlattenSeq(done) \o pieces[n]
  <2> DEFINE p == pieces[n]
  <2> HIDE DEF p
  <2>1. p \in Seq(S) /\ done \in Seq(Seq(S))
    BY <1>1 DEF SomePieces, p
  <2>2. Append(done, p) \in Seq(Seq(S)) /\ Append(done, p) # << >> /\ FlattenSeq(Append(done, p)) = FlattenSeq(done) \o p
    BY <2>1, AppendProperties, FlattenAppends
  <2> QED BY <2>2 DEF SomePieces, p
<1> QED BY <1>2, <1>3 DEF GroupStep, IsJoined, Continues

LEMMA NoneYet == ASSUME NEW S PROVE << << >> >> \in SomePieces(S) /\ FlattenSeq(<< << >> >>) = << >>
<1> DEFINE none == << >>
<1>1. none \in Seq(S)
  BY EmptySeq
<1> HIDE DEF none
<1>2. <<none>> \in Seq(Seq(S)) /\ Len(<<none>>) = 1
  BY <1>1, OneIs
<1>3. FlattenSeq(<<none>>) = none
  BY <1>1, FlattenOne
<1>4. <<none>> # << >>
  BY <1>2, EmptySeq
<1> QED BY <1>2, <1>3, <1>4 DEF SomePieces, none

LEMMA GroupingIs ==
  ASSUME NEW S, NEW pieces, pieces \in Seq(Seq(S)), NEW starts
  PROVE  IsGrouping(S, pieces, starts, Grouping(pieces, starts))
<1> DEFINE n == Len(pieces)
           X == SomePieces(S)
           base == << << >> >>
           step == [p \in (1..n) \X X |-> GroupStep(pieces, starts, p[1], p[2])]
           f == Grouping(pieces, starts)
<1>1. n \in Nat /\ base \in X
  BY LenProperties, NoneYet
<1>2. step \in [(1..n) \X X -> X]
  <2>1. ASSUME NEW p \in (1..n) \X X PROVE GroupStep(pieces, starts, p[1], p[2]) \in X
    BY <2>1, StepIs DEF Continues
  <2> QED BY <2>1
<1>3. PICK g : Folds(g, n, X, base, step)
  <2> HIDE DEF n, X, base, step
  <2> QED BY <1>1, <1>2, FoldExists
<1>4. Groups(pieces, starts, g)
  <2>1. g \in [0..n -> X] /\ g[0] = base /\ \A k \in 1..n : g[k] = step[<<k, g[k - 1]>>]
    BY <1>3 DEF Folds
  <2>2. ASSUME NEW k \in 0..n
        PROVE  g[k] = IF k = 0 THEN base ELSE GroupStep(pieces, starts, k, g[k - 1])
    <3>1. CASE k = 0
      BY <2>1, <3>1
    <3>2. CASE k # 0
      <4>1. k \in 1..n /\ k - 1 \in 0..n
        BY <1>1, <3>2
      <4>2. <<k, g[k - 1]>> \in (1..n) \X X
        BY <2>1, <4>1
      <4>3. step[<<k, g[k - 1]>>] = GroupStep(pieces, starts, k, g[k - 1])
        BY <4>2
      <4> HIDE DEF step
      <4> QED BY <2>1, <3>2, <4>1, <4>3
    <3> QED BY <3>1, <3>2
  <2>3. g = [k \in 0..n |-> g[k]]
    BY <2>1
  <2> HIDE DEF step
  <2> QED BY <2>2, <2>3 DEF Groups
<1>5. Groups(pieces, starts, f)
  BY <1>4 DEF Grouping
<1>6. f[0] = base /\ \A k \in 1..n : f[k] = GroupStep(pieces, starts, k, f[k - 1])
  <2> HIDE DEF f
  <2>1. \A k \in 0..n : f[k] = IF k = 0 THEN base ELSE GroupStep(pieces, starts, k, f[k - 1])
    BY <1>5 DEF Groups
  <2>2. 0 \in 0..n /\ \A k \in 1..n : k \in 0..n /\ k # 0
    BY <1>1
  <2> QED BY <2>1, <2>2
<1> DEFINE Holds(m) == f[m] \in X /\ FlattenSeq(f[m]) = FlattenSeq(Prefix(pieces, m))
           good == {m \in 0..n : Holds(m)}
<1> HIDE DEF f, step
<1>7. Climbs(good, n)
  <2>1. 0 \in good
    <3>1. Prefix(pieces, 0) = << >>
      BY PrefixEnds
    <3>2. f[0] \in X /\ FlattenSeq(f[0]) = << >>
      BY <1>6, NoneYet
    <3>3. Holds(0)
      BY <3>1, <3>2, FlattenNothing
    <3> QED BY <1>1, <3>3
  <2>2. ASSUME NEW m \in 1..n, m - 1 \in good PROVE m \in good
    <3> DEFINE p == Prefix(pieces, m - 1)
               e == pieces[m]
               done == f[m - 1]
    <3>1. p \in Seq(Seq(S)) /\ e \in Seq(S) /\ Prefix(pieces, m) = Append(p, e)
      BY PrefixGrows
    <3>2. done \in X /\ FlattenSeq(done) = FlattenSeq(p) /\ f[m] = GroupStep(pieces, starts, m, done)
      BY <1>6, <2>2
    <3> HIDE DEF done, p
    <3>3. f[m] \in X /\ FlattenSeq(f[m]) = FlattenSeq(done) \o e
      <4>1. Continues(S, GroupStep(pieces, starts, m, done), done, pieces[m])
        BY <3>2, StepIs
      <4> QED BY <3>2, <4>1 DEF Continues
    <3> HIDE DEF e, X
    <3>4. FlattenSeq(Append(p, e)) = FlattenSeq(p) \o e
      BY <3>1, FlattenAppends
    <3>5. Holds(m)
      BY <3>1, <3>2, <3>3, <3>4
    <3>6. m \in 0..n
      BY <1>1
    <3> QED BY <3>5, <3>6
  <2> HIDE DEF good
  <2> QED BY <2>1, <2>2 DEF Climbs
<1>8. \A m \in 0..n : Holds(m)
  <2> SUFFICES ASSUME NEW m \in 0..n PROVE m \in good
    OBVIOUS
  <2> HIDE DEF good, n
  <2> QED BY <1>1, <1>7, Climb
<1> QED BY <1>1, <1>6, <1>8, GroupedIsChosen DEF IsGrouping, f

\* Every group but the first begins with a piece that may, and is just that
\* piece if it is the last so far.
Begun(S, pieces, starts, m, group) ==
  \E j \in starts, t \in Seq(S) : j \in 1..m /\ group = pieces[j] \o t /\ (j = m => t = << >>)
Begins(S, pieces, starts, m, groups) == \A k \in 2..Len(groups) : Begun(S, pieces, starts, m, groups[k])

LEMMA GroupsBegin ==
  ASSUME NEW S, NEW pieces, pieces \in Seq(Seq(S)), NEW starts, NEW g, IsGrouping(S, pieces, starts, g)
  PROVE  Begins(S, pieces, starts, Len(pieces), g[Len(pieces)])
<1> DEFINE n == Len(pieces)
           Holds(m) == Begins(S, pieces, starts, m, g[m])
           good == {m \in 0..n : Holds(m)}
<1>1. /\ n \in Nat /\ g[0] = << << >> >> /\ \A m \in 0..n : g[m] \in SomePieces(S)
      /\ \A m \in 1..n : g[m] = GroupStep(pieces, starts, m, g[m - 1])
  BY DEF IsGrouping
<1>2. 0 \in good
  <2>1. Len(g[0]) = 1
    <3> DEFINE none == << >>
    <3> HIDE DEF none
    <3>1. Len(<<none>>) = 1
      BY OneIs
    <3> QED BY <1>1, <3>1 DEF none
  <2>2. Holds(0)
    BY <2>1 DEF Begins
  <2>3. 0 \in 0..n
    BY <1>1
  <2> HIDE DEF Holds
  <2> QED BY <2>2, <2>3
<1>3. ASSUME NEW m \in 1..n, m - 1 \in good PROVE m \in good
  <2> DEFINE done == g[m - 1]
             p == pieces[m]
             l == Len(done)
             new == g[m]
  <2>1. m - 1 \in 0..n /\ m \in 0..n
    BY <1>1
  <2>2. done \in SomePieces(S) /\ p \in Seq(S) /\ new = GroupStep(pieces, starts, m, done) /\ Begins(S, pieces, starts, m - 1, done)
    BY <1>1, <1>3, <2>1, ElementOfSeq
  <2>3. done \in Seq(Seq(S)) /\ l \in Nat /\ l >= 1 /\ \A k \in 1..l : done[k] \in Seq(S)
    <3>1. done \in Seq(Seq(S)) /\ done # << >>
      BY <2>2 DEF SomePieces
    <3> QED BY <3>1, EmptySeq, LenProperties, ElementOfSeq
  <2> HIDE DEF n, good, Holds
  <2>4. ASSUME NEW k \in 2..l, Begun(S, pieces, starts, m - 1, done[k]) PROVE Begun(S, pieces, starts, m, done[k])
    <3>1. PICK j \in starts, t \in Seq(S) : j \in 1..(m - 1) /\ done[k] = pieces[j] \o t
      BY <2>4 DEF Begun
    <3>2. j \in 1..m /\ j # m
      BY <2>1, <3>1
    <3> QED BY <3>1, <3>2 DEF Begun
  <2>7. \A k \in 2..l : Begun(S, pieces, starts, m, done[k])
    BY <2>2, <2>4 DEF Begins
  <2>5. CASE m \in starts
    <3>1. new = Append(done, p)
      BY <2>2, <2>5 DEF GroupStep
    <3> HIDE DEF done, p, new, l
    <3>2. Len(new) = l + 1 /\ new[l + 1] = p /\ \A k \in 1..l : new[k] = done[k]
      BY <2>2, <2>3, <3>1, AppendProperties DEF l
    <3>3. ASSUME NEW k \in 2..Len(new) PROVE Begun(S, pieces, starts, m, new[k])
      <4>1. CASE k <= l
        <5>1. k \in 2..l /\ k \in 1..l
          BY <2>3, <4>1
        <5>2. new[k] = done[k]
          BY <3>2, <5>1
        <5> QED BY <2>7, <5>1, <5>2
      <4>2. CASE k > l
        <5>1. k = l + 1
          BY <2>3, <3>2, <4>2
        <5>2. new[k] = pieces[m] \o << >> /\ << >> \in Seq(S) /\ m \in 1..m
          <6>1. p \o << >> = p /\ << >> \in Seq(S)
            BY <2>2, ConcatEmptySeq, EmptySeq
          <6>2. m \in 1..m
            BY <2>1
          <6> QED BY <3>2, <5>1, <6>1, <6>2 DEF p
        <5> QED BY <2>5, <5>2 DEF Begun
      <4> QED BY <2>3, <3>2, <4>1, <4>2
    <3> QED BY <2>1, <3>3 DEF good, Holds, Begins, new
  <2>6. CASE m \notin starts
    <3>1. new = Joined(done, p)
      BY <2>2, <2>6 DEF GroupStep
    <3>2. IsJoined(S, new, done, p)
      BY <2>2, <3>1, JoinedIs
    <3> HIDE DEF done, p, new, l
    <3>3. Len(new) = l /\ new[l] = done[l] \o p /\ \A k \in 1..(l - 1) : new[k] = done[k]
      BY <3>2 DEF IsJoined, l
    <3>4. ASSUME NEW k \in 2..Len(new) PROVE Begun(S, pieces, starts, m, new[k])
      <4>1. CASE k < l
        <5>1. k \in 2..l /\ k \in 1..(l - 1)
          BY <2>3, <4>1
        <5>2. new[k] = done[k]
          BY <3>3, <5>1
        <5> QED BY <2>7, <5>1, <5>2
      <4>2. CASE k >= l
        <5>1. k = l /\ k \in 2..l
          BY <2>3, <3>3, <4>2
        <5>2. PICK j \in starts, t \in Seq(S) : j \in 1..(m - 1) /\ done[k] = pieces[j] \o t
          BY <2>2, <5>1 DEF Begins, Begun, done, l
        <5>3. j \in 1..m /\ j # m /\ j \in 1..Len(pieces)
          BY <2>1, <5>2 DEF n
        <5>4. new[k] = pieces[j] \o (t \o p) /\ t \o p \in Seq(S)
          <6> DEFINE q == pieces[j]
          <6>1. q \in Seq(S)
            BY <5>3, ElementOfSeq
          <6>2. new[k] = (q \o t) \o p
            BY <3>3, <5>1, <5>2
          <6> HIDE DEF q
          <6>3. (q \o t) \o p = q \o (t \o p) /\ t \o p \in Seq(S)
            BY <2>2, <6>1, ConcatAssociative, ConcatProperties
          <6> QED BY <6>2, <6>3 DEF q
        <5> QED BY <5>2, <5>3, <5>4 DEF Begun
      <4> QED BY <2>3, <3>3, <4>1, <4>2
    <3> QED BY <2>1, <3>4 DEF good, Holds, Begins, new
  <2> QED BY <2>5, <2>6
<1>4. n \in good
  <2>1. Climbs(good, n) /\ n \in 0..n
    <3> HIDE DEF good
    <3> QED BY <1>1, <1>2, <1>3 DEF Climbs
  <2> HIDE DEF good, n
  <2> QED BY <1>1, <2>1, Climb
<1> QED BY <1>4

\* No sentence ends before the last atom.
OneSentence(s) == \A i \in 1..(Len(s) - 1) : s[i] \notin EndMarks
\* Groups of sentences, of which the last ends with e.
Sentenced(groups, e) ==
  LET l == groups[Len(groups)]
  IN  (\A k \in 1..Len(groups) : OneSentence(groups[k])) /\ (l # << >> => l[Len(l)] = e)
AreSentences(sentences, s) ==
  /\ sentences \in SomePieces(Atom) /\ FlattenSeq(sentences) = s
  /\ \A k \in 1..Len(sentences) : OneSentence(sentences[k])

LEMMA SentenceGoesOn ==
  ASSUME NEW l, l \in Seq(Atom), NEW d, NEW e, e \in Atom, OneSentence(l),
         l # << >> => l[Len(l)] = d /\ d \notin EndMarks
  PROVE  LET t == l \o <<e>> IN OneSentence(t) /\ t # << >> /\ t[Len(t)] = e
<1> DEFINE n == Len(l)
           t == l \o <<e>>
<1>1. n \in Nat /\ (n # 0 => l # << >>)
  BY LenProperties, EmptySeq
<1>2. Len(t) = n + 1 /\ t[n + 1] = e /\ t # << >> /\ \A i \in 1..n : t[i] = l[i]
  <2>1. t = Append(l, e)
    BY AppendIsConcat
  <2> HIDE DEF t
  <2> QED BY <2>1, AppendProperties
<1> HIDE DEF t
<1>3. ASSUME NEW i \in 1..(Len(t) - 1) PROVE t[i] \notin EndMarks
  <2>1. i \in 1..n /\ t[i] = l[i] /\ l # << >>
    BY <1>1, <1>2
  <2>2. CASE i = n
    BY <2>1, <2>2
  <2>3. CASE i # n
    <3>1. i \in 1..(n - 1)
      BY <1>1, <2>1, <2>3
    <3> QED BY <2>1, <3>1 DEF OneSentence
  <2> QED BY <2>2, <2>3
<1> QED BY <1>2, <1>3 DEF OneSentence, t

LEMMA SentencesAre == ASSUME NEW s, s \in Seq(Atom) PROVE AreSentences(Sentences(s), s)
<1> DEFINE n == Len(s)
           pieces == [i \in DOMAIN s |-> <<s[i]>>]
           starts == {i \in DOMAIN s : i > 1 /\ s[i - 1] \in EndMarks}
           g == Grouping(pieces, starts)
<1>1. n \in Nat /\ DOMAIN s = 1..n /\ \A i \in 1..n : s[i] \in Atom
  BY LenProperties, ElementOfSeq
<1>2. pieces \in Seq(Seq(Atom)) /\ Len(pieces) = n /\ Singles(pieces, s)
  <2>1. pieces \in [1..n -> Seq(Atom)]
    <3>1. \A i \in 1..n : <<s[i]>> \in Seq(Atom)
      BY <1>1, OneIs
    <3> QED BY <1>1, <3>1
  <2>2. \A i \in 1..n : pieces[i] = <<s[i]>>
    BY <1>1
  <2> HIDE DEF pieces
  <2>3. pieces \in Seq(Seq(Atom)) /\ Len(pieces) = n
    BY <1>1, <2>1, FunctionIsSeq
  <2> QED BY <2>2, <2>3 DEF Singles
<1>3. Sentences(s) = Grouped(pieces, starts)
  BY DEF Sentences
<1>4. \A i \in 1..n : i \in starts <=> i > 1 /\ s[i - 1] \in EndMarks
  BY <1>1
<1> HIDE DEF pieces, starts, g
<1>5. IsGrouping(Atom, pieces, starts, g)
  BY <1>2, GroupingIs DEF g
<1>6. /\ g[0] = << << >> >> /\ \A m \in 0..n : g[m] \in SomePieces(Atom) /\ FlattenSeq(g[m]) = FlattenSeq(Prefix(pieces, m))
      /\ \A m \in 1..n : g[m] = GroupStep(pieces, starts, m, g[m - 1])
      /\ Grouped(pieces, starts) = g[n]
  BY <1>2, <1>5 DEF IsGrouping
<1> DEFINE Holds(m) == IF m = 0 THEN g[m] = << << >> >> ELSE Sentenced(g[m], s[m])
           good == {m \in 0..n : Holds(m)}
<1>7. 0 \in good
  <2>1. 0 \in 0..n /\ Holds(0)
    BY <1>1, <1>6
  <2> HIDE DEF Holds
  <2> QED BY <2>1
<1>8. ASSUME NEW m \in 1..n, m - 1 \in good PROVE m \in good
  <2> DEFINE done == g[m - 1]
             l == Len(done)
             final == done[l]
             e == s[m]
             d == s[m - 1]
             new == g[m]
  <2>1. m - 1 \in 0..n /\ m \in 0..n /\ m # 0 /\ Holds(m - 1)
    BY <1>1, <1>8
  <2>2. done \in SomePieces(Atom) /\ e \in Atom /\ pieces[m] = <<e>> /\ new = GroupStep(pieces, starts, m, done)
    BY <1>1, <1>2, <1>6, <2>1 DEF Singles
  <2>3. done \in Seq(Seq(Atom)) /\ l \in Nat /\ l >= 1 /\ \A k \in 1..l : done[k] \in Seq(Atom)
    <3>1. done \in Seq(Seq(Atom)) /\ done # << >>
      BY <2>2 DEF SomePieces
    <3> QED BY <3>1, EmptySeq, LenProperties, ElementOfSeq
  <2>4. /\ \A k \in 1..l : OneSentence(done[k])
        /\ final # << >> => m # 1 /\ final[Len(final)] = d
    <3>1. CASE m = 1
      <4> DEFINE none == << >>
      <4>1. done = <<none>> /\ none \in Seq(Atom)
        BY <1>6, <3>1, EmptySeq
      <4>2. Len(none) = 0
        BY EmptySeq
      <4> HIDE DEF none
      <4>3. Len(<<none>>) = 1 /\ <<none>>[1] = none
        BY OneIs
      <4>4. l = 1 /\ done[1] = none
        BY <4>1, <4>3
      <4>5. OneSentence(none)
        BY <4>2 DEF OneSentence
      <4>6. \A k \in 1..l : k = 1
        BY <4>4
      <4> QED BY <4>4, <4>5, <4>6 DEF none
    <3>2. CASE m # 1
      <4>1. Sentenced(done, d)
        BY <2>1, <3>2
      <4> QED BY <3>2, <4>1 DEF Sentenced
    <3> QED BY <3>1, <3>2
  <2>5. l \in 1..l /\ final \in Seq(Atom)
    BY <2>3
  <2>6. m \in starts <=> m > 1 /\ d \in EndMarks
    BY <1>4
  <2> HIDE DEF done, e, d, new, final, l, Holds, good
  <2>7. CASE m \in starts
    <3> DEFINE p == <<e>>
    <3>1. p \in Seq(Atom) /\ Len(p) = 1 /\ p[1] = e /\ p # << >>
      BY <2>2, OneIs, EmptySeq
    <3> HIDE DEF p
    <3>2. new = Append(done, p)
      BY <2>2, <2>7 DEF GroupStep, p
    <3>3. Len(new) = l + 1 /\ new[l + 1] = p /\ \A k \in 1..l : new[k] = done[k]
      BY <2>3, <3>1, <3>2, AppendProperties DEF l
    <3>4. OneSentence(p)
      BY <3>1 DEF OneSentence
    <3>5. ASSUME NEW k \in 1..Len(new) PROVE OneSentence(new[k])
      <4>1. CASE k \in 1..l
        BY <2>4, <3>3, <4>1
      <4>2. CASE k = l + 1
        BY <3>3, <3>4, <4>2
      <4> QED BY <2>3, <3>3, <4>1, <4>2
    <3>6. Sentenced(new, e)
      BY <3>1, <3>3, <3>5 DEF Sentenced
    <3> QED BY <2>1, <3>6 DEF good, Holds, new, e
  <2>8. CASE m \notin starts
    <3> DEFINE t == final \o <<e>>
    <3>1. final # << >> => final[Len(final)] = d /\ d \notin EndMarks
      <4>1. m # 1 => m > 1
        BY <1>1
      <4> QED BY <2>4, <2>6, <2>8, <4>1
    <3>2. OneSentence(t) /\ t # << >> /\ t[Len(t)] = e
      <4>1. OneSentence(final)
        BY <2>4, <2>5 DEF final
      <4> QED BY <2>2, <2>5, <3>1, <4>1, SentenceGoesOn
    <3>3. IsJoined(Atom, new, done, <<e>>)
      <4>1. <<e>> \in Seq(Atom) /\ new = Joined(done, <<e>>)
        BY <2>2, <2>8, OneIs DEF GroupStep
      <4> QED BY <2>2, <4>1, JoinedIs
    <3>4. Len(new) = l /\ new[l] = t /\ \A k \in 1..(l - 1) : new[k] = done[k]
      BY <3>3 DEF IsJoined, l, final
    <3> HIDE DEF t
    <3>5. ASSUME NEW k \in 1..Len(new) PROVE OneSentence(new[k])
      <4>1. CASE k \in 1..(l - 1)
        <5>1. k \in 1..l
          BY <2>3, <4>1
        <5> QED BY <2>4, <3>4, <4>1, <5>1
      <4>2. CASE k = l
        BY <3>2, <3>4, <4>2
      <4> QED BY <2>3, <3>4, <4>1, <4>2
    <3>6. Sentenced(new, e)
      BY <3>2, <3>4, <3>5 DEF Sentenced
    <3> QED BY <2>1, <3>6 DEF good, Holds, new, e
  <2> QED BY <2>7, <2>8
<1>9. n \in good
  <2>1. Climbs(good, n) /\ n \in 0..n
    <3> HIDE DEF good
    <3> QED BY <1>1, <1>7, <1>8 DEF Climbs
  <2> HIDE DEF good, n
  <2> QED BY <1>1, <2>1, Climb
<1>10. \A k \in 1..Len(g[n]) : OneSentence(g[n][k])
  <2>1. Holds(n)
    BY <1>9
  <2>2. CASE n = 0
    <3> DEFINE none == << >>
    <3>1. g[n] = <<none>> /\ none \in Seq(Atom) /\ Len(none) = 0
      BY <1>6, <2>2, EmptySeq
    <3> HIDE DEF none
    <3>2. Len(<<none>>) = 1 /\ <<none>>[1] = none
      BY OneIs
    <3>3. OneSentence(none)
      BY <3>1 DEF OneSentence
    <3>4. Len(g[n]) = 1 /\ g[n][1] = none
      BY <3>1, <3>2
    <3> QED BY <3>3, <3>4
  <2>3. CASE n # 0
    <3>1. Sentenced(g[n], s[n])
      BY <2>1, <2>3
    <3> QED BY <3>1 DEF Sentenced
  <2> QED BY <2>2, <2>3
<1>11. FlattenSeq(g[n]) = s /\ g[n] \in SomePieces(Atom)
  <2>1. n \in 0..n /\ Prefix(pieces, n) = pieces
    BY <1>1, <1>2, PrefixEnds
  <2>2. FlattenSeq(pieces) = s
    BY <1>2, FlattenSingles
  <2> QED BY <1>6, <2>1, <2>2
<1> QED BY <1>3, <1>6, <1>10, <1>11 DEF AreSentences

(* Sentences fitted into bubbles.                                          *)
Short(b) == Size(b) > BubbleChars => OneSentence(b)
AreShort(bs) == \A k \in 1..Len(bs) : Short(bs[k])

FitStep(sentences, n, done) ==
  IF Last(done) = << >> \/ Size(Last(done)) + Size(sentences[n]) + 1 <= BubbleChars
  THEN Joined(done, sentences[n]) ELSE Append(done, sentences[n])
FitsThem(sentences, f) ==
  f = [n \in 0..Len(sentences) |-> IF n = 0 THEN << << >> >> ELSE FitStep(sentences, n, f[n - 1])]
Fitting(sentences) == CHOOSE f : FitsThem(sentences, f)

LEMMA FittedIsChosen ==
  ASSUME NEW s
  PROVE  Fitted(s) = IF s = << >> THEN << >>
                     ELSE IF Size(s) <= BubbleChars THEN <<s>> ELSE Fitting(Sentences(s))[Len(Sentences(s))]
BY DEF Fitted, Fitting, FitsThem, FitStep, Joined

LEMMA FitStepIs ==
  ASSUME NEW sentences, sentences \in Seq(Seq(Atom)), NEW n, n \in 1..Len(sentences), NEW done, done \in SomePieces(Atom)
  PROVE  Continues(Atom, FitStep(sentences, n, done), done, sentences[n])
<1> DEFINE p == sentences[n]
<1>1. p \in Seq(Atom) /\ done \in Seq(Seq(Atom))
  BY ElementOfSeq DEF SomePieces
<1> HIDE DEF p
<1>2. IsJoined(Atom, Joined(done, p), done, p)
  BY <1>1, JoinedIs
<1>3. Append(done, p) \in SomePieces(Atom) /\ FlattenSeq(Append(done, p)) = FlattenSeq(done) \o p
  <2>1. Append(done, p) \in Seq(Seq(Atom)) /\ Append(done, p) # << >> /\ FlattenSeq(Append(done, p)) = FlattenSeq(done) \o p
    BY <1>1, AppendProperties, FlattenAppends
  <2> QED BY <2>1 DEF SomePieces
<1>4. Continues(Atom, Joined(done, p), done, p) /\ Continues(Atom, Append(done, p), done, p)
  BY <1>2, <1>3 DEF IsJoined, Continues
<1> QED BY <1>4 DEF FitStep, p

LEMMA FitStepShort ==
  ASSUME NEW sentences, sentences \in Seq(Seq(Atom)), NEW n, n \in 1..Len(sentences), NEW done, done \in SomePieces(Atom),
         AreShort(done), OneSentence(sentences[n])
  PROVE  AreShort(FitStep(sentences, n, done))
<1> DEFINE p == sentences[n]
           l == Len(done)
           final == done[l]
           new == FitStep(sentences, n, done)
<1>1. p \in Seq(Atom) /\ done \in Seq(Seq(Atom)) /\ done # << >>
  BY ElementOfSeq DEF SomePieces
<1>2. l \in Nat /\ l >= 1 /\ final \in Seq(Atom) /\ Last(done) = final
  <2>1. l \in Nat /\ l # 0
    BY <1>1, EmptySeq, LenProperties
  <2>2. l \in 1..l
    BY <2>1
  <2> QED BY <1>1, <2>1, <2>2, ElementOfSeq DEF Last
<1>3. OneSentence(p) /\ new = FitStep(sentences, n, done)
  OBVIOUS
<1>4. BubbleChars \in Nat
  BY TextsAssumption DEF TextsAssumption
<1> DEFINE joins == final = << >> \/ Size(final) + Size(p) + 1 <= BubbleChars
<1>5. (joins => new = Joined(done, p)) /\ (~joins => new = Append(done, p))
  BY <1>2 DEF FitStep
<1> HIDE DEF p, final, new, l
<1>6. CASE joins
  <2>1. IsJoined(Atom, new, done, p)
    BY <1>1, <1>5, <1>6, JoinedIs
  <2>2. Len(new) = l /\ new[l] = final \o p /\ \A k \in 1..(l - 1) : new[k] = done[k]
    BY <2>1 DEF IsJoined, l, final
  <2>3. Short(final \o p)
    <3>1. CASE final = << >>
      <4>1. final \o p = p
        BY <1>1, <3>1, ConcatEmptySeq
      <4> QED BY <1>3, <4>1 DEF Short
    <3>2. CASE Size(final) + Size(p) + 1 <= BubbleChars
      <4>1. Size(final \o p) = Size(final) + Size(p) /\ Size(final) \in Int /\ Size(p) \in Int
        BY <1>1, <1>2, SizeOfTwo
      <4>2. ~(Size(final \o p) > BubbleChars)
        BY <1>4, <3>2, <4>1
      <4> QED BY <4>2 DEF Short
    <3> QED BY <1>6, <3>1, <3>2
  <2>4. ASSUME NEW k \in 1..Len(new) PROVE Short(new[k])
    <3>1. CASE k \in 1..(l - 1)
      <4>1. k \in 1..Len(done) /\ new[k] = done[k]
        BY <1>2, <2>2, <3>1 DEF l
      <4> QED BY <4>1 DEF AreShort
    <3>2. CASE k = l
      BY <2>2, <2>3, <3>2
    <3> QED BY <1>2, <2>2, <3>1, <3>2
  <2> QED BY <2>4 DEF AreShort, new
<1>7. CASE ~joins
  <2>1. Len(new) = l + 1 /\ new[l + 1] = p /\ \A k \in 1..l : new[k] = done[k]
    <3>1. new = Append(done, p)
      BY <1>5, <1>7
    <3> QED BY <1>1, <3>1, AppendProperties DEF l
  <2>2. ASSUME NEW k \in 1..Len(new) PROVE Short(new[k])
    <3>1. CASE k \in 1..l
      <4>1. k \in 1..Len(done) /\ new[k] = done[k]
        BY <1>2, <2>1, <3>1 DEF l
      <4> QED BY <4>1 DEF AreShort
    <3>2. CASE k = l + 1
      BY <1>3, <2>1, <3>2 DEF Short
    <3> QED BY <1>2, <2>1, <3>1, <3>2
  <2> QED BY <2>2 DEF AreShort, new
<1> QED BY <1>6, <1>7

IsFitted(bs, s) == bs \in Seq(Seq(Atom)) /\ FlattenSeq(bs) = s /\ AreShort(bs)

LEMMA FittingIs ==
  ASSUME NEW sentences, NEW s, AreSentences(sentences, s)
  PROVE  IsFitted(Fitting(sentences)[Len(sentences)], s)
<1> DEFINE n == Len(sentences)
           X == SomePieces(Atom)
           base == << << >> >>
           step == [p \in (1..n) \X X |-> FitStep(sentences, p[1], p[2])]
           f == Fitting(sentences)
<1>0. sentences \in Seq(Seq(Atom)) /\ FlattenSeq(sentences) = s /\ \A k \in 1..n : OneSentence(sentences[k])
  BY DEF AreSentences, SomePieces
<1>1. n \in Nat /\ base \in X
  BY <1>0, LenProperties, NoneYet
<1>2. step \in [(1..n) \X X -> X]
  <2>1. ASSUME NEW p \in (1..n) \X X PROVE FitStep(sentences, p[1], p[2]) \in X
    BY <1>0, <2>1, FitStepIs DEF Continues
  <2> QED BY <2>1
<1>3. PICK g : Folds(g, n, X, base, step)
  <2> HIDE DEF n, X, base, step
  <2> QED BY <1>1, <1>2, FoldExists
<1>4. FitsThem(sentences, g)
  <2>1. g \in [0..n -> X] /\ g[0] = base /\ \A k \in 1..n : g[k] = step[<<k, g[k - 1]>>]
    BY <1>3 DEF Folds
  <2>2. ASSUME NEW k \in 0..n
        PROVE  g[k] = IF k = 0 THEN base ELSE FitStep(sentences, k, g[k - 1])
    <3>1. CASE k = 0
      BY <2>1, <3>1
    <3>2. CASE k # 0
      <4>1. k \in 1..n /\ k - 1 \in 0..n
        BY <1>1, <3>2
      <4>2. <<k, g[k - 1]>> \in (1..n) \X X
        BY <2>1, <4>1
      <4>3. step[<<k, g[k - 1]>>] = FitStep(sentences, k, g[k - 1])
        BY <4>2
      <4> HIDE DEF step
      <4> QED BY <2>1, <3>2, <4>1, <4>3
    <3> QED BY <3>1, <3>2
  <2>3. g = [k \in 0..n |-> g[k]]
    BY <2>1
  <2> HIDE DEF step
  <2> QED BY <2>2, <2>3 DEF FitsThem
<1>5. FitsThem(sentences, f)
  BY <1>4 DEF Fitting
<1>6. f[0] = base /\ \A k \in 1..n : f[k] = FitStep(sentences, k, f[k - 1])
  <2> HIDE DEF f
  <2>1. \A k \in 0..n : f[k] = IF k = 0 THEN base ELSE FitStep(sentences, k, f[k - 1])
    BY <1>5 DEF FitsThem
  <2>2. 0 \in 0..n /\ \A k \in 1..n : k \in 0..n /\ k # 0
    BY <1>1
  <2> QED BY <2>1, <2>2
<1> DEFINE Holds(m) == f[m] \in X /\ FlattenSeq(f[m]) = FlattenSeq(Prefix(sentences, m)) /\ AreShort(f[m])
           good == {m \in 0..n : Holds(m)}
<1> HIDE DEF f, step
<1>7. Climbs(good, n)
  <2>1. 0 \in good
    <3>1. Prefix(sentences, 0) = << >>
      BY <1>0, PrefixEnds
    <3>2. f[0] \in X /\ FlattenSeq(f[0]) = << >>
      BY <1>6, NoneYet
    <3>3. AreShort(f[0])
      <4> DEFINE none == << >>
      <4>1. f[0] = <<none>> /\ none \in Seq(Atom) /\ Len(none) = 0
        BY <1>6, EmptySeq
      <4> HIDE DEF none
      <4>2. Len(<<none>>) = 1 /\ <<none>>[1] = none
        BY OneIs
      <4>3. OneSentence(none)
        BY <4>1 DEF OneSentence
      <4>4. Len(f[0]) = 1 /\ f[0][1] = none
        BY <4>1, <4>2
      <4> QED BY <4>3, <4>4 DEF AreShort, Short
    <3>4. Holds(0)
      BY <3>1, <3>2, <3>3, FlattenNothing
    <3> QED BY <1>1, <3>4
  <2>2. ASSUME NEW m \in 1..n, m - 1 \in good PROVE m \in good
    <3> DEFINE p == Prefix(sentences, m - 1)
               e == sentences[m]
               done == f[m - 1]
    <3>1. p \in Seq(Seq(Atom)) /\ e \in Seq(Atom) /\ Prefix(sentences, m) = Append(p, e)
      BY <1>0, PrefixGrows
    <3>2. done \in X /\ FlattenSeq(done) = FlattenSeq(p) /\ AreShort(done) /\ f[m] = FitStep(sentences, m, done)
      BY <1>6, <2>2
    <3> HIDE DEF done, p
    <3>3. f[m] \in X /\ FlattenSeq(f[m]) = FlattenSeq(done) \o e /\ AreShort(f[m])
      <4>1. Continues(Atom, FitStep(sentences, m, done), done, sentences[m])
        BY <1>0, <3>2, FitStepIs
      <4>2. AreShort(FitStep(sentences, m, done))
        BY <1>0, <3>2, FitStepShort
      <4> QED BY <3>2, <4>1, <4>2 DEF Continues
    <3> HIDE DEF e, X
    <3>4. FlattenSeq(Append(p, e)) = FlattenSeq(p) \o e
      BY <3>1, FlattenAppends
    <3>5. Holds(m)
      BY <3>1, <3>2, <3>3, <3>4
    <3>6. m \in 0..n
      BY <1>1
    <3> QED BY <3>5, <3>6
  <2> HIDE DEF good
  <2> QED BY <2>1, <2>2 DEF Climbs
<1>8. Holds(n)
  <2>1. n \in 0..n
    BY <1>1
  <2>2. n \in good
    <3> HIDE DEF good, n
    <3> QED BY <1>1, <1>7, <2>1, Climb
  <2> QED BY <2>2
<1>9. Prefix(sentences, n) = sentences
  BY <1>0, PrefixEnds
<1> QED BY <1>0, <1>8, <1>9 DEF IsFitted, SomePieces, f

LEMMA FittedIs == ASSUME NEW s, s \in Seq(Atom) PROVE IsFitted(Fitted(s), s)
<1>1. CASE s = << >>
  <2> DEFINE none == << >>
  <2>1. Fitted(s) = none /\ none \in Seq(Seq(Atom)) /\ Len(none) = 0 /\ FlattenSeq(none) = s
    BY <1>1, FittedIsChosen, EmptySeq, FlattenNothing
  <2> HIDE DEF none
  <2> QED BY <2>1 DEF IsFitted, AreShort
<1>2. CASE s # << >> /\ Size(s) <= BubbleChars
  <2>1. Fitted(s) = <<s>> /\ <<s>> \in Seq(Seq(Atom)) /\ Len(<<s>>) = 1 /\ <<s>>[1] = s /\ FlattenSeq(<<s>>) = s
    BY <1>2, FittedIsChosen, OneIs, FlattenOne
  <2>2. ~(Size(s) > BubbleChars)
    BY <1>2, SizeOfTwo, TextsAssumption DEF TextsAssumption
  <2>3. AreShort(<<s>>)
    <3>1. \A k \in 1..1 : k = 1
      OBVIOUS
    <3> QED BY <2>1, <2>2, <3>1 DEF AreShort, Short
  <2> QED BY <2>1, <2>3 DEF IsFitted
<1>3. CASE s # << >> /\ ~(Size(s) <= BubbleChars)
  <2>1. AreSentences(Sentences(s), s)
    BY SentencesAre
  <2>2. IsFitted(Fitting(Sentences(s))[Len(Sentences(s))], s)
    BY <2>1, FittingIs
  <2> QED BY <1>3, <2>2, FittedIsChosen
<1> QED BY <1>1, <1>2, <1>3

(* What cutting an answer keeps.                                           *)
KeepsWords(pieces, u) == pieces \in SomePieces(Atom) /\ Words(FlattenSeq(pieces)) = Words(u)

LEMMA SplitKeeps ==
  ASSUME NEW s, s \in Seq(Atom), NEW gap, gap \in Gap
  PROVE  KeepsWords(SplitAt(s, gap), s)
<1> DEFINE n == Len(s)
           pieces == [i \in DOMAIN s |-> IF s[i] = gap THEN << >> ELSE <<s[i]>>]
           starts == {i \in DOMAIN s : s[i] = gap}
           g == Grouping(pieces, starts)
<1>1. n \in Nat /\ DOMAIN s = 1..n /\ \A i \in 1..n : s[i] \in Atom
  BY LenProperties, ElementOfSeq
<1>2. \A i \in 1..n : pieces[i] = (IF s[i] = gap THEN << >> ELSE <<s[i]>>)
  BY <1>1
<1>3. pieces \in Seq(Seq(Atom)) /\ Len(pieces) = n
  <2>1. \A i \in 1..n : <<s[i]>> \in Seq(Atom) /\ << >> \in Seq(Atom)
    BY <1>1, OneIs
  <2>2. pieces \in [1..n -> Seq(Atom)]
    BY <1>1, <2>1
  <2> HIDE DEF pieces
  <2> QED BY <1>1, <2>2, FunctionIsSeq
<1>4. SplitAt(s, gap) = Grouped(pieces, starts)
  BY DEF SplitAt
<1> HIDE DEF pieces, starts, g
<1>5. IsGrouping(Atom, pieces, starts, g)
  BY <1>3, GroupingIs DEF g
<1>6. n \in 0..n /\ Prefix(pieces, n) = pieces
  BY <1>1, <1>3, PrefixEnds
<1>7. SplitAt(s, gap) \in SomePieces(Atom) /\ FlattenSeq(SplitAt(s, gap)) = FlattenSeq(pieces)
  BY <1>3, <1>4, <1>5, <1>6 DEF IsGrouping
<1>8. SamePieces(pieces, s)
  <2>1. ASSUME NEW i \in 1..n PROVE Words(pieces[i]) = Words(<<s[i]>>)
    <3>1. CASE s[i] = gap
      <4>1. pieces[i] = << >> /\ Words(<<s[i]>>) = << >>
        BY <1>1, <1>2, <3>1, WordsOfOne
      <4> QED BY <4>1, WordsOfNothing
    <3>2. CASE s[i] # gap
      BY <1>2, <3>2
    <3> QED BY <3>1, <3>2
  <2> QED BY <1>3, <2>1 DEF SamePieces
<1>9. Words(FlattenSeq(pieces)) = Words(s)
  BY <1>3, <1>8, WordsByPieces
<1> QED BY <1>7, <1>9 DEF KeepsWords

\* What is cut into pieces that each hold the word of one atom.
LEMMA PiecesKeep ==
  ASSUME NEW u, u \in Seq(Atom), NEW f,
         f \in [1..Len(u) -> Seq(Atom)], \A i \in 1..Len(u) : Words(f[i]) = Words(<<u[i]>>)
  PROVE  FlattenSeq(f) \in Seq(Atom) /\ Words(FlattenSeq(f)) = Words(u)
<1>1. Len(u) \in Nat
  BY LenProperties
<1>2. f \in Seq(Seq(Atom)) /\ Len(f) = Len(u)
  BY <1>1, FunctionIsSeq
<1>3. SamePieces(f, u)
  BY <1>2 DEF SamePieces
<1>4. Words(FlattenSeq(f)) = Words(u)
  BY <1>2, <1>3, WordsByPieces
<1>5. << >> \in Seq(Atom)
  BY EmptySeq
<1> QED BY <1>2, <1>4, <1>5, FlattenAppends

LEMMA TidiedKeeps ==
  ASSUME NEW u, u \in Seq(Atom)
  PROVE  Tidied(u) \in Seq(Atom) /\ Words(Tidied(u)) = Words(u)
<1> DEFINE n == Len(u)
           solid == {i \in DOMAIN u : u[i] \notin Gap}
           Tidy(i) == CASE i \in solid -> <<u[i]>>
                        [] i \notin solid /\ (\E k \in solid : k > i) /\ i - 1 \in solid ->
                             IF i + 1 \in solid THEN <<u[i]>> ELSE <<"//">>
                        [] OTHER -> << >>
           f == [i \in DOMAIN u |-> Tidy(i)]
<1>1. n \in Nat /\ DOMAIN u = 1..n /\ \A i \in 1..n : u[i] \in Atom
  BY LenProperties, ElementOfSeq
<1>2. ASSUME NEW i \in 1..n
      PROVE  \/ Tidy(i) = <<u[i]>>
             \/ u[i] \in Gap /\ Tidy(i) = <<"//">>
             \/ u[i] \in Gap /\ Tidy(i) = << >>
  <2>1. i \notin solid => u[i] \in Gap
    BY <1>1
  <2> HIDE DEF solid
  <2> QED BY <2>1
<1> HIDE DEF Tidy
<1>3. ASSUME NEW i \in 1..n PROVE Tidy(i) \in Seq(Atom) /\ Words(Tidy(i)) = Words(<<u[i]>>)
  <2>1. u[i] \in Atom /\ "//" \in Atom /\ "//" \in Gap /\ << >> \in Seq(Atom)
    BY <1>1, EmptySeq DEF Atom, Gap
  <2>2. <<u[i]>> \in Seq(Atom) /\ <<"//">> \in Seq(Atom)
    BY <2>1, OneIs
  <2>3. u[i] \in Gap => Words(<<u[i]>>) = << >>
    BY <2>1, WordsOfOne
  <2>4. Words(<<"//">>) = << >>
    BY <2>1, WordsOfOne
  <2> QED BY <1>2, <2>1, <2>2, <2>3, <2>4, WordsOfNothing
<1>4. f \in [1..n -> Seq(Atom)] /\ \A i \in 1..n : Words(f[i]) = Words(<<u[i]>>)
  BY <1>1, <1>3
<1>5. Tidied(u) = FlattenSeq(f)
  BY DEF Tidied, Tidy
<1> HIDE DEF f
<1> QED BY <1>4, <1>5, PiecesKeep

LEMMA SeparatedKeeps ==
  ASSUME NEW u, u \in Seq(Atom)
  PROVE  Separated(u) \in Seq(Atom) /\ Words(Separated(u)) = Words(u)
<1> DEFINE n == Len(u)
           marks == Marks(u)
           Swallowed(i) == u[i] \in Gap /\ (marks[i + 1] \/ Torn(u, i - 2) \/ (u[i - 1] = "1." /\ marks[i - 1]))
           Kept(i) == IF marks[i] THEN <<"/", u[i]>> ELSE IF Swallowed(i) THEN << >> ELSE <<u[i]>>
           f == [i \in DOMAIN u |-> Kept(i)]
<1>1. n \in Nat /\ DOMAIN u = 1..n /\ \A i \in 1..n : u[i] \in Atom
  BY LenProperties, ElementOfSeq
<1>2. ASSUME NEW i \in 1..n
      PROVE  \/ Kept(i) = <<u[i]>>
             \/ Kept(i) = <<"/", u[i]>>
             \/ u[i] \in Gap /\ Kept(i) = << >>
  <2> HIDE DEF marks
  <2>1. Swallowed(i) => u[i] \in Gap
    OBVIOUS
  <2> HIDE DEF Swallowed
  <2> QED BY <2>1
<1>3. ASSUME NEW i \in 1..n PROVE Kept(i) \in Seq(Atom) /\ Words(Kept(i)) = Words(<<u[i]>>)
  <2> HIDE DEF Kept
  <2>1. u[i] \in Atom /\ "/" \in Atom /\ "/" \in Gap /\ << >> \in Seq(Atom)
    BY <1>1, EmptySeq DEF Atom, Gap
  <2>2. <<u[i]>> \in Seq(Atom) /\ <<"/">> \in Seq(Atom)
    BY <2>1, OneIs
  <2>3. u[i] \in Gap => Words(<<u[i]>>) = << >>
    BY <2>1, WordsOfOne
  <2>4. <<"/", u[i]>> \in Seq(Atom) /\ Words(<<"/", u[i]>>) = Words(<<u[i]>>)
    <3> DEFINE a == <<"/">>
               b == <<u[i]>>
    <3>1. <<"/", u[i]>> = a \o b
      OBVIOUS
    <3>2. Words(a) = << >>
      BY <2>1, WordsOfOne
    <3>3. a \in Seq(Atom) /\ b \in Seq(Atom)
      BY <2>2
    <3> HIDE DEF a, b
    <3>4. Words(a \o b) = Words(a) \o Words(b) /\ Words(b) \in Seq(Atom) /\ a \o b \in Seq(Atom)
      BY <3>3, WordsOfTwo, WordsAre, ConcatProperties
    <3>5. Words(a \o b) = Words(b)
      BY <3>2, <3>4, ConcatEmptySeq
    <3> QED BY <3>1, <3>4, <3>5 DEF b
  <2> QED BY <1>2, <2>1, <2>2, <2>3, <2>4, WordsOfNothing
<1>4. f \in [1..n -> Seq(Atom)] /\ \A i \in 1..n : Words(f[i]) = Words(<<u[i]>>)
  <2> HIDE DEF Kept
  <2> QED BY <1>1, <1>3
<1>5. Separated(u) = FlattenSeq(f)
  BY DEF Separated
<1> HIDE DEF f
<1> QED BY <1>4, <1>5, PiecesKeep

(* The bubbles of a section.                                               *)
LEMMA ItemGoesOn ==
  ASSUME NEW a, a \in Seq(Atom), NEW b, b \in Seq(Atom), IsItem(a)
  PROVE  IsItem(a \o b)
<1> DEFINE t == a \o b
<1>1. /\ Len(a) \in Nat /\ Len(b) \in Nat /\ Len(t) = Len(a) + Len(b)
      /\ \A i \in 1..(Len(a) + Len(b)) : t[i] = IF i <= Len(a) THEN a[i] ELSE b[i - Len(a)]
  BY LenProperties, ConcatProperties
<1> HIDE DEF t
<1>2. CASE Len(a) > 1 /\ a[1] = "1."
  <2>1. Len(t) > 1 /\ 1 \in 1..(Len(a) + Len(b)) /\ 1 <= Len(a)
    BY <1>1, <1>2
  <2>2. t[1] = a[1]
    BY <1>1, <2>1
  <2> QED BY <1>2, <2>1, <2>2 DEF IsItem, t
<1>3. CASE Len(a) > 2 /\ a[1] = "000" /\ a[2] = "."
  <2>1. Len(t) > 2 /\ 1 \in 1..(Len(a) + Len(b)) /\ 1 <= Len(a) /\ 2 \in 1..(Len(a) + Len(b)) /\ 2 <= Len(a)
    BY <1>1, <1>3
  <2>2. t[1] = a[1] /\ t[2] = a[2]
    BY <1>1, <2>1
  <2> QED BY <1>3, <2>1, <2>2 DEF IsItem, t
<1> QED BY <1>2, <1>3 DEF IsItem

\* A bubble of a section may be long if it is an item, a sentence or the
\* last line of a list whose marker stands alone.
Fine(b, section) ==
  b \in Seq(Atom) /\ (Size(b) > BubbleChars =>
    IsItem(b) \/ OneSentence(b) \/ (Alone(Lines(section)) /\ b = Last(Lines(section))))
AreBubbles(bs, section) ==
  /\ bs \in Seq(Seq(Atom)) /\ Words(FlattenSeq(bs)) = Words(section)
  /\ \A k \in 1..Len(bs) : Fine(bs[k], section)

LEMMA BubblesAre == ASSUME NEW section, section \in Seq(Atom) PROVE AreBubbles(BubblesOf(section), section)
<1> DEFINE lines == Lines(section)
           n == Len(lines)
           items == {k \in DOMAIN lines : IsItem(lines[k])}
           starts == IF items = {} /\ Alone(lines) THEN {Len(lines)} ELSE items
           groups == Grouped(lines, starts)
           g == Grouping(lines, starts)
           head == Head(groups)
           tail == Tail(groups)
           first == Fitted(head)
           bs == first \o tail
<1>1. lines \in SomePieces(Atom) /\ Words(FlattenSeq(lines)) = Words(section)
  <2>1. KeepsWords(SplitAt(section, "/"), section)
    BY SplitKeeps DEF Gap
  <2> QED BY <2>1 DEF KeepsWords, Lines
<1>2. lines \in Seq(Seq(Atom)) /\ n \in Nat /\ n >= 1 /\ DOMAIN lines = 1..n /\ \A k \in 1..n : lines[k] \in Seq(Atom)
  <2> HIDE DEF lines
  <2>1. lines \in Seq(Seq(Atom)) /\ lines # << >>
    BY <1>1 DEF SomePieces
  <2> QED BY <2>1, EmptySeq, LenProperties, ElementOfSeq
<1>3. ASSUME NEW j \in starts
      PROVE  j \in 1..n /\ (IsItem(lines[j]) \/ (j = n /\ Alone(lines)))
  <2> HIDE DEF lines
  <2>1. CASE items = {} /\ Alone(lines)
    <3>1. j = n
      BY <1>3, <2>1
    <3> QED BY <1>2, <2>1, <3>1
  <2>2. CASE ~(items = {} /\ Alone(lines))
    <3>1. j \in items
      BY <1>3, <2>2
    <3> QED BY <1>2, <3>1
  <2> QED BY <2>1, <2>2
<1>4. BubblesOf(section) = bs
  BY DEF BubblesOf
<1> HIDE DEF lines, starts, groups, g
<1>5. IsGrouping(Atom, lines, starts, g)
  BY <1>2, GroupingIs DEF g
<1>6. groups \in SomePieces(Atom) /\ FlattenSeq(groups) = FlattenSeq(lines) /\ Begins(Atom, lines, starts, n, groups)
  <2>1. n \in 0..n /\ Prefix(lines, n) = lines
    BY <1>2, PrefixEnds
  <2>2. Begins(Atom, lines, starts, n, g[n])
    BY <1>2, <1>5, GroupsBegin
  <2>3. groups = g[n]
    BY <1>5 DEF IsGrouping, groups
  <2> QED BY <1>5, <2>1, <2>2, <2>3 DEF IsGrouping
<1>7. groups \in Seq(Seq(Atom)) /\ groups # << >>
  BY <1>6 DEF SomePieces
<1>8. /\ head \in Seq(Atom) /\ tail \in Seq(Seq(Atom)) /\ Len(tail) = Len(groups) - 1
      /\ \A i \in 1..Len(tail) : tail[i] = groups[i + 1]
      /\ Len(groups) \in Nat /\ Len(groups) >= 1 /\ head = groups[1]
  <2> DEFINE Z == Seq(Atom)
  <2>1. groups \in Seq(Z)
    BY <1>7
  <2> HIDE DEF Z
  <2>2. /\ head \in Z /\ tail \in Seq(Z) /\ Len(tail) = Len(groups) - 1
        /\ \A i \in 1..Len(tail) : tail[i] = groups[i + 1]
    BY <1>7, <2>1, HeadTailProperties
  <2>3. Len(groups) \in Nat /\ Len(groups) >= 1
    BY <1>7, <2>1, EmptySeq
  <2>4. head = groups[1]
    OBVIOUS
  <2> QED BY <2>2, <2>3, <2>4 DEF Z
<1>9. FlattenSeq(groups) = head \o FlattenSeq(tail) /\ FlattenSeq(tail) \in Seq(Atom)
  <2> DEFINE Z == Seq(Atom)
             m == Len(groups)
  <2>1. groups \in Seq(Z) /\ 1 \in 1..m /\ m \in 1..m
    BY <1>7, <1>8
  <2> HIDE DEF Z
  <2>2. SubSeq(groups, 1, m) = <<groups[1]>> \o SubSeq(groups, 2, m)
    BY <2>1, SubSeqRecursiveFirst
  <2>3. SubSeq(groups, 1, m) = groups /\ tail = SubSeq(groups, 2, m)
    BY <1>7, <2>1, SubSeqFull, TailIsSubSeq
  <2>4. groups = <<head>> \o tail
    BY <1>8, <2>2, <2>3
  <2> HIDE DEF head, tail
  <2>5. <<head>> \in Seq(Seq(Atom)) /\ FlattenSeq(<<head>>) = head
    BY <1>8, OneIs, FlattenOne
  <2>6. FlattenSeq(<<head>> \o tail) = FlattenSeq(<<head>>) \o FlattenSeq(tail) /\ FlattenSeq(tail) \in Seq(Atom)
    <3> DEFINE t == <<head>>
    <3>1. t \in Seq(Seq(Atom))
      BY <2>5
    <3> HIDE DEF t
    <3>2. FlattenSeq(t \o tail) = FlattenSeq(t) \o FlattenSeq(tail) /\ FlattenSeq(tail) \in Seq(Atom)
      BY <1>8, <3>1, FlattenOfTwo
    <3> QED BY <3>2 DEF t
  <2> QED BY <2>4, <2>5, <2>6
<1> HIDE DEF head, tail
<1>10. first \in Seq(Seq(Atom)) /\ FlattenSeq(first) = head /\ AreShort(first)
  BY <1>8, FittedIs DEF IsFitted
<1> HIDE DEF first
<1>11. bs \in Seq(Seq(Atom)) /\ FlattenSeq(bs) = FlattenSeq(lines)
  <2>1. FlattenSeq(first \o tail) = FlattenSeq(first) \o FlattenSeq(tail)
    <3>1. first \in Seq(Seq(Atom)) /\ tail \in Seq(Seq(Atom))
      BY <1>8, <1>10
    <3> HIDE DEF bs
    <3> QED BY <3>1, FlattenOfTwo
  <2>2. first \o tail \in Seq(Seq(Atom))
    <3> DEFINE Z == Seq(Atom)
    <3>1. first \in Seq(Z) /\ tail \in Seq(Z)
      BY <1>8, <1>10
    <3> HIDE DEF Z
    <3>2. first \o tail \in Seq(Z)
      BY <3>1, ConcatProperties
    <3> QED BY <3>2 DEF Z
  <2> QED BY <1>6, <1>9, <1>10, <2>1, <2>2
<1>12. ASSUME NEW k \in 1..Len(first) PROVE Fine(first[k], section)
  <2>1. Short(first[k]) /\ first[k] \in Seq(Atom)
    BY <1>10, ElementOfSeq DEF AreShort
  <2> QED BY <2>1 DEF Fine, Short
<1>13. ASSUME NEW k \in 1..Len(tail) PROVE Fine(tail[k], section)
  <2> DEFINE b == tail[k]
  <2>1. k + 1 \in 2..Len(groups) /\ b = groups[k + 1] /\ b \in Seq(Atom)
    BY <1>8, ElementOfSeq
  <2>2. Begun(Atom, lines, starts, n, b)
    BY <1>6, <2>1 DEF Begins
  <2>3. PICK j \in starts, t \in Seq(Atom) : b = lines[j] \o t /\ (j = n => t = << >>)
    BY <2>2 DEF Begun
  <2>4. lines[j] \in Seq(Atom)
    BY <1>2, <1>3
  <2>5. CASE IsItem(lines[j])
    <3>1. IsItem(b)
      BY <2>3, <2>4, <2>5, ItemGoesOn
    <3> QED BY <2>1, <3>1 DEF Fine
  <2>6. CASE j = n /\ Alone(lines)
    <3>1. b = lines[n]
      BY <2>3, <2>4, <2>6, ConcatEmptySeq
    <3>2. b = Last(lines)
      BY <3>1 DEF Last
    <3> QED BY <2>1, <2>6, <3>2 DEF Fine, lines
  <2> QED BY <1>3, <2>5, <2>6
<1>14. ASSUME NEW k \in 1..Len(bs) PROVE Fine(bs[k], section)
  <2>1. /\ Len(first) \in Nat /\ Len(tail) \in Nat /\ Len(bs) = Len(first) + Len(tail)
        /\ bs[k] = IF k <= Len(first) THEN first[k] ELSE tail[k - Len(first)]
    <3> DEFINE Z == Seq(Atom)
    <3>1. first \in Seq(Z) /\ tail \in Seq(Z)
      BY <1>8, <1>10
    <3> HIDE DEF Z
    <3>2. Len(first) \in Nat /\ Len(tail) \in Nat /\ Len(bs) = Len(first) + Len(tail)
      BY <3>1, ConcatProperties, LenProperties
    <3>3. k \in 1..(Len(first) + Len(tail))
      BY <3>2
    <3> QED BY <3>1, <3>2, <3>3, ConcatProperties
  <2>2. CASE k <= Len(first)
    <3>1. k \in 1..Len(first)
      BY <2>1, <2>2
    <3> QED BY <1>12, <2>1, <2>2, <3>1
  <2>3. CASE ~(k <= Len(first))
    <3>1. k - Len(first) \in 1..Len(tail)
      BY <2>1, <2>3
    <3> QED BY <1>13, <2>1, <2>3, <3>1
  <2> QED BY <2>2, <2>3
<1> HIDE DEF bs
<1> QED BY <1>1, <1>4, <1>11, <1>14 DEF AreBubbles

\* Pieces of pieces, each of which makes one piece.
Pairs(bs, h) == Len(bs) = Len(h) /\ \A k \in 1..Len(bs) : FlattenSeq(bs[k]) = h[k]

LEMMA FlattenTwice ==
  ASSUME NEW S, NEW bs, bs \in Seq(Seq(Seq(S))), NEW h, h \in Seq(Seq(S)), Pairs(bs, h)
  PROVE  FlattenSeq(FlattenSeq(bs)) = FlattenSeq(h)
<1> DEFINE n == Len(bs)
           Z == Seq(S)
           Holds(m) == FlattenSeq(FlattenSeq(Prefix(bs, m))) = FlattenSeq(Prefix(h, m))
           good == {m \in 0..n : Holds(m)}
<1>1. /\ n \in Nat /\ Len(h) = n /\ Prefix(bs, 0) = << >> /\ Prefix(h, 0) = << >>
      /\ Prefix(bs, n) = bs /\ Prefix(h, n) = h
  BY PrefixEnds DEF Pairs
<1>2. 0 \in good
  BY <1>1, FlattenNothing
<1>3. ASSUME NEW m \in 1..n, m - 1 \in good PROVE m \in good
  <2> DEFINE p == Prefix(bs, m - 1)
             q == Prefix(h, m - 1)
             d == bs[m]
             e == h[m]
             r == FlattenSeq(p)
  <2>1. /\ p \in Seq(Seq(Z)) /\ d \in Seq(Z) /\ Prefix(bs, m) = Append(p, d)
        /\ q \in Seq(Z) /\ e \in Z /\ Prefix(h, m) = Append(q, e)
    BY <1>1, PrefixGrows
  <2>2. FlattenSeq(r) = FlattenSeq(q) /\ FlattenSeq(d) = e
    BY <1>3 DEF Pairs
  <2> HIDE DEF p, q, d, e, Z
  <2>3. FlattenSeq(Append(p, d)) = r \o d /\ r \in Seq(Z)
    BY <2>1, FlattenAppends
  <2>4. FlattenSeq(Append(q, e)) = FlattenSeq(q) \o e
    <3>1. q \in Seq(Seq(S)) /\ e \in Seq(S)
      BY <2>1 DEF Z
    <3> QED BY <3>1, FlattenAppends
  <2> HIDE DEF r
  <2>5. FlattenSeq(r \o d) = FlattenSeq(r) \o FlattenSeq(d)
    <3>1. r \in Seq(Seq(S)) /\ d \in Seq(Seq(S))
      BY <2>1, <2>3 DEF Z
    <3> DEFINE c == r
               x == d
    <3>2. c \in Seq(Seq(S)) /\ x \in Seq(Seq(S))
      BY <3>1
    <3> HIDE DEF c, x
    <3>3. FlattenSeq(c \o x) = FlattenSeq(c) \o FlattenSeq(x) /\ FlattenSeq(c) \in Seq(S) /\ FlattenSeq(x) \in Seq(S)
      BY <3>2, FlattenOfTwo
    <3> QED BY <3>3 DEF c, x
  <2>6. Holds(m)
    BY <2>1, <2>2, <2>3, <2>4, <2>5
  <2>7. m \in 0..n
    BY <1>1
  <2> QED BY <2>6, <2>7
<1>4. n \in good
  <2>1. Climbs(good, n) /\ n \in 0..n
    <3> HIDE DEF good
    <3> QED BY <1>1, <1>2, <1>3 DEF Climbs
  <2> HIDE DEF good, n
  <2> QED BY <1>1, <2>1, Climb
<1> QED BY <1>1, <1>4

(* The plan for an answer.                                                 *)
Allowed(u) == {b \in Seq(Atom) : \E section \in Range(Sections(u)) : Fine(b, section)}
AreAll(all, u) == all \in Seq(Allowed(u)) /\ all \in Seq(Seq(Atom)) /\ Words(FlattenSeq(all)) = Words(u)

LEMMA AllAre ==
  ASSUME NEW u, u \in Seq(Atom), NEW bs, bs = [k \in DOMAIN Sections(u) |-> BubblesOf(Sections(u)[k])]
  PROVE  AreAll(FlattenSeq(bs), u)
<1> DEFINE sections == Sections(u)
           n == Len(sections)
           S == Allowed(u)
           h == [k \in 1..n |-> FlattenSeq(bs[k])]
<1>1. sections \in Seq(Seq(Atom)) /\ Words(FlattenSeq(sections)) = Words(u)
  <2>1. Separated(u) \in Seq(Atom) /\ Words(Separated(u)) = Words(u)
    BY SeparatedKeeps
  <2>2. KeepsWords(SplitAt(Separated(u), "//"), Separated(u))
    BY <2>1, SplitKeeps DEF Gap
  <2> QED BY <2>1, <2>2 DEF KeepsWords, Sections, SomePieces
<1> HIDE DEF sections
<1>2. n \in Nat /\ DOMAIN sections = 1..n /\ \A k \in 1..n : sections[k] \in Seq(Atom) /\ sections[k] \in Range(sections)
  BY <1>1, LenProperties, ElementOfSeq DEF Range
<1>3. \A k \in 1..n : bs[k] = BubblesOf(sections[k])
  BY <1>2 DEF sections
<1>4. ASSUME NEW k \in 1..n PROVE AreBubbles(bs[k], sections[k])
  BY <1>2, <1>3, BubblesAre
<1>5. bs \in [1..n -> Seq(Seq(Atom))]
  <2>1. DOMAIN bs = 1..n /\ bs = [k \in 1..n |-> bs[k]]
    BY <1>2 DEF sections
  <2> QED BY <1>4, <2>1 DEF AreBubbles
<1>6. ASSUME NEW k \in 1..n PROVE bs[k] \in Seq(S)
  <2> DEFINE b == bs[k]
             m == Len(b)
  <2>1. AreBubbles(b, sections[k])
    BY <1>4
  <2> HIDE DEF b
  <2>2. b \in [1..m -> Seq(Atom)] /\ m \in Nat /\ \A i \in 1..m : Fine(b[i], sections[k])
    BY <2>1, LenProperties DEF AreBubbles
  <2>3. \A i \in 1..m : b[i] \in S
    BY <1>2, <2>2 DEF Allowed, sections
  <2>4. b \in [1..m -> S]
    BY <2>2, <2>3
  <2> HIDE DEF S, m
  <2>5. b \in Seq(S)
    BY <2>2, <2>4, FunctionIsSeq
  <2> QED BY <2>5 DEF b
<1>7. bs \in Seq(Seq(S)) /\ Len(bs) = n /\ bs \in Seq(Seq(Seq(Atom)))
  <2>1. bs \in [1..n -> Seq(S)]
    BY <1>5, <1>6
  <2> HIDE DEF S, n
  <2> QED BY <1>2, <1>5, <2>1, FunctionIsSeq
<1> HIDE DEF S
<1>8. FlattenSeq(bs) \in Seq(S)
  <2>1. << >> \in Seq(S)
    BY EmptySeq
  <2> QED BY <1>7, <2>1, FlattenAppends
<1>9. FlattenSeq(bs) \in Seq(Seq(Atom))
  <2> DEFINE Z == Seq(Atom)
  <2>1. bs \in Seq(Seq(Z))
    BY <1>7
  <2> HIDE DEF Z
  <2>2. << >> \in Seq(Z)
    BY EmptySeq
  <2>3. FlattenSeq(bs) \in Seq(Z)
    BY <2>1, <2>2, FlattenAppends
  <2> QED BY <2>3 DEF Z
<1>10. ASSUME NEW k \in 1..n PROVE FlattenSeq(bs[k]) \in Seq(Atom) /\ Words(FlattenSeq(bs[k])) = Words(sections[k])
  <2> DEFINE b == bs[k]
  <2>1. b \in Seq(Seq(Atom)) /\ Words(FlattenSeq(b)) = Words(sections[k])
    BY <1>4 DEF AreBubbles
  <2> HIDE DEF b
  <2>2. << >> \in Seq(Atom)
    BY EmptySeq
  <2>3. FlattenSeq(b) \in Seq(Atom)
    BY <2>1, <2>2, FlattenAppends
  <2> QED BY <2>1, <2>3 DEF b
<1>11. h \in [1..n -> Seq(Atom)] /\ \A k \in 1..n : h[k] = FlattenSeq(bs[k])
  BY <1>10
<1> HIDE DEF h
<1>12. h \in Seq(Seq(Atom)) /\ Len(h) = n
  BY <1>2, <1>11, FunctionIsSeq
<1>13. Pairs(bs, h) /\ SameWords(h, sections)
  BY <1>7, <1>10, <1>11, <1>12 DEF Pairs, SameWords
<1>14. FlattenSeq(FlattenSeq(bs)) = FlattenSeq(h)
  BY <1>7, <1>12, <1>13, FlattenTwice
<1>15. Words(FlattenSeq(h)) = Words(FlattenSeq(sections))
  BY <1>1, <1>12, <1>13, WordsOfPieces
<1> QED BY <1>1, <1>8, <1>9, <1>14, <1>15 DEF AreAll, S

IsPlan(plan, u) ==
  /\ Len(plan) <= MaxBubbles /\ Words(FlattenSeq(plan)) = Words(u)
  /\ \A k \in DOMAIN plan \ {MaxBubbles} : plan[k] \in Allowed(u)

LEMMA PlanIs == ASSUME NEW u, u \in Seq(Atom) PROVE IsPlan(ResponsePlan(u), u)
<1> DEFINE bs == [k \in DOMAIN Sections(u) |-> BubblesOf(Sections(u)[k])]
           all == FlattenSeq(bs)
           n == Len(all)
           M == MaxBubbles
           S == Allowed(u)
           front == SubSeq(all, 1, M - 1)
           rest == SubSeq(all, M, n)
           final == FlattenSeq(rest)
<1>1. ResponsePlan(u) = IF n <= M THEN all ELSE Append(front, final)
  BY DEF ResponsePlan
<1>2. AreAll(all, u)
  BY AllAre
<1>3. M \in Nat /\ M >= 1
  BY TextsAssumption DEF TextsAssumption
<1> HIDE DEF all, S
<1>4. /\ all \in Seq(S) /\ all \in Seq(Seq(Atom)) /\ Words(FlattenSeq(all)) = Words(u)
      /\ n \in Nat /\ DOMAIN all = 1..n /\ \A k \in 1..n : all[k] \in S
  <2>1. all \in Seq(S) /\ all \in Seq(Seq(Atom)) /\ Words(FlattenSeq(all)) = Words(u)
    BY <1>2 DEF AreAll, S
  <2> QED BY <2>1, LenProperties, ElementOfSeq
<1>5. CASE n <= M
  <2>1. IsPlan(all, u)
    BY <1>4, <1>5 DEF IsPlan, S
  <2> QED BY <1>1, <1>5, <2>1
<1>6. CASE ~(n <= M)
  <2> DEFINE Z == Seq(Atom)
  <2>1. M - 1 \in Int /\ 1 \in Int /\ M \in Int /\ n \in Int /\ M - 1 >= 0 /\ M - 1 < n
    BY <1>3, <1>4, <1>6
  <2>2. \A i \in 1..(M - 1) : all[i] \in S /\ all[i] \in Z
    <3>1. \A i \in 1..(M - 1) : i \in 1..n
      BY <2>1
    <3> QED BY <1>4, <3>1, ElementOfSeq
  <2>3. \A i \in M..n : all[i] \in Z
    <3>1. \A i \in M..n : i \in 1..n
      BY <1>3, <2>1
    <3> QED BY <1>4, <3>1, ElementOfSeq
  <2> HIDE DEF Z
  <2>4. front \in Seq(Z) /\ Len(front) = M - 1 /\ \A i \in 1..(M - 1) : front[i] = all[i]
    <3>1. front \in Seq(Z) /\ Len(front) = (IF 1 <= M - 1 THEN M - 1 - 1 + 1 ELSE 0)
          /\ \A i \in 1..(M - 1 - 1 + 1) : front[i] = all[1 + i - 1]
      BY <2>1, <2>2, SubSeqProperties
    <3> HIDE DEF front
    <3>2. Len(front) = M - 1
      BY <2>1, <3>1
    <3>3. ASSUME NEW i \in 1..(M - 1) PROVE front[i] = all[i]
      <4>1. i \in 1..(M - 1 - 1 + 1) /\ 1 + i - 1 = i
        BY <2>1
      <4> QED BY <3>1, <4>1
    <3> QED BY <3>1, <3>2, <3>3
  <2>5. rest \in Seq(Z)
    BY <2>1, <2>3, SubSeqProperties
  <2>6. front \o rest = all
    <3>1. SubSeq(all, 1, M - 1) \o SubSeq(all, (M - 1) + 1, n) = SubSeq(all, 1, n)
      <4>1. 1 \in 1..(Len(all) + 1) /\ M - 1 \in (1 - 1)..Len(all) /\ n \in (M - 1)..Len(all)
        BY <1>4, <2>1
      <4> HIDE DEF n
      <4> QED BY <1>4, <4>1, ConcatAdjacentSubSeq
    <3>2. (M - 1) + 1 = M
      BY <2>1
    <3>3. SubSeq(all, 1, n) = all
      BY <1>4, SubSeqFull
    <3> QED BY <3>1, <3>2, <3>3
  <2> HIDE DEF front, rest
  <2>7. front \in Seq(Seq(Atom)) /\ rest \in Seq(Seq(Atom))
    BY <2>4, <2>5 DEF Z
  <2>8. /\ FlattenSeq(front \o rest) = FlattenSeq(front) \o FlattenSeq(rest)
        /\ FlattenSeq(front) \in Seq(Atom) /\ FlattenSeq(rest) \in Seq(Atom)
    BY <2>7, FlattenOfTwo
  <2> HIDE DEF final
  <2>9. final = FlattenSeq(rest) /\ final \in Seq(Atom)
    BY <2>8 DEF final
  <2> DEFINE plan == Append(front, final)
  <2>10. FlattenSeq(plan) = FlattenSeq(front) \o final
    BY <2>7, <2>9, FlattenAppends
  <2>11. plan \in Seq(Z) /\ Len(plan) = M /\ \A k \in 1..(M - 1) : plan[k] = all[k]
    <3>1. final \in Z
      BY <2>9 DEF Z
    <3>2. plan \in Seq(Z) /\ Len(plan) = Len(front) + 1 /\ \A k \in 1..Len(front) : plan[k] = front[k]
      BY <2>4, <3>1, AppendProperties
    <3> HIDE DEF plan
    <3> QED BY <2>1, <2>4, <3>2
  <2> HIDE DEF plan
  <2>12. DOMAIN plan = 1..M
    BY <2>11, LenProperties
  <2>13. ASSUME NEW k \in DOMAIN plan \ {M} PROVE plan[k] \in S
    <3>1. k \in 1..(M - 1)
      BY <2>1, <2>12
    <3> QED BY <2>2, <2>11, <3>1
  <2>14. Words(FlattenSeq(plan)) = Words(u)
    BY <1>4, <2>6, <2>8, <2>9, <2>10
  <2>15. Len(plan) <= M
    BY <2>1, <2>11
  <2>16. IsPlan(plan, u)
    BY <2>13, <2>14, <2>15 DEF IsPlan, S
  <2> QED BY <1>1, <1>6, <2>16 DEF plan
<1> QED BY <1>5, <1>6

(* One question.                                                           *)
LEMMA PartEnds ==
  ASSUME NEW u, u \in Seq(Atom), NEW i, i \in 1..Len(u)
  PROVE  PartEnd(u, i) \in i..Len(u) /\ EndsPart(u, PartEnd(u, i)) /\ \A k \in i..(PartEnd(u, i) - 1) : ~EndsPart(u, k)
<1> DEFINE n == Len(u)
           ends == {k \in i..n : EndsPart(u, k)}
           e == Min(ends)
<1>1. n \in Nat /\ n \in i..n /\ EndsPart(u, n)
  BY LenProperties DEF EndsPart
<1>2. ends \in SUBSET (0..n) /\ ends # {}
  BY <1>1
<1>3. PartEnd(u, i) = e
  BY DEF PartEnd
<1> HIDE DEF ends, n
<1>4. e \in ends /\ \A k \in ends : e <= k
  BY <1>1, <1>2, Extremes
<1> HIDE DEF e
<1>5. e \in i..n /\ EndsPart(u, e)
  BY <1>4 DEF ends
<1>6. ASSUME NEW k \in i..(e - 1), EndsPart(u, k) PROVE FALSE
  <2>1. k \in i..n /\ k < e
    BY <1>1, <1>5, <1>6
  <2>2. k \in ends
    BY <1>6, <2>1 DEF ends
  <2> QED BY <1>1, <1>4, <1>5, <2>1, <2>2
<1> QED BY <1>3, <1>5, <1>6 DEF n

(* No price is asked for before the last question.                         *)
NoPrice == \A i \in DOMAIN script : Asks(i) => script[i] # "Rp50"

LEMMA DroppedAsks ==
  ASSUME script \in Seq(Atom), NoPrice, NEW i, i \in 1..Len(script)
  PROVE  Dropped(script, i) <=> Asks(i)
<1> DEFINE n == Len(script)
           e == PartEnd(script, i)
<1>1. n \in Nat /\ DOMAIN script = 1..n /\ \A k \in 1..n : script[k] \in Atom
  BY LenProperties, ElementOfSeq
<1>2. e \in i..n /\ EndsPart(script, e) /\ \A k \in i..(e - 1) : ~EndsPart(script, k)
  BY PartEnds
<1> HIDE DEF e
<1>3. ASSUME Dropped(script, i) PROVE Asks(i)
  <2>1. script[e] = "?" /\ \E k \in (e + 1)..n : script[k] = "?"
    BY <1>3 DEF Dropped, e
  <2>2. ASSUME NEW k \in i..(e - 1) PROVE script[k] \in {"word", "Rp50", "000"}
    <3>1. k \in 1..n
      BY <1>1, <1>2
    <3>2. script[k] \in Atom /\ ~EndsPart(script, k)
      BY <1>1, <1>2, <3>1
    <3> QED BY <3>2 DEF Atom, EndsPart
  <2> QED BY <1>2, <2>1, <2>2 DEF Asks
<1>4. ASSUME Asks(i) PROVE Dropped(script, i)
  <2>1. PICK q \in i..n :
          /\ script[q] = "?" /\ \E k \in (q + 1)..n : script[k] = "?"
          /\ \A k \in i..(q - 1) :
               script[k] \in {"word", "Rp50", "000"} \/ (k > 1 /\ script[k] = "." /\ script[k - 1] = "Rp50")
    BY <1>4 DEF Asks
  <2>2. q \in 1..n
    BY <1>1
  <2>3. ASSUME NEW k \in i..(q - 1) PROVE Asks(k) /\ k \in 1..n
    <3>1. q \in k..n /\ k \in 1..n /\ \A l \in k..(q - 1) : l \in i..(q - 1)
      BY <1>1, <2>2
    <3> QED BY <2>1, <3>1 DEF Asks
  <2>4. ASSUME NEW k \in i..(q - 1) PROVE script[k] \in {"word", "000"}
    <3>1. script[k] # "Rp50"
      BY <1>1, <2>3 DEF NoPrice
    <3>2. CASE k > 1 /\ script[k] = "." /\ script[k - 1] = "Rp50"
      <4>1. k - 1 \in 1..n
        BY <1>1, <2>3, <3>2
      <4>2. q \in (k - 1)..n
        BY <1>1, <2>2, <4>1
      <4>3. ASSUME NEW l \in (k - 1)..(q - 1)
            PROVE  script[l] \in {"word", "Rp50", "000"} \/ (l > 1 /\ script[l] = "." /\ script[l - 1] = "Rp50")
        <5>1. CASE l = k - 1
          BY <3>2, <5>1
        <5>2. CASE l # k - 1
          <6>1. l \in i..(q - 1)
            BY <1>1, <2>2, <4>1, <5>2
          <6> QED BY <2>1, <6>1
        <5> QED BY <5>1, <5>2
      <4>4. Asks(k - 1)
        BY <2>1, <4>2, <4>3 DEF Asks
      <4> QED BY <1>1, <3>2, <4>1, <4>4 DEF NoPrice
    <3> QED BY <2>1, <3>1, <3>2
  <2>5. ASSUME NEW k \in i..(q - 1) PROVE ~EndsPart(script, k)
    <3>1. script[k] \in {"word", "000"} /\ k # n
      <4>1. n \in Nat /\ i \in Nat /\ q \in i..n
        BY <1>1
      <4> HIDE DEF n
      <4>2. k # n
        BY <4>1
      <4> QED BY <2>4, <4>2
    <3>2. script[k + 1] \notin Gap
      <4>1. CASE k + 1 = q
        BY <2>1, <4>1 DEF Gap
      <4>2. CASE k + 1 # q
        <5>1. k + 1 \in i..(q - 1)
          BY <1>1, <2>2, <4>2
        <5>2. script[k + 1] \in {"word", "000"}
          BY <2>4, <5>1
        <5> QED BY <5>2 DEF Gap
      <4> QED BY <4>1, <4>2
    <3> QED BY <3>1, <3>2 DEF EndsPart, Gap
  <2>6. EndsPart(script, q)
    BY <2>1 DEF EndsPart
  <2>7. e = q
    <3>1. CASE e < q
      <4>1. e \in i..(q - 1)
        BY <1>1, <1>2, <2>2, <3>1
      <4> QED BY <1>2, <2>5, <4>1
    <3>2. CASE e > q
      <4>1. q \in i..(e - 1)
        BY <1>1, <1>2, <2>2, <3>2
      <4> QED BY <1>2, <2>6, <4>1
    <3>3. e \in Int /\ q \in Int
      BY <1>1, <1>2, <2>2
    <3> QED BY <3>1, <3>2, <3>3
  <2> QED BY <2>1, <2>7 DEF Dropped, e
<1> QED BY <1>3, <1>4

(* What is sent has the words that are stated.                             *)
LEMMA SingleQuestionKeeps ==
  ASSUME script \in Seq(Atom)
  PROVE  SingleQuestion(script) \in Seq(Atom) /\ (NoPrice => Words(SingleQuestion(script)) = Words(Stated))
<1> DEFINE n == Len(script)
           f == [i \in DOMAIN script |-> IF Dropped(script, i) THEN << >> ELSE <<script[i]>>]
           h == [i \in DOMAIN script |-> IF Asks(i) THEN << >> ELSE <<script[i]>>]
<1>1. n \in Nat /\ DOMAIN script = 1..n /\ \A i \in 1..n : script[i] \in Atom
  BY LenProperties, ElementOfSeq
<1>2. \A i \in 1..n : << >> \in Seq(Atom) /\ <<script[i]>> \in Seq(Atom)
  BY <1>1, OneIs
<1>3. f \in Seq(Seq(Atom)) /\ Len(f) = n
  <2>1. f \in [1..n -> Seq(Atom)]
    BY <1>1, <1>2
  <2> HIDE DEF f, n
  <2> QED BY <1>1, <2>1, FunctionIsSeq
<1>4. h \in Seq(Seq(Atom)) /\ Len(h) = n
  <2>1. h \in [1..n -> Seq(Atom)]
    BY <1>1, <1>2
  <2> HIDE DEF h, n
  <2> QED BY <1>1, <2>1, FunctionIsSeq
<1>5. FlattenSeq(f) \in Seq(Atom)
  <2> HIDE DEF f
  <2>1. << >> \in Seq(Atom)
    BY EmptySeq
  <2> QED BY <1>3, <2>1, FlattenAppends
<1>6. SingleQuestion(script) = Tidied(FlattenSeq(f)) /\ Stated = FlattenSeq(h)
  BY DEF SingleQuestion, Stated
<1>7. ASSUME NoPrice PROVE SameWords(f, h)
  <2>1. ASSUME NEW i \in 1..n PROVE f[i] = h[i]
    <3>1. Dropped(script, i) <=> Asks(i)
      BY <1>7, DroppedAsks
    <3> QED BY <1>1, <3>1
  <2> HIDE DEF f, h
  <2> QED BY <1>3, <1>4, <2>1 DEF SameWords
<1> HIDE DEF f, h
<1>8. Tidied(FlattenSeq(f)) \in Seq(Atom) /\ Words(Tidied(FlattenSeq(f))) = Words(FlattenSeq(f))
  BY <1>5, TidiedKeeps
<1>9. NoPrice => Words(FlattenSeq(f)) = Words(FlattenSeq(h))
  BY <1>3, <1>4, <1>7, WordsOfPieces
<1> QED BY <1>6, <1>8, <1>9

(* The invariant: what is written is an answer, what is sent is what it    *)
(* says, and the bubbles are its plan.                                     *)
AnswerInv ==
  /\ script \in Seq(Letters \cup Atom) /\ sent \in Seq(Atom)
  /\ cutting = "answer" => script \in Seq(Atom) /\ sent = SingleQuestion(script)
  /\ bubbles # << >> => cutting # "writing" /\ bubbles = ResponsePlan(sent)

LEMMA AnswerInvInit == TextsInit => AnswerInv
<1> SUFFICES ASSUME TextsInit PROVE AnswerInv
  OBVIOUS
<1>1. << >> \in Seq(Letters \cup Atom) /\ << >> \in Seq(Atom)
  BY EmptySeq
<1> QED BY <1>1 DEF TextsInit, AnswerInv

LEMMA AnswerInvNext == AnswerInv /\ [TextsNext]_textVars => AnswerInv'
<1> SUFFICES ASSUME AnswerInv, [TextsNext]_textVars PROVE AnswerInv'
  OBVIOUS
<1> USE DEF AnswerInv
<1>1. CASE WriteDocument \/ WriteAnswer
  <2>1. cutting = "writing" /\ cutting' = "writing" /\ UNCHANGED <<sent, bubbles>>
    BY <1>1 DEF WriteDocument, WriteAnswer
  <2> DEFINE S == Letters \cup Atom
  <2>2. Price \in Seq(S) /\ script \in Seq(S)
    BY DEF Price, Atom
  <2>3. (\E c \in S : script' = Append(script, c)) \/ script' = script \o Price
    BY <1>1 DEF WriteDocument, WriteAnswer, Atom
  <2> HIDE DEF S
  <2>4. script' \in Seq(S)
    <3>1. ASSUME NEW c \in S PROVE Append(script, c) \in Seq(S)
      BY <2>2, AppendProperties
    <3>2. script \o Price \in Seq(S)
      BY <2>2, ConcatProperties
    <3> QED BY <2>3, <3>1, <3>2
  <2> QED BY <2>1, <2>4 DEF S
<1>2. CASE StartChunks \/ CutChunk \/ TakeEvidence
  <2>1. UNCHANGED <<script, sent, bubbles>> /\ cutting' # "answer" /\ cutting' # "writing"
    BY <1>2 DEF StartChunks, CutChunk, TakeEvidence
  <2> QED BY <2>1
<1>3. CASE SendAnswer
  <2>1. /\ sent' = SingleQuestion(script) /\ script' = script /\ cutting' = "answer" /\ bubbles' = bubbles
        /\ bubbles = << >> /\ Range(script) \subseteq Atom
    BY <1>3 DEF SendAnswer, IsAnswer
  <2>2. script \in Seq(Atom)
    <3>1. script \in Seq(Range(script))
      BY SeqOfRange
    <3> QED BY <2>1, <3>1, SeqMonotonic
  <2>3. sent' \in Seq(Atom)
    BY <2>1, <2>2, SingleQuestionKeeps
  <2> QED BY <2>1, <2>2, <2>3
<1>4. CASE PlanBubbles
  BY <1>4 DEF PlanBubbles
<1>5. CASE UNCHANGED textVars
  BY <1>5 DEF textVars
<1> QED BY <1>1, <1>2, <1>3, <1>4, <1>5 DEF TextsNext

(* An answer that asks for no price before its last question keeps what it *)
(* states and that question; its bubbles are few, hold its words in order, *)
(* and none is longer than it may be but an item, a sentence, the last     *)
(* line of a list whose marker stands alone, and the rest of the answer.   *)
THEOREM AnswersStayWhole == TextsSpec => []AnswersArriveWhole
<1>1. AnswerInv => AnswersArriveWhole
  <2> SUFFICES ASSUME AnswerInv PROVE AnswersArriveWhole
    OBVIOUS
  <2>1. ASSUME cutting = "answer", \A i \in DOMAIN script : Asks(i) => script[i] # "Rp50"
        PROVE  Words(sent) = Words(Stated)
    <3>1. script \in Seq(Atom) /\ sent = SingleQuestion(script)
      BY <2>1 DEF AnswerInv
    <3>2. NoPrice
      BY <2>1 DEF NoPrice
    <3> QED BY <3>1, <3>2, SingleQuestionKeeps
  <2>2. ASSUME bubbles # << >>
        PROVE  /\ Len(bubbles) <= MaxBubbles /\ Words(FlattenSeq(bubbles)) = Words(sent)
               /\ \A k \in DOMAIN bubbles \ {MaxBubbles} : bubbles[k] \in Allowed(sent)
    <3>1. bubbles = ResponsePlan(sent) /\ sent \in Seq(Atom)
      BY <2>2 DEF AnswerInv
    <3>2. IsPlan(ResponsePlan(sent), sent)
      BY <3>1, PlanIs
    <3> QED BY <3>1, <3>2 DEF IsPlan
  <2>3. ASSUME NEW b, b \in Allowed(sent), Size(b) > BubbleChars
        PROVE  \/ IsItem(b)
               \/ \A i \in 1..(Len(b) - 1) : b[i] \notin EndMarks
               \/ \E section \in Range(Sections(sent)) :
                    Alone(Lines(section)) /\ b = Last(Lines(section))
    BY <2>3 DEF Allowed, Fine, OneSentence
  <2> QED BY <2>1, <2>2, <2>3 DEF AnswersArriveWhole
<1> QED BY <1>1, AnswerInvInit, AnswerInvNext, PTL DEF TextsSpec
=============================================================================
