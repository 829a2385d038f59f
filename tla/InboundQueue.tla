---------------------------- MODULE InboundQueue ----------------------------
(***************************************************************************)
(* The durable inbound queue of Voidlark: the table inbound_messages, as   *)
(* written by MessageStore (src/src/whatsapp/message-store.ts), and the    *)
(* DurableInboundWorker instances that drain it                            *)
(* (src/src/whatsapp/message-worker.ts).  connection.ts creates one worker *)
(* for every WhatsApp socket, so several workers share the table: those of *)
(* other sessions, and a stopped worker whose handlers are still running   *)
(* next to the one of the socket that replaced it.                         *)
(*                                                                         *)
(* A step is one SQL statement or one synchronous stretch of a worker      *)
(* between two awaits.  Abstractions:                                      *)
(*  - a message is its row id; ids are given in order of insertion;        *)
(*  - available_at is kept as an order, rank, and the number of ranks      *)
(*    whose time has come, due; Tick is the passing of time.  When         *)
(*    TextClock holds (SQLite) the column default 'YYYY-MM-DD hh:mm:ss'    *)
(*    is compared as text with the ISO strings the store writes, and sorts *)
(*    before all those of its UTC day; the model stays within one day;     *)
(*  - lease_until is "none", "live" or "expired"; it may expire at any     *)
(*    time, also under a handler that takes longer than the lease;         *)
(*  - lease_token is the worker that drew it: a worker never runs a        *)
(*    message twice at once (its JID is excluded from the claim), so a     *)
(*    run is identified by its worker and its message.                     *)
(***************************************************************************)
EXTENDS Naturals, FiniteSets

CONSTANTS
  N,               \* number of messages
  Jid,             \* customers
  JidOf,           \* the customer of each message
  Worker,          \* DurableInboundWorker instances
  None,            \* NULL lease_token
  MaxAttempts,     \* max_attempts of a row
  Concurrency,     \* concurrency of a worker
  TextClock,       \* SQLite's textual comparison of available_at
  MaxDisruptions,  \* bound: crashes and socket closes
  MaxIncidents     \* bound: leases that expire under a running handler, and
                   \* retries ordered by an operator

\* Row ids: AUTOINCREMENT.
Message == 1..N

ASSUME QueueAssumption ==
  /\ N \in Nat
  /\ JidOf \in [Message -> Jid]
  /\ None \notin Worker
  /\ MaxAttempts \in Nat \ {0}
  /\ Concurrency \in Nat \ {0}
  /\ TextClock \in BOOLEAN
  /\ MaxDisruptions \in Nat /\ MaxIncidents \in Nat

VARIABLES
  status,      \* status column; "absent" before the row is inserted
  attempts,    \* attempts column
  lease,       \* lease_until column
  token,       \* lease_token column
  rank,        \* position of each row in the order of available_at
  last,        \* the last id that was given
  due,         \* number of rows with available_at <= now
  fresh,       \* rows that still have the textual default of available_at
  loop,        \* where the loop of each worker is
  stopped,     \* stop() was called on the worker
  run,         \* progress of process(message) in each worker
  seen,        \* attempts that a run's failInbound has read
  disruptions, slow, revivals

rowVars   == <<status, attempts, lease, token>>
orderVars == <<rank, last, due, fresh>>
boundVars == <<disruptions, slow, revivals>>
vars == <<rowVars, orderVars, loop, stopped, run, seen, boundVars>>

Status == {"absent", "queued", "processing", "retry", "completed", "dead_letter"}
Phase  == {"none",        \* not in this worker
           "claimed",     \* the claim has committed, its await has not resumed
           "handling",    \* in the handler
           "completing",  \* before completeInbound
           "failing",     \* before the SELECT of failInbound
           "updating",    \* between the SELECT and the UPDATE of failInbound
           "rejecting"}   \* before deadLetterInbound

RowTypes ==
  /\ status   \in [Message -> Status]
  /\ attempts \in [Message -> 0..MaxAttempts]
  /\ lease    \in [Message -> {"none", "live", "expired"}]
  /\ token    \in [Message -> Worker \cup {None}]

OrderTypes ==
  /\ rank \in [Message -> Nat]
  /\ last \in 0..N /\ due \in 0..last /\ fresh \in 0..last

WorkerTypes ==
  /\ loop    \in [Worker -> {"off", "idle", "claiming", "sleeping"}]
  /\ stopped \in [Worker -> BOOLEAN]
  /\ run     \in [Worker -> [Message -> Phase]]
  /\ seen    \in [Worker -> [Message -> 0..MaxAttempts]]

BoundTypes ==
  /\ disruptions \in 0..MaxDisruptions
  /\ slow \in 0..MaxIncidents
  /\ revivals \in 0..MaxIncidents

TypeOK == RowTypes /\ OrderTypes /\ WorkerTypes /\ BoundTypes

Init ==
  /\ status   = [m \in Message |-> "absent"]
  /\ attempts = [m \in Message |-> 0]
  /\ lease    = [m \in Message |-> "none"]
  /\ token    = [m \in Message |-> None]
  /\ rank     = [m \in Message |-> m]
  /\ last = 0 /\ due = 0 /\ fresh = 0
  /\ loop     = [w \in Worker |-> "off"]
  /\ stopped  = [w \in Worker |-> FALSE]
  /\ run      = [w \in Worker |-> [m \in Message |-> "none"]]
  /\ seen     = [w \in Worker |-> [m \in Message |-> 0]]
  /\ disruptions = 0 /\ slow = 0 /\ revivals = 0

-----------------------------------------------------------------------------
(* The order of available_at.                                              *)

\* Row m takes position k; the rows between its old and new position shift.
Reposition(m, k) ==
  [x \in Message |->
     IF x = m THEN k
     ELSE IF rank[m] < rank[x] /\ rank[x] <= k THEN rank[x] - 1
     ELSE IF k <= rank[x] /\ rank[x] < rank[m] THEN rank[x] + 1
     ELSE rank[x]]

\* available_at of row m is rewritten as an ISO string: to now, or to later.
Reschedule(m, k) ==
  /\ rank'  = Reposition(m, k)
  /\ fresh' = IF rank[m] <= fresh THEN fresh - 1 ELSE fresh
  /\ UNCHANGED last

DueNow(m) ==
  IF rank[m] <= due
  THEN Reschedule(m, due) /\ UNCHANGED due
  ELSE Reschedule(m, due + 1) /\ due' = due + 1

\* The positions behind everything that is due; the backoff is jittered.
DueLater(m) ==
  LET stillDue == IF rank[m] <= due THEN due - 1 ELSE due IN
  /\ \E k \in (stillDue + 1)..last : Reschedule(m, k)
  /\ due' = stillDue

Tick ==
  /\ due < last
  /\ due' = due + 1
  /\ UNCHANGED <<rowVars, rank, last, fresh, loop, stopped, run, seen, boundVars>>

-----------------------------------------------------------------------------
(* Rows.                                                                   *)

\* The lease columns are cleared together with every change of status that
\* ends a run.
Release(m, s) ==
  /\ status' = [status EXCEPT ![m] = s]
  /\ lease'  = [lease  EXCEPT ![m] = "none"]
  /\ token'  = [token  EXCEPT ![m] = None]

\* Mutant: the statements that end a run do not compare the token.
AnyToken(w, m) == TRUE

\* "AND lease_token = $n" of the statements that end a run.
HoldsToken(w, m) == token[m] = w

Running(w) == {m \in Message : run[w][m] # "none"}
\* this.active counts, and activeJids names, the runs process() has started.
Active(w)     == {m \in Message : run[w][m] \notin {"none", "claimed"}}
ActiveJids(w) == {JidOf[m] : m \in Active(w)}

\* enqueueInbound for a new provider id, then wake().  For a known provider
\* id ON CONFLICT leaves the table as it is and only the wake() remains,
\* which is Wake.
Enqueue(w, m) ==
  /\ loop[w] # "off"
  /\ m = last + 1
  /\ status' = [status EXCEPT ![m] = "queued"]
  /\ rank'   = Reposition(m, IF TextClock THEN fresh + 1 ELSE due + 1)
  /\ fresh'  = IF TextClock THEN fresh + 1 ELSE fresh
  /\ last' = m /\ due' = due + 1
  /\ loop' = IF loop[w] = "idle" /\ ~stopped[w]
             THEN [loop EXCEPT ![w] = "claiming"] ELSE loop
  /\ UNCHANGED <<attempts, lease, token, stopped, run, seen, boundVars>>

\* Mutants of Claimable: the lease is not looked at; expired leases are not
\* reclaimed; the JIDs in progress are not excluded.
ClaimableLeased(w) ==
  {m \in Message : /\ status[m] \in {"queued", "retry", "processing"}
                   /\ rank[m] <= due
                   /\ JidOf[m] \notin ActiveJids(w)}
ClaimableOnce(w) ==
  {m \in Message : /\ status[m] \in {"queued", "retry"}
                   /\ rank[m] <= due
                   /\ lease[m] # "live"
                   /\ JidOf[m] \notin ActiveJids(w)}
ClaimableAnyJid(w) ==
  {m \in Message : /\ status[m] \in {"queued", "retry", "processing"}
                   /\ rank[m] <= due
                   /\ lease[m] # "live"}

\* The rows that satisfy the WHERE of the claim of worker w.
Claimable(w) ==
  {m \in Message : /\ status[m] \in {"queued", "retry", "processing"}
                   /\ rank[m] <= due
                   /\ lease[m] # "live"
                   /\ JidOf[m] \notin ActiveJids(w)}

\* Mutant: no ORDER BY.
AnyRow(w, m) == m \in Claimable(w)

\* ORDER BY available_at, id LIMIT 1.
FirstRow(w, m) ==
  m \in Claimable(w) /\ \A x \in Claimable(w) : rank[m] <= rank[x]

\* The inner while of loop(), about to test its condition.
InBurst(w) ==
  /\ loop[w] = "claiming"
  /\ \A m \in Message : run[w][m] # "claimed"

ClaimRow(w, m) ==
  /\ InBurst(w)
  /\ Cardinality(Active(w)) < Concurrency
  /\ FirstRow(w, m)
  /\ status' = [status EXCEPT ![m] = "processing"]
  /\ lease'  = [lease  EXCEPT ![m] = "live"]
  /\ token'  = [token  EXCEPT ![m] = w]
  /\ run'    = [run    EXCEPT ![w][m] = "claimed"]
  /\ UNCHANGED <<attempts, orderVars, loop, stopped, seen, boundVars>>

\* The await of the claim resumes: active += 1, process(stored).
StartRun(w, m) ==
  /\ run[w][m] = "claimed"
  /\ run' = [run EXCEPT ![w][m] = "handling"]
  /\ UNCHANGED <<rowVars, orderVars, loop, stopped, seen, boundVars>>

\* The worker is full or the claim found nothing.
EndBurst(w) ==
  /\ InBurst(w)
  /\ Cardinality(Active(w)) >= Concurrency \/ Claimable(w) = {}
  /\ loop' = [loop EXCEPT ![w] = IF Active(w) = {} THEN "idle" ELSE "sleeping"]
  /\ UNCHANGED <<rowVars, orderVars, stopped, run, seen, boundVars>>

\* activePollMs has passed; only here does loop() look at stopped.
Poll(w) ==
  /\ loop[w] = "sleeping"
  /\ loop' = [loop EXCEPT ![w] = IF stopped[w] THEN "idle" ELSE "claiming"]
  /\ UNCHANGED <<rowVars, orderVars, stopped, run, seen, boundVars>>

\* wake(): by the poll timer, or by a redelivered message.
Wake(w) ==
  /\ loop[w] = "idle" /\ ~stopped[w]
  /\ loop' = [loop EXCEPT ![w] = "claiming"]
  /\ UNCHANGED <<rowVars, orderVars, stopped, run, seen, boundVars>>

-----------------------------------------------------------------------------
(* process(stored).                                                        *)

\* The handler returns, throws, or throws PermanentInboundError.
EndHandler(w, m, p) ==
  /\ run[w][m] = "handling"
  /\ p \in {"completing", "failing", "rejecting"}
  /\ run' = [run EXCEPT ![w][m] = p]
  /\ UNCHANGED <<rowVars, orderVars, loop, stopped, seen, boundVars>>

\* finally: active -= 1, activeJids.delete(jid).
EndRun(w, m) == run' = [run EXCEPT ![w][m] = "none"]

Complete(w, m) ==
  /\ run[w][m] = "completing"
  /\ IF HoldsToken(w, m) /\ status[m] = "processing"
     THEN Release(m, "completed")
     ELSE UNCHANGED <<status, lease, token>>
  /\ EndRun(w, m)
  /\ UNCHANGED <<attempts, orderVars, loop, stopped, seen, boundVars>>

\* completeInbound itself throws: the catch treats it as a failed handler.
CompleteThrows(w, m) ==
  /\ run[w][m] = "completing"
  /\ run' = [run EXCEPT ![w][m] = "failing"]
  /\ UNCHANGED <<rowVars, orderVars, loop, stopped, seen, boundVars>>

\* getLeased of failInbound.
FailRead(w, m) ==
  /\ run[w][m] = "failing"
  /\ IF HoldsToken(w, m)
     THEN /\ run'  = [run  EXCEPT ![w][m] = "updating"]
          /\ seen' = [seen EXCEPT ![w][m] = attempts[m]]
     ELSE EndRun(w, m) /\ UNCHANGED seen
  /\ UNCHANGED <<rowVars, orderVars, loop, stopped, boundVars>>

\* attempts >= max_attempts: the row is dead.
Spent(n) == n >= MaxAttempts

\* The UPDATE of failInbound, by id and token only.
FailWrite(w, m) ==
  /\ run[w][m] = "updating"
  /\ IF HoldsToken(w, m)
     THEN LET failed == seen[w][m] + 1 IN
          /\ attempts' = [attempts EXCEPT ![m] = failed]
          /\ IF Spent(failed)
             THEN Release(m, "dead_letter") /\ DueNow(m)
             ELSE Release(m, "retry") /\ DueLater(m)
     ELSE UNCHANGED <<rowVars, orderVars>>
  /\ EndRun(w, m)
  /\ seen' = [seen EXCEPT ![w][m] = 0]
  /\ UNCHANGED <<loop, stopped, boundVars>>

\* deadLetterInbound leaves available_at alone.
Reject(w, m) ==
  /\ run[w][m] = "rejecting"
  /\ IF HoldsToken(w, m) /\ status[m] = "processing"
     THEN /\ Release(m, "dead_letter")
          /\ attempts' = [attempts EXCEPT ![m] = @ + 1]
     ELSE UNCHANGED rowVars
  /\ EndRun(w, m)
  /\ UNCHANGED <<orderVars, loop, stopped, seen, boundVars>>

-----------------------------------------------------------------------------
(* The environment: time, sockets, the process, the operator.              *)

\* lease_until passes.  MaxIncidents bounds the expiries under a run that is
\* still going on; the lease of a run that died with its process always
\* expires.
ExpireLease(m) ==
  /\ lease[m] = "live"
  /\ lease' = [lease EXCEPT ![m] = "expired"]
  /\ IF \E w \in Worker : HoldsToken(w, m) /\ run[w][m] # "none"
     THEN slow + revivals < MaxIncidents /\ slow' = slow + 1
     ELSE UNCHANGED slow
  /\ UNCHANGED <<status, attempts, token, orderVars, loop, stopped, run, seen,
                 disruptions, revivals>>

\* A socket starts: a new worker, and its first wake().  The identity of a
\* worker that has stopped and has no run left is used again.
Start(w) ==
  /\ \/ loop[w] = "off"
     \/ loop[w] = "idle" /\ stopped[w] /\ Running(w) = {}
  /\ loop'    = [loop EXCEPT ![w] = "claiming"]
  /\ stopped' = [stopped EXCEPT ![w] = FALSE]
  /\ UNCHANGED <<rowVars, orderVars, run, seen, boundVars>>

\* The socket closes or is replaced, or the process drains before it exits.
Stop(w) ==
  /\ loop[w] # "off" /\ ~stopped[w]
  /\ disruptions < MaxDisruptions
  /\ disruptions' = disruptions + 1
  /\ stopped' = [stopped EXCEPT ![w] = TRUE]
  /\ UNCHANGED <<rowVars, orderVars, loop, run, seen, slow, revivals>>

\* The process dies: killed, at the end of a drain that timed out, or by the
\* unhandled rejection of a query in loop() or in the catch of process().
Crash ==
  /\ \E w \in Worker : loop[w] # "off"
  /\ disruptions < MaxDisruptions
  /\ disruptions' = disruptions + 1
  /\ loop'    = [w \in Worker |-> "off"]
  /\ stopped' = [w \in Worker |-> FALSE]
  /\ run'     = [w \in Worker |-> [m \in Message |-> "none"]]
  /\ seen'    = [w \in Worker |-> [m \in Message |-> 0]]
  /\ UNCHANGED <<rowVars, orderVars, slow, revivals>>

\* retryInboundFailure, from the admin panel.
RetryInboundFailure(m) ==
  /\ status[m] \in {"retry", "dead_letter"}
  /\ slow + revivals < MaxIncidents
  /\ revivals' = revivals + 1
  /\ Release(m, "queued")
  /\ attempts' = [attempts EXCEPT ![m] = 0]
  /\ DueNow(m)
  /\ UNCHANGED <<loop, stopped, run, seen, disruptions, slow>>

-----------------------------------------------------------------------------
WorkerStep(w) ==
  \/ EndBurst(w) \/ Poll(w) \/ Wake(w)
  \/ \E m \in Message : ClaimRow(w, m) \/ StartRun(w, m)

RunStep(w, m) ==
  \/ \E p \in Phase : EndHandler(w, m, p)
  \/ Complete(w, m) \/ CompleteThrows(w, m)
  \/ FailRead(w, m) \/ FailWrite(w, m) \/ Reject(w, m)

Next ==
  \/ Tick \/ Crash
  \/ \E w \in Worker : WorkerStep(w) \/ Start(w) \/ Stop(w)
  \/ \E w \in Worker, m \in Message : Enqueue(w, m) \/ RunStep(w, m)
  \/ \E m \in Message : ExpireLease(m) \/ RetryInboundFailure(m)

Spec == Init /\ [][Next]_vars

\* Time passes, timers fire, and the event loop resumes what has settled.
\* A closed session is reconnected.  A handler always ends.  Nothing is
\* assumed of what arrives, of failures, or of the operator.
Fairness ==
  /\ WF_vars(Tick)
  /\ \A m \in Message : WF_vars(ExpireLease(m))
  /\ \A w \in Worker : WF_vars(Start(w)) /\ WF_vars(WorkerStep(w))
  /\ \A w \in Worker, m \in Message : WF_vars(RunStep(w, m))

FairSpec == Spec /\ Fairness
-----------------------------------------------------------------------------
(* What the queue guarantees.                                              *)

\* The lease is a lock as long as it outlasts the handler: when none has
\* expired under a running handler, no two workers run one message, and the
\* run holds the token of its row.
LeaseIsLock ==
  slow = 0 => \A m \in Message, w \in Worker :
                m \in Running(w) =>
                  /\ HoldsToken(w, m) /\ status[m] = "processing"
                  /\ \A v \in Worker : m \in Running(v) => v = w

\* failInbound reads attempts in one statement and writes attempts + 1 in
\* another.  Whenever the second one applies, what it read is still current:
\* no increment is lost and no settled row is reopened.
SeenIsCurrent ==
  \A w \in Worker, m \in Message :
    run[w][m] = "updating" /\ HoldsToken(w, m)
      => status[m] = "processing" /\ seen[w][m] = attempts[m]

\* One worker never runs two messages of one customer at once, and never
\* more messages than its concurrency, however claims and ends of runs
\* interleave with its loop.
WorkerDiscipline ==
  \A w \in Worker :
    /\ Cardinality(Running(w)) <= Concurrency
    /\ \A m1, m2 \in Running(w) : JidOf[m1] = JidOf[m2] => m1 = m2

\* A row that can still be claimed has attempts left, through stale workers,
\* reclaimed leases and operator retries.
AttemptsBudget ==
  \A m \in Message :
    status[m] \in {"queued", "retry", "processing"} => attempts[m] < MaxAttempts

\* With a single worker, and no interruption so far, the messages of one
\* customer are first handled in the order in which they arrived, until one
\* of them fails: neither the insertion of new rows nor the retries of
\* others disturb it.
FifoUntilFailure ==
  /\ disruptions = 0 /\ revivals = 0
  /\ \A v, w \in Worker : loop[v] # "off" /\ loop[w] # "off" => v = w
  => \A m1, m2 \in Message :
       /\ m1 < m2 /\ JidOf[m1] = JidOf[m2]
       /\ \E w \in Worker : m2 \in Running(w)
       => attempts[m1] > 0 \/ status[m1] \in {"completed", "dead_letter"}

\* A completed row never changes again, and a dead one only by an operator's
\* retry: a run that lost its lease cannot touch a settled row.
SettledIsFinal ==
  [][\A m \in Message :
       /\ status[m] = "completed" => status'[m] = "completed" /\ attempts'[m] = attempts[m]
       /\ status[m] = "dead_letter" /\ status'[m] # "dead_letter" => revivals' > revivals]_vars

\* A message is given up only by the run that holds its token, counting that
\* run, and only after max_attempts runs or a permanent error.
DeadLetterEarned ==
  [][\A m \in Message :
       status[m] # "dead_letter" /\ status'[m] = "dead_letter"
         => /\ attempts'[m] = attempts[m] + 1
            /\ \E w \in Worker :
                 /\ HoldsToken(w, m)
                 /\ \/ run[w][m] = "updating" /\ attempts'[m] = MaxAttempts
                    \/ run[w][m] = "rejecting"]_vars

\* The abstract queue.
AbsPhase ==
  [m \in Message |-> CASE status[m] = "absent"      -> "absent"
                      [] status[m] = "completed"   -> "done"
                      [] status[m] = "dead_letter" -> "dead"
                      [] OTHER                     -> "pending"]
AbsLapsed == [m \in Message |-> lease[m] = "expired"]

LQ == INSTANCE LeasedQueue WITH
        Item <- Message, Owner <- Worker,
        phase <- AbsPhase, owner <- token, lapsed <- AbsLapsed

\* Every step of the queue is a step of the abstract queue or leaves it
\* unchanged.
ImplementsLeasedQueue == LQ!Spec

\* Every message that was stored is answered or given up, through crashes,
\* reconnects and slow handlers, as long as these end: again and again no
\* message is left pending.
EveryMessageSettles == []<>(\A m \in Message : AbsPhase[m] # "pending")

\* The locks hold: a lease that lasts gives a message one run, tokens keep
\* failInbound from acting on an old read, and a worker keeps its own limits.
ClaimsExclude == LeaseIsLock /\ SeenIsCurrent /\ WorkerDiscipline

\* A message is settled once, by its owner and with its attempts spent, and
\* one that is not settled has attempts left.
SettledOnce == []AttemptsBudget /\ SettledIsFinal /\ DeadLetterEarned

-----------------------------------------------------------------------------
(* What the documentation says and the code does not do.                   *)

\* docs/operations.md: the inbound queue does "serialisasi per-JID".
JidSerial ==
  \A v, w \in Worker, m1, m2 \in Message :
    /\ run[v][m1] = "handling" /\ run[w][m2] = "handling"
    /\ JidOf[m1] = JidOf[m2]
    => m1 = m2 /\ v = w
=============================================================================
