------------------------------- MODULE Outbox -------------------------------
(***************************************************************************)
(* The outbox of Voidlark: the table outbound_messages                     *)
(* (src/src/whatsapp/message-store.ts), the DurableOutboundWorker that     *)
(* sends its rows (src/src/whatsapp/message-worker.ts), and the post-send  *)
(* action a row may carry (src/src/whatsapp/connection.ts: hand the        *)
(* customer over to the operator once the reply has left).                 *)
(*                                                                         *)
(* A process has one outbound worker, shared by all its sockets; it runs   *)
(* one thing at a time.  So its program counter pc and its current row cur *)
(* are the state of the process, and a lease_token is the number of the    *)
(* process that drew it.  A step is one SQL statement, one call of the     *)
(* socket, or one synchronous stretch of the loop between two awaits.      *)
(* Abstractions:                                                           *)
(*  - a row is its dedupe_key;                                             *)
(*  - due is the set of rows with available_at <= now; the claim takes any *)
(*    due row, where the code takes the earliest;                          *)
(*  - wire counts how often a row was handed to WhatsApp, acted how often  *)
(*    its action had its effect;                                           *)
(*  - provider_message_id is "id", different for every transmission, or    *)
(*    "empty" when the socket returned no key.                             *)
(***************************************************************************)
EXTENDS Naturals, FiniteSets

CONSTANTS
  Message,            \* dedupe keys
  WithAction,         \* the rows that carry a post_send_action
  MaxAttempts,        \* max_attempts of a row that can be sent
  MaxDeaths,          \* bound: deaths of the process and graceful shutdowns
  MaxIncidents        \* bound: sends and marks whose outcome is lost, actions
                      \* that fail, retries ordered by an operator

ASSUME OutboxAssumption ==
  /\ WithAction \subseteq Message
  /\ MaxAttempts \in Nat \ {0}
  /\ MaxDeaths \in Nat /\ MaxIncidents \in Nat

\* The processes that run one after the other.
Process == 1..(MaxDeaths + 1)

VARIABLES
  status, attempts, limit, lease, token, due,  \* columns of outbound_messages
  provider,    \* provider_message_id column
  post,        \* post_send_status column
  pc, cur,     \* the worker
  boot,        \* number of the process
  stopped,     \* stop() was called
  seen,        \* attempts that failOutbound has read
  wire, acted, \* effects outside
  crashes, drains, faults, actionFailures, revivals

rowVars    == <<status, attempts, limit, lease, token, due, provider>>
workerVars == <<pc, cur, seen>>
boundVars  == <<crashes, drains, faults, actionFailures, revivals>>
Incidents == faults + actionFailures + revivals
vars == <<rowVars, post, workerVars, boot, stopped, wire, acted, boundVars>>

Status == {"absent", "queued", "sending", "sent", "delivered", "read", "failed", "dead_letter"}
Gone   == {"sent", "delivered", "read"}

Acting == {"acting",      \* in postSendHandler
           "acted",       \* before completePostSendAction
           "unacted"}     \* before retryPostSendAction
\* What this.active counts.
Sending == {"sending",    \* in the handler
            "marking",    \* before markOutboundSent
            "failing",    \* before the SELECT of failOutbound
            "updating"}   \* between the SELECT and the UPDATE of failOutbound
PC == {"off",             \* no process
       "idle",            \* the loop has returned
       "head",            \* before claimPostSendAction
       "claiming",        \* before claimOutbound
       "claimed",         \* the claim has committed, its await has not resumed
       "pausing"}         \* the timeout after a failed action
      \cup Acting \cup Sending

RowTypes ==
  /\ status   \in [Message -> Status]
  /\ limit    \in [Message -> {1, MaxAttempts}]
  /\ attempts \in [Message -> 0..MaxAttempts]
  /\ lease    \in [Message -> {"none", "live", "expired"}]
  /\ token    \in [Message -> Process \cup {0}]
  /\ due      \subseteq Message
  /\ provider \in [Message -> {"null", "id", "empty"}]
  /\ post     \in [Message -> {"null", "pending", "processing", "completed"}]

WorkerTypes ==
  /\ pc \in PC /\ cur \in Message /\ seen \in 0..MaxAttempts
  /\ boot \in Process \cup {0} /\ stopped \in BOOLEAN

CountTypes ==
  /\ wire \in [Message -> Nat] /\ acted \in [Message -> Nat]
  /\ crashes \in Nat /\ drains \in Nat /\ crashes + drains <= MaxDeaths
  /\ faults \in Nat /\ actionFailures \in Nat /\ revivals \in Nat

TypeOK == RowTypes /\ WorkerTypes /\ CountTypes

Init ==
  /\ status   = [m \in Message |-> "absent"]
  /\ attempts = [m \in Message |-> 0]
  /\ limit    = [m \in Message |-> MaxAttempts]
  /\ lease    = [m \in Message |-> "none"]
  /\ token    = [m \in Message |-> 0]
  /\ due      = {}
  /\ provider = [m \in Message |-> "null"]
  /\ post     = [m \in Message |-> "null"]
  /\ pc = "off" /\ cur \in Message /\ seen = 0
  /\ boot = 0 /\ stopped = FALSE
  /\ wire  = [m \in Message |-> 0]
  /\ acted = [m \in Message |-> 0]
  /\ crashes = 0 /\ drains = 0 /\ faults = 0 /\ actionFailures = 0 /\ revivals = 0

-----------------------------------------------------------------------------
(* Rows.                                                                   *)

SetStatus(m, s) == status' = [status EXCEPT ![m] = s]

Release(m, s) ==
  /\ SetStatus(m, s)
  /\ lease' = [lease EXCEPT ![m] = "none"]
  /\ token' = [token EXCEPT ![m] = 0]

\* Mutant: the statements that end a run do not compare the token.
AnyToken(m) == TRUE

HoldsToken(m) == token[m] = boot

\* enqueueOutbound for a new key, by the worker's enqueue(), which wakes the
\* loop, or by the store alone, which does not.  ON CONFLICT (dedupe_key)
\* leaves the row of a known key as it is.  Transactional messages, the only
\* ones the program sends, need no consent.
Enqueue(m) ==
  /\ pc # "off" /\ status[m] = "absent"
  /\ SetStatus(m, "queued")
  /\ due' = due \cup {m}
  /\ post' = [post EXCEPT ![m] = IF m \in WithAction THEN "pending" ELSE "null"]
  /\ \/ pc = "idle" /\ ~stopped /\ pc' = "head"
     \/ UNCHANGED pc
  /\ UNCHANGED <<attempts, limit, lease, token, provider, cur, seen, boot, stopped,
                 wire, acted, boundVars>>

\* enqueuePermanentOutboundFailure: a notice nobody can receive.
EnqueueDead(m) ==
  /\ pc # "off" /\ status[m] = "absent" /\ m \notin WithAction
  /\ SetStatus(m, "dead_letter")
  /\ attempts' = [attempts EXCEPT ![m] = 1]
  /\ limit'    = [limit EXCEPT ![m] = 1]
  /\ due' = due \cup {m}
  /\ UNCHANGED <<lease, token, provider, post, workerVars, boot, stopped, wire, acted, boundVars>>

\* updateOutboundReceipt, for the transmission whose id the row recorded; the
\* receipt of any other transmission finds no row.
Receipt(m, s) ==
  /\ pc # "off" /\ provider[m] = "id"
  /\ \/ s = "delivered" /\ status[m] = "sent"
     \/ s = "read" /\ status[m] \in {"sent", "delivered"}
  /\ SetStatus(m, s)
  /\ UNCHANGED <<attempts, limit, lease, token, due, provider, post, workerVars, boot,
                 stopped, wire, acted, boundVars>>

\* Mutant: the UPDATE of the retry does not test the status.
RetryAnyRow(m) ==
  /\ pc # "off" /\ status[m] # "absent"
  /\ Incidents < MaxIncidents /\ revivals' = revivals + 1
  /\ Release(m, "queued")
  /\ attempts' = [attempts EXCEPT ![m] = 0]
  /\ due' = due \cup {m}
  /\ UNCHANGED <<limit, provider, post, workerVars, boot, stopped, wire, acted,
                 crashes, drains, faults, actionFailures>>

\* retryOutboundFailure, from the admin panel: its SELECT and its UPDATE test
\* the same condition, so the UPDATE decides.
RetryOutboundFailure(m) ==
  /\ pc # "off" /\ status[m] \in {"failed", "dead_letter"}
  /\ Incidents < MaxIncidents /\ revivals' = revivals + 1
  /\ Release(m, "queued")
  /\ attempts' = [attempts EXCEPT ![m] = 0]
  /\ due' = due \cup {m}
  /\ UNCHANGED <<limit, provider, post, workerVars, boot, stopped, wire, acted,
                 crashes, drains, faults, actionFailures>>

-----------------------------------------------------------------------------
(* The loop: first the actions of the rows that were sent, then the rows.  *)

Goto(p) == pc' = p

\* wake(), by the poll timer or by an opened connection.
Wake ==
  /\ pc = "idle" /\ ~stopped
  /\ Goto("head")
  /\ UNCHANGED <<rowVars, post, cur, seen, boot, stopped, wire, acted, boundVars>>

\* while (!this.stopped)
Leave ==
  /\ pc = "head" /\ stopped
  /\ Goto("idle")
  /\ UNCHANGED <<rowVars, post, cur, seen, boot, stopped, wire, acted, boundVars>>

ActionReady(m) == status[m] \in Gone /\ post[m] = "pending"

ClaimPostSendAction(m) ==
  /\ pc = "head" /\ ~stopped
  /\ ActionReady(m)
  /\ post' = [post EXCEPT ![m] = "processing"]
  /\ Goto("acting") /\ cur' = m
  /\ UNCHANGED <<rowVars, seen, boot, stopped, wire, acted, boundVars>>

NoAction ==
  /\ pc = "head" /\ ~stopped
  /\ \A m \in Message : ~ActionReady(m)
  /\ Goto("claiming")
  /\ UNCHANGED <<rowVars, post, cur, seen, boot, stopped, wire, acted, boundVars>>

\* postSendHandler: the handoff is logged, then the notice is enqueued.
ActionOk ==
  /\ pc = "acting"
  /\ acted' = [acted EXCEPT ![cur] = @ + 1]
  /\ Goto("acted")
  /\ UNCHANGED <<rowVars, post, cur, seen, boot, stopped, wire, boundVars>>

\* It throws, before or after the handoff was logged; or its completion does.
ActionThrows ==
  /\ pc \in {"acting", "acted"}
  /\ Incidents < MaxIncidents /\ actionFailures' = actionFailures + 1
  /\ acted' \in {acted, [acted EXCEPT ![cur] = @ + IF pc = "acting" THEN 1 ELSE 0]}
  /\ Goto("unacted")
  /\ UNCHANGED <<rowVars, post, cur, seen, boot, stopped, wire, crashes, drains, faults, revivals>>

\* completePostSendAction and retryPostSendAction.
EndAction(from, s, to) ==
  /\ pc = from
  /\ post' = IF post[cur] = "processing" THEN [post EXCEPT ![cur] = s] ELSE post
  /\ Goto(to)
  /\ UNCHANGED <<rowVars, cur, seen, boot, stopped, wire, acted, boundVars>>

CompletePostSendAction == EndAction("acted", "completed", "head")

\* Mutant: the failed action is not given back.
ForgetPostSendAction == EndAction("unacted", "processing", "pausing")

RetryPostSendAction == EndAction("unacted", "pending", "pausing")

\* The loop returns after a failed action, without a look at the rows to send.
Pause ==
  /\ pc = "pausing"
  /\ Goto("idle")
  /\ UNCHANGED <<rowVars, post, cur, seen, boot, stopped, wire, acted, boundVars>>

Claimable(m) ==
  /\ m \in due
  /\ status[m] \in {"queued", "failed", "sending"}
  /\ lease[m] # "live"

ClaimOutbound(m) ==
  /\ pc = "claiming"
  /\ Claimable(m)
  /\ SetStatus(m, "sending")
  /\ lease' = [lease EXCEPT ![m] = "live"]
  /\ token' = [token EXCEPT ![m] = boot]
  /\ Goto("claimed") /\ cur' = m
  /\ UNCHANGED <<attempts, limit, due, provider, post, seen, boot, stopped, wire, acted, boundVars>>

NothingToSend ==
  /\ pc = "claiming"
  /\ \A m \in Message : ~Claimable(m)
  /\ Goto("idle")
  /\ UNCHANGED <<rowVars, post, cur, seen, boot, stopped, wire, acted, boundVars>>

\* The await of the claim resumes: active += 1.
StartSend ==
  /\ pc = "claimed"
  /\ Goto("sending")
  /\ UNCHANGED <<rowVars, post, cur, seen, boot, stopped, wire, acted, boundVars>>

\* The socket accepts the message and the handler returns its key.
SendOk ==
  /\ pc = "sending"
  /\ wire' = [wire EXCEPT ![cur] = @ + 1]
  /\ Goto("marking")
  /\ UNCHANGED <<rowVars, post, cur, seen, boot, stopped, acted, boundVars>>

\* No session is open, or the socket refuses.
SendFails ==
  /\ pc = "sending"
  /\ Goto("failing")
  /\ UNCHANGED <<rowVars, post, cur, seen, boot, stopped, wire, acted, boundVars>>

\* The socket throws although the message has left.
SendLost ==
  /\ pc = "sending"
  /\ Incidents < MaxIncidents /\ faults' = faults + 1
  /\ wire' = [wire EXCEPT ![cur] = @ + 1]
  /\ Goto("failing")
  /\ UNCHANGED <<rowVars, post, cur, seen, boot, stopped, acted, crashes, drains,
                 actionFailures, revivals>>

\* markOutboundSent.
MarkOutboundSent ==
  /\ pc = "marking"
  /\ IF HoldsToken(cur) /\ status[cur] = "sending"
     THEN Release(cur, "sent") /\ provider' = [provider EXCEPT ![cur] = "id"]
     ELSE UNCHANGED <<status, lease, token, provider>>
  /\ Goto("head")
  /\ UNCHANGED <<attempts, limit, due, post, cur, seen, boot, stopped, wire, acted, boundVars>>

\* The same without a key: '' is a value like any other to the UNIQUE index,
\* so only one row can have it; for the next one the statement throws.
MarkWithoutKey ==
  /\ pc = "marking"
  /\ Incidents < MaxIncidents /\ faults' = faults + 1
  /\ IF \A m \in Message : provider[m] # "empty"
     THEN /\ Release(cur, "sent") /\ provider' = [provider EXCEPT ![cur] = "empty"]
          /\ Goto("head")
     ELSE UNCHANGED <<status, lease, token, provider>> /\ Goto("failing")
  /\ UNCHANGED <<attempts, limit, due, post, cur, seen, boot, stopped, wire, acted,
                 crashes, drains, actionFailures, revivals>>

\* The statement throws, before or after it took effect.
MarkThrows ==
  /\ pc = "marking"
  /\ Incidents < MaxIncidents /\ faults' = faults + 1
  /\ \/ Release(cur, "sent") /\ provider' = [provider EXCEPT ![cur] = "id"]
     \/ UNCHANGED <<status, lease, token, provider>>
  /\ Goto("failing")
  /\ UNCHANGED <<attempts, limit, due, post, cur, seen, boot, stopped, wire, acted,
                 crashes, drains, actionFailures, revivals>>

\* getLeased of failOutbound.
FailRead ==
  /\ pc = "failing"
  /\ IF HoldsToken(cur)
     THEN Goto("updating") /\ seen' = attempts[cur]
     ELSE Goto("head") /\ UNCHANGED seen
  /\ UNCHANGED <<rowVars, post, cur, boot, stopped, wire, acted, boundVars>>

Spent(m, n) == n >= limit[m]

\* The UPDATE of failOutbound, by id and token only.
FailWrite ==
  /\ pc = "updating"
  /\ IF HoldsToken(cur)
     THEN LET failed == seen + 1 IN
          /\ attempts' = [attempts EXCEPT ![cur] = failed]
          /\ IF Spent(cur, failed)
             THEN Release(cur, "dead_letter") /\ UNCHANGED due
             ELSE Release(cur, "failed") /\ due' = due \ {cur}
     ELSE UNCHANGED <<status, attempts, lease, token, due>>
  /\ Goto("head") /\ seen' = 0
  /\ UNCHANGED <<limit, provider, post, cur, boot, stopped, wire, acted, boundVars>>

-----------------------------------------------------------------------------
(* Time and the process.                                                   *)

\* available_at of a row comes.
Tick(m) ==
  /\ m \notin due /\ status[m] = "failed"
  /\ due' = due \cup {m}
  /\ UNCHANGED <<status, attempts, limit, lease, token, provider, post, workerVars, boot,
                 stopped, wire, acted, boundVars>>

ExpireLease(m) ==
  /\ lease[m] = "live"
  /\ lease' = [lease EXCEPT ![m] = "expired"]
  /\ UNCHANGED <<status, attempts, limit, token, due, provider, post, workerVars, boot,
                 stopped, wire, acted, boundVars>>

\* A process starts, its first socket creates the worker, and the connection
\* opens.
Boot ==
  /\ pc = "off"
  /\ boot' = boot + 1 /\ stopped' = FALSE
  /\ Goto("head")
  /\ UNCHANGED <<rowVars, post, cur, seen, wire, acted, boundVars>>

\* The process dies: killed, at the end of a drain that timed out, or by the
\* unhandled rejection of a query outside the try of loop() or in its catch.
Crash ==
  /\ pc # "off" /\ crashes + drains < MaxDeaths
  /\ crashes' = crashes + 1
  /\ Goto("off") /\ seen' = 0
  /\ UNCHANGED <<rowVars, post, cur, boot, stopped, wire, acted, drains, faults,
                 actionFailures, revivals>>

\* SIGTERM: drain() calls stop() ...
Drain ==
  /\ pc # "off" /\ ~stopped /\ crashes + drains < MaxDeaths
  /\ drains' = drains + 1 /\ stopped' = TRUE
  /\ UNCHANGED <<rowVars, post, workerVars, boot, wire, acted, crashes, faults,
                 actionFailures, revivals>>

\* ... and the process exits when active is 0.
Exit ==
  /\ stopped /\ pc \notin Sending \cup {"off"}
  /\ Goto("off") /\ seen' = 0
  /\ UNCHANGED <<rowVars, post, cur, boot, stopped, wire, acted, boundVars>>

-----------------------------------------------------------------------------
WorkerStep ==
  \/ Wake \/ Leave \/ NoAction \/ ActionOk \/ ActionThrows \/ CompletePostSendAction
  \/ RetryPostSendAction \/ Pause \/ NothingToSend \/ StartSend
  \/ SendOk \/ SendFails \/ SendLost
  \/ MarkOutboundSent \/ MarkWithoutKey \/ MarkThrows \/ FailRead \/ FailWrite
  \/ \E m \in Message : ClaimPostSendAction(m) \/ ClaimOutbound(m)

Next ==
  \/ WorkerStep \/ Boot \/ Crash \/ Drain \/ Exit
  \/ \E m \in Message :
       \/ Enqueue(m) \/ EnqueueDead(m) \/ RetryOutboundFailure(m)
       \/ Tick(m) \/ ExpireLease(m)
       \/ \E s \in {"delivered", "read"} : Receipt(m, s)

Spec == Init /\ [][Next]_vars

\* Time passes, the event loop resumes what has settled, a process that has
\* died is restarted, and one that has drained exits.  Nothing is assumed of
\* what arrives, of failures, or of the operator.
Fairness ==
  /\ WF_vars(WorkerStep) /\ WF_vars(Boot) /\ WF_vars(Exit)
  /\ \A m \in Message : WF_vars(Tick(m)) /\ WF_vars(ExpireLease(m))

FairSpec == Spec /\ Fairness
-----------------------------------------------------------------------------
(* What the outbox guarantees.                                             *)

\* A message is handed to WhatsApp once, and once more only for each death of
\* the process and each send or mark whose outcome was lost: neither retries,
\* nor reclaimed leases, nor repeated enqueues send what is known to be sent.
RepeatsArePaidFor ==
  \A m \in Message : wire[m] <= 1 + crashes + faults

\* Nothing is recorded as sent that WhatsApp did not accept, and the customer
\* is not handed over before the reply that announces it has left.
NothingBeforeSend ==
  \A m \in Message :
    /\ status[m] \in Gone => wire[m] > 0
    /\ acted[m] > 0 => wire[m] > 0

\* The effect of an action is repeated only for an attempt that failed.
ActionRepeatsArePaidFor ==
  \A m \in Message : acted[m] <= 1 + actionFailures

\* A message that has left never goes back to a status in which it is sent
\* again, whatever its run, its lease or an operator does afterwards; its
\* receipts only advance it.
GoneForGood ==
  [][\A m \in Message :
       status[m] \in Gone =>
         status'[m] \in CASE status[m] = "sent"      -> Gone
                          [] status[m] = "delivered" -> {"delivered", "read"}
                          [] status[m] = "read"      -> {"read"}]_vars

\* A message is given up only by its run, after as many failures as its row
\* allows since it was enqueued or last retried by an operator.
GivenUpWhenSpent ==
  [][\A m \in Message :
       status[m] = "sending" /\ status'[m] = "dead_letter"
         => attempts'[m] = limit[m] /\ attempts'[m] = attempts[m] + 1 /\ token[m] = boot]_vars

\* The abstract queue: the outbox is one, with the processes as owners.
AbsPhase ==
  [m \in Message |-> CASE status[m] = "absent"      -> "absent"
                      [] status[m] \in Gone        -> "done"
                      [] status[m] = "dead_letter" -> "dead"
                      [] OTHER                     -> "pending"]
AbsLapsed == [m \in Message |-> lease[m] = "expired"]

LQ == INSTANCE LeasedQueue WITH
        Item <- Message, Owner <- Process, None <- 0,
        phase <- AbsPhase, owner <- token, lapsed <- AbsLapsed

ImplementsLeasedQueue == LQ!Spec

\* Every message is sent or given up, through crashes, shutdowns and failing
\* actions, as long as these end: again and again none is left pending.
EveryMessageSettles == []<>(\A m \in Message : AbsPhase[m] # "pending")

\* The action of a message that was sent is completed, also after failures,
\* unless the process dies or is shut down before.
EveryActionCompletes ==
  \A m \in WithAction :
    status[m] \in Gone ~> post[m] = "completed" \/ crashes + drains > 0

\* What leaves the system: each transmission and each effect is accounted for,
\* and none comes before what it follows from.
EffectsArePaidFor == RepeatsArePaidFor /\ NothingBeforeSend /\ ActionRepeatsArePaidFor

\* A row that is done with stays so, and is given up only when it is spent.
SettledForGood == GoneForGood /\ GivenUpWhenSpent

\* Messages settle and their actions complete.
OutboxCompletes == EveryMessageSettles /\ EveryActionCompletes

-----------------------------------------------------------------------------
(* What the documentation says and the code does not do.                   *)

\* A test is titled "post-send actions run only after sent and recover
\* idempotently after restart": an action survives the death of its process.
ActionRecovers == \A m \in WithAction : status[m] \in Gone ~> post[m] = "completed"
=============================================================================
