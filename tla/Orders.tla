------------------------------- MODULE Orders -------------------------------
(***************************************************************************)
(* The orders of Voidlark: the tables orders, audit_events,                *)
(* outbound_intents and payment_events, and everyone who writes them: the  *)
(* turns of the agent (src/src/chat/orders.ts), the operator in the admin  *)
(* panel and in WhatsApp, the payment webhook                              *)
(* (src/src/payments/webhook.ts), the projection of intents into the       *)
(* outbox (src/src/whatsapp/outbound-intent-worker.ts), and the deletion   *)
(* of a customer (src/src/admin/customer-data.ts).                         *)
(*                                                                         *)
(* Every operation first reads a row and later writes in a transaction,    *)
(* whose UPDATE names the status that was read.  A step is one of those    *)
(* reads or one transaction: SQLite runs transactions one at a time, and   *)
(* in PostgreSQL the row lock of that UPDATE decides which one comes       *)
(* first.                                                                  *)
(* Abstractions:                                                           *)
(*  - the columns of a draft are one bit, filled: does it pass             *)
(*    validateDraftOrderForConfirmation;                                   *)
(*  - the jid 'deleted:<hash>' is Deleted for every customer;              *)
(*  - an intent or an outbox row is its notice: the dedupe_key             *)
(*    order:<id>:<status> and the jid it is for;                           *)
(*  - chat_state, which nothing here reads, is left out, and so is what a  *)
(*    request answers when it changes no table.                            *)
(***************************************************************************)
EXTENDS Naturals, Sequences

CONSTANTS
  Customer,     \* jids
  Deleted,      \* the jid of an anonymised order
  Turn,         \* turns of the agent in progress at the same time
  Clerk,        \* requests of operators in progress at the same time
  Delivery,     \* deliveries of the webhook in progress at the same time
  Event,        \* provider_event_id
  Carries,      \* the event that a delivery repeats
  Bill,         \* the order an event is about
  Settling,     \* the events whose status says paid
  MaxOrders,    \* bound: orders ever made
  MaxIncidents  \* bound: deletions of a customer, projections that fail, and
                \* deaths of the process

Order == 1..MaxOrders

ASSUME OrdersAssumption ==
  /\ Deleted \notin Customer
  /\ Turn \cap Clerk = {} /\ Turn \cap Delivery = {} /\ Clerk \cap Delivery = {}
  /\ MaxOrders \in Nat
  /\ Carries \in [Delivery -> Event] /\ Bill \in [Event -> Order]
  /\ Settling \subseteq Event
  /\ MaxIncidents \in Nat

VARIABLES
  status, jid, filled,   \* columns of orders
  audit,                 \* the rows of audit_events about an order, as they came
  intents, processed,    \* rows of outbound_intents, those with processed_at
  outbound,              \* rows of outbound_messages that came from intents
  events,                \* payment_events
  job,                   \* what a request has read and has still to do
  batch,                 \* the rows projectOutboundIntents has still to project
  forgets, faults

vars == <<status, jid, filled, audit, intents, processed, outbound, events,
          job, batch, forgets, faults>>
rowVars   == <<status, jid, filled, audit>>
boundVars == <<forgets, faults>>

-----------------------------------------------------------------------------

Status == {"draft", "confirmed", "awaiting_payment", "paid", "shipped",
           "completed", "cancelled"}
Jid     == Customer \cup {Deleted}
Request == Turn \cup Clerk \cup Delivery
NoOrder == 0
Notice  == [order : Order, status : Status, jid : Jid]
Entry   == [from : Status, to : Status]
Ops     == {"idle", "cleared", "save", "confirm", "pay", "advance", "deliver"}
Job     == [op : Ops, order : Order \cup {NoOrder}, seen : Status, jid : Jid, to : Status]

\* ORDER_TRANSITIONS.
OrderTransitions ==
  [draft            |-> {"confirmed", "awaiting_payment", "cancelled"},
   confirmed        |-> {"awaiting_payment", "paid", "cancelled"},
   awaiting_payment |-> {"paid", "cancelled"},
   paid             |-> {"shipped"},
   shipped          |-> {"completed"},
   completed        |-> {},
   cancelled        |-> {}]

Exists(o) == status[o] # "absent"
Drafts(c) == {o \in Order : status[o] = "draft" /\ jid[o] = c}

\* A request that does nothing.
Idle == [op |-> "idle", order |-> NoOrder, seen |-> "draft", jid |-> Deleted, to |-> "draft"]

Doing(op, o, from, j, to) == [op |-> op, order |-> o, seen |-> from, jid |-> j, to |-> to]
Take(r, work) == job' = [job EXCEPT ![r] = work]
Finish(r)     == Take(r, Idle)

Init ==
  /\ status = [o \in Order |-> "absent"]
  /\ jid = [o \in Order |-> Deleted]
  /\ filled = [o \in Order |-> FALSE]
  /\ audit = [o \in Order |-> <<>>]
  /\ intents = {} /\ processed = {} /\ outbound = {} /\ events = {}
  /\ job = [r \in Request |-> Idle]
  /\ batch = {}
  /\ forgets = 0 /\ faults = 0

-----------------------------------------------------------------------------
(* transitionOrder: the assertion on the status that was read, then the     *)
(* UPDATE that changes a row only if it still has that status.              *)

\* Mutant: the UPDATE names the id only.
StillThere(o, from) == Exists(o)
Unchanged(o, from)  == status[o] = from

\* ON CONFLICT (dedupe_key) DO NOTHING.
\* Mutant: the key is the order.
ToldOnce(o, to) == \E i \in intents : i.order = o
Told(o, to)     == \E i \in intents : i.order = o /\ i.status = to

\* The transaction of a transition commits: the row, its audit event, and
\* its intent unless there is one with that dedupe_key.
Transition(o, from, to, j) ==
  /\ to \in OrderTransitions[from]
  /\ Unchanged(o, from)
  /\ status' = [status EXCEPT ![o] = to]
  /\ audit' = [audit EXCEPT ![o] = Append(audit[o], [from |-> from, to |-> to])]
  /\ intents' = IF Told(o, to)
                THEN intents
                ELSE intents \cup {[order |-> o, status |-> to, jid |-> j]}
  /\ UNCHANGED <<jid, filled>>

\* The transaction throws and is rolled back.
Refused(o, from, to) ==
  /\ to \notin OrderTransitions[from] \/ ~Unchanged(o, from)
  /\ UNCHANGED <<rowVars, intents>>

\* A request does what it has prepared, or fails.
Try(r) ==
  LET work == job[r] IN
  /\ \/ Transition(work.order, work.seen, work.to, work.jid)
     \/ Refused(work.order, work.seen, work.to)
  /\ Finish(r)
  /\ UNCHANGED <<processed, outbound, events, batch, boundVars>>

-----------------------------------------------------------------------------
(* The turns of the agent.                                                  *)

\* clearDraftProductName: the customer chose another group of products.
ClearDraftProductName(t, c) ==
  /\ job[t] = Idle
  /\ Drafts(c) # {}
  /\ filled' = [o \in Order |-> filled[o] /\ o \notin Drafts(c)]
  /\ Take(t, Doing("cleared", NoOrder, "draft", c, "draft"))
  /\ UNCHANGED <<status, jid, audit, intents, processed, outbound, events, batch, boundVars>>

\* upsertDraftOrder looks for a draft of the customer; of several the code
\* takes the newest, which may be any of them.
FindDraft(t, c) ==
  /\ job[t] = Idle \/ (job[t].op = "cleared" /\ job[t].jid = c)
  /\ \E o \in IF Drafts(c) = {} THEN {NoOrder} ELSE Drafts(c) :
        Take(t, Doing("save", o, "draft", c, "draft"))
  /\ UNCHANGED <<rowVars, intents, processed, outbound, events, batch, boundVars>>

\* It found none: INSERT.
InsertDraft(t, o) ==
  /\ job[t].op = "save" /\ job[t].order = NoOrder
  /\ ~Exists(o) /\ \A p \in 1..(o - 1) : Exists(p)
  /\ status' = [status EXCEPT ![o] = "draft"]
  /\ jid' = [jid EXCEPT ![o] = job[t].jid]
  /\ \E full \in BOOLEAN : filled' = [filled EXCEPT ![o] = full]
  /\ Finish(t)
  /\ UNCHANGED <<audit, intents, processed, outbound, events, batch, boundVars>>

\* It found one: UPDATE by id, whatever has become of that order.
UpdateDraft(t) ==
  /\ job[t].op = "save" /\ job[t].order # NoOrder
  /\ \E full \in BOOLEAN : filled' = [filled EXCEPT ![job[t].order] = full]
  /\ Finish(t)
  /\ UNCHANGED <<status, jid, audit, intents, processed, outbound, events, batch, boundVars>>

\* confirmDraftOrder reads the draft and validates it.
ReadDraft(t, c) ==
  /\ job[t] = Idle
  /\ \E o \in Drafts(c) :
       /\ filled[o]
       /\ Take(t, Doing("confirm", o, "draft", c, "awaiting_payment"))
  /\ UNCHANGED <<rowVars, intents, processed, outbound, events, batch, boundVars>>

ConfirmDraftOrder(t) == job[t].op = "confirm" /\ Try(t)

-----------------------------------------------------------------------------
(* The operator.                                                            *)

\* markOrderPaid reads an order of the customer it was told; without an id
\* the newest that waits for payment, which is one of those it may read
\* with an id.
ReadForPayment(k, o) ==
  /\ job[k] = Idle
  /\ Exists(o)
  /\ Take(k, Doing("pay", o, status[o], jid[o], "paid"))
  /\ UNCHANGED <<rowVars, intents, processed, outbound, events, batch, boundVars>>

MarkOrderPaid(k) == job[k].op = "pay" /\ Try(k)

\* advanceOrderStatus reads the order it was told.
ReadForAdvance(k, o, to) ==
  /\ job[k] = Idle
  /\ Exists(o)
  /\ to \in {"shipped", "completed", "cancelled"}
  /\ Take(k, Doing("advance", o, status[o], jid[o], to))
  /\ UNCHANGED <<rowVars, intents, processed, outbound, events, batch, boundVars>>

AdvanceOrderStatus(k) == job[k].op = "advance" /\ Try(k)

\* deleteCustomerData, which keeps the orders without the person.
DeleteCustomerData(c) ==
  /\ forgets + faults < MaxIncidents
  /\ intents' = {i \in intents : i.jid # c}
  /\ processed' = {i \in processed : i.jid # c}
  /\ outbound' = {i \in outbound : i.jid # c}
  /\ jid' = [o \in Order |-> IF jid[o] = c THEN Deleted ELSE jid[o]]
  /\ filled' = [o \in Order |-> filled[o] /\ jid[o] # c]
  /\ forgets' = forgets + 1
  /\ UNCHANGED <<status, audit, events, job, batch, faults>>

-----------------------------------------------------------------------------
(* The payment webhook.                                                     *)

\* processPaymentWebhook finds no such event yet, and reads the order.
Receive(d) ==
  LET o == Bill[Carries[d]] IN
  /\ job[d] = Idle
  /\ Carries[d] \notin events
  /\ Exists(o)
  /\ Take(d, Doing("deliver", o, status[o], jid[o], "paid"))
  /\ UNCHANGED <<rowVars, intents, processed, outbound, events, batch, boundVars>>

\* A payment of an order that was not paid when it was read.
\* Mutant: the status is not looked at.
PaysAnyway(d)  == Carries[d] \in Settling
Pays(d)        == Carries[d] \in Settling /\ job[d].seen # "paid"

\* markOrderPaid, within the transaction, reads the order once more.
Payable(o, j) == jid[o] = j /\ "paid" \in OrderTransitions[status[o]]

\* The transaction commits: the event, and with it the payment.
Settle(d) ==
  LET o == job[d].order IN
  /\ job[d].op = "deliver"
  /\ Carries[d] \notin events
  /\ events' = events \cup {Carries[d]}
  /\ IF Pays(d)
     THEN /\ Payable(o, job[d].jid)
          /\ Transition(o, status[o], "paid", jid[o])
     ELSE UNCHANGED <<rowVars, intents>>
  /\ Finish(d)
  /\ UNCHANGED <<processed, outbound, batch, boundVars>>

\* The event is a duplicate by now, or the payment is refused: rolled back.
Reject(d) ==
  /\ job[d].op = "deliver"
  /\ Carries[d] \in events \/ (Pays(d) /\ ~Payable(job[d].order, job[d].jid))
  /\ Finish(d)
  /\ UNCHANGED <<rowVars, intents, processed, outbound, events, batch, boundVars>>

-----------------------------------------------------------------------------
(* The projection of intents.                                               *)

\* The intents without processed_at; the code takes the oldest 50 of them.
Pending     == intents \ processed

\* A tick of OutboundIntentWorker selects its intents.
ReadIntents ==
  /\ batch = {}
  /\ Pending # {}
  /\ batch' = Pending
  /\ UNCHANGED <<rowVars, intents, processed, outbound, events, job, boundVars>>

\* The rows with processed_at: the UPDATE finds the intent if it is still there.
Stamped(i) == processed \cup ({i} \cap intents)

\* A message with the dedupe_key intent:order:<id>:<status>.
SameKey(i)   == \E m \in outbound : m.order = i.order /\ m.status = i.status

Project(i) ==
  /\ i \in batch
  /\ outbound' = IF SameKey(i) THEN outbound ELSE outbound \cup {i}
  /\ processed' = Stamped(i)
  /\ batch' = batch \ {i}
  /\ UNCHANGED <<rowVars, intents, events, job, boundVars>>

\* Rolled back: last_error, and the next tick reads the intent again.
ProjectFails(i) ==
  /\ i \in batch
  /\ forgets + faults < MaxIncidents
  /\ faults' = faults + 1
  /\ batch' = batch \ {i}
  /\ UNCHANGED <<rowVars, intents, processed, outbound, events, job, forgets>>

\* The process dies between two transactions.
Crash ==
  /\ forgets + faults < MaxIncidents
  /\ faults' = faults + 1
  /\ job' = [r \in Request |-> Idle]
  /\ batch' = {}
  /\ UNCHANGED <<rowVars, intents, processed, outbound, events, forgets>>

-----------------------------------------------------------------------------

TurnStep(t) ==
  \/ \E c \in Customer : ClearDraftProductName(t, c) \/ FindDraft(t, c) \/ ReadDraft(t, c)
  \/ \E o \in Order : InsertDraft(t, o)
  \/ UpdateDraft(t)
  \/ ConfirmDraftOrder(t)

ClerkStep(k) ==
  \/ \E o \in Order : ReadForPayment(k, o)
  \/ \E o \in Order, to \in Status : ReadForAdvance(k, o, to)
  \/ MarkOrderPaid(k)
  \/ AdvanceOrderStatus(k)

ProjectStep == \E i \in batch : Project(i) \/ ProjectFails(i)

DeliveryStep(d) == Receive(d) \/ Settle(d) \/ Reject(d)

Next ==
  \/ \E t \in Turn : TurnStep(t)
  \/ \E k \in Clerk : ClerkStep(k)
  \/ \E d \in Delivery : DeliveryStep(d)
  \/ \E c \in Customer : DeleteCustomerData(c)
  \/ ReadIntents
  \/ ProjectStep
  \/ Crash

\* The tick of the worker comes every second; the provider repeats a
\* delivery until it is accepted.  Nothing else need happen.
Fairness ==
  /\ WF_vars(ReadIntents)
  /\ WF_vars(ProjectStep)
  /\ \A d \in Delivery : WF_vars(DeliveryStep(d))

Spec == Init /\ [][Next]_vars /\ Fairness

-----------------------------------------------------------------------------
(* Properties.                                                              *)

\* The types of the variables.
TypeOK ==
  /\ status \in [Order -> Status \cup {"absent"}]
  /\ jid \in [Order -> Jid]
  /\ filled \in [Order -> BOOLEAN]
  /\ audit \in [Order -> Seq(Entry)]
  /\ intents \subseteq Notice /\ processed \subseteq intents /\ outbound \subseteq Notice
  /\ events \subseteq Event
  /\ job \in [Request -> Job]
  /\ batch \subseteq Notice
  /\ forgets \in 0..MaxIncidents /\ faults \in 0..MaxIncidents

LastStatus(o) == IF audit[o] = <<>> THEN "draft" ELSE audit[o][Len(audit[o])].to

\* The audit events of an order tell its life, whoever wrote them and on the
\* strength of whatever stale row: each takes up the status the one before
\* left, along ORDER_TRANSITIONS, and the last one left the present status.
AuditTrail ==
  \A o \in Order :
    /\ Exists(o) => status[o] = LastStatus(o)
    /\ ~Exists(o) => audit[o] = <<>>
    /\ \A n \in 1..Len(audit[o]) :
         /\ audit[o][n].to \in OrderTransitions[audit[o][n].from]
         /\ audit[o][n].from = IF n = 1 THEN "draft" ELSE audit[o][n - 1].to

\* A payment is recorded only together with the order it pays, also when
\* operator, duplicate deliveries and deletions race with it.
SettledIsPaid ==
  \A e \in events \cap Settling : status[Bill[e]] \in {"paid", "shipped", "completed"}

\* Unless the customer was deleted, each transition in the trail of an order has its
\* one intent for the order's customer, and no intent tells of another.
NoticesMatchTrail ==
  \A o \in Order : jid[o] \in Customer =>
    /\ \A n \in 1..Len(audit[o]) :
         [order |-> o, status |-> audit[o][n].to, jid |-> jid[o]] \in intents
    /\ \A i \in intents : i.order = o =>
         /\ i.jid = jid[o]
         /\ \E n \in 1..Len(audit[o]) : audit[o][n].to = i.status

\* An intent is stamped as processed exactly when its message is in the
\* outbox, whatever failed or crashed in between; a message without its
\* intent is one of a customer that was deleted.
ProjectedIsSent ==
  /\ processed \subseteq outbound
  /\ \A m \in outbound : m \in processed \/ jid[m.order] = Deleted

\* Every intent becomes a message, or is deleted with its customer: as an
\* order has finitely many, in the end none is left unprocessed.
NoticesGoOut == <>[](intents = processed)

\* A payment of an order that waits for it, or was paid by hand meanwhile, is
\* recorded in the end, unless the order was cancelled, or shipped, before a
\* delivery came through: again and again no payment is outstanding.
Outstanding(e) ==
  /\ e \notin events /\ \E d \in Delivery : Carries[d] = e
  /\ status[Bill[e]] \in {"awaiting_payment", "paid"}
PaymentsSettle == []<>(\A e \in Settling : ~Outstanding(e))

\* The trail of an order and what follows from it: its payment, its intents,
\* and their messages.
OrdersAgree == AuditTrail /\ SettledIsPaid

\* What customers are told is what happened to their orders.
CustomersAreTold == NoticesMatchTrail /\ ProjectedIsSent

\* Intents are projected and payments recorded.
OrdersComplete == NoticesGoOut /\ PaymentsSettle
=============================================================================
