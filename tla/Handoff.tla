------------------------------ MODULE Handoff ------------------------------
(***************************************************************************)
(* The handoffs of one customer: the rows of handoff_log with that jid and *)
(* the repository that changes them (src/src/chat/handoff.ts), called by   *)
(* turns, by post-send actions and by operators in the panel and in        *)
(* WhatsApp.  What a handoff means to a turn is in Conversation.           *)
(*                                                                         *)
(* A transaction that only writes is one step.  Those that read the row as *)
(* unresolved and then update it by its id alone (reassign, resolveById)   *)
(* are two: in PostgreSQL the read blocks nobody.  On SQLite, where they   *)
(* are one, fewer things happen.                                           *)
(* Abstractions:                                                           *)
(*  - assigned_operator is known from the audit events: it is set by the   *)
(*    two operations that write one; priorities, times, notes are left out *)
(*  - the audit events of a row are the set of their types, without that   *)
(*    of startHandling, which is written outside a transaction;            *)
(*  - the read of listActive changes nothing and is left out.              *)
(***************************************************************************)
EXTENDS Naturals, Sequences

CONSTANTS
  Clerk,        \* requests of operators in progress at the same time
  MaxHandoffs   \* bound: handoffs of the customer

ASSUME HandoffAssumption == MaxHandoffs \in Nat \ {0}

VARIABLES
  rows,   \* handoff_log, by id
  desk    \* what each request has read and has still to do

handoffVars == <<rows, desk>>

-----------------------------------------------------------------------------

NoRow == 0
NoJob == [op |-> "idle", row |-> NoRow]

HandoffInit == rows = << >> /\ desk = [o \in Clerk |-> NoJob]

(* unresolvedHandoffPredicate, of a row that has not been deleted          *)
Unresolved(r) == rows[r].here /\ ~rows[r].resolved
Owned(r) == rows[r].trail \cap {"assigned", "reassigned"} # {}
IsHandoffActive == \E r \in DOMAIN rows : Unresolved(r)

NewRow == [status |-> "waiting", resolved |-> FALSE, trail |-> {"created"}, here |-> TRUE]

\* a plausible mistake: no unique index on the unresolved rows
ConflictsNever == FALSE

Conflicts == IsHandoffActive

(* create: ON CONFLICT DO NOTHING over the unique index                    *)
Create ==
  /\ ~Conflicts /\ Len(rows) < MaxHandoffs
  /\ rows' = Append(rows, NewRow) /\ UNCHANGED desk

(* UPDATE handoff_log ... WHERE id, and the audit event that follows: the  *)
(* event is written whether or not the row is still there.                 *)
Update(r, status, event) ==
  rows' = [rows EXCEPT ![r] =
             [status   |-> IF @.here THEN status ELSE @.status,
              resolved |-> @.resolved \/ (@.here /\ status = "resolved"),
              trail    |-> @.trail \cup event, here |-> @.here]]

Job(o, op, r) == desk' = [desk EXCEPT ![o] = [op |-> op, row |-> r]]

(* assign: one UPDATE that names the state it needs                        *)
Assign(o, r) ==
  /\ desk[o] = NoJob /\ Unresolved(r) /\ ~Owned(r)
  /\ Update(r, "assigned", {"assigned"}) /\ UNCHANGED desk

StartHandling(o, r) ==
  /\ desk[o] = NoJob
  /\ Unresolved(r) /\ Owned(r) /\ rows[r].status \in {"assigned", "handling"}
  /\ Update(r, "handling", {}) /\ UNCHANGED desk

(* the read of resolveById and of reassign; that of resolveByJid comes     *)
(* before, and only finds the id                                           *)
ReadRow(o, r) ==
  /\ desk[o] = NoJob /\ Unresolved(r) /\ UNCHANGED rows
  /\ \E op \in {"resolve", "reassign"} : Job(o, op, r)

ResolveById(o) ==
  /\ desk[o].op = "resolve" /\ Job(o, "idle", NoRow)
  /\ Update(desk[o].row, "resolved", {"resolved"})
Reassign(o) ==
  /\ desk[o].op = "reassign" /\ Job(o, "idle", NoRow)
  /\ Update(desk[o].row, "assigned", {"reassigned"})

(* deleteCustomerData: DELETE FROM handoff_log                             *)
DropRows ==
  /\ \E r \in DOMAIN rows : rows[r].here
  /\ rows' = [r \in DOMAIN rows |-> [rows[r] EXCEPT !.here = FALSE]]
  /\ UNCHANGED desk

(* the process dies: its transactions are rolled back                      *)
DropDesk == desk' = [o \in Clerk |-> NoJob] /\ UNCHANGED rows

ClerkStep(o) ==
  \/ \E r \in DOMAIN rows : Assign(o, r) \/ StartHandling(o, r) \/ ReadRow(o, r)
  \/ ResolveById(o) \/ Reassign(o)

HandoffNext == Create \/ DropRows \/ DropDesk \/ \E o \in Clerk : ClerkStep(o)

-----------------------------------------------------------------------------
(* A customer has one handoff at a time, whoever creates, resolves and     *)
(* deletes them at once; and its row agrees with its audit trail: it is    *)
(* resolved exactly when somebody's resolution was recorded, handled only  *)
(* by someone to whom it was given.  Only a reassignment that was          *)
(* overtaken by a resolution may leave another status behind.              *)
HandoffsAgree ==
  /\ \A r, s \in DOMAIN rows : Unresolved(r) /\ Unresolved(s) => r = s
  /\ \A r \in DOMAIN rows :
       LET row == rows[r] IN row.here =>
         /\ row.resolved <=> "resolved" \in row.trail
         /\ row.status = "resolved" => row.resolved
         /\ row.status \in {"assigned", "handling"} => Owned(r)
         /\ row.resolved => row.status = "resolved" \/ "reassigned" \in row.trail
=============================================================================
