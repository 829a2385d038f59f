--------------------------- MODULE ServicesProofs ---------------------------
(***************************************************************************)
(* Proofs about five of the services beside the queues: the handoffs of a  *)
(* customer, the quota of the numbers, the chain of sends of a number, the *)
(* cost limits of the model, and the keys of lookups.  Each is alone, for  *)
(* any number of operators, customers, numbers, sends, days, mishaps,      *)
(* callers, keys, searches and checks.                                     *)
(***************************************************************************)
EXTENDS Handoff, Numbers, SendChain, AiGateway, Lookups, FiniteSetTheorems, SequenceTheorems,
        WellFoundedInduction, TLAPS

HandoffSpec == HandoffInit /\ [][HandoffNext]_handoffVars
NumbersSpec == NumbersInit /\ [][NumbersNext]_numberVars
ChainSpec   == ChainInit /\ [][ChainNext]_chainVars

-----------------------------------------------------------------------------
(* Handoffs.  HandoffsAgree is almost inductive: it lacks that a request   *)
(* at work has a row.                                                      *)

Event == {"created", "assigned", "reassigned", "resolved"}
Handoff == [status : {"waiting", "assigned", "handling", "resolved"}, resolved : BOOLEAN,
            trail : SUBSET Event, here : BOOLEAN]

HandoffTypes ==
  /\ rows \in Seq(Handoff)
  /\ desk \in [Clerk -> [op : {"idle", "resolve", "reassign"}, row : Nat]]
  /\ \A o \in Clerk : desk[o].op # "idle" => desk[o].row \in DOMAIN rows

\* HandoffsAgree of one row, and of two.
RowAgrees(row) ==
  row.here =>
    /\ row.resolved <=> "resolved" \in row.trail
    /\ row.status = "resolved" => row.resolved
    /\ row.status \in {"assigned", "handling"} => row.trail \cap {"assigned", "reassigned"} # {}
    /\ row.resolved => row.status = "resolved" \/ "reassigned" \in row.trail
OneUnresolved == \A r, s \in DOMAIN rows : Unresolved(r) /\ Unresolved(s) => r = s

HandoffInv ==
  /\ HandoffTypes
  /\ OneUnresolved
  /\ \A r \in DOMAIN rows : RowAgrees(rows[r])

\* What an UPDATE by id leaves in a row.
Updated(row, status, event) ==
  [status   |-> IF row.here THEN status ELSE row.status,
   resolved |-> row.resolved \/ (row.here /\ status = "resolved"),
   trail    |-> row.trail \cup event, here |-> row.here]

(* An update by id keeps a row in agreement if it resolves it, gives it to *)
(* somebody else, or finds it unresolved (the WHERE of assign and of       *)
(* startHandling); it never opens a row again.                             *)
LEMMA UpdatedAgrees ==
  ASSUME NEW row \in Handoff, RowAgrees(row),
         NEW status \in {"assigned", "handling", "resolved"}, NEW event \in SUBSET Event,
         \/ status = "resolved" /\ event = {"resolved"}
         \/ status = "assigned" /\ event = {"reassigned"}
         \/ status = "assigned" /\ event = {"assigned"} /\ ~row.resolved
         \/ /\ status = "handling" /\ event = {} /\ ~row.resolved
            /\ row.trail \cap {"assigned", "reassigned"} # {}
  PROVE  /\ Updated(row, status, event) \in Handoff
         /\ RowAgrees(Updated(row, status, event))
         /\ Updated(row, status, event).here = row.here
         /\ row.resolved => Updated(row, status, event).resolved
<1> DEFINE new == Updated(row, status, event)
<1>1. /\ new.status = IF row.here THEN status ELSE row.status
      /\ new.resolved = (row.resolved \/ (row.here /\ status = "resolved"))
      /\ new.trail = row.trail \cup event
      /\ new.here = row.here
  BY DEF Updated
<1>2. new \in Handoff
  BY DEF Updated, Handoff
<1>3. RowAgrees(new)
  <2> SUFFICES ASSUME row.here PROVE RowAgrees(new)
    BY <1>1 DEF RowAgrees
  <2>1. new.status = status /\ (new.resolved <=> (row.resolved \/ status = "resolved"))
    BY <1>1 DEF Handoff
  <2>2. CASE status = "resolved" /\ event = {"resolved"}
    BY <1>1, <2>1, <2>2 DEF RowAgrees
  <2>3. CASE status = "assigned" /\ event = {"reassigned"}
    BY <1>1, <2>1, <2>3 DEF RowAgrees
  <2>4. CASE status = "assigned" /\ event = {"assigned"} /\ ~row.resolved
    BY <1>1, <2>1, <2>4 DEF RowAgrees
  <2>5. CASE status = "handling" /\ event = {} /\ ~row.resolved /\ row.trail \cap {"assigned", "reassigned"} # {}
    BY <1>1, <2>1, <2>5 DEF RowAgrees
  <2> QED BY <2>2, <2>3, <2>4, <2>5
<1> QED BY <1>1, <1>2, <1>3

(* The same for the table: after an update by id of row r all of the       *)
(* invariant holds that does not speak of requests.                        *)
LEMMA UpdateKeeps ==
  ASSUME HandoffInv, NEW r \in DOMAIN rows,
         NEW status \in {"assigned", "handling", "resolved"}, NEW event \in SUBSET Event,
         \/ status = "resolved" /\ event = {"resolved"}
         \/ status = "assigned" /\ event = {"reassigned"}
         \/ status = "assigned" /\ event = {"assigned"} /\ ~rows[r].resolved
         \/ /\ status = "handling" /\ event = {} /\ ~rows[r].resolved
            /\ rows[r].trail \cap {"assigned", "reassigned"} # {},
         Update(r, status, event)
  PROVE  /\ rows' \in Seq(Handoff) /\ DOMAIN rows' = DOMAIN rows
         /\ OneUnresolved'
         /\ \A s \in DOMAIN rows' : RowAgrees(rows'[s])
<1>1. rows \in Seq(Handoff) /\ rows[r] \in Handoff /\ RowAgrees(rows[r])
  BY ElementOfSeq, LenProperties DEF HandoffInv, HandoffTypes
<1> DEFINE new == Updated(rows[r], status, event)
<1>2. /\ new \in Handoff /\ RowAgrees(new) /\ new.here = rows[r].here
      /\ rows[r].resolved => new.resolved
  <2> HIDE DEF new
  <2> QED BY <1>1, UpdatedAgrees DEF new
<1>3. rows' = [rows EXCEPT ![r] = new]
  BY DEF Update, Updated
<1> HIDE DEF new
<1>4. rows' \in Seq(Handoff) /\ DOMAIN rows' = DOMAIN rows
  BY <1>1, <1>2, <1>3, ExceptSeq, LenProperties
<1>5. rows'[r] = new /\ \A s \in DOMAIN rows : s # r => rows'[s] = rows[s]
  BY <1>1, <1>3
<1>6. \A s \in DOMAIN rows' : RowAgrees(rows'[s])
  BY <1>2, <1>4, <1>5 DEF HandoffInv
<1>7. \A s \in DOMAIN rows : rows'[s].here /\ ~rows'[s].resolved => Unresolved(s)
  BY <1>2, <1>5 DEF Unresolved
<1>8. OneUnresolved'
  BY <1>4, <1>7 DEF HandoffInv, OneUnresolved, Unresolved
<1> QED BY <1>4, <1>6, <1>8

(* Requests keep their rows while the table only grows.                    *)
LEMMA HandoffStep ==
  ASSUME HandoffInv, HandoffNext
  PROVE  HandoffInv'
<1>t. /\ rows \in Seq(Handoff)
      /\ desk \in [Clerk -> [op : {"idle", "resolve", "reassign"}, row : Nat]]
      /\ \A o \in Clerk : desk[o].op # "idle" => desk[o].row \in DOMAIN rows
      /\ DOMAIN rows = 1..Len(rows) /\ Len(rows) \in Nat
  BY LenProperties DEF HandoffInv, HandoffTypes
<1>1. CASE Create
  <2>1. NewRow \in Handoff /\ RowAgrees(NewRow) /\ ~NewRow.resolved
    BY DEF NewRow, Handoff, Event, RowAgrees
  <2>2. rows' = Append(rows, NewRow) /\ desk' = desk /\ \A r \in DOMAIN rows : ~Unresolved(r)
    BY <1>1 DEF Create, Conflicts, IsHandoffActive
  <2>3. /\ rows' \in Seq(Handoff) /\ DOMAIN rows' = DOMAIN rows \cup {Len(rows) + 1}
        /\ rows'[Len(rows) + 1] = NewRow
        /\ \A r \in DOMAIN rows : rows'[r] = rows[r]
    <3>1. /\ rows' \in Seq(Handoff) /\ Len(rows') = Len(rows) + 1
          /\ \A i \in 1..Len(rows) : rows'[i] = rows[i]
          /\ rows'[Len(rows) + 1] = NewRow
      BY <2>1, <2>2, <1>t, AppendProperties
    <3>2. DOMAIN rows' = 1..(Len(rows) + 1)
      BY <3>1, LenProperties
    <3> QED BY <3>1, <3>2, <1>t
  <2>4. OneUnresolved'
    BY <2>2, <2>3 DEF OneUnresolved, Unresolved
  <2>5. \A r \in DOMAIN rows' : RowAgrees(rows'[r])
    BY <2>1, <2>3 DEF HandoffInv
  <2> QED BY <2>2, <2>3, <2>4, <2>5, <1>t DEF HandoffInv, HandoffTypes
<1>2. CASE DropRows
  <2>1. rows' = [r \in DOMAIN rows |-> [rows[r] EXCEPT !.here = FALSE]] /\ desk' = desk
    BY <1>2 DEF DropRows
  <2>2. \A r \in DOMAIN rows : rows[r] \in Handoff
    BY <1>t, ElementOfSeq
  <2>3. \A r \in DOMAIN rows : rows'[r] \in Handoff /\ ~rows'[r].here
    BY <2>1, <2>2 DEF Handoff
  <2>4. DOMAIN rows' = DOMAIN rows
    BY <2>1
  <2>5. rows' \in Seq(Handoff)
    BY <2>1, <2>3, <1>t, SeqDef
  <2>6. OneUnresolved' /\ \A r \in DOMAIN rows' : RowAgrees(rows'[r])
    BY <2>3, <2>4 DEF OneUnresolved, Unresolved, RowAgrees
  <2> QED BY <2>1, <2>4, <2>5, <2>6, <1>t DEF HandoffInv, HandoffTypes
<1>3. CASE DropDesk
  <2>1. rows' = rows /\ desk' \in [Clerk -> [op : {"idle", "resolve", "reassign"}, row : Nat]]
        /\ \A o \in Clerk : desk'[o].op = "idle"
    BY <1>3 DEF DropDesk, NoJob, NoRow
  <2> QED BY <2>1, <1>t DEF HandoffInv, HandoffTypes, OneUnresolved, Unresolved
<1>4. ASSUME NEW o \in Clerk, ClerkStep(o) PROVE HandoffInv'
  <2>1. CASE \E r \in DOMAIN rows : Assign(o, r)
    <3>1. PICK r \in DOMAIN rows : Assign(o, r)
      BY <2>1
    <3>2. Update(r, "assigned", {"assigned"}) /\ ~rows[r].resolved /\ desk' = desk
      BY <3>1 DEF Assign, Unresolved
    <3>3. /\ rows' \in Seq(Handoff) /\ DOMAIN rows' = DOMAIN rows
          /\ OneUnresolved' /\ \A s \in DOMAIN rows' : RowAgrees(rows'[s])
      BY <3>2, UpdateKeeps DEF Event
    <3> QED BY <3>2, <3>3, <1>t DEF HandoffInv, HandoffTypes
  <2>2. CASE \E r \in DOMAIN rows : StartHandling(o, r)
    <3>1. PICK r \in DOMAIN rows : StartHandling(o, r)
      BY <2>2
    <3>2. /\ Update(r, "handling", {}) /\ ~rows[r].resolved /\ desk' = desk
          /\ rows[r].trail \cap {"assigned", "reassigned"} # {}
      BY <3>1 DEF StartHandling, Unresolved, Owned
    <3>3. /\ rows' \in Seq(Handoff) /\ DOMAIN rows' = DOMAIN rows
          /\ OneUnresolved' /\ \A s \in DOMAIN rows' : RowAgrees(rows'[s])
      BY <3>2, UpdateKeeps
    <3> QED BY <3>2, <3>3, <1>t DEF HandoffInv, HandoffTypes
  <2>3. CASE \E r \in DOMAIN rows : ReadRow(o, r)
    <3>1. PICK r \in DOMAIN rows, op \in {"resolve", "reassign"} :
            rows' = rows /\ desk' = [desk EXCEPT ![o] = [op |-> op, row |-> r]]
      BY <2>3 DEF ReadRow, Job
    <3>2. r \in Nat
      BY <1>t
    <3>3. /\ desk' \in [Clerk -> [op : {"idle", "resolve", "reassign"}, row : Nat]]
          /\ \A p \in Clerk : desk'[p].op # "idle" => desk'[p].row \in DOMAIN rows
      BY <3>1, <3>2, <1>t
    <3> QED BY <3>1, <3>3, <1>t DEF HandoffInv, HandoffTypes, OneUnresolved, Unresolved
  <2>4. ASSUME desk[o].op \in {"resolve", "reassign"}, Job(o, "idle", NoRow)
        PROVE  /\ desk[o].row \in DOMAIN rows
               /\ desk' \in [Clerk -> [op : {"idle", "resolve", "reassign"}, row : Nat]]
               /\ \A p \in Clerk : desk'[p].op # "idle" => desk'[p].row \in DOMAIN rows
    BY <2>4, <1>t DEF Job, NoRow
  <2>5. CASE ResolveById(o)
    <3>1. desk[o].op = "resolve" /\ Job(o, "idle", NoRow) /\ Update(desk[o].row, "resolved", {"resolved"})
      BY <2>5 DEF ResolveById
    <3>2. /\ rows' \in Seq(Handoff) /\ DOMAIN rows' = DOMAIN rows
          /\ OneUnresolved' /\ \A s \in DOMAIN rows' : RowAgrees(rows'[s])
      BY <3>1, <2>4, UpdateKeeps DEF Event
    <3> QED BY <3>1, <3>2, <2>4 DEF HandoffInv, HandoffTypes
  <2>6. CASE Reassign(o)
    <3>1. desk[o].op = "reassign" /\ Job(o, "idle", NoRow) /\ Update(desk[o].row, "assigned", {"reassigned"})
      BY <2>6 DEF Reassign
    <3>2. /\ rows' \in Seq(Handoff) /\ DOMAIN rows' = DOMAIN rows
          /\ OneUnresolved' /\ \A s \in DOMAIN rows' : RowAgrees(rows'[s])
      BY <3>1, <2>4, UpdateKeeps DEF Event
    <3> QED BY <3>1, <3>2, <2>4 DEF HandoffInv, HandoffTypes
  <2> QED BY <1>4, <2>1, <2>2, <2>3, <2>5, <2>6 DEF ClerkStep
<1> QED BY <1>1, <1>2, <1>3, <1>4 DEF HandoffNext

(* A customer has one handoff at a time, and every row agrees with its     *)
(* audit trail, through any number of operators whose reads and updates    *)
(* overlap (HandoffRepository).                                            *)
THEOREM HandoffsAlwaysAgree == HandoffSpec => []HandoffsAgree
<1>1. HandoffInit => HandoffInv
  BY EmptySeq DEF HandoffInit, HandoffInv, HandoffTypes, OneUnresolved, Unresolved, NoJob, NoRow
<1>2. HandoffInv /\ [HandoffNext]_handoffVars => HandoffInv'
  <2>1. CASE UNCHANGED handoffVars
    BY <2>1 DEF handoffVars, HandoffInv, HandoffTypes, OneUnresolved, Unresolved
  <2> QED BY <2>1, HandoffStep
<1>3. HandoffInv => HandoffsAgree
  BY DEF HandoffInv, OneUnresolved, HandoffsAgree, RowAgrees, Owned
<1> QED BY <1>1, <1>2, <1>3, PTL DEF HandoffSpec

-----------------------------------------------------------------------------
(* Numbers.  The count that counts for a number today (TodayCount) and     *)
(* what was forgotten make up what the rotation gave it; the file is never *)
(* ahead of the memory.                                                    *)

Table == [Number -> NumberRow]
Nats == [Number -> Nat]

NumberTypes ==
  /\ numbers \in Table /\ file \in [numbers : Table, sticky : [Customer -> Number \cup {NoNumber}]]
  /\ sticky \in [Customer -> Number \cup {NoNumber}]
  /\ today \in Nat /\ mishaps \in Nat
  /\ taken \in Nats /\ forgotten \in Nats

\* A table as this day's program could have written it.
Dated(table) ==
  \A n \in Number : /\ table[n].date <= today
                    /\ table[n].status = "none" => table[n].count = 0

CountsAdd ==
  \A n \in Number :
    /\ taken[n] = TodayCount(numbers, n) + forgotten[n]
    /\ TodayCount(file.numbers, n) <= TodayCount(numbers, n)
    /\ DailyLimit > 0 => TodayCount(numbers, n) <= DailyLimit

NumbersInv == NumberTypes /\ Dated(numbers) /\ Dated(file.numbers) /\ CountsAdd

\* What resetDailyCounters makes of a table.
LEMMA ResetTable ==
  ASSUME NEW table \in Table, NEW n \in Number, today \in Nat
  PROVE  /\ Reset(table) \in Table
         /\ TodayCount(table, n) = IF table[n].date = today \/ table[n].status = "none" THEN table[n].count ELSE 0
         /\ TodayCount(table, n) \in Nat
         /\ TodayCount(Reset(table), n) = TodayCount(table, n)
         /\ Reset(table)[n].status = table[n].status
         /\ Dated(table) => Dated(Reset(table))
<1> DEFINE row(m) == IF table[m].date = today \/ table[m].status = "none" THEN table[m]
                     ELSE [status |-> table[m].status, count |-> 0, date |-> today]
<1>1. \A m \in Number : table[m] \in NumberRow
  BY DEF Table
<1>2. Reset(table) = [m \in Number |-> row(m)]
  BY Zenon DEF Reset
<1>3. \A m \in Number : row(m) \in NumberRow
  BY <1>1 DEF NumberRow
<1>4. Reset(table) \in Table /\ \A m \in Number : Reset(table)[m] = row(m)
  BY <1>2, <1>3 DEF Table
<1>5. TodayCount(table, n) = IF table[n].date = today \/ table[n].status = "none" THEN table[n].count ELSE 0
  <2>1. TodayCount(table, n) = row(n).count
    BY <1>4 DEF TodayCount
  <2>2. CASE table[n].date = today \/ table[n].status = "none"
    BY <2>1, <2>2 DEF row
  <2>3. CASE ~(table[n].date = today \/ table[n].status = "none")
    <3>1. row(n) = [status |-> table[n].status, count |-> 0, date |-> today]
      BY <2>3 DEF row
    <3> QED BY <2>1, <2>3, <3>1
  <2> QED BY <2>2, <2>3
<1>6. TodayCount(table, n) \in Nat
  BY <1>1, <1>5 DEF NumberRow
<1>7. \A m \in Number : /\ row(m).status = table[m].status
                        /\ row(m).date = today \/ row(m).status = "none"
                        /\ row(m).date = table[m].date \/ row(m).date = today
                        /\ row(m).count = table[m].count \/ row(m).count = 0
  OBVIOUS
<1> HIDE DEF row
<1>8. TodayCount(Reset(table), n) = TodayCount(table, n)
  <2>1. TodayCount(Reset(table), n) = Reset(Reset(table))[n].count
    BY DEF TodayCount
  <2>2. Reset(Reset(table))[n] = Reset(table)[n]
    BY <1>4, <1>7 DEF Reset
  <2> QED BY <2>1, <2>2 DEF TodayCount
<1>9. Dated(table) => Dated(Reset(table))
  <2> SUFFICES ASSUME Dated(table), NEW m \in Number
               PROVE  row(m).date <= today /\ (row(m).status = "none" => row(m).count = 0)
    BY <1>4 DEF Dated
  <2>1. row(m).date <= today
    BY <1>7 DEF Dated
  <2>2. row(m).status = "none" => row(m).count = 0
    BY <1>7 DEF Dated
  <2> QED BY <2>1, <2>2
<1> QED BY <1>4, <1>5, <1>6, <1>7, <1>8, <1>9

(* saveToDisk keeps the invariant when nothing but statuses, and rows that *)
(* count nothing today, have changed in the table it writes.               *)
LEMMA SaveKeeps ==
  ASSUME NumbersInv, NEW table \in Table, Dated(table),
         \A n \in Number : TodayCount(table, n) = TodayCount(numbers, n),
         NEW assigned \in [Customer -> Number \cup {NoNumber}], Save(table, assigned),
         today' = today, taken' = taken, forgotten' = forgotten, mishaps' \in Nat
  PROVE  NumbersInv'
<1>0. today \in Nat
  BY DEF NumbersInv, NumberTypes
<1>1. /\ Reset(table) \in Table /\ Dated(Reset(table))
      /\ \A n \in Number : TodayCount(Reset(table), n) = TodayCount(numbers, n)
  <2>1. \A n \in Number : TodayCount(Reset(table), n) = TodayCount(numbers, n)
    BY <1>0, ResetTable
  <2>2. Reset(table) \in Table
    BY DEF Reset, Table, NumberRow, TodayCount, NumbersInv, NumberTypes
  <2>3. Dated(Reset(table))
    BY <1>0 DEF Reset, Dated, Table, NumberRow
  <2> QED BY <2>1, <2>2, <2>3
<1>2. numbers' = Reset(table) /\ file' = [numbers |-> Reset(table), sticky |-> assigned] /\ sticky' = assigned
  BY DEF Save
<1>3. NumberTypes'
  BY <1>1, <1>2 DEF NumbersInv, NumberTypes
<1>4. Dated(numbers)' /\ Dated(file.numbers)'
  BY <1>1, <1>2 DEF Dated
<1>5. \A n \in Number : TodayCount(numbers, n)' = TodayCount(numbers, n) /\ TodayCount(file.numbers, n)' = TodayCount(numbers, n)
  <2>1. \A n \in Number : TodayCount(numbers, n)' = TodayCount(Reset(table), n)
    BY <1>2 DEF TodayCount, Reset
  <2>2. \A n \in Number : TodayCount(file.numbers, n)' = TodayCount(Reset(table), n)
    BY <1>2 DEF TodayCount, Reset
  <2> QED BY <1>1, <2>1, <2>2
<1>6. CountsAdd'
  BY <1>0, <1>5, ResetTable DEF NumbersInv, NumberTypes, CountsAdd
<1> QED BY <1>3, <1>4, <1>6 DEF NumbersInv

(* A status that is told changes no count.                                 *)
LEMMA SetStatusKeeps ==
  ASSUME NumbersInv, NEW n \in Number, NEW s \in {"online", "disconnected"}
  PROVE  /\ SetStatus(n, s) \in Table /\ Dated(SetStatus(n, s))
         /\ \A m \in Number : TodayCount(SetStatus(n, s), m) = TodayCount(numbers, m)
<1> DEFINE table == SetStatus(n, s)
<1>1. numbers \in Table /\ Dated(numbers) /\ today \in Nat
  BY DEF NumbersInv, NumberTypes
<1>2. \A m \in Number : numbers[m] \in NumberRow
  BY <1>1 DEF Table
<1>3. /\ DOMAIN table = Number /\ table = [m \in Number |-> table[m]]
      /\ \A m \in Number : m # n => table[m] = numbers[m]
      /\ table[n] = [numbers[n] EXCEPT !.status = s]
  BY <1>1 DEF SetStatus, Table
<1>4. /\ table[n] \in NumberRow /\ table[n].status = s
      /\ table[n].count = numbers[n].count /\ table[n].date = numbers[n].date
  BY <1>2, <1>3 DEF NumberRow
<1> HIDE DEF table
<1>5. table \in Table
  BY <1>2, <1>3, <1>4 DEF Table
<1>6. Dated(table)
  BY <1>1, <1>3, <1>4 DEF Dated
<1>7. ASSUME NEW m \in Number PROVE TodayCount(table, m) = TodayCount(numbers, m)
  <2>1. TodayCount(table, m) = IF table[m].date = today \/ table[m].status = "none" THEN table[m].count ELSE 0
    BY <1>1, <1>5, ResetTable
  <2>2. TodayCount(numbers, m) = IF numbers[m].date = today \/ numbers[m].status = "none" THEN numbers[m].count ELSE 0
    BY <1>1, ResetTable
  <2>3. numbers[m].status = "none" => numbers[m].count = 0
    BY <1>1 DEF Dated
  <2> QED BY <1>3, <1>4, <2>1, <2>2, <2>3
<1> QED BY <1>5, <1>6, <1>7 DEF table

(* A number that is added, or was removed, starts with an empty row.       *)
LEMMA EmptyRow ==
  ASSUME NumbersInv, NEW n \in Number, NEW s \in {"none", "connecting"}, NEW d \in {0, today}
  PROVE  LET table == [numbers EXCEPT ![n] = [status |-> s, count |-> 0, date |-> d]]
         IN  /\ table \in Table /\ Dated(table)
             /\ TodayCount(table, n) = 0
             /\ \A m \in Number : m # n => TodayCount(table, m) = TodayCount(numbers, m)
<1> DEFINE table == [numbers EXCEPT ![n] = [status |-> s, count |-> 0, date |-> d]]
<1>1. numbers \in Table /\ Dated(numbers) /\ today \in Nat
  BY DEF NumbersInv, NumberTypes
<1>2. [status |-> s, count |-> 0, date |-> d] \in NumberRow
  BY <1>1 DEF NumberRow
<1>3. table \in Table
  BY <1>1, <1>2 DEF Table
<1>4. /\ table[n].status = s /\ table[n].count = 0 /\ table[n].date = d
      /\ \A m \in Number : m # n => table[m] = numbers[m]
  BY <1>1 DEF Table
<1> HIDE DEF table
<1>5. Dated(table)
  BY <1>1, <1>4 DEF Dated
<1>6. TodayCount(table, n) = 0
  BY <1>1, <1>3, <1>4, ResetTable
<1>7. ASSUME NEW m \in Number, m # n PROVE TodayCount(table, m) = TodayCount(numbers, m)
  <2>1. TodayCount(table, m) = IF table[m].date = today \/ table[m].status = "none" THEN table[m].count ELSE 0
    BY <1>1, <1>3, ResetTable
  <2>2. TodayCount(numbers, m) = IF numbers[m].date = today \/ numbers[m].status = "none" THEN numbers[m].count ELSE 0
    BY <1>1, ResetTable
  <2> QED BY <1>4, <1>7, <2>1, <2>2
<1> QED BY <1>3, <1>5, <1>6, <1>7 DEF table

(* The one step that takes a lead: from a number below its limit.          *)
LEMMA RotationKeeps ==
  ASSUME NumbersInv, NEW c \in Customer, NEW n \in Number, SendByRotation(c, n)
  PROVE  NumbersInv'
<1>1. /\ numbers \in Table /\ Dated(numbers) /\ today \in Nat /\ sticky \in [Customer -> Number \cup {NoNumber}]
      /\ file \in [numbers : Table, sticky : [Customer -> Number \cup {NoNumber}]]
      /\ taken \in Nats /\ forgotten \in Nats /\ mishaps \in Nat
  BY DEF NumbersInv, NumberTypes
<1> DEFINE old == Reset(numbers)
           new == [old EXCEPT ![n].count = @ + 1]
<1>2. /\ old \in Table /\ Dated(old) /\ \A m \in Number : TodayCount(old, m) = TodayCount(numbers, m)
  <2>1. \A m \in Number : /\ old \in Table /\ TodayCount(old, m) = TodayCount(numbers, m)
                          /\ Dated(old)
    BY <1>1, ResetTable
  <2> QED BY <2>1
<1>3. old[n].date = today \/ old[n].status = "none"
  BY <1>1 DEF Reset
<1>4. old[n].status = "online"
  BY <1>1, ResetTable DEF SendByRotation, Available
<1>5. /\ numbers' = new /\ today' = today /\ forgotten' = forgotten /\ mishaps' = mishaps
      /\ sticky' = [sticky EXCEPT ![c] = n] /\ taken' = [taken EXCEPT ![n] = @ + 1]
      /\ file' = IF old = numbers THEN file ELSE [numbers |-> old, sticky |-> sticky]
      /\ DailyLimit = 0 \/ TodayCount(numbers, n) < DailyLimit
  BY DEF SendByRotation, Available
<1>6. \A m \in Number : old[m] \in NumberRow
  BY <1>2 DEF Table
<1>7. /\ DOMAIN new = Number /\ new = [m \in Number |-> new[m]]
      /\ \A m \in Number : m # n => new[m] = old[m]
      /\ new[n] = [old[n] EXCEPT !.count = @ + 1]
  BY <1>2 DEF Table
<1>8. /\ new[n] \in NumberRow /\ new[n].status = "online" /\ new[n].date = today
      /\ new[n].count = old[n].count + 1
  BY <1>3, <1>4, <1>6, <1>7 DEF NumberRow
<1> HIDE DEF new, old
<1>9. new \in Table
  BY <1>6, <1>7, <1>8 DEF Table
<1>10. Dated(new)
  BY <1>1, <1>2, <1>7, <1>8 DEF Dated
<1>11. TodayCount(new, n) = TodayCount(numbers, n) + 1 /\ \A m \in Number : m # n => TodayCount(new, m) = TodayCount(numbers, m)
  <2>1. \A m \in Number : TodayCount(new, m) = IF new[m].date = today \/ new[m].status = "none" THEN new[m].count ELSE 0
    BY <1>1, <1>9, ResetTable
  <2>2. \A m \in Number : TodayCount(old, m) = IF old[m].date = today \/ old[m].status = "none" THEN old[m].count ELSE 0
    BY <1>1, <1>2, ResetTable
  <2> QED BY <1>2, <1>3, <1>7, <1>8, <2>1, <2>2
<1>12. /\ file' \in [numbers : Table, sticky : [Customer -> Number \cup {NoNumber}]]
       /\ Dated(file'.numbers) /\ \A m \in Number : TodayCount(file'.numbers, m) <= TodayCount(numbers, m)
  <2>1. CASE old = numbers
    BY <2>1, <1>1, <1>5 DEF NumbersInv, CountsAdd
  <2>2. CASE old # numbers
    <3>1. file' = [numbers |-> old, sticky |-> sticky]
      BY <2>2, <1>5
    <3>2. \A m \in Number : TodayCount(numbers, m) \in Nat
      BY <1>1, ResetTable
    <3> QED BY <3>1, <3>2, <1>1, <1>2
  <2> QED BY <2>1, <2>2
<1>13. NumberTypes'
  BY <1>1, <1>5, <1>9, <1>12 DEF NumberTypes, Nats
<1>14. Dated(numbers)' /\ Dated(file.numbers)'
  BY <1>5, <1>10, <1>12 DEF Dated
<1>15. \A m \in Number : /\ TodayCount(numbers, m)' = TodayCount(new, m)
                         /\ TodayCount(file.numbers, m)' = TodayCount(file'.numbers, m)
  BY <1>5 DEF TodayCount, Reset
<1>16. CountsAdd'
  <2> SUFFICES ASSUME NEW m \in Number
               PROVE  /\ taken'[m] = TodayCount(new, m) + forgotten[m]
                      /\ TodayCount(file'.numbers, m) <= TodayCount(new, m)
                      /\ DailyLimit > 0 => TodayCount(new, m) <= DailyLimit
    BY <1>5, <1>15 DEF CountsAdd
  <2>1. /\ taken[m] = TodayCount(numbers, m) + forgotten[m]
        /\ TodayCount(file'.numbers, m) <= TodayCount(numbers, m)
        /\ DailyLimit > 0 => TodayCount(numbers, m) <= DailyLimit
        /\ TodayCount(numbers, m) \in Nat /\ forgotten[m] \in Nat /\ DailyLimit \in Nat
        /\ TodayCount(file'.numbers, m) \in Nat
    <3>1. TodayCount(numbers, m) \in Nat /\ forgotten[m] \in Nat /\ DailyLimit \in Nat
      BY <1>1, ResetTable, NumbersAssumption DEF Nats
    <3>2. TodayCount(file'.numbers, m) \in Nat
      BY <1>1, <1>12, ResetTable
    <3> QED BY <3>1, <3>2, <1>12 DEF NumbersInv, CountsAdd
  <2>2. CASE m = n
    BY <1>1, <1>5, <1>11, <2>1, <2>2 DEF Nats
  <2>3. CASE m # n
    BY <1>1, <1>5, <1>11, <2>1, <2>3 DEF Nats
  <2> QED BY <2>2, <2>3
<1> QED BY <1>13, <1>14, <1>16 DEF NumbersInv

(* A step that writes neither tables nor ghosts, nor the date.             *)
LEMMA NumbersStay ==
  ASSUME NumbersInv, numbers' = numbers, file' = file, today' = today, taken' = taken,
         forgotten' = forgotten, sticky' = sticky, mishaps' \in Nat
  PROVE  NumbersInv'
<1>1. \A n \in Number : /\ TodayCount(numbers, n)' = TodayCount(numbers, n)
                        /\ TodayCount(file.numbers, n)' = TodayCount(file.numbers, n)
  BY DEF TodayCount, Reset
<1> QED BY <1>1 DEF NumbersInv, NumberTypes, Dated, CountsAdd

LEMMA NumbersStep ==
  ASSUME NumbersInv, NumbersNext
  PROVE  NumbersInv'
<1>t. /\ numbers \in Table /\ Dated(numbers) /\ today \in Nat /\ mishaps \in Nat
      /\ sticky \in [Customer -> Number \cup {NoNumber}]
      /\ file \in [numbers : Table, sticky : [Customer -> Number \cup {NoNumber}]]
      /\ taken \in Nats /\ forgotten \in Nats
  BY DEF NumbersInv, NumberTypes
<1>1. ASSUME NEW n \in Number, Register(n) PROVE NumbersInv'
  <2> DEFINE table == [numbers EXCEPT ![n] = [status |-> "connecting", count |-> 0, date |-> today]]
  <2>1. Save(table, sticky) /\ UNCHANGED <<today, taken, forgotten, mishaps>> /\ numbers[n].status = "none"
    BY <1>1 DEF Register, Registered
  <2>2. /\ table \in Table /\ Dated(table) /\ TodayCount(table, n) = 0
        /\ \A m \in Number : m # n => TodayCount(table, m) = TodayCount(numbers, m)
    BY EmptyRow
  <2> HIDE DEF table
  <2>3. TodayCount(numbers, n) = 0
    <3>1. numbers[n].count = 0
      BY <1>t, <2>1 DEF Dated
    <3>2. TodayCount(numbers, n) = IF numbers[n].date = today \/ numbers[n].status = "none" THEN numbers[n].count ELSE 0
      BY <1>t, ResetTable
    <3> QED BY <3>1, <3>2
  <2> QED BY <1>t, <2>1, <2>2, <2>3, SaveKeeps
<1>2. ASSUME NEW n \in Number, SocketOpens(n) PROVE NumbersInv'
  <2>1. Save(SetStatus(n, "online"), sticky) /\ UNCHANGED <<today, taken, forgotten, mishaps>>
    BY <1>2 DEF SocketOpens
  <2> QED BY <1>t, <2>1, SetStatusKeeps, SaveKeeps
<1>3. ASSUME NEW n \in Number, SocketCloses(n) PROVE NumbersInv'
  <2>1. UNCHANGED <<today, taken, forgotten, mishaps>>
    BY <1>3 DEF SocketCloses
  <2>2. CASE Save(SetStatus(n, "disconnected"), sticky)
    BY <1>t, <2>1, <2>2, SetStatusKeeps, SaveKeeps
  <2>3. CASE UNCHANGED <<numbers, sticky, file>>
    BY <1>t, <2>1, <2>3, NumbersStay
  <2> QED BY <1>3, <2>2, <2>3 DEF SocketCloses
<1>4. ASSUME NEW n \in Number, RemoveNumber(n) PROVE NumbersInv'
  <2>1. mishaps' \in Nat /\ UNCHANGED <<today, taken>>
    BY <1>4, <1>t DEF RemoveNumber
  <2>2. CASE UNCHANGED <<numbers, sticky, file, forgotten>>
    BY <2>1, <2>2, NumbersStay
  <2>3. CASE /\ numbers' = Reset([numbers EXCEPT ![n] = [status |-> "none", count |-> 0, date |-> 0]])
             /\ file' = [numbers |-> numbers', sticky |-> sticky]
             /\ sticky' = [c \in Customer |-> IF sticky[c] = n THEN NoNumber ELSE sticky[c]]
             /\ forgotten' = [forgotten EXCEPT ![n] = taken[n]]
    <3> DEFINE table == [numbers EXCEPT ![n] = [status |-> "none", count |-> 0, date |-> 0]]
    <3>1. /\ table \in Table /\ Dated(table) /\ TodayCount(table, n) = 0
          /\ \A m \in Number : m # n => TodayCount(table, m) = TodayCount(numbers, m)
      BY EmptyRow
    <3>2. numbers' = Reset(table)
      BY <2>3
    <3> HIDE DEF table
    <3>3. Reset(table) \in Table /\ Dated(Reset(table))
      BY <1>t, <3>1, ResetTable
    <3>4. \A m \in Number : TodayCount(Reset(table), m) = TodayCount(table, m)
      BY <1>t, <3>1, ResetTable
    <3>5. \A m \in Number : /\ TodayCount(numbers, m)' = TodayCount(table, m)
                            /\ TodayCount(file.numbers, m)' = TodayCount(table, m)
      <4>1. \A m \in Number : /\ TodayCount(numbers, m)' = TodayCount(Reset(table), m)
                              /\ TodayCount(file.numbers, m)' = TodayCount(Reset(table), m)
        BY <2>1, <2>3, <3>2 DEF TodayCount, Reset
      <4> QED BY <3>4, <4>1
    <3>6. NumberTypes'
      BY <1>t, <2>1, <2>3, <3>2, <3>3 DEF NumberTypes, Nats
    <3>7. Dated(numbers)' /\ Dated(file.numbers)'
      BY <2>1, <2>3, <3>2, <3>3 DEF Dated
    <3>8. CountsAdd'
      <4> SUFFICES ASSUME NEW m \in Number
                   PROVE  /\ taken[m] = TodayCount(table, m) + forgotten'[m]
                          /\ TodayCount(table, m) <= TodayCount(table, m)
                          /\ DailyLimit > 0 => TodayCount(table, m) <= DailyLimit
        BY <2>1, <3>5 DEF CountsAdd
      <4>1. TodayCount(table, m) \in Nat /\ TodayCount(numbers, m) \in Nat /\ taken[m] \in Nat /\ DailyLimit \in Nat
        BY <1>t, <3>1, ResetTable, NumbersAssumption DEF Nats
      <4>2. CASE m = n
        BY <1>t, <2>3, <3>1, <4>1, <4>2 DEF Nats
      <4>3. CASE m # n
        <5>1. TodayCount(table, m) = TodayCount(numbers, m) /\ forgotten'[m] = forgotten[m]
          BY <1>t, <2>3, <3>1, <4>3 DEF Nats
        <5> QED BY <4>1, <5>1 DEF NumbersInv, CountsAdd
      <4> QED BY <4>2, <4>3
    <3> QED BY <3>6, <3>7, <3>8 DEF NumbersInv
  <2> QED BY <1>4, <2>2, <2>3 DEF RemoveNumber
<1>5. ASSUME NEW c \in Customer, NEW n \in Number, MessageFrom(c, n) PROVE NumbersInv'
  <2>1. Save(numbers, [sticky EXCEPT ![c] = n]) /\ UNCHANGED <<today, taken, forgotten, mishaps>>
    BY <1>5 DEF MessageFrom
  <2>2. [sticky EXCEPT ![c] = n] \in [Customer -> Number \cup {NoNumber}]
    BY <1>t
  <2> QED BY <1>t, <2>1, <2>2, SaveKeeps
<1>6. ASSUME NEW c \in Customer, SendBySticky(c) PROVE NumbersInv'
  BY <1>6, <1>t, NumbersStay DEF SendBySticky
<1>7. ASSUME NEW c \in Customer, SendRefused(c) PROVE NumbersInv'
  <2>1. Save(numbers, sticky) /\ UNCHANGED <<today, taken, forgotten, mishaps>>
    BY <1>7 DEF SendRefused
  <2> QED BY <1>t, <2>1, SaveKeeps
<1>8. CASE SendEnds
  <2>1. UNCHANGED <<today, taken, forgotten, mishaps>>
    BY <1>8 DEF SendEnds
  <2>2. CASE Save(numbers, sticky)
    BY <1>t, <2>1, <2>2, SaveKeeps
  <2>3. CASE UNCHANGED <<numbers, sticky, file>>
    BY <1>t, <2>1, <2>3, NumbersStay
  <2> QED BY <1>8, <2>2, <2>3 DEF SendEnds
<1>9. CASE NextDay
  <2>1. /\ today' = today + 1 /\ taken' = Fresh0 /\ forgotten' = Fresh0
        /\ numbers' = numbers /\ file' = file /\ sticky' = sticky /\ mishaps' = mishaps
    BY <1>9 DEF NextDay
  <2>2. NumberTypes'
    BY <1>t, <2>1 DEF NumberTypes, Nats, Fresh0
  <2>3. \A n \in Number : /\ numbers[n] \in NumberRow /\ numbers[n].date <= today
                          /\ numbers[n].status = "none" => numbers[n].count = 0
                          /\ file.numbers[n] \in NumberRow /\ file.numbers[n].date <= today
                          /\ file.numbers[n].status = "none" => file.numbers[n].count = 0
    BY <1>t DEF NumbersInv, Dated, Table
  <2>4. Dated(numbers)' /\ Dated(file.numbers)'
    BY <1>t, <2>1, <2>3 DEF Dated, NumberRow
  <2>5. ASSUME NEW n \in Number PROVE TodayCount(numbers, n)' = 0 /\ TodayCount(file.numbers, n)' = 0
    <3>1. numbers[n].date # today' /\ file.numbers[n].date # today'
      BY <1>t, <2>1, <2>3 DEF NumberRow
    <3>2. TodayCount(numbers, n)' = 0
      <4>1. CASE numbers[n].status = "none"
        BY <2>1, <2>3, <3>1, <4>1 DEF TodayCount, Reset
      <4>2. CASE numbers[n].status # "none"
        BY <2>1, <3>1, <4>2 DEF TodayCount, Reset
      <4> QED BY <4>1, <4>2
    <3>3. TodayCount(file.numbers, n)' = 0
      <4>1. CASE file.numbers[n].status = "none"
        BY <2>1, <2>3, <3>1, <4>1 DEF TodayCount, Reset
      <4>2. CASE file.numbers[n].status # "none"
        BY <2>1, <3>1, <4>2 DEF TodayCount, Reset
      <4> QED BY <4>1, <4>2
    <3> QED BY <3>2, <3>3
  <2>6. CountsAdd'
    BY <2>1, <2>5, NumbersAssumption DEF CountsAdd, Fresh0
  <2> QED BY <2>2, <2>4, <2>6 DEF NumbersInv
<1>10. CASE Restart
  <2>1. /\ numbers' = file.numbers /\ sticky' = file.sticky /\ file' = file /\ today' = today /\ taken' = taken
        /\ forgotten' = [n \in Number |->
             forgotten[n] + TodayCount(numbers, n) - TodayCount(file.numbers, n)]
        /\ mishaps' \in Nat
    BY <1>10, <1>t DEF Restart
  <2>2. \A n \in Number : /\ TodayCount(numbers, n) \in Nat /\ TodayCount(file.numbers, n) \in Nat
                          /\ forgotten[n] \in Nat /\ taken[n] \in Nat
                          /\ TodayCount(file.numbers, n) <= TodayCount(numbers, n)
                          /\ taken[n] = TodayCount(numbers, n) + forgotten[n]
                          /\ DailyLimit > 0 => TodayCount(numbers, n) <= DailyLimit
    <3>1. \A n \in Number : TodayCount(numbers, n) \in Nat
      BY <1>t, ResetTable
    <3>2. \A n \in Number : TodayCount(file.numbers, n) \in Nat
      BY <1>t, ResetTable
    <3> QED BY <1>t, <3>1, <3>2 DEF NumbersInv, CountsAdd, Nats
  <2>3. NumberTypes'
    <3>1. forgotten' \in Nats
      BY <2>1, <2>2 DEF Nats
    <3> QED BY <1>t, <2>1, <3>1 DEF NumberTypes
  <2>4. Dated(numbers)' /\ Dated(file.numbers)'
    BY <2>1 DEF NumbersInv, Dated
  <2>5. \A n \in Number : /\ TodayCount(numbers, n)' = TodayCount(file.numbers, n)
                          /\ TodayCount(file.numbers, n)' = TodayCount(file.numbers, n)
    BY <2>1 DEF TodayCount, Reset
  <2>6. CountsAdd'
    BY <2>1, <2>2, <2>5, NumbersAssumption DEF CountsAdd
  <2> QED BY <2>3, <2>4, <2>6 DEF NumbersInv
<1> QED BY <1>1, <1>2, <1>3, <1>4, <1>5, <1>6, <1>7, <1>8, <1>9, <1>10, RotationKeeps DEF NumbersNext

(* The rotation gives a number no more customers a day than its limit,     *)
(* except for those that a restart or a removal has forgotten              *)
(* (WhatsAppManager.assignNumberForLead).                                  *)
THEOREM QuotaAlwaysHolds == NumbersSpec => []QuotaHolds
<1>1. NumbersInit => NumbersInv
  <2> SUFFICES ASSUME NumbersInit PROVE NumbersInv
    OBVIOUS
  <2>1. numbers = [n \in Number |-> [status |-> "none", count |-> 0, date |-> 0]] /\ numbers \in Table
    BY DEF NumbersInit, Table, NumberRow
  <2>2. /\ file = [numbers |-> numbers, sticky |-> sticky] /\ today = 0 /\ mishaps = 0
        /\ sticky \in [Customer -> Number \cup {NoNumber}]
        /\ taken = Fresh0 /\ forgotten = Fresh0
    BY DEF NumbersInit
  <2>3. NumberTypes
    BY <2>1, <2>2 DEF NumberTypes, Nats, Fresh0
  <2>4. Dated(numbers) /\ Dated(file.numbers)
    BY <2>1, <2>2 DEF Dated
  <2>5. \A n \in Number : TodayCount(numbers, n) = 0 /\ TodayCount(file.numbers, n) = 0
    BY <2>1, <2>2, ResetTable
  <2> QED BY <2>2, <2>3, <2>4, <2>5, NumbersAssumption DEF NumbersInv, CountsAdd, Fresh0
<1>2. NumbersInv /\ [NumbersNext]_numberVars => NumbersInv'
  <2>1. CASE NumbersInv /\ UNCHANGED numberVars
    BY <2>1, NumbersStay DEF numberVars, NumbersInv, NumberTypes
  <2> QED BY <2>1, NumbersStep
<1>3. NumbersInv => QuotaHolds
  <2> SUFFICES ASSUME NumbersInv, NEW n \in Number, DailyLimit > 0
               PROVE  taken[n] <= DailyLimit + forgotten[n]
    BY DEF QuotaHolds
  <2>1. TodayCount(numbers, n) \in Nat /\ forgotten[n] \in Nat
    BY ResetTable DEF NumbersInv, NumberTypes, Nats
  <2> QED BY <2>1, NumbersAssumption DEF NumbersInv, CountsAdd
<1> QED BY <1>1, <1>2, <1>3, PTL DEF NumbersSpec

-----------------------------------------------------------------------------
(* Sends.  The chain of a number is a row of sends at positions low + 1 to *)
(* high of some "at": each waits for the one before it, only the first can *)
(* have started, and the tail is the last.                                 *)

Stages == {"new", "waiting", "sending", "ended", "settled"}
Chained(s) == stage[s] \in {"waiting", "sending", "ended"}
InChain(l) == {s \in Send : line[s] = l /\ Chained(s)}

ChainTypes ==
  /\ stage \in [Send -> Stages]
  /\ line \in [Send -> Line]
  /\ after \in [Send -> Send \cup {NoSend}]
  /\ tails \in [Line -> Send \cup {NoSend}]
  /\ depths \in [Line -> Nat]

IsChain(l, at, low, high) ==
  /\ low <= high /\ depths[l] = high - low
  /\ \A i \in low + 1 .. high : at[i] \in InChain(l)
  /\ \A s \in InChain(l) : \E i \in low + 1 .. high : at[i] = s
  /\ \A i, j \in low + 1 .. high : at[i] = at[j] => i = j
  /\ \A i \in low + 2 .. high : after[at[i]] = at[i - 1] /\ stage[at[i]] = "waiting"
  /\ tails[l] = IF low = high THEN NoSend ELSE at[high]

Counted(l) == IsFiniteSet(InChain(l)) /\ depths[l] = Cardinality(InChain(l))

HasChain(l) == \E at \in [Nat -> Send \cup {NoSend}], low, high \in Nat : IsChain(l, at, low, high)

ChainInv ==
  /\ ChainTypes
  /\ \A l \in Line : HasChain(l) /\ Counted(l)

(* A step leaves a chain alone that it neither enters nor leaves.          *)
LEMMA ChainStays ==
  ASSUME ChainInv, NEW l \in Line, line' = line, tails'[l] = tails[l], depths'[l] = depths[l],
         \A s \in Send : line[s] = l => stage'[s] = stage[s] /\ after'[s] = after[s]
  PROVE  HasChain(l)' /\ Counted(l)'
<1>1. InChain(l)' = InChain(l)
  BY DEF InChain, Chained
<1>2. Counted(l)'
  BY <1>1 DEF ChainInv, Counted
<1>3. PICK at \in [Nat -> Send \cup {NoSend}], low \in Nat, high \in Nat : IsChain(l, at, low, high)
  BY DEF ChainInv, HasChain
<1>4. \A i \in low + 1 .. high : /\ stage'[at[i]] = stage[at[i]]
                                /\ after'[at[i]] = after[at[i]]
  BY <1>3 DEF IsChain, InChain
<1>5. IsChain(l, at, low, high)'
  <2>1. \A i \in low + 2 .. high : (after[at[i]] = at[i - 1] /\ stage[at[i]] = "waiting")'
    BY <1>3, <1>4 DEF IsChain
  <2> QED BY <1>1, <1>3, <2>1 DEF IsChain
<1> QED BY <1>2, <1>5 DEF HasChain

(* The first of a chain is the only one that can have started: a send that *)
(* may start, has started or has ended is at its head.                     *)
LEMMA OnlyTheHeadStarts ==
  ASSUME ChainInv, NEW l \in Line, NEW at, NEW low \in Nat, NEW high \in Nat, IsChain(l, at, low, high),
         NEW s \in InChain(l),
         \/ stage[s] \in {"sending", "ended"}
         \/ after[s] # NoSend => stage[after[s]] = "settled"
  PROVE  low + 1 \in low + 1 .. high /\ at[low + 1] = s
<1>1. PICK i \in low + 1 .. high : at[i] = s
  BY DEF IsChain
<1>2. ASSUME i # low + 1 PROVE FALSE
  <2>1. i \in low + 2 .. high /\ i - 1 \in low + 1 .. high
    BY <1>2
  <2>2. after[s] = at[i - 1] /\ stage[s] = "waiting" /\ at[i - 1] \in InChain(l)
    BY <1>1, <2>1 DEF IsChain
  <2>3. after[s] # NoSend /\ stage[after[s]] # "settled"
    BY <2>2, SendChainAssumption DEF InChain, Chained
  <2> QED BY <2>2, <2>3
<1> QED BY <1>1, <1>2

(* The order of a chain outlasts the start and the end of the task at its  *)
(* head.                                                                   *)
LEMMA HeadMoves ==
  ASSUME ChainInv, NEW s \in Send, NEW to \in {"sending", "ended"},
         Chained(s), stage' = [stage EXCEPT ![s] = to], UNCHANGED <<line, after, tails, depths>>,
         \/ stage[s] \in {"sending", "ended"}
         \/ after[s] # NoSend => stage[after[s]] = "settled"
  PROVE  ChainInv'
<1>0. ChainTypes
  BY DEF ChainInv
<1>1. ChainTypes'
  BY <1>0 DEF ChainTypes, Stages
<1>2. ASSUME NEW l \in Line, l # line[s] PROVE HasChain(l)' /\ Counted(l)'
  <2>1. \A t \in Send : line[t] = l => stage'[t] = stage[t] /\ after'[t] = after[t]
    BY <1>0, <1>2 DEF ChainTypes
  <2> QED BY <2>1, ChainStays
<1>3. HasChain(line[s])' /\ Counted(line[s])'
  <2> PICK l \in Line : l = line[s]
    BY <1>0 DEF ChainTypes
  <2>1. l \in Line /\ s \in InChain(l)
    BY <1>0 DEF ChainTypes, InChain
  <2>2. InChain(l)' = InChain(l)
    BY <1>0 DEF ChainTypes, InChain, Chained
  <2>3. Counted(l)'
    BY <2>1, <2>2 DEF ChainInv, Counted
  <2>4. PICK at \in [Nat -> Send \cup {NoSend}], low \in Nat, high \in Nat : IsChain(l, at, low, high)
    BY <2>1 DEF ChainInv, HasChain
  <2>5. low + 1 \in low + 1 .. high /\ at[low + 1] = s
    BY <2>1, <2>4, OnlyTheHeadStarts
  <2>6. \A i \in low + 2 .. high : at[i] # s /\ at[i] \in Send
    BY <2>4, <2>5 DEF IsChain, InChain
  <2>7. \A i \in low + 2 .. high : (after[at[i]] = at[i - 1] /\ stage[at[i]] = "waiting")'
    BY <1>0, <2>4, <2>6 DEF IsChain, ChainTypes
  <2>8. IsChain(l, at, low, high)'
    BY <2>2, <2>4, <2>7 DEF IsChain
  <2>9. HasChain(l)'
    BY <2>8 DEF HasChain
  <2> QED BY <1>0, <2>3, <2>9
<1> QED BY <1>1, <1>2, <1>3 DEF ChainInv

LEMMA EnqueueKeeps ==
  ASSUME ChainInv, NEW s \in Send, EnqueueSend(s)
  PROVE  ChainInv'
<1>0. /\ ChainTypes /\ stage[s] = "new" /\ line[s] \in Line /\ line' = line
      /\ stage' = [stage EXCEPT ![s] = "waiting"]
      /\ after' = [after EXCEPT ![s] = tails[line[s]]]
      /\ tails' = [tails EXCEPT ![line[s]] = s]
      /\ depths' = [depths EXCEPT ![line[s]] = @ + 1]
  BY DEF ChainInv, ChainTypes, EnqueueSend, Step
<1>1. ChainTypes'
  BY <1>0 DEF ChainTypes, Stages
<1>2. ASSUME NEW l \in Line, l # line[s] PROVE HasChain(l)' /\ Counted(l)'
  <2>1. \A t \in Send : line[t] = l => stage'[t] = stage[t] /\ after'[t] = after[t]
    BY <1>0, <1>2 DEF ChainTypes
  <2>2. tails'[l] = tails[l] /\ depths'[l] = depths[l]
    BY <1>0, <1>2 DEF ChainTypes
  <2> QED BY <1>0, <2>1, <2>2, ChainStays
<1>3. HasChain(line[s])' /\ Counted(line[s])'
  <2> PICK l \in Line : l = line[s]
    BY <1>0 DEF ChainTypes
  <2>1. l \in Line /\ line'[s] = l /\ s \notin InChain(l)
    BY <1>0 DEF InChain, Chained
  <2>2. InChain(l)' = InChain(l) \cup {s}
    BY <1>0 DEF ChainTypes, InChain, Chained
  <2>3. depths'[l] = depths[l] + 1 /\ tails'[l] = s /\ after'[s] = tails[l] /\ stage'[s] = "waiting"
    BY <1>0 DEF ChainTypes
  <2>4. \A t \in Send \ {s} : after'[t] = after[t] /\ stage'[t] = stage[t]
    BY <1>0 DEF ChainTypes
  <2>5. Counted(l)'
    <3>1. IsFiniteSet(InChain(l)) /\ depths[l] = Cardinality(InChain(l)) /\ depths[l] \in Nat
      BY <1>0, <2>1 DEF ChainInv, Counted, ChainTypes
    <3>2. IsFiniteSet(InChain(l) \cup {s}) /\ Cardinality(InChain(l) \cup {s}) = depths[l] + 1
      BY <2>1, <3>1, FS_AddElement
    <3> QED BY <2>2, <2>3, <3>2 DEF Counted
  <2>6. PICK at \in [Nat -> Send \cup {NoSend}], low \in Nat, high \in Nat : IsChain(l, at, low, high)
    BY <2>1 DEF ChainInv, HasChain
  <2> DEFINE longer == [at EXCEPT ![high + 1] = s]
  <2>7. /\ longer \in [Nat -> Send \cup {NoSend}] /\ longer[high + 1] = s
        /\ \A i \in low + 1 .. high : longer[i] = at[i]
    OBVIOUS
  <2> HIDE DEF longer
  <2>8. \A i \in low + 1 .. high : at[i] \in Send /\ at[i] # s
    BY <2>1, <2>6 DEF IsChain, InChain
  <2>9. /\ low <= high + 1 /\ depths'[l] = (high + 1) - low
        /\ tails'[l] = IF low = high + 1 THEN NoSend ELSE longer[high + 1]
    BY <2>3, <2>6, <2>7 DEF IsChain
  <2>10. \A i \in low + 1 .. high + 1 : longer[i] \in InChain(l)'
    BY <2>2, <2>6, <2>7 DEF IsChain
  <2>11. \A t \in InChain(l)' : \E i \in low + 1 .. high + 1 : longer[i] = t
    <3> SUFFICES ASSUME NEW t \in InChain(l)' PROVE \E i \in low + 1 .. high + 1 : longer[i] = t
      OBVIOUS
    <3>1. CASE t = s
      BY <2>6, <2>7, <3>1 DEF IsChain
    <3>2. CASE t # s
      <4>1. PICK i \in low + 1 .. high : at[i] = t
        BY <2>2, <2>6, <3>2 DEF IsChain
      <4> QED BY <2>7, <4>1
    <3> QED BY <3>1, <3>2
  <2>12. \A i, j \in low + 1 .. high + 1 : longer[i] = longer[j] => i = j
    <3> SUFFICES ASSUME NEW i \in low + 1 .. high + 1, NEW j \in low + 1 .. high + 1, longer[i] = longer[j]
                 PROVE  i = j
      OBVIOUS
    <3>1. CASE i = high + 1 \/ j = high + 1
      BY <2>7, <2>8, <3>1
    <3>2. CASE i # high + 1 /\ j # high + 1
      <4>1. i \in low + 1 .. high /\ j \in low + 1 .. high
        BY <3>2
      <4> QED BY <2>6, <2>7, <4>1 DEF IsChain
    <3> QED BY <3>1, <3>2
  <2>13. \A i \in low + 2 .. high + 1 : after'[longer[i]] = longer[i - 1] /\ stage'[longer[i]] = "waiting"
    <3> SUFFICES ASSUME NEW i \in low + 2 .. high + 1
                 PROVE  after'[longer[i]] = longer[i - 1] /\ stage'[longer[i]] = "waiting"
      OBVIOUS
    <3>1. i - 1 \in low + 1 .. high
      OBVIOUS
    <3>2. CASE i = high + 1
      BY <2>3, <2>6, <2>7, <3>1, <3>2 DEF IsChain
    <3>3. CASE i # high + 1
      <4>1. i \in low + 2 .. high /\ i \in low + 1 .. high
        BY <3>3
      <4> QED BY <2>4, <2>6, <2>7, <2>8, <3>1, <4>1 DEF IsChain
    <3> QED BY <3>2, <3>3
  <2>14. IsChain(l, longer, low, high + 1)'
    BY <2>9, <2>10, <2>11, <2>12, <2>13 DEF IsChain
  <2>15. HasChain(l)'
    <3>1. high + 1 \in Nat
      OBVIOUS
    <3> QED BY <2>7, <2>14, <3>1 DEF HasChain
  <2> QED BY <1>0, <2>5, <2>15
<1> QED BY <1>0, <1>1, <1>2, <1>3 DEF ChainInv

LEMMA CleanUpKeeps ==
  ASSUME ChainInv, NEW s \in Send, CleanUp(s)
  PROVE  ChainInv'
<1>0. /\ ChainTypes /\ stage[s] = "ended" /\ line[s] \in Line /\ line' = line /\ after' = after
      /\ stage' = [stage EXCEPT ![s] = "settled"]
      /\ s \in InChain(line[s])
  BY DEF ChainInv, ChainTypes, CleanUp, Step, InChain, Chained
<1>1. PICK at \in [Nat -> Send \cup {NoSend}], low \in Nat, high \in Nat : IsChain(line[s], at, low, high)
  BY <1>0 DEF ChainInv, HasChain
<1>2. low + 1 \in low + 1 .. high /\ at[low + 1] = s
  BY <1>0, <1>1, OnlyTheHeadStarts
<1>3. /\ depths' = [depths EXCEPT ![line[s]] = high - (low + 1)]
      /\ tails' = [tails EXCEPT ![line[s]] = IF low + 1 = high THEN NoSend ELSE at[high]]
  <2>1. depths[line[s]] - 1 = high - (low + 1) /\ tails[line[s]] = at[high]
    BY <1>1, <1>2 DEF IsChain
  <2>2. CASE low + 1 = high
    BY <2>1, <2>2 DEF CleanUp, LastOne
  <2>3. CASE low + 1 # high
    <3>1. ~(depths[line[s]] - 1 <= 0)
      BY <1>2, <2>1, <2>3
    <3>2. depths' = [depths EXCEPT ![line[s]] = high - (low + 1)] /\ tails' = tails
      BY <2>1, <3>1 DEF CleanUp, LastOne
    <3> QED BY <1>0, <2>1, <2>3, <3>2 DEF ChainTypes
  <2> QED BY <2>2, <2>3
<1>4. ChainTypes'
  <2>1. at[high] \in Send
    BY <1>1, <1>2 DEF IsChain, InChain
  <2>2. high - (low + 1) \in Nat
    BY <1>2
  <2> QED BY <1>0, <1>3, <2>1, <2>2 DEF ChainTypes, Stages
<1>5. ASSUME NEW l \in Line, l # line[s] PROVE HasChain(l)' /\ Counted(l)'
  <2>1. \A t \in Send : line[t] = l => stage'[t] = stage[t] /\ after'[t] = after[t]
    BY <1>0, <1>5 DEF ChainTypes
  <2>2. tails'[l] = tails[l] /\ depths'[l] = depths[l]
    BY <1>0, <1>3, <1>5 DEF ChainTypes
  <2> QED BY <1>0, <2>1, <2>2, ChainStays
<1>6. HasChain(line[s])' /\ Counted(line[s])'
  <2> PICK l \in Line : l = line[s]
    BY <1>0 DEF ChainTypes
  <2>1. l \in Line /\ s \in InChain(l)
    BY <1>0
  <2>2. InChain(l)' = InChain(l) \ {s}
    BY <1>0 DEF ChainTypes, InChain, Chained
  <2>3. depths'[l] = high - (low + 1) /\ tails'[l] = IF low + 1 = high THEN NoSend ELSE at[high]
    BY <1>0, <1>3 DEF ChainTypes
  <2>4. \A t \in Send \ {s} : after'[t] = after[t] /\ stage'[t] = stage[t]
    BY <1>0 DEF ChainTypes
  <2>5. IsChain(l, at, low, high)
    BY <1>1
  <2>6. Counted(l)'
    <3>1. IsFiniteSet(InChain(l)) /\ depths[l] = Cardinality(InChain(l))
      BY <2>1 DEF ChainInv, Counted
    <3>2. IsFiniteSet(InChain(l) \ {s}) /\ Cardinality(InChain(l) \ {s}) = depths[l] - 1
      BY <2>1, <3>1, FS_RemoveElement
    <3>3. depths'[l] = depths[l] - 1
      BY <2>3, <2>5 DEF IsChain
    <3> QED BY <2>2, <3>2, <3>3 DEF Counted
  <2>7. \A i \in low + 2 .. high : /\ at[i] \in Send \ {s} /\ at[i] \in InChain(l)
                                 /\ i \in low + 1 .. high
    <3> SUFFICES ASSUME NEW i \in low + 2 .. high
                 PROVE  at[i] \in Send \ {s} /\ at[i] \in InChain(l) /\ i \in low + 1 .. high
      OBVIOUS
    <3>1. i \in low + 1 .. high /\ i # low + 1
      OBVIOUS
    <3> QED BY <1>2, <2>5, <3>1 DEF IsChain, InChain
  <2>8. \A t \in InChain(l)' : \E i \in low + 2 .. high : at[i] = t
    <3> SUFFICES ASSUME NEW t \in InChain(l)' PROVE \E i \in low + 2 .. high : at[i] = t
      OBVIOUS
    <3>1. PICK i \in low + 1 .. high : at[i] = t
      BY <2>2, <2>5 DEF IsChain
    <3>2. i # low + 1
      BY <1>2, <2>2, <3>1
    <3>3. i \in low + 2 .. high
      BY <3>2
    <3> QED BY <3>1, <3>3
  <2>9. \A i \in low + 2 .. high : at[i] \in InChain(l)'
    BY <2>2, <2>7
  <2>10. \A i, j \in low + 2 .. high : at[i] = at[j] => i = j
    BY <2>5, <2>7 DEF IsChain
  <2>11. \A i \in low + 3 .. high : after'[at[i]] = at[i - 1] /\ stage'[at[i]] = "waiting"
    <3> SUFFICES ASSUME NEW i \in low + 3 .. high
                 PROVE  after'[at[i]] = at[i - 1] /\ stage'[at[i]] = "waiting"
      OBVIOUS
    <3>1. i \in low + 2 .. high
      OBVIOUS
    <3> QED BY <2>4, <2>5, <2>7, <3>1 DEF IsChain
  <2>12. low + 1 <= high /\ (low + 1) + 1 = low + 2 /\ (low + 1) + 2 = low + 3 /\ low + 1 \in Nat
    BY <1>2
  <2>13. IsChain(l, at, low + 1, high)'
    BY <2>3, <2>8, <2>9, <2>10, <2>11, <2>12 DEF IsChain
  <2>14. HasChain(l)'
    BY <2>12, <2>13 DEF HasChain
  <2> QED BY <1>0, <2>6, <2>14
<1> QED BY <1>0, <1>4, <1>5, <1>6 DEF ChainInv

(* For any number of sends and numbers: a number sends one message at a    *)
(* time, and a chain is forgotten with nothing in it only (per-number-     *)
(* queue.ts).                                                              *)
THEOREM SendsStaySerial == ChainSpec => []SendsAreSerial
<1>1. ChainInit => ChainInv
  <2> SUFFICES ASSUME ChainInit PROVE ChainInv
    OBVIOUS
  <2>1. ChainTypes
    BY DEF ChainInit, ChainTypes, Stages
  <2>2. ASSUME NEW l \in Line PROVE HasChain(l) /\ Counted(l)
    <3>1. InChain(l) = {} /\ depths[l] = 0 /\ tails[l] = NoSend
      BY DEF ChainInit, InChain, Chained
    <3>2. IsChain(l, [i \in Nat |-> NoSend], 0, 0)
      BY <3>1 DEF IsChain
    <3>3. [i \in Nat |-> NoSend] \in [Nat -> Send \cup {NoSend}] /\ 0 \in Nat
      OBVIOUS
    <3>4. HasChain(l)
      BY <3>2, <3>3 DEF HasChain
    <3> QED BY <3>1, <3>4, FS_EmptySet DEF Counted
  <2> QED BY <2>1, <2>2 DEF ChainInv
<1>2. ChainInv /\ [ChainNext]_chainVars => ChainInv'
  <2> SUFFICES ASSUME ChainInv, [ChainNext]_chainVars PROVE ChainInv'
    OBVIOUS
  <2>1. ASSUME NEW s \in Send, EnqueueSend(s) PROVE ChainInv'
    BY <2>1, EnqueueKeeps
  <2>2. ASSUME NEW s \in Send, StartTask(s) PROVE ChainInv'
    BY <2>2, HeadMoves DEF StartTask, Step, Chained
  <2>3. ASSUME NEW s \in Send, EndTask(s) PROVE ChainInv'
    BY <2>3, HeadMoves DEF EndTask, Step, Chained
  <2>4. ASSUME NEW s \in Send, CleanUp(s) PROVE ChainInv'
    BY <2>4, CleanUpKeeps
  <2>5. CASE UNCHANGED chainVars
    <3>1. ChainTypes'
      BY <2>5 DEF chainVars, ChainInv, ChainTypes
    <3>2. \A l \in Line : HasChain(l)' /\ Counted(l)'
      BY <2>5, ChainStays DEF chainVars
    <3> QED BY <3>1, <3>2 DEF ChainInv
  <2> QED BY <2>1, <2>2, <2>3, <2>4, <2>5 DEF ChainNext
<1>3. ChainInv => SendsAreSerial
  <2> SUFFICES ASSUME ChainInv PROVE SendsAreSerial
    OBVIOUS
  <2>1. ASSUME NEW s \in Send, NEW t \in Send, line[s] = line[t],
               stage[s] = "sending", stage[t] = "sending"
        PROVE  s = t
    <3>1. line[s] \in Line /\ s \in InChain(line[s]) /\ t \in InChain(line[s])
      BY <2>1 DEF ChainInv, ChainTypes, InChain, Chained
    <3>2. PICK at \in [Nat -> Send \cup {NoSend}], low \in Nat, high \in Nat : IsChain(line[s], at, low, high)
      BY <3>1 DEF ChainInv, HasChain
    <3>3. at[low + 1] = s
      BY <2>1, <3>1, <3>2, OnlyTheHeadStarts
    <3>4. at[low + 1] = t
      BY <2>1, <3>1, <3>2, OnlyTheHeadStarts
    <3> QED BY <3>3, <3>4
  <2>2. \A l \in Line : depths[l] = Cardinality({s \in Send : line[s] = l /\ stage[s] \in {"waiting", "sending", "ended"}})
    BY DEF ChainInv, Counted, InChain, Chained
  <2> QED BY <2>1, <2>2 DEF SendsAreSerial
<1> QED BY <1>1, <1>2, <1>3, PTL DEF ChainSpec


-----------------------------------------------------------------------------
(* Sums.  Total is a fold over a finite set, so what it computes follows   *)
(* by taking a least set for which the claim would fail.                   *)

(* Among sets of subsets of a finite set there is a least one: what takes  *)
(* the place of induction below.                                           *)
LEMMA MinimalSubset ==
  ASSUME NEW S, IsFiniteSet(S), NEW B, B \subseteq SUBSET S, B # {}
  PROVE  \E T \in B : \A U \in B : ~(U \subseteq T /\ U # T)
<1>1. B \subseteq FiniteSubsetsOf(S)
  BY FS_Subset DEF FiniteSubsetsOf
<1>2. \E T \in B : \A U \in B : ~(<<U, T>> \in StrictSubsetOrdering(S))
  <2> DEFINE R == StrictSubsetOrdering(S)
             F == FiniteSubsetsOf(S)
  <2>1. IsWellFoundedOn(R, F) BY FS_StrictSubsetOrderingWellFounded
  <2> HIDE DEF R, F
  <2> QED BY <1>1, <2>1, WFMin DEF F, R
<1> QED BY <1>2 DEF StrictSubsetOrdering

Pick(s) == CHOOSE x \in s : TRUE

\* The recursion that Total unfolds to, over the subsets of S.
Folds(f, S, g) ==
  g = [s \in SUBSET S |-> IF s = {} THEN 0 ELSE f[Pick(s)] + g[s \ {Pick(s)}]]

LEMMA TotalIsFold ==
  ASSUME NEW f, NEW S
  PROVE  Total(f, S) = (CHOOSE g : Folds(f, S, g))[S]
BY DEF Total, MapThenSumSet, MapThenFoldSet, Folds, Pick

LEMMA FoldsAgree ==
  ASSUME NEW f, NEW S, NEW T, IsFiniteSet(S), NEW g, NEW h, Folds(f, S, g), Folds(f, T, h),
         NEW u \in SUBSET S, u \in SUBSET T
  PROVE  g[u] = h[u]
<1> DEFINE B == {s \in SUBSET S : s \in SUBSET T /\ g[s] # h[s]}
<1>1. SUFFICES ASSUME B # {} PROVE FALSE
  OBVIOUS
<1>2. PICK s \in B : \A U \in B : ~(U \subseteq s /\ U # s)
  <2> HIDE DEF B
  <2>1. B \subseteq SUBSET S BY DEF B
  <2> QED BY <1>1, <2>1, MinimalSubset
<1>3. g[s] = IF s = {} THEN 0 ELSE f[Pick(s)] + g[s \ {Pick(s)}]
  BY DEF Folds
<1>4. h[s] = IF s = {} THEN 0 ELSE f[Pick(s)] + h[s \ {Pick(s)}]
  BY DEF Folds
<1>5. CASE s = {}
  BY <1>3, <1>4, <1>5
<1>6. CASE s # {}
  <2>1. Pick(s) \in s
    BY <1>6 DEF Pick
  <2> DEFINE t == s \ {Pick(s)}
  <2>2. t \subseteq s /\ t # s /\ t \in SUBSET S /\ t \in SUBSET T
    BY <2>1
  <2>3. g[t] = h[t]
    BY <1>2, <2>2
  <2> QED BY <1>3, <1>4, <1>6, <2>3
<1> QED BY <1>5, <1>6

LEMMA FoldExists ==
  ASSUME NEW f, NEW S, IsFiniteSet(S)
  PROVE  \E g : Folds(f, S, g)
<1> DEFINE B == {s \in SUBSET S : ~ \E g : Folds(f, s, g)}
<1>1. SUFFICES ASSUME B # {} PROVE FALSE
  OBVIOUS
<1>2. PICK T \in B : \A U \in B : ~(U \subseteq T /\ U # T)
  <2> HIDE DEF B
  <2>1. B \subseteq SUBSET S BY DEF B
  <2> QED BY <1>1, <2>1, MinimalSubset
<1>3. ASSUME NEW u \in SUBSET T, u # T
      PROVE  /\ IsFiniteSet(u)
             /\ Folds(f, u, CHOOSE g : Folds(f, u, g))
             /\ Total(f, u) = (CHOOSE g : Folds(f, u, g))[u]
  <2>1. \E g : Folds(f, u, g)
    BY <1>2, <1>3
  <2> QED BY <2>1, TotalIsFold, FS_Subset
<1>4. ASSUME NEW u \in SUBSET T, u # T
      PROVE  Total(f, u) = IF u = {} THEN 0 ELSE f[Pick(u)] + Total(f, u \ {Pick(u)})
  <2> DEFINE h == CHOOSE g : Folds(f, u, g)
             t == u \ {Pick(u)}
             k == CHOOSE g : Folds(f, t, g)
  <2>1. Folds(f, u, h) /\ Total(f, u) = h[u]
    BY <1>3, <1>4
  <2>2. h[u] = IF u = {} THEN 0 ELSE f[Pick(u)] + h[t]
    <3> HIDE DEF h
    <3> QED BY <2>1 DEF Folds
  <2>3. CASE u # {}
    <3>1. Pick(u) \in u
      BY <2>3 DEF Pick
    <3>2. t \in SUBSET T /\ t # T /\ t \in SUBSET u
      BY <3>1
    <3>3. Folds(f, t, k) /\ Total(f, t) = k[t]
      BY <1>3, <3>2
    <3>4. IsFiniteSet(u)
      BY <1>3, <1>4
    <3> HIDE DEF h, t, k
    <3>5. h[t] = k[t]
      BY <2>1, <3>2, <3>3, <3>4, FoldsAgree
    <3> QED BY <2>1, <2>2, <2>3, <3>3, <3>5 DEF t
  <2> QED BY <2>1, <2>2, <2>3
<1> DEFINE g == [s \in SUBSET T |-> IF s = {} THEN 0 ELSE f[Pick(s)] + Total(f, s \ {Pick(s)})]
<1>5. ASSUME NEW s \in SUBSET T, s # {} PROVE Total(f, s \ {Pick(s)}) = g[s \ {Pick(s)}]
  <2> DEFINE t == s \ {Pick(s)}
  <2>1. Pick(s) \in s
    BY <1>5 DEF Pick
  <2>2. t \in SUBSET T /\ t # T
    BY <2>1
  <2> HIDE DEF t
  <2>3. g[t] = IF t = {} THEN 0 ELSE f[Pick(t)] + Total(f, t \ {Pick(t)})
    BY <2>2
  <2>4. Total(f, t) = g[t]
    BY <1>4, <2>2, <2>3
  <2> QED BY <2>4 DEF t
<1>6. Folds(f, T, g)
  BY <1>5 DEF Folds
<1> QED BY <1>2, <1>6

(* What Total computes, one element at a time.                             *)
LEMMA TotalUnfolds ==
  ASSUME NEW f, NEW S, IsFiniteSet(S)
  PROVE  Total(f, S) = IF S = {} THEN 0 ELSE f[Pick(S)] + Total(f, S \ {Pick(S)})
<1> DEFINE h == CHOOSE g : Folds(f, S, g)
           t == S \ {Pick(S)}
           k == CHOOSE g : Folds(f, t, g)
<1>1. Folds(f, S, h) /\ Total(f, S) = h[S]
  BY FoldExists, TotalIsFold
<1>2. IsFiniteSet(t) /\ t \in SUBSET S
  BY FS_Subset
<1>3. Folds(f, t, k) /\ Total(f, t) = k[t]
  <2> HIDE DEF t
  <2> QED BY <1>2, FoldExists, TotalIsFold
<1> HIDE DEF h, t, k
<1>4. h[t] = k[t]
  BY <1>1, <1>2, <1>3, FoldsAgree
<1>5. h[S] = IF S = {} THEN 0 ELSE f[Pick(S)] + h[t]
  BY <1>1 DEF Folds, t
<1> QED BY <1>1, <1>3, <1>4, <1>5 DEF t

(* A total of naturals is a natural, and any element may be taken first.   *)
LEMMA TotalIsNat ==
  ASSUME NEW f, NEW S, IsFiniteSet(S), \A x \in S : f[x] \in Nat
  PROVE  Total(f, S) \in Nat
<1> DEFINE B == {s \in SUBSET S : Total(f, s) \notin Nat}
<1>1. SUFFICES ASSUME B # {} PROVE FALSE
  OBVIOUS
<1>2. PICK T \in B : \A U \in B : ~(U \subseteq T /\ U # T)
  <2> HIDE DEF B
  <2>1. B \subseteq SUBSET S BY DEF B
  <2> QED BY <1>1, <2>1, MinimalSubset
<1>3. Total(f, T) = IF T = {} THEN 0 ELSE f[Pick(T)] + Total(f, T \ {Pick(T)})
  BY TotalUnfolds, FS_Subset
<1>4. CASE T # {}
  <2>1. Pick(T) \in T
    BY <1>4 DEF Pick
  <2> DEFINE t == T \ {Pick(T)}
  <2>2. t \subseteq T /\ t # T /\ t \in SUBSET S
    BY <2>1
  <2>3. Total(f, t) \in Nat
    BY <1>2, <2>2
  <2> QED BY <1>3, <1>4, <2>1, <2>3
<1> QED BY <1>3, <1>4

LEMMA TotalTakes ==
  ASSUME NEW f, NEW S, IsFiniteSet(S), \A x \in S : f[x] \in Nat, NEW a \in S
  PROVE  Total(f, S) = f[a] + Total(f, S \ {a})
<1> DEFINE B == {s \in SUBSET S : \E b \in s : Total(f, s) # f[b] + Total(f, s \ {b})}
<1>1. SUFFICES ASSUME B # {} PROVE FALSE
  OBVIOUS
<1>2. PICK T \in B : \A U \in B : ~(U \subseteq T /\ U # T)
  <2> HIDE DEF B
  <2>1. B \subseteq SUBSET S BY DEF B
  <2> QED BY <1>1, <2>1, MinimalSubset
<1>3. PICK b \in T : Total(f, T) # f[b] + Total(f, T \ {b})
  OBVIOUS
<1> DEFINE c == Pick(T)
<1>4. c \in T
  BY <1>3 DEF Pick
<1>f. ASSUME NEW s \in SUBSET T PROVE IsFiniteSet(s) /\ \A x \in s : f[x] \in Nat
  BY <1>f, FS_Subset
<1>5. Total(f, T) = f[c] + Total(f, T \ {c})
  BY <1>f, <1>4, TotalUnfolds
<1> HIDE DEF c
<1>6. b # c
  BY <1>3, <1>5
<1> DEFINE r == (T \ {b}) \ {c}
<1>7. Total(f, T \ {c}) = f[b] + Total(f, r)
  <2>1. T \ {c} \in SUBSET S /\ T \ {c} # T /\ b \in T \ {c}
    BY <1>4, <1>6
  <2>2. Total(f, T \ {c}) = f[b] + Total(f, (T \ {c}) \ {b})
    BY <1>2, <2>1
  <2>3. (T \ {c}) \ {b} = r
    OBVIOUS
  <2> QED BY <2>2, <2>3
<1>8. Total(f, T \ {b}) = f[c] + Total(f, r)
  <2>1. T \ {b} \in SUBSET S /\ T \ {b} # T /\ c \in T \ {b}
    BY <1>3, <1>4, <1>6
  <2> QED BY <1>2, <2>1
<1>9. Total(f, r) \in Nat
  <2>1. r \in SUBSET T
    OBVIOUS
  <2> HIDE DEF r
  <2> QED BY <1>f, <2>1, TotalIsNat
<1>10. f[b] \in Nat /\ f[c] \in Nat
  BY <1>f, <1>3, <1>4
<1> HIDE DEF r
<1>11. f[c] + (f[b] + Total(f, r)) = f[b] + (f[c] + Total(f, r))
  BY <1>9, <1>10
<1> QED BY <1>3, <1>5, <1>7, <1>8, <1>11

LEMMA TotalOfNothing ==
  ASSUME NEW f, NEW S, IsFiniteSet(S), \A x \in S : f[x] = 0
  PROVE  Total(f, S) = 0
<1> DEFINE B == {s \in SUBSET S : Total(f, s) # 0}
<1>1. SUFFICES ASSUME B # {} PROVE FALSE
  OBVIOUS
<1>2. PICK T \in B : \A U \in B : ~(U \subseteq T /\ U # T)
  <2> HIDE DEF B
  <2>1. B \subseteq SUBSET S BY DEF B
  <2> QED BY <1>1, <2>1, MinimalSubset
<1>3. Total(f, T) = IF T = {} THEN 0 ELSE f[Pick(T)] + Total(f, T \ {Pick(T)})
  BY TotalUnfolds, FS_Subset
<1>4. CASE T # {}
  <2>1. Pick(T) \in T
    BY <1>4 DEF Pick
  <2> DEFINE t == T \ {Pick(T)}
  <2>2. t \subseteq T /\ t # T /\ t \in SUBSET S
    BY <2>1
  <2>3. Total(f, t) = 0
    BY <1>2, <2>2
  <2> QED BY <1>3, <1>4, <2>1, <2>3
<1> QED BY <1>3, <1>4

(* Only the values on the set count.                                       *)
LEMMA TotalAgrees ==
  ASSUME NEW f, NEW g, NEW S, IsFiniteSet(S), \A x \in S : f[x] = g[x]
  PROVE  Total(f, S) = Total(g, S)
<1> DEFINE B == {s \in SUBSET S : Total(f, s) # Total(g, s)}
<1>1. SUFFICES ASSUME B # {} PROVE FALSE
  OBVIOUS
<1>2. PICK T \in B : \A U \in B : ~(U \subseteq T /\ U # T)
  <2> HIDE DEF B
  <2>1. B \subseteq SUBSET S BY DEF B
  <2> QED BY <1>1, <2>1, MinimalSubset
<1>3. /\ Total(f, T) = IF T = {} THEN 0 ELSE f[Pick(T)] + Total(f, T \ {Pick(T)})
      /\ Total(g, T) = IF T = {} THEN 0 ELSE g[Pick(T)] + Total(g, T \ {Pick(T)})
  BY TotalUnfolds, FS_Subset
<1>4. CASE T # {}
  <2>1. Pick(T) \in T
    BY <1>4 DEF Pick
  <2> DEFINE t == T \ {Pick(T)}
  <2>2. t \subseteq T /\ t # T /\ t \in SUBSET S
    BY <2>1
  <2>3. Total(f, t) = Total(g, t)
    BY <1>2, <2>2
  <2> QED BY <1>3, <1>4, <2>1, <2>3
<1> QED BY <1>3, <1>4

(* A cost that is recorded now is all that is added.                       *)
LEMMA TotalRecords ==
  ASSUME NEW k \in Nat, NEW n \in Nat, k <= n, NEW f \in [0..n -> Nat], NEW cost \in Nat
  PROVE  Total([f EXCEPT ![0] = @ + cost], 0..k) = Total(f, 0..k) + cost
<1> DEFINE g == [f EXCEPT ![0] = @ + cost]
           s == (0..k) \ {0}
<1>1. IsFiniteSet(0..k) /\ 0 \in 0..k /\ IsFiniteSet(s)
  <2>1. IsFiniteSet(0..k)
    BY FS_Interval
  <2> QED BY <2>1, FS_Subset
<1>2. (\A x \in 0..k : f[x] \in Nat /\ g[x] \in Nat) /\ g[0] = f[0] + cost /\ \A x \in s : f[x] = g[x]
  OBVIOUS
<1> HIDE DEF g
<1>3. Total(f, 0..k) = f[0] + Total(f, s) /\ Total(g, 0..k) = g[0] + Total(g, s)
  <2> DEFINE all == 0..k
  <2>1. IsFiniteSet(all) /\ 0 \in all /\ s = all \ {0} /\ \A x \in all : f[x] \in Nat /\ g[x] \in Nat
    BY <1>1, <1>2
  <2> HIDE DEF all, s
  <2>2. Total(f, all) = f[0] + Total(f, s)
    BY <2>1, TotalTakes
  <2>3. Total(g, all) = g[0] + Total(g, s)
    BY <2>1, TotalTakes
  <2> QED BY <2>2, <2>3 DEF all
<1> HIDE DEF s
<1>4. Total(g, s) = Total(f, s)
  BY <1>1, <1>2, TotalAgrees
<1>5. Total(f, s) \in Nat /\ f[0] \in Nat
  BY <1>1, <1>2, TotalIsNat DEF s
<1> QED BY <1>2, <1>3, <1>4, <1>5 DEF g

(* When time passes, what is within a window leaves it at its end.         *)
LEMMA TotalLater ==
  ASSUME NEW n \in Nat, NEW f \in [0..n -> Nat], NEW k \in Nat, k <= n
  PROVE  Total(Later(f), 0..k) + f[k] = Total(f, 0..k)
<1> DEFINE g == Later(f)
<1>1. g[0] = 0 /\ (\A x \in 1..n : g[x] = f[x - 1]) /\ \A x \in 0..n : g[x] \in Nat /\ f[x] \in Nat
  BY DEF Later
<1> HIDE DEF g
<1>z. f[0] \in Nat /\ g[0] = 0
  BY <1>1
<1>2. ASSUME NEW i \in 0..n
      PROVE  Total(f, 0..i) \in Nat /\ Total(g, 0..i) \in Nat
  <2>1. IsFiniteSet(0..i)
    BY FS_Interval
  <2>2. \A x \in 0..i : f[x] \in Nat /\ g[x] \in Nat
    BY <1>1
  <2> QED BY <2>1, <2>2, TotalIsNat
<1>3. ASSUME NEW i \in 0..n, i > 0
      PROVE  Total(f, 0..i) = Total(f, 0..(i - 1)) + f[i] /\ Total(g, 0..i) = Total(g, 0..(i - 1)) + g[i]
  <2>1. (0..i) \ {i} = 0..(i - 1) /\ i \in 0..i
    BY <1>3
  <2>4. IsFiniteSet(0..i)
    BY FS_Interval
  <2>5. \A x \in 0..i : f[x] \in Nat /\ g[x] \in Nat
    BY <1>1
  <2>2. Total(f, 0..i) = f[i] + Total(f, 0..(i - 1)) /\ Total(g, 0..i) = g[i] + Total(g, 0..(i - 1))
    <3> DEFINE s == 0..i
    <3>1. IsFiniteSet(s) /\ i \in s /\ \A x \in s : f[x] \in Nat /\ g[x] \in Nat
      BY <2>1, <2>4, <2>5
    <3> HIDE DEF s
    <3>2. Total(f, s) = f[i] + Total(f, s \ {i}) /\ Total(g, s) = g[i] + Total(g, s \ {i})
      BY <3>1, TotalTakes, ZenonT(40)
    <3> QED BY <2>1, <3>2, ZenonT(40) DEF s
  <2>3. i - 1 \in 0..n
    BY <1>3
  <2>6. f[i] \in Nat /\ g[i] \in Nat /\ Total(f, 0..(i - 1)) \in Nat /\ Total(g, 0..(i - 1)) \in Nat
    BY <1>1, <1>2, <1>3, <2>3
  <2> QED BY <2>2, <2>6
<1>4. Total(f, 0..0) = f[0] /\ Total(g, 0..0) = g[0]
  <2>1. (0..0) = {0} /\ {0} \ {0} = {}
    OBVIOUS
  <2>4. IsFiniteSet({0}) /\ IsFiniteSet({})
    BY FS_Singleton, FS_EmptySet
  <2>2. Total(f, {}) = 0 /\ Total(g, {}) = 0
    BY <2>4, TotalUnfolds
  <2>3. Total(f, {0}) = f[0] + Total(f, {0} \ {0}) /\ Total(g, {0}) = g[0] + Total(g, {0} \ {0})
    BY <1>z, <2>4, TotalTakes
  <2>5. Total(f, {0}) = f[0] + 0 /\ Total(g, {0}) = g[0] + 0
    BY <2>1, <2>2, <2>3
  <2>6. Total(f, {0}) = f[0] /\ Total(g, {0}) = g[0]
    BY <1>z, <2>5
  <2> QED BY <2>1, <2>6
<1> DEFINE B == {i \in 0..n : Total(g, 0..i) + f[i] # Total(f, 0..i)}
<1>5. B = {}
  <2>1. SUFFICES ASSUME B # {} PROVE FALSE
    OBVIOUS
  <2>2. PICK i \in B : \A j \in B : ~(<<j, i>> \in OpToRel(<, Nat))
    <3>1. B \subseteq Nat
      OBVIOUS
    <3> HIDE DEF B
    <3> QED BY <2>1, <3>1, NatLessThanWellFounded, WFMin
  <2>3. CASE i = 0
    <3>1. Total(g, 0..0) + f[0] # Total(f, 0..0)
      BY <2>2, <2>3
    <3> QED BY <1>z, <1>4, <3>1
  <2>4. CASE i > 0
    <3>1. i - 1 \in 0..n /\ <<i - 1, i>> \in OpToRel(<, Nat)
      BY <2>4 DEF OpToRel
    <3>2. Total(g, 0..(i - 1)) + f[i - 1] = Total(f, 0..(i - 1))
      BY <2>2, <3>1
    <3>3. g[i] = f[i - 1]
      BY <1>1, <2>4
    <3> QED BY <1>1, <1>2, <1>3, <2>2, <2>4, <3>1, <3>2, <3>3
  <2> QED BY <2>3, <2>4
<1> QED BY <1>5 DEF g

-----------------------------------------------------------------------------
(* The cost limits.  What is in a window and what is under way bound each  *)
(* other: a call that is let in finds room, one that ends gives its place  *)
(* for its cost, and time only takes away.                                 *)

AiSpec == AiInit /\ [][AiNext]_aiVars

CallState == [at : {"idle", "asking", "again"}, left : Nat]
SpendingTypes == calls \in [Caller -> CallState] /\ usage \in [0..Day -> Nat]

\* SpendingIsBounded for any window within a day, and its limit.
BoundedIn(window, limit) ==
  Total(usage, 0..window) + MaxCost * InFlight <= limit - 1 + MaxCost * Cardinality(Caller)
SpendingInv == SpendingTypes /\ BoundedIn(Hour, HourLimit) /\ BoundedIn(Day, DayLimit)

UnderWay == {c \in Caller : calls[c].at = "asking"}

LEMMA WindowTotals ==
  ASSUME SpendingTypes, NEW w \in {Hour, Day}
  PROVE  /\ w \in Nat /\ w <= Day /\ Day \in Nat /\ MaxCost \in Nat
         /\ Total(usage, 0..w) \in Nat
<1>1. w \in Nat /\ w <= Day /\ Day \in Nat /\ MaxCost \in Nat
  BY AiGatewayAssumption
<1>2. IsFiniteSet(0..w)
  BY <1>1, FS_Interval
<1>3. \A x \in 0..w : usage[x] \in Nat
  BY <1>1 DEF SpendingTypes
<1> QED BY <1>1, <1>2, <1>3, TotalIsNat

LEMMA FlightCounts ==
  /\ IsFiniteSet(Caller) /\ IsFiniteSet(UnderWay)
  /\ Cardinality(Caller) \in Nat /\ InFlight \in Nat /\ InFlight = Cardinality(UnderWay)
  /\ InFlight <= Cardinality(Caller)
BY AiGatewayAssumption, FS_Subset, FS_CardinalityType DEF InFlight, UnderWay

LEMMA TimesMonotone ==
  ASSUME NEW a \in Nat, NEW b \in Nat, NEW c \in Nat, b <= c
  PROVE  a * b <= a * c /\ a * b \in Nat /\ a * c \in Nat
<1>1. PICK d \in Nat : c = b + d
  <2>1. c - b \in Nat /\ c = b + (c - b)
    OBVIOUS
  <2> QED BY <2>1
<1>2. a * b \in Nat /\ a * d \in Nat /\ a * c \in Nat
  OBVIOUS
<1>3. a * (b + d) = a * b + a * d
  OBVIOUS
<1> QED BY <1>1, <1>2, <1>3

(* A call let in where the window has room.                                *)
LEMMA AdmittedFits ==
  ASSUME SpendingTypes, SpendingTypes', NEW w \in {Hour, Day}, NEW limit \in Nat,
         usage' = usage, Total(usage, 0..w) < limit
  PROVE  BoundedIn(w, limit)'
<1> DEFINE t == Total(usage, 0..w)
           n == Cardinality(Caller)
<1>1. t \in Nat /\ MaxCost \in Nat
  BY WindowTotals
<1>2. n \in Nat /\ InFlight' \in Nat /\ InFlight' <= n
  <2>1. IsFiniteSet(Caller) /\ UnderWay' \subseteq Caller
    BY FlightCounts DEF UnderWay
  <2>2. Cardinality(UnderWay') <= n /\ Cardinality(UnderWay') \in Nat /\ n \in Nat
    BY <2>1, FS_Subset, FS_CardinalityType
  <2> QED BY <2>2 DEF InFlight, UnderWay
<1> HIDE DEF t, n
<1>3. MaxCost * InFlight' <= MaxCost * n /\ MaxCost * InFlight' \in Nat /\ MaxCost * n \in Nat
  BY <1>1, <1>2, TimesMonotone
<1>4. t + MaxCost * InFlight' <= limit - 1 + MaxCost * n
  BY <1>1, <1>3 DEF t
<1> QED BY <1>4 DEF BoundedIn, t, n

(* A call that ends: its place is worth what it may cost.                  *)
LEMMA EndedFits ==
  ASSUME SpendingTypes, NEW w \in {Hour, Day}, NEW limit \in Nat, BoundedIn(w, limit),
         NEW c \in Caller, calls[c].at = "asking", calls'[c].at # "asking",
         \A d \in Caller : d # c => calls'[d] = calls[d],
         NEW cost \in 0..MaxCost, Total(usage, 0..w)' = Total(usage, 0..w) + cost
  PROVE  BoundedIn(w, limit)'
<1> DEFINE t == Total(usage, 0..w)
           n == Cardinality(Caller)
<1>1. t \in Nat /\ MaxCost \in Nat
  BY WindowTotals
<1>2. n \in Nat /\ InFlight \in Nat /\ InFlight > 0 /\ InFlight' = InFlight - 1
  <2>1. UnderWay' = UnderWay \ {c} /\ c \in UnderWay
    BY DEF UnderWay
  <2>2. Cardinality(UnderWay \ {c}) = Cardinality(UnderWay) - 1
    BY <2>1, FlightCounts, FS_RemoveElement
  <2>3. Cardinality(UnderWay) > 0
    BY <2>1, FlightCounts, FS_EmptySet
  <2> QED BY <2>1, <2>2, <2>3, FlightCounts DEF InFlight, UnderWay
<1>3. t + MaxCost * InFlight <= limit - 1 + MaxCost * n
  BY DEF BoundedIn
<1>4. BoundedIn(w, limit)' <=> t' + MaxCost * InFlight' <= limit - 1 + MaxCost * n
  BY DEF BoundedIn
<1>5. t' = t + cost
  OBVIOUS
<1> HIDE DEF t, n
<1>6. MaxCost * InFlight' = MaxCost * InFlight - MaxCost /\ MaxCost * InFlight \in Nat /\ MaxCost * n \in Nat
  BY <1>1, <1>2
<1> QED BY <1>1, <1>3, <1>4, <1>5, <1>6

(* Where nothing is charged and nobody is let in.                          *)
LEMMA QuietFits ==
  ASSUME SpendingTypes, NEW w \in {Hour, Day}, NEW limit \in Nat, BoundedIn(w, limit),
         UnderWay' \subseteq UnderWay, Total(usage, 0..w)' \in Nat,
         Total(usage, 0..w)' <= Total(usage, 0..w)
  PROVE  BoundedIn(w, limit)'
<1> DEFINE t == Total(usage, 0..w)
           n == Cardinality(Caller)
<1>1. t \in Nat /\ t' \in Nat /\ t' <= t /\ MaxCost \in Nat
  BY WindowTotals
<1>2. n \in Nat /\ InFlight \in Nat /\ InFlight' \in Nat /\ InFlight' <= InFlight
  <2>1. Cardinality(UnderWay') <= Cardinality(UnderWay) /\ Cardinality(UnderWay') \in Nat
    BY FlightCounts, FS_Subset, FS_CardinalityType
  <2> QED BY <2>1, FlightCounts DEF InFlight, UnderWay
<1>3. t + MaxCost * InFlight <= limit - 1 + MaxCost * n
  BY DEF BoundedIn
<1>4. BoundedIn(w, limit)' <=> t' + MaxCost * InFlight' <= limit - 1 + MaxCost * n
  BY DEF BoundedIn
<1> HIDE DEF t, n
<1>5. MaxCost * InFlight' <= MaxCost * InFlight /\ MaxCost * InFlight' \in Nat
      /\ MaxCost * InFlight \in Nat
  BY <1>1, <1>2, TimesMonotone
<1>6. MaxCost * n \in Nat
  BY <1>1, <1>2
<1> QED BY <1>1, <1>3, <1>4, <1>5, <1>6

LEMMA SpendingTypesStay == ASSUME SpendingTypes, AiNext PROVE SpendingTypes'
<1>t. calls \in [Caller -> CallState] /\ usage \in [0..Day -> Nat] /\ Day \in Nat /\ MaxCost \in Nat
  BY AiGatewayAssumption DEF SpendingTypes
<1>1. CASE AiTick
  BY <1>t, <1>1 DEF AiTick, Later, SpendingTypes
<1>2. ASSUME NEW c \in Caller, NEW left \in Nat, AskModel(c, left) PROVE SpendingTypes'
  <2>1. [at |-> "asking", left |-> left] \in CallState /\ [at |-> "idle", left |-> 0] \in CallState
    BY DEF CallState
  <2>2. usage' = usage /\ \E s \in CallState : calls' = [calls EXCEPT ![c] = s]
    BY <1>2, <2>1 DEF AskModel
  <2> QED BY <1>t, <2>2 DEF SpendingTypes
<1>3. ASSUME NEW c \in Caller, BeginCall(c) \/ RepeatCall(c) PROVE SpendingTypes'
  <2>1. calls[c].left \in Nat
    BY <1>t DEF CallState
  <2> QED BY <1>2, <1>3, <2>1 DEF BeginCall, RepeatCall
<1>4. ASSUME NEW c \in Caller, CallSucceeds(c) PROVE SpendingTypes'
  BY <1>t, <1>4 DEF CallSucceeds, CallState, SpendingTypes
<1>5. ASSUME NEW c \in Caller, CallFails(c) PROVE SpendingTypes'
  <2>1. \E s \in CallState : calls' = [calls EXCEPT ![c] = s]
    <3>1. calls[c].left \in Nat
      BY <1>t DEF CallState
    <3>2. [at |-> "idle", left |-> 0] \in CallState
      BY DEF CallState
    <3>3. \A left \in Nat : [at |-> "again", left |-> left] \in CallState
      BY DEF CallState
    <3>4. calls[c].left > 0 => {0, calls[c].left - 1} \subseteq Nat
      BY <3>1
    <3> QED BY <1>5, <3>2, <3>3, <3>4 DEF CallFails
  <2> QED BY <1>t, <1>5, <2>1 DEF CallFails, SpendingTypes
<1> QED BY <1>1, <1>3, <1>4, <1>5 DEF AiNext, AiReturn

LEMMA SpendingStep ==
  ASSUME SpendingInv, AiNext, NEW w \in {Hour, Day}, NEW limit \in Nat, BoundedIn(w, limit),
         WithinLimits => Total(usage, 0..w) < limit
  PROVE  BoundedIn(w, limit)'
<1>t. /\ SpendingTypes /\ SpendingTypes' /\ BoundedIn(w, limit)
      /\ calls \in [Caller -> CallState] /\ usage \in [0..Day -> Nat]
  BY SpendingTypesStay DEF SpendingInv, SpendingTypes
<1>n. w \in Nat /\ w <= Day /\ Day \in Nat /\ MaxCost \in Nat /\ Total(usage, 0..w) \in Nat
  BY <1>t, WindowTotals
<1>1. CASE AiTick
  <2>1. usage' = Later(usage) /\ UnderWay' = UnderWay
    BY <1>1 DEF AiTick, UnderWay
  <2>2. Total(Later(usage), 0..w) + usage[w] = Total(usage, 0..w) /\ usage[w] \in Nat
    BY <1>t, <1>n, TotalLater
  <2>3. Total(usage, 0..w)' = Total(Later(usage), 0..w)
    BY <2>1
  <2>4. Total(usage, 0..w)' \in Nat
    <3>1. IsFiniteSet(0..w)
      BY <1>n, FS_Interval
    <3>2. \A x \in 0..w : usage'[x] \in Nat
      BY <1>t, <1>n DEF SpendingTypes
    <3>3. Total(usage', 0..w) \in Nat
      BY <3>1, <3>2, TotalIsNat
    <3> QED BY <3>3
  <2> QED BY <1>t, <1>n, <2>1, <2>2, <2>3, <2>4, QuietFits
<1>2. ASSUME NEW c \in Caller, NEW left, AskModel(c, left), calls[c].at # "asking" PROVE BoundedIn(w, limit)'
  <2>1. CASE WithinLimits /\ Admits
    BY <1>t, <1>n, <1>2, <2>1, AdmittedFits DEF AskModel
  <2>2. CASE ~(WithinLimits /\ Admits)
    <3>1. usage' = usage /\ calls' = [calls EXCEPT ![c] = [at |-> "idle", left |-> 0]]
      BY <1>2, <2>2 DEF AskModel
    <3>2. UnderWay' \subseteq UnderWay
      BY <1>t, <3>1 DEF UnderWay
    <3>3. Total(usage, 0..w)' = Total(usage, 0..w)
      BY <3>1
    <3> QED BY <1>t, <1>n, <3>2, <3>3, QuietFits
  <2> QED BY <2>1, <2>2
<1>3. ASSUME NEW c \in Caller, CallSucceeds(c) PROVE BoundedIn(w, limit)'
  <2>1. PICK cost \in 0..MaxCost : usage' = [usage EXCEPT ![0] = @ + cost]
    BY <1>3 DEF CallSucceeds
  <2>2. Total([usage EXCEPT ![0] = @ + cost], 0..w) = Total(usage, 0..w) + cost
    <3>1. cost \in Nat
      BY <1>n
    <3> QED BY <1>t, <1>n, <3>1, TotalRecords
  <2>3. Total(usage, 0..w)' = Total(usage, 0..w) + cost
    BY <2>1, <2>2
  <2>4. /\ calls[c].at = "asking" /\ calls'[c].at # "asking"
        /\ \A d \in Caller : d # c => calls'[d] = calls[d]
    BY <1>t, <1>3 DEF CallSucceeds
  <2> QED BY <1>t, <2>3, <2>4, EndedFits
<1>4. ASSUME NEW c \in Caller, CallFails(c) PROVE BoundedIn(w, limit)'
  <2>1. /\ usage' = usage /\ calls[c].at = "asking" /\ calls'[c].at # "asking"
        /\ \A d \in Caller : d # c => calls'[d] = calls[d]
    BY <1>t, <1>4 DEF CallFails
  <2>2. Total(usage, 0..w)' = Total(usage, 0..w) + 0 /\ 0 \in 0..MaxCost
    BY <1>n, <2>1
  <2> QED BY <1>t, <2>1, <2>2, EndedFits
<1> QED BY <1>1, <1>2, <1>3, <1>4 DEF AiNext, AiReturn, BeginCall, RepeatCall

LEMMA SpendingStays ==
  /\ AiInit => SpendingInv
  /\ SpendingInv /\ [AiNext]_aiVars => SpendingInv'
<1>a. {HourLimit, DayLimit} \subseteq Nat \ {0} /\ {Hour, Day, MaxCost} \subseteq Nat /\ Hour <= Day
  BY AiGatewayAssumption
<1>1. ASSUME AiInit PROVE SpendingInv
  <2>1. SpendingTypes
    BY <1>1 DEF AiInit, SpendingTypes, CallState
  <2>2. ASSUME NEW w \in {Hour, Day}, NEW limit \in Nat \ {0} PROVE BoundedIn(w, limit)
    <3>1. UnderWay = {} /\ InFlight = 0
      <4>1. UnderWay = {}
        BY <1>1 DEF AiInit, UnderWay
      <4> QED BY <4>1, FlightCounts, FS_EmptySet
    <3>2. Total(usage, 0..w) = 0
      <4>1. w \in Nat /\ \A x \in 0..w : usage[x] = 0
        BY <1>1, <1>a DEF AiInit
      <4>2. IsFiniteSet(0..w)
        BY <4>1, FS_Interval
      <4> QED BY <4>1, <4>2, TotalOfNothing
    <3> QED BY <3>1, <3>2, <1>a, FlightCounts DEF BoundedIn
  <2> QED BY <1>a, <2>1, <2>2 DEF SpendingInv
<1>2. ASSUME SpendingInv, [AiNext]_aiVars PROVE SpendingInv'
  <2>1. CASE AiNext
    <3>1. BoundedIn(Hour, HourLimit)'
      <4>1. HourLimit \in Nat /\ BoundedIn(Hour, HourLimit) /\ (WithinLimits => Total(usage, 0..Hour) < HourLimit)
        BY <1>2, <1>a DEF SpendingInv, WithinLimits
      <4> QED BY <1>2, <2>1, <4>1, SpendingStep
    <3>2. BoundedIn(Day, DayLimit)'
      <4>1. DayLimit \in Nat /\ BoundedIn(Day, DayLimit) /\ (WithinLimits => Total(usage, 0..Day) < DayLimit)
        BY <1>2, <1>a DEF SpendingInv, WithinLimits
      <4> QED BY <1>2, <2>1, <4>1, SpendingStep
    <3>3. SpendingTypes'
      BY <1>2, <2>1, SpendingTypesStay DEF SpendingInv
    <3> QED BY <3>1, <3>2, <3>3 DEF SpendingInv
  <2>2. CASE UNCHANGED aiVars
    BY <1>2, <2>2 DEF aiVars, SpendingInv, SpendingTypes, BoundedIn, InFlight
  <2> QED BY <1>2, <2>1, <2>2
<1> QED BY <1>1, <1>2

\* What the calls of an hour cost passes the limit by no more than the calls that can be under
\* way at once (checkLimits asks what was recorded, recordUsage comes after the answer).
THEOREM SpendingStaysBounded == AiSpec => []SpendingIsBounded
<1>1. SpendingInv => SpendingIsBounded
  BY DEF SpendingInv, BoundedIn, SpendingIsBounded
<1> QED BY <1>1, SpendingStays, PTL DEF AiSpec

\* The same of a day.
THEOREM DailySpendingStaysBounded == AiSpec => []BoundedIn(Day, DayLimit)
<1>1. SpendingInv => BoundedIn(Day, DayLimit)
  BY DEF SpendingInv
<1> QED BY <1>1, SpendingStays, PTL DEF AiSpec

-----------------------------------------------------------------------------
(* Lookups.  Who has tried so many keys in a row has found each of them    *)
(* spent; a search carries its place itself, and a check that is alone is  *)
(* the only one to move the shared place.                                  *)

LookupSpec == LookupInit /\ [][SearchNext \/ ShippingNext]_lookupVars

\* The position i was tried among the last n before key.
Before(s, i, key, n) == IF i < key THEN key - i <= n ELSE key + Keys(s) - i <= n
Tried(s, key, n) == \A i \in 0..(Keys(s) - 1) : Before(s, i, key, n) => keys[s][i + 1] = "spent"
Placed(s, key) == key \in Nat /\ (Keys(s) > 0 => key < Keys(s))

Useful(s) == Serves(s) /\ Steady(s)
Service == {"brave", "tavily", Ongkir}

SearchRecord == [at : {"idle", "trying", "cached", "found", "error"}, p : 1..3, key : Nat, tries : Nat]
CheckRecord == [at : Asking \cup {"idle", "outage", "unknown", "options", "nothing"},
                key : Nat, tries : Nat, courier : Nat]

LookupTypes ==
  /\ keys \in [Service -> KeyLists]
  /\ keyIndex \in [Service -> Nat] /\ \A s \in Service : Placed(s, keyIndex[s])
  /\ search \in [Search -> SearchRecord] /\ check \in [Shipment -> CheckRecord]

\* A search at work has found every key spent that it has tried, and the provider before useless.
SearchOK(l) ==
  /\ search[l].at = "trying" =>
       LET s == Provider[search[l].p] IN
       /\ search[l].p \in {1, 2} /\ Keys(s) > 0 /\ Placed(s, search[l].key)
       /\ search[l].tries < Keys(s) /\ Tried(s, search[l].key, search[l].tries)
       /\ search[l].p = 2 => ~Useful("brave")
  /\ search[l].at = "error" => ~Useful("brave") /\ ~Useful("tavily")

\* A check that has run alone so far is where the shared place is, and has found what it tried spent.
CheckOK(c) == Begun(c) =>
  /\ Placed(Ongkir, check[c].key) /\ (Keys(Ongkir) > 0 => check[c].tries < Keys(Ongkir))
  /\ c \notin overlap => /\ \A d \in Shipment : Begun(d) => d = c
                         /\ Tried(Ongkir, check[c].key, check[c].tries)

LookupInv ==
  /\ LookupTypes
  /\ \A l \in Search : SearchOK(l)
  /\ \A c \in Shipment : CheckOK(c)
  /\ starved \subseteq Shipment
  /\ Useful(Ongkir) => starved \subseteq overlap

LEMMA KeysAre ==
  ASSUME LookupTypes, NEW s \in Service
  PROVE  /\ keys[s] \in Seq({"good", "spent", "down"}) /\ Keys(s) \in Nat
         /\ DOMAIN keys[s] = 1..Keys(s)
<1>1. keys[s] \in Seq({"good", "spent", "down"})
  BY LookupsAssumption DEF LookupTypes
<1> QED BY <1>1, LenProperties DEF Keys

\* The place after a key, without arithmetic.
LEMMA FollowingIs ==
  ASSUME LookupTypes, NEW s \in Service, NEW key \in Nat, key < Keys(s)
  PROVE  /\ Following(s, key) = IF key + 1 = Keys(s) THEN 0 ELSE key + 1
         /\ Following(s, key) \in Nat /\ Placed(s, Following(s, key))
<1>1. Keys(s) \in Nat /\ key + 1 \in Nat /\ Keys(s) > 0
  BY KeysAre
<1>2. CASE key + 1 = Keys(s)
  BY <1>1, <1>2 DEF Following, Placed
<1>3. CASE key + 1 < Keys(s)
  BY <1>1, <1>3 DEF Following, Placed
<1> QED BY <1>1, <1>2, <1>3

\* Nothing has been tried yet.
LEMMA TriedNone ==
  ASSUME LookupTypes, NEW s \in Service, NEW key, Placed(s, key)
  PROVE  Tried(s, key, 0)
BY KeysAre DEF Tried, Before, Placed

(* A key found spent is one more; after all of them none is good.          *)
LEMMA TriedOneMore ==
  ASSUME LookupTypes, NEW s \in Service, NEW key, Placed(s, key), NEW n \in Nat, n < Keys(s),
         Tried(s, key, n), Worth(s, key) = "spent"
  PROVE  /\ Placed(s, Following(s, key))
         /\ Tried(s, Following(s, key), n + 1)
         /\ n + 1 >= Keys(s) => ~Useful(s)
<1>1. /\ Keys(s) \in Nat /\ Keys(s) > 0 /\ key \in Nat /\ key < Keys(s)
      /\ DOMAIN keys[s] = 1..Keys(s) /\ keys[s][key + 1] = "spent"
  BY KeysAre DEF Placed, Worth
<1>2. Following(s, key) = IF key + 1 = Keys(s) THEN 0 ELSE key + 1
  BY <1>1, FollowingIs
<1>3. Placed(s, Following(s, key))
  BY <1>1, <1>2 DEF Placed
<1>4. ASSUME NEW i \in 0..(Keys(s) - 1), Before(s, i, Following(s, key), n + 1)
      PROVE  keys[s][i + 1] = "spent"
  <2>1. i = key \/ Before(s, i, key, n)
    BY <1>1, <1>2, <1>4 DEF Before
  <2> QED BY <1>1, <2>1 DEF Tried
<1>5. ASSUME n + 1 >= Keys(s) PROVE ~Serves(s)
  <2>1. ASSUME NEW i \in 0..(Keys(s) - 1) PROVE keys[s][i + 1] = "spent"
    <3>1. Before(s, i, Following(s, key), n + 1)
      BY <1>1, <1>2, <1>5 DEF Before
    <3> QED BY <1>4, <3>1
  <2>2. ASSUME NEW j \in DOMAIN keys[s] PROVE keys[s][j] # "good"
    <3>1. j - 1 \in 0..(Keys(s) - 1) /\ (j - 1) + 1 = j
      BY <1>1
    <3> QED BY <2>1, <3>1
  <2> QED BY <2>2 DEF Serves
<1> QED BY <1>3, <1>4, <1>5 DEF Tried, Useful

\* A key that is down shows that its service is not steady, and so does none at all.
LEMMA DownIsUseless ==
  ASSUME LookupTypes, NEW s \in Service, NEW key, Placed(s, key), Worth(s, key) = "down"
  PROVE  ~Useful(s)
<1>1. Keys(s) \in Nat /\ DOMAIN keys[s] = 1..Keys(s)
  BY KeysAre
<1>2. CASE Keys(s) = 0
  BY <1>1, <1>2 DEF Useful, Serves
<1>3. CASE Keys(s) > 0
  <2>1. key + 1 \in DOMAIN keys[s] /\ keys[s][key + 1] = "down"
    BY <1>1, <1>3 DEF Placed, Worth
  <2> QED BY <2>1 DEF Useful, Steady
<1> QED BY <1>1, <1>2, <1>3

\* What is said of a service depends on its keys only, which never change.
LEMMA KeysStay ==
  ASSUME keys' = keys
  PROVE  /\ \A s : Keys(s)' = Keys(s) /\ Useful(s)' = Useful(s)
         /\ \A s, key : Placed(s, key)' = Placed(s, key)
         /\ \A s, key, n : Tried(s, key, n)' = Tried(s, key, n)
BY DEF Keys, Useful, Serves, Steady, Placed, Tried, Before

LEMMA NoKeysAreUseless ==
  ASSUME LookupTypes, NEW s \in Service, ~(Keys(s) > 0)
  PROVE  ~Useful(s)
<1>1. DOMAIN keys[s] = {}
  BY KeysAre
<1> QED BY <1>1 DEF Useful, Serves

\* Going on to a provider, when those before it are of no use.
LEMMA EnterKeeps ==
  ASSUME LookupTypes, NEW l \in Search, NEW from \in 1..3, Enter(l, from), keys' = keys,
         from > 1 => ~Useful("brave"), from > 2 => ~Useful("tavily")
  PROVE  /\ search' \in [Search -> SearchRecord]
         /\ SearchOK(l)'
         /\ \A m \in Search : m # l => search'[m] = search[m]
<1> DEFINE p == NextProvider(from)
           new == IF p = 3 THEN [at |-> "error", p |-> from, key |-> 0, tries |-> 0]
                  ELSE [at |-> "trying", p |-> p, key |-> keyIndex[Provider[p]], tries |-> 0]
<1>1. search \in [Search -> SearchRecord] /\ search' = [search EXCEPT ![l] = new]
  BY DEF LookupTypes, SearchRecord, Enter
<1>2. Provider[1] = "brave" /\ Provider[2] = "tavily"
  BY DEF Provider
<1>3. CASE p = 3
  <2>1. new = [at |-> "error", p |-> from, key |-> 0, tries |-> 0] /\ new \in SearchRecord
    BY <1>3 DEF SearchRecord
  <2>2. ~Useful("brave") /\ ~Useful("tavily")
    BY <1>3, NoKeysAreUseless DEF NextProvider, Service
  <2>3. search'[l].at = "error"
    BY <1>1, <2>1
  <2> HIDE DEF new
  <2> QED BY <1>1, <2>1, <2>2, <2>3, KeysStay DEF SearchOK
<1>4. CASE p # 3
  <2> DEFINE s == Provider[p]
  <2>1. p \in {1, 2} /\ s \in Service /\ Keys(s) > 0 /\ (p = 2 => ~Useful("brave"))
    <3>1. CASE from <= 1 /\ Keys("brave") > 0
      BY <1>2, <3>1 DEF NextProvider, Service
    <3>2. CASE ~(from <= 1 /\ Keys("brave") > 0)
      <4>1. p = 2 /\ Keys("tavily") > 0
        BY <1>4, <3>2 DEF NextProvider
      <4>2. ~Useful("brave")
        BY <3>2, NoKeysAreUseless DEF Service
      <4> QED BY <1>2, <4>1, <4>2 DEF Service
    <3> QED BY <3>1, <3>2
  <2>2. keyIndex[s] \in Nat /\ Placed(s, keyIndex[s]) /\ Tried(s, keyIndex[s], 0)
    BY <2>1, TriedNone DEF LookupTypes
  <2>3. new = [at |-> "trying", p |-> p, key |-> keyIndex[s], tries |-> 0]
    BY <1>4
  <2> HIDE DEF new, p, s
  <2>4. new \in SearchRecord
    BY <2>1, <2>2, <2>3 DEF SearchRecord
  <2>5. /\ search'[l].at = "trying" /\ search'[l].p = p
        /\ search'[l].key = keyIndex[s] /\ search'[l].tries = 0
    BY <1>1, <2>3
  <2>6. s = Provider[search'[l].p]
    BY <2>5 DEF s
  <2>7. SearchOK(l)'
    BY <2>1, <2>2, <2>5, <2>6, KeysStay DEF SearchOK
  <2> QED BY <1>1, <2>4, <2>7
<1> QED BY <1>3, <1>4

\* A search that stays as it is stays right.
LEMMA SearchStays ==
  ASSUME NEW l \in Search, SearchOK(l), search'[l] = search[l], keys' = keys
  PROVE  SearchOK(l)'
BY KeysStay DEF SearchOK

LEMMA SearchStep ==
  ASSUME LookupInv, SearchNext
  PROVE  LookupTypes' /\ \A l \in Search : SearchOK(l)'
<1>t. /\ LookupTypes /\ keys \in [Service -> KeyLists] /\ keyIndex \in [Service -> Nat]
      /\ search \in [Search -> SearchRecord] /\ keys' = keys /\ check' = check
      /\ \A s \in Service : Placed(s, keyIndex[s])
  BY DEF LookupInv, LookupTypes, SearchRecord, SearchNext, StartSearch, SearchAnswers, SearchRefused,
     SearchFails, CacheAges
<1>p. /\ \A p \in {1, 2} : Provider[p] \in Service
      /\ Provider[1] = "brave" /\ Provider[2] = "tavily"
  BY DEF Provider, Service
\* The place of a service moves to another of its keys or not at all.
<1>k. ASSUME keyIndex' \in [Service -> Nat], \A s \in Service : Placed(s, keyIndex'[s]),
             search' \in [Search -> SearchRecord]
      PROVE  LookupTypes'
  BY <1>t, <1>k, KeysStay DEF LookupTypes, SearchRecord
<1>1. ASSUME NEW l \in Search, NEW from \in 1..3, Enter(l, from), keyIndex' = keyIndex,
             from > 1 => ~Useful("brave"), from > 2 => ~Useful("tavily")
      PROVE  LookupTypes' /\ \A m \in Search : SearchOK(m)'
  BY <1>t, <1>k, <1>1, EnterKeeps, SearchStays DEF LookupInv
<1>2. ASSUME NEW l \in Search, StartSearch(l)
      PROVE  LookupTypes' /\ \A m \in Search : SearchOK(m)'
  <2>1. CASE cache = "fresh"
    <3>1. search' = [search EXCEPT ![l].at = "cached"] /\ keyIndex' = keyIndex
      BY <1>2, <2>1 DEF StartSearch
    <3>2. search' \in [Search -> SearchRecord] /\ search'[l].at = "cached"
          /\ \A m \in Search : m # l => search'[m] = search[m]
      BY <1>t, <3>1 DEF SearchRecord
    <3>3. SearchOK(l)'
      BY <3>2 DEF SearchOK
    <3> QED BY <1>t, <1>k, <3>1, <3>2, <3>3, SearchStays DEF LookupInv
  <2>2. CASE cache # "fresh"
    <3>1. Enter(l, 1) /\ keyIndex' = keyIndex
      BY <1>2, <2>2 DEF StartSearch
    <3> QED BY <1>1, <3>1
  <2> QED BY <2>1, <2>2
\* What holds of a search that is at work.
<1>3. ASSUME NEW l \in Search, search[l].at = "trying"
      PROVE  /\ search[l].p \in {1, 2} /\ Provider[search[l].p] \in Service
             /\ Keys(Provider[search[l].p]) > 0
             /\ search[l].key \in Nat /\ search[l].tries \in Nat
             /\ Placed(Provider[search[l].p], search[l].key)
             /\ search[l].tries < Keys(Provider[search[l].p])
             /\ Tried(Provider[search[l].p], search[l].key, search[l].tries)
             /\ search[l].p = 2 => ~Useful("brave")
  BY <1>t, <1>p, <1>3 DEF LookupInv, SearchOK, SearchRecord
\* The next provider, after one that is of no use.
<1>4. ASSUME NEW l \in Search, search[l].at = "trying", ~Useful(Provider[search[l].p])
      PROVE  /\ search[l].p + 1 \in 1..3
             /\ search[l].p + 1 > 1 => ~Useful("brave")
             /\ search[l].p + 1 > 2 => ~Useful("tavily")
  BY <1>p, <1>3, <1>4
<1>5. ASSUME NEW l \in Search, SearchAnswers(l)
      PROVE  LookupTypes' /\ \A m \in Search : SearchOK(m)'
  <2> DEFINE s == Provider[search[l].p]
  <2>1. /\ search[l].at = "trying" /\ search' = [search EXCEPT ![l].at = "found"]
        /\ keyIndex' = [keyIndex EXCEPT ![s] = search[l].key]
    BY <1>5 DEF SearchAnswers
  <2>2. search' \in [Search -> SearchRecord] /\ search'[l].at = "found"
        /\ \A m \in Search : m # l => search'[m] = search[m]
    BY <1>t, <2>1 DEF SearchRecord
  <2>3. s \in Service /\ Placed(s, search[l].key) /\ search[l].key \in Nat
    BY <1>3, <2>1
  <2> HIDE DEF s
  <2>4. keyIndex' \in [Service -> Nat] /\ \A r \in Service : Placed(r, keyIndex'[r])
    BY <1>t, <2>1, <2>3
  <2>5. SearchOK(l)'
    BY <2>2 DEF SearchOK
  <2> QED BY <1>t, <1>k, <2>2, <2>4, <2>5, SearchStays DEF LookupInv
<1>6. ASSUME NEW l \in Search, SearchRefused(l)
      PROVE  LookupTypes' /\ \A m \in Search : SearchOK(m)'
  <2> DEFINE s == Provider[search[l].p]
             key == search[l].key
             next == Following(s, key)
             n == search[l].tries
  <2>1. /\ search[l].at = "trying" /\ Worth(s, key) = "spent"
        /\ keyIndex' = [keyIndex EXCEPT ![s] = next]
        /\ IF n + 1 < Keys(s)
           THEN search' = [search EXCEPT ![l].key = next, ![l].tries = @ + 1]
           ELSE Enter(l, search[l].p + 1)
    BY <1>6 DEF SearchRefused
  <2>2. /\ search[l].p \in {1, 2} /\ s \in Service /\ Keys(s) > 0 /\ n \in Nat /\ n < Keys(s)
        /\ Placed(s, key) /\ Tried(s, key, n) /\ (search[l].p = 2 => ~Useful("brave"))
    BY <1>3, <2>1
  <2> HIDE DEF s, key, n
  <2>3. Placed(s, next) /\ Tried(s, next, n + 1) /\ (n + 1 >= Keys(s) => ~Useful(s))
    BY <1>t, <2>1, <2>2, TriedOneMore
  <2>4. next \in Nat
    BY <2>3 DEF Placed
  <2> HIDE DEF next
  <2>5. keyIndex' \in [Service -> Nat] /\ \A r \in Service : Placed(r, keyIndex'[r])
    BY <1>t, <2>1, <2>2, <2>3, <2>4
  <2>6. CASE n + 1 < Keys(s)
    <3> DEFINE new == [search[l] EXCEPT !.key = next, !.tries = n + 1]
    <3>1. search' = [search EXCEPT ![l] = new]
      BY <1>t, <2>1, <2>6 DEF n
    <3>5. /\ new \in SearchRecord /\ new.at = search[l].at /\ new.p = search[l].p
          /\ new.key = next /\ new.tries = n + 1
      <4>1. search[l] \in SearchRecord /\ n + 1 \in Nat
        BY <1>t, <2>2
      <4> QED BY <2>4, <4>1 DEF SearchRecord
    <3> HIDE DEF new
    <3>2. /\ search' \in [Search -> SearchRecord]
          /\ search'[l].at = "trying" /\ search'[l].p = search[l].p
          /\ search'[l].key = next /\ search'[l].tries = n + 1
          /\ \A m \in Search : m # l => search'[m] = search[m]
      BY <1>t, <2>1, <3>1, <3>5
    <3>3. s = Provider[search'[l].p]
      BY <3>2 DEF s
    <3>4. SearchOK(l)'
      BY <1>t, <2>2, <2>3, <2>6, <3>2, <3>3, KeysStay DEF SearchOK
    <3> QED BY <1>t, <1>k, <2>5, <3>2, <3>4, SearchStays DEF LookupInv
  <2>7. CASE ~(n + 1 < Keys(s))
    <3>1. Keys(s) \in Nat
      BY <1>t, <2>2, KeysAre
    <3>2. ~Useful(s)
      BY <2>2, <2>3, <2>7, <3>1
    <3>3. Enter(l, search[l].p + 1)
      BY <2>1, <2>7
    <3>4. /\ search[l].p + 1 \in 1..3
          /\ search[l].p + 1 > 1 => ~Useful("brave")
          /\ search[l].p + 1 > 2 => ~Useful("tavily")
      BY <1>4, <2>1, <3>2 DEF s
    <3>5. /\ search' \in [Search -> SearchRecord] /\ SearchOK(l)'
          /\ \A m \in Search : m # l => search'[m] = search[m]
      BY <1>t, <3>3, <3>4, EnterKeeps
    <3> QED BY <1>t, <1>k, <2>5, <3>5, SearchStays DEF LookupInv
  <2> QED BY <2>6, <2>7
<1>7. ASSUME NEW l \in Search, SearchFails(l)
      PROVE  LookupTypes' /\ \A m \in Search : SearchOK(m)'
  <2>1. /\ search[l].at = "trying" /\ Worth(Provider[search[l].p], search[l].key) = "down"
        /\ Enter(l, search[l].p + 1) /\ keyIndex' = keyIndex
    BY <1>7 DEF SearchFails
  <2>2. ~Useful(Provider[search[l].p])
    BY <1>t, <1>3, <2>1, DownIsUseless
  <2> QED BY <1>1, <1>4, <2>1, <2>2
<1>8. ASSUME CacheAges
      PROVE  LookupTypes' /\ \A m \in Search : SearchOK(m)'
  BY <1>t, <1>k, <1>8, SearchStays DEF CacheAges, LookupInv
<1> QED BY <1>2, <1>5, <1>6, <1>7, <1>8 DEF SearchNext

-----------------------------------------------------------------------------
(* Checks of shipping costs.  The shared place counts only for the check   *)
(* that is alone, and only that check moves it.                            *)

\* The attempt that a check sends carries a key that exists, the one the shared place names.
LEMMA RequestKeeps ==
  ASSUME LookupTypes, NEW c \in Shipment, NEW at \in Asking, NEW tries \in Nat, NEW courier \in Nat,
         Request(c, at, tries, courier), keyIndex'[Ongkir] \in Nat, Placed(Ongkir, keyIndex'[Ongkir])
  PROVE  /\ check' \in [Shipment -> CheckRecord]
         /\ check'[c].at = at /\ check'[c].tries = tries
         /\ check'[c].key = IF Keys(Ongkir) = 0 THEN 0 ELSE keyIndex'[Ongkir]
         /\ \A d \in Shipment : d # c => check'[d] = check[d]
<1> DEFINE key == IF Keys(Ongkir) = 0 THEN 0 ELSE keyIndex'[Ongkir] % Keys(Ongkir)
           new == [at |-> at, key |-> key, tries |-> tries, courier |-> courier]
<1>1. check \in [Shipment -> CheckRecord] /\ check' = [check EXCEPT ![c] = new]
  BY DEF LookupTypes, Request
<1>2. Keys(Ongkir) \in Nat
  BY KeysAre DEF Service
<1>3. key = IF Keys(Ongkir) = 0 THEN 0 ELSE keyIndex'[Ongkir]
  BY <1>2 DEF Placed
<1>4. key \in Nat
  BY <1>3
<1> HIDE DEF key
<1>5. new \in CheckRecord
  BY <1>4 DEF CheckRecord
<1> QED BY <1>1, <1>3, <1>5

\* Where a check is after a step of its own that leaves it at work with n keys tried,
\* and after one that ends it.
Continues(c, n) ==
  /\ Begun(c)' /\ check'[c].tries = n
  /\ check'[c].key = IF Keys(Ongkir) = 0 THEN 0 ELSE keyIndex'[Ongkir]
OwnStep(c) ==
  /\ check' \in [Shipment -> CheckRecord]
  /\ \A d \in Shipment : d # c => check'[d] = check[d]

LEMMA EndKeeps ==
  ASSUME LookupTypes, NEW c \in Shipment, NEW answer \in {"outage", "unknown", "options", "nothing"},
         EndCheck(c, answer)
  PROVE  OwnStep(c) /\ ~Begun(c)'
<1>1. check \in [Shipment -> CheckRecord] /\ check' = [check EXCEPT ![c].at = answer]
  BY DEF LookupTypes, EndCheck
<1>2. OwnStep(c)
  BY <1>1 DEF OwnStep, CheckRecord
<1>3. check'[c].at = answer
  BY <1>1 DEF CheckRecord
<1> QED BY <1>2, <1>3 DEF Begun, Asking

LEMMA AfterFailedKeeps ==
  ASSUME LookupTypes, NEW c \in Shipment, Begun(c), AfterFailed(c),
         keyIndex'[Ongkir] \in Nat, Placed(Ongkir, keyIndex'[Ongkir])
  PROVE  OwnStep(c) /\ (Continues(c, 0) \/ ~Begun(c)')
<1>1. check[c].courier \in Nat /\ check[c].at \in Asking /\ Couriers \in Nat
  BY LookupsAssumption DEF LookupTypes, CheckRecord, Begun
<1>2. \/ EndCheck(c, "outage") \/ EndCheck(c, "nothing")
      \/ \E courier \in Nat : Request(c, "each", 0, courier)
  <2>1. CASE check[c].at \in {"origin", "destination"}
    BY <2>1 DEF AfterFailed
  <2>2. CASE check[c].at = "together"
    BY <2>2 DEF AfterFailed
  <2>3. CASE check[c].at = "each"
    BY <1>1, <2>3 DEF AfterFailed
  <2> QED BY <1>1, <2>1, <2>2, <2>3 DEF Asking
<1>3. ASSUME NEW courier \in Nat, Request(c, "each", 0, courier)
      PROVE  OwnStep(c) /\ Continues(c, 0)
  BY <1>3, RequestKeeps DEF OwnStep, Continues, Begun, Asking
<1> QED BY <1>2, <1>3, EndKeeps

\* After a step of one check the others are right, and so is it if it is.
LEMMA CheckStays ==
  ASSUME LookupInv, keys' = keys, NEW c \in Shipment, OwnStep(c), Begun(c),
         UNCHANGED <<search, overlap>>,
         keyIndex' \in [Service -> Nat], \A s \in Service : Placed(s, keyIndex'[s]),
         \/ ~Begun(c)'
         \/ \E n \in Nat : /\ Continues(c, n) /\ (Keys(Ongkir) > 0 => n < Keys(Ongkir))
                           /\ c \notin overlap => Tried(Ongkir, check'[c].key, n)
  PROVE  /\ LookupTypes' /\ \A l \in Search : SearchOK(l)'
         /\ \A d \in Shipment : CheckOK(d)'
<1>1. LookupTypes'
  BY KeysStay DEF LookupInv, LookupTypes, OwnStep
<1>2. \A l \in Search : SearchOK(l)'
  BY SearchStays DEF LookupInv
<1>3. \A e \in Shipment : Begun(e)' => Begun(e)
  BY DEF OwnStep, Begun
<1>4. ASSUME NEW d \in Shipment, d # c PROVE CheckOK(d)'
  <2>1. CheckOK(d) /\ check'[d] = check[d]
    BY <1>4 DEF LookupInv, OwnStep
  <2> QED BY <1>3, <1>4, <2>1, KeysStay DEF CheckOK, Begun
<1>5. ASSUME Begun(c)' PROVE CheckOK(c)'
  <2>1. PICK n \in Nat : /\ Continues(c, n) /\ (Keys(Ongkir) > 0 => n < Keys(Ongkir))
                         /\ c \notin overlap => Tried(Ongkir, check'[c].key, n)
    BY <1>5
  <2>2. check'[c].tries = n /\ Placed(Ongkir, check'[c].key)
    BY <2>1 DEF Continues, Placed, Service
  <2>3. c \notin overlap => \A d \in Shipment : Begun(d)' => d = c
    BY <1>3 DEF LookupInv, CheckOK
  <2> QED BY <2>1, <2>2, <2>3, KeysStay DEF CheckOK
<1> QED BY <1>1, <1>2, <1>4, <1>5 DEF CheckOK

LEMMA CheckStep ==
  ASSUME LookupInv, NEW c \in Shipment,
         StartCheck(c) \/ CheckAnswers(c) \/ CheckRefused(c) \/ CheckFails(c)
  PROVE  LookupInv'
<1>t. /\ LookupTypes /\ keys \in [Service -> KeyLists] /\ keyIndex \in [Service -> Nat]
      /\ check \in [Shipment -> CheckRecord] /\ keys' = keys /\ search' = search
      /\ \A s \in Service : Placed(s, keyIndex[s])
      /\ Ongkir \in Service /\ Keys(Ongkir) \in Nat
  BY KeysAre DEF LookupInv, LookupTypes, Service, StartCheck, CheckAnswers, CheckRefused, CheckFails
<1>o. keyIndex[Ongkir] \in Nat /\ Placed(Ongkir, keyIndex[Ongkir]) /\ Tried(Ongkir, keyIndex[Ongkir], 0)
  BY <1>t, TriedNone
<1>z. ASSUME keyIndex' = keyIndex, Continues(c, 0) PROVE Tried(Ongkir, check'[c].key, 0)
  BY <1>t, <1>z, TriedNone DEF Continues, Placed
<1>1. ASSUME StartCheck(c) PROVE LookupInv'
  <2>1. /\ keyIndex' = keyIndex /\ starved' = starved /\ check[c].at = "idle" /\ ~Begun(c)
        /\ \E at \in {"origin", "destination"} : Request(c, at, 0, 0)
        /\ overlap' = IF \E d \in Shipment : Begun(d) THEN overlap \cup {c} \cup {d \in Shipment : Begun(d)}
                      ELSE overlap
    BY <1>1 DEF StartCheck, Begun, Asking
  <2>2. OwnStep(c) /\ Continues(c, 0)
    BY <1>t, <1>o, <2>1, RequestKeeps DEF OwnStep, Continues, Begun, Asking
  <2>3. LookupTypes'
    BY <1>t, <2>1, <2>2, KeysStay DEF LookupTypes, OwnStep
  <2>4. ASSUME NEW d \in Shipment PROVE CheckOK(d)'
    <3>1. \A e \in Shipment : e # c => check'[e] = check[e] /\ (Begun(e)' <=> Begun(e))
      BY <2>2 DEF OwnStep, Begun
    <3>2. ASSUME d \notin overlap', Begun(d)' PROVE d = c /\ \A e \in Shipment : Begun(e)' => e = c
      <4>1. ASSUME NEW e \in Shipment, Begun(e) PROVE FALSE
        <5>1. overlap' = overlap \cup {c} \cup {x \in Shipment : Begun(x)}
          BY <2>1, <4>1
        <5>2. d = c \/ Begun(d)
          BY <3>1, <3>2
        <5> QED BY <3>2, <5>1, <5>2
      <4> QED BY <3>1, <3>2, <4>1
    <3>3. CASE d = c
      <4>1. check'[c].tries = 0 /\ Placed(Ongkir, check'[c].key)
        BY <1>o, <1>t, <2>1, <2>2 DEF Continues, Placed
      <4>2. Tried(Ongkir, check'[c].key, 0)
        BY <1>z, <2>1, <2>2
      <4> QED BY <1>t, <3>2, <3>3, <4>1, <4>2, KeysStay DEF CheckOK
    <3>4. CASE d # c
      <4>1. CheckOK(d)
        BY DEF LookupInv
      <4> QED BY <1>t, <3>1, <3>2, <3>4, <4>1, KeysStay DEF CheckOK, Begun
    <3> QED BY <3>3, <3>4
  <2>5. starved' \subseteq Shipment /\ (Useful(Ongkir)' => starved' \subseteq overlap')
    <3>1. overlap \subseteq overlap'
      BY <2>1
    <3> QED BY <1>t, <2>1, <3>1, KeysStay DEF LookupInv
  <2>6. \A l \in Search : SearchOK(l)'
    BY <1>t, SearchStays DEF LookupInv
  <2> QED BY <2>3, <2>4, <2>5, <2>6 DEF LookupInv
\* What the ghosts say when nothing is added to them.
<1>g. ASSUME UNCHANGED <<overlap, starved>>
      PROVE  starved' \subseteq Shipment /\ (Useful(Ongkir)' => starved' \subseteq overlap')
  BY <1>t, <1>g, KeysStay DEF LookupInv
<1>2. ASSUME CheckAnswers(c) PROVE LookupInv'
  <2>1. Begun(c) /\ keyIndex' = keyIndex /\ UNCHANGED <<overlap, starved>>
    BY <1>2 DEF CheckAnswers
  <2>2. \/ \E at \in Asking : Request(c, at, 0, 0)
        \/ \E answer \in {"outage", "unknown", "options"} : EndCheck(c, answer)
        \/ AfterFailed(c)
    <3>1. CASE check[c].at = "origin"
      BY <1>2, <3>1 DEF CheckAnswers, Asking
    <3>2. CASE check[c].at = "destination"
      BY <1>2, <3>2 DEF CheckAnswers, Asking
    <3>3. CASE check[c].at \in {"together", "each"}
      BY <1>2, <3>3 DEF CheckAnswers
    <3> QED BY <2>1, <3>1, <3>2, <3>3 DEF Begun, Asking
  <2>3. OwnStep(c) /\ (Continues(c, 0) \/ ~Begun(c)')
    <3>1. ASSUME NEW at \in Asking, Request(c, at, 0, 0) PROVE OwnStep(c) /\ Continues(c, 0)
      BY <1>t, <1>o, <2>1, <3>1, RequestKeeps DEF OwnStep, Continues, Begun
    <3>2. ASSUME AfterFailed(c) PROVE OwnStep(c) /\ (Continues(c, 0) \/ ~Begun(c)')
      BY <1>t, <1>o, <2>1, <3>2, AfterFailedKeeps
    <3> QED BY <1>t, <2>2, <3>1, <3>2, EndKeeps
  <2>4. /\ LookupTypes' /\ \A l \in Search : SearchOK(l)'
        /\ \A d \in Shipment : CheckOK(d)'
    BY <1>t, <1>z, <2>1, <2>3, CheckStays
  <2> QED BY <1>g, <2>1, <2>4 DEF LookupInv
<1>3. ASSUME CheckFails(c) PROVE LookupInv'
  <2>1. Begun(c) /\ keyIndex' = keyIndex /\ UNCHANGED <<overlap, starved>> /\ AfterFailed(c)
    BY <1>3 DEF CheckFails
  <2>2. OwnStep(c) /\ (Continues(c, 0) \/ ~Begun(c)')
    BY <1>t, <1>o, <2>1, AfterFailedKeeps
  <2>3. /\ LookupTypes' /\ \A l \in Search : SearchOK(l)'
        /\ \A d \in Shipment : CheckOK(d)'
    BY <1>t, <1>z, <2>1, <2>2, CheckStays
  <2> QED BY <1>g, <2>1, <2>3 DEF LookupInv
<1>4. ASSUME CheckRefused(c) PROVE LookupInv'
  <2> DEFINE key == check[c].key
             n == check[c].tries
             next == Following(Ongkir, key)
  <2>1. /\ Begun(c) /\ Worth(Ongkir, key) = "spent" /\ overlap' = overlap
        /\ keyIndex' = [keyIndex EXCEPT ![Ongkir] = next]
        /\ IF n + 1 < Keys(Ongkir)
           THEN Request(c, check[c].at, n + 1, check[c].courier) /\ UNCHANGED starved
           ELSE AfterFailed(c) /\ starved' = starved \cup {c}
    BY <1>4 DEF CheckRefused, Rotated
  <2>2. /\ key \in Nat /\ n \in Nat /\ check[c].courier \in Nat /\ check[c].at \in Asking
    BY <1>t, <2>1 DEF CheckRecord, Begun
  <2>3. CheckOK(c)
    BY DEF LookupInv
  <2>4. Keys(Ongkir) > 0 /\ Placed(Ongkir, key) /\ n < Keys(Ongkir) /\ (c \notin overlap => Tried(Ongkir, key, n))
    BY <1>t, <2>1, <2>3 DEF CheckOK, Worth, key, n
  <2> HIDE DEF key, n
  <2>5. next \in Nat /\ Placed(Ongkir, next)
    BY <1>t, <2>2, <2>4, FollowingIs DEF Placed
  <2>6. c \notin overlap => Tried(Ongkir, next, n + 1) /\ (n + 1 >= Keys(Ongkir) => ~Useful(Ongkir))
    BY <1>t, <2>1, <2>2, <2>4, TriedOneMore
  <2> HIDE DEF next
  <2>7. /\ keyIndex' \in [Service -> Nat] /\ \A s \in Service : Placed(s, keyIndex'[s])
        /\ keyIndex'[Ongkir] = next
    BY <1>t, <2>1, <2>5
  <2>8. CASE n + 1 < Keys(Ongkir)
    <3>1. Request(c, check[c].at, n + 1, check[c].courier) /\ starved' = starved
      BY <2>1, <2>8
    <3>2. OwnStep(c) /\ Continues(c, n + 1)
      BY <1>t, <2>2, <2>5, <2>7, <3>1, RequestKeeps DEF OwnStep, Continues, Begun
    <3>3. c \notin overlap => Tried(Ongkir, check'[c].key, n + 1)
      BY <2>4, <2>6, <2>7, <3>2 DEF Continues
    <3>4. /\ LookupTypes' /\ \A l \in Search : SearchOK(l)'
          /\ \A d \in Shipment : CheckOK(d)'
      BY <1>t, <2>1, <2>2, <2>7, <2>8, <3>2, <3>3, CheckStays
    <3> QED BY <1>g, <2>1, <3>1, <3>4 DEF LookupInv
  <2>9. CASE ~(n + 1 < Keys(Ongkir))
    <3>1. AfterFailed(c) /\ starved' = starved \cup {c}
      BY <2>1, <2>9
    <3>2. OwnStep(c) /\ (Continues(c, 0) \/ ~Begun(c)')
      BY <1>t, <2>1, <2>5, <2>7, <3>1, AfterFailedKeeps
    <3>3. Continues(c, 0) => Tried(Ongkir, check'[c].key, 0)
      BY <1>t, <2>4, <2>5, <2>7, TriedNone DEF Continues
    <3>4. /\ LookupTypes' /\ \A l \in Search : SearchOK(l)'
          /\ \A d \in Shipment : CheckOK(d)'
      BY <1>t, <2>1, <2>7, <3>2, <3>3, CheckStays
    <3>5. Useful(Ongkir) => c \in overlap
      BY <1>t, <2>2, <2>6, <2>9
    <3>6. starved' \subseteq Shipment /\ (Useful(Ongkir)' => starved' \subseteq overlap')
      BY <1>t, <2>1, <3>1, <3>5, KeysStay DEF LookupInv
    <3> QED BY <3>4, <3>6 DEF LookupInv
  <2> QED BY <2>8, <2>9
<1> QED BY <1>1, <1>2, <1>3, <1>4

\* Every key is tried: a search that ends in an error found none that works, and neither did a
\* check of shipping costs that had the shared place to itself (external-lookup.ts, rajaongkir.ts).
THEOREM KeysAreAlwaysTried == LookupSpec => []KeysAreAllTried
<1>1. LookupInv => KeysAreAllTried
  <2> SUFFICES ASSUME LookupInv PROVE KeysAreAllTried
    OBVIOUS
  <2>1. Provider[1] = "brave" /\ Provider[2] = "tavily"
    BY DEF Provider
  <2> QED BY <2>1 DEF LookupInv, SearchOK, KeysAreAllTried, Useful
<1>2. LookupInit => LookupInv
  <2> SUFFICES ASSUME LookupInit PROVE LookupInv
    OBVIOUS
  <2>1. /\ keys \in [Service -> KeyLists] /\ keyIndex = [s \in Service |-> 0]
        /\ search = [l \in Search |-> NoSearch] /\ check = [c \in Shipment |-> NoCheck]
        /\ overlap = {} /\ starved = {}
    BY DEF LookupInit, Service
  <2>2. LookupTypes
    BY <2>1 DEF LookupTypes, Placed, SearchRecord, CheckRecord, NoSearch, NoCheck
  <2>3. \A l \in Search : SearchOK(l)
    BY <2>1 DEF SearchOK, NoSearch
  <2>4. \A c \in Shipment : CheckOK(c)
    BY <2>1 DEF CheckOK, Begun, Asking, NoCheck
  <2> QED BY <2>1, <2>2, <2>3, <2>4 DEF LookupInv
<1>3. LookupInv /\ [SearchNext \/ ShippingNext]_lookupVars => LookupInv'
  <2> SUFFICES ASSUME LookupInv, [SearchNext \/ ShippingNext]_lookupVars PROVE LookupInv'
    OBVIOUS
  <2>1. CASE SearchNext
    <3>1. UNCHANGED <<keys, check, overlap, starved>>
      BY <2>1 DEF SearchNext, StartSearch, SearchAnswers, SearchRefused, SearchFails, CacheAges
    <3>2. /\ \A c \in Shipment : CheckOK(c)'
          /\ starved' \subseteq Shipment /\ (Useful(Ongkir)' => starved' \subseteq overlap')
      BY <3>1, KeysStay DEF LookupInv, CheckOK, Begun
    <3> QED BY <2>1, <3>2, SearchStep DEF LookupInv
  <2>2. CASE ShippingNext
    BY <2>2, CheckStep DEF ShippingNext
  <2>3. CASE UNCHANGED lookupVars
    <3>1. UNCHANGED <<keys, keyIndex, search, cache, check, overlap, starved>>
      BY <2>3 DEF lookupVars
    <3> QED BY <3>1, KeysStay, SearchStays DEF LookupInv, LookupTypes, CheckOK, Begun
  <2> QED BY <2>1, <2>2, <2>3
<1> QED BY <1>1, <1>2, <1>3, PTL DEF LookupSpec
=============================================================================
