---------------------------- MODULE Transactions -----------------------------
(***************************************************************************)
(* The database of the program (src/src/config/db.ts): queries and         *)
(* transactions on SQLite take turns on one connection, on PostgreSQL each *)
(* has a client of its own; a transaction inside a transaction is a        *)
(* savepoint; and closing waits for the line, refuses what comes later on  *)
(* that connection, and lets the next caller open another one.             *)
(* A body runs its statements one after the other, as every body in        *)
(* src/src does, and a failure it does not catch ends it.                  *)
(***************************************************************************)
EXTENDS Integers, Sequences, FiniteSets, FiniteSetsExt, SequencesExt

CONSTANTS
  Job,       \* the callers' queries and transactions
  MaxParts,  \* bound: transactions inside the jobs' transactions
  MaxRows,   \* bound: statements of the jobs' transactions
  MaxOpened  \* bound: connections opened

ASSUME TransactionsAssumption == MaxOpened \in Nat

Connection == 1..MaxOpened

VARIABLES
  driver,    \* "sqlite" or "postgres"
  opened,    \* connections opened so far
  current,   \* the connection callers are given, 0 for none
  line,      \* per connection: the callers waiting their turn, the first one is served
  shut,      \* per connection: "open", "closing" or "closed"
  work,      \* per job: what became of it
  single,    \* per job: it is one query, not a transaction
  savepoint, \* per job: savepoints made
  within,    \* per job: the parts its body is in, the outermost first
  outcome,   \* per job: what became of each part
  wrote,     \* per job: its statements, each with the parts it ran in
  stack,     \* per job: what the engine keeps, one layer for the transaction and each savepoint
  durable     \* the statements whose effect is in the database for good

transactionVars ==
  <<driver, opened, current, line, shut, work, single, savepoint, within, outcome, wrote, stack, durable>>

TransactionsInit ==
  /\ driver \in {"sqlite", "postgres"} /\ opened = 0 /\ current = 0
  /\ line = [c \in Connection |-> << >>] /\ shut = [c \in Connection |-> "open"]
  /\ work = [j \in Job |-> "none"] /\ single \in [Job -> BOOLEAN]
  /\ savepoint = [j \in Job |-> 0] /\ within = [j \in Job |-> << >>]
  /\ outcome = [j \in Job |-> << >>] /\ wrote = [j \in Job |-> {}]
  /\ stack = [j \in Job |-> << >>] /\ durable = {}

Turn(j) == \E c \in Connection : line[c] # << >> /\ line[c][1] = j

\* SQLite's file has one writer; PostgreSQL settles conflicts of rows, which jobs here do not share.
FileIsFree == driver = "postgres" \/ \A j \in Job : stack[j] = << >>

-----------------------------------------------------------------------------
(* Asking and being served.                                                *)

\* The pool opens a connection when it has none.
Request(j) ==
  /\ work[j] = "none"
  /\ \/ current # 0 /\ UNCHANGED <<opened, current>>
     \/ current = 0 /\ opened < MaxOpened /\ opened' = opened + 1 /\ current' = opened + 1
  /\ work' = [work EXCEPT ![j] = "asked"]
  /\ line' = [line EXCEPT ![current'] = Append(@, j)]
  /\ UNCHANGED <<driver, shut, single, savepoint, within, outcome, wrote, stack, durable>>

\* Who leaves stands in one line, at one place.
Leave(j, became) ==
  /\ work' = [work EXCEPT ![j] = became]
  /\ \E c \in Connection : \E i \in DOMAIN line[c] :
       line[c][i] = j /\ line' = [line EXCEPT ![c] = RemoveAt(@, i)]

Served(j) == driver = "sqlite" => Turn(j)

\* A query alone: done or failed, or the file was locked for longer than it may wait.
RunQuery(j) ==
  /\ single[j] /\ work[j] = "asked" /\ Served(j)
  /\ \/ /\ FileIsFree /\ Leave(j, "done")
        /\ wrote' = [wrote EXCEPT ![j] = {[n |-> 1, parts |-> << >>]}] /\ durable' = durable \union {<<j, 1>>}
     \/ Leave(j, "failed") /\ UNCHANGED <<wrote, durable>>
  /\ UNCHANGED <<driver, opened, current, shut, single, savepoint, within, outcome, stack>>

BeginWork(j) ==
  /\ ~single[j] /\ work[j] = "asked" /\ Served(j)
  /\ IF FileIsFree THEN /\ work' = [work EXCEPT ![j] = "running"] /\ stack' = [stack EXCEPT ![j] = <<{}>>]
                        /\ UNCHANGED line
     ELSE Leave(j, "failed") /\ UNCHANGED stack
  /\ UNCHANGED <<driver, opened, current, shut, single, savepoint, within, outcome, wrote, durable>>

Running(j) == work[j] = "running"

WriteRow(j) ==
  /\ Running(j) /\ MapThenSumSet(LAMBDA k : Cardinality(wrote[k]), Job) < MaxRows
  /\ LET n == Cardinality(wrote[j]) + 1
     IN  /\ wrote' = [wrote EXCEPT ![j] = @ \union {[n |-> n, parts |-> within[j]]}]
         /\ stack' = [stack EXCEPT ![j][Len(stack[j])] = @ \union {n}]
  /\ UNCHANGED <<driver, opened, current, line, shut, work, single, savepoint, within, outcome, durable>>

-----------------------------------------------------------------------------
(* A transaction inside it.                                                *)

\* SAVEPOINT: a layer, named by the counter.
OpenPart(j) ==
  /\ Running(j) /\ MapThenSumSet(LAMBDA k : savepoint[k], Job) < MaxParts
  /\ savepoint' = [savepoint EXCEPT ![j] = @ + 1]
  /\ within' = [within EXCEPT ![j] = Append(@, savepoint'[j])]
  /\ outcome' = [outcome EXCEPT ![j] = Append(@, "open")]
  /\ stack' = [stack EXCEPT ![j] = Append(@, {})]
  /\ UNCHANGED <<driver, opened, current, line, shut, work, single, wrote, durable>>

\* RELEASE: the layer is its parent's.
Released(layers) ==
  LET n == Len(layers) IN SubSeq(layers, 1, n - 2) \o <<layers[n - 1] \union layers[n]>>

\* A plausible slip: the savepoint of a part that failed is only released.
OnlyReleased(layers) == Released(layers)

\* ROLLBACK TO, then RELEASE: the layer is emptied, then its parent's.
RolledBack(layers) == Released([layers EXCEPT ![Len(layers)] = {}])

ClosePart(j, how) ==
  /\ Running(j) /\ within[j] # << >>
  /\ stack' = [stack EXCEPT ![j] = IF how = "ok" THEN Released(@) ELSE RolledBack(@)]
  /\ outcome' = [outcome EXCEPT ![j][within[j][Len(within[j])]] = how]
  /\ within' = [within EXCEPT ![j] = SubSeq(@, 1, Len(@) - 1)]
  /\ UNCHANGED <<driver, opened, current, line, shut, work, single, savepoint, wrote, durable>>

-----------------------------------------------------------------------------
(* The end of a transaction, and of a connection.                          *)

Commit(j) ==
  /\ Running(j) /\ within[j] = << >>
  /\ durable' = durable \union {<<j, n>> : n \in stack[j][1]}
  /\ stack' = [stack EXCEPT ![j] = << >>] /\ Leave(j, "done")
  /\ UNCHANGED <<driver, opened, current, shut, single, savepoint, within, outcome, wrote>>

\* The body fails outside its parts, or the commit does.
Rollback(j) ==
  /\ Running(j) /\ within[j] = << >>
  /\ stack' = [stack EXCEPT ![j] = << >>] /\ Leave(j, "failed")
  /\ UNCHANGED <<driver, opened, current, shut, single, savepoint, within, outcome, wrote, durable>>

\* A part is begun after the transaction it belonged to: an error, and nothing else.
EscapedPart(j) == ~Running(j) /\ UNCHANGED transactionVars

\* pool.end(): nobody is given the connection again, and it closes once its line is served.
End ==
  /\ current # 0
  /\ shut' = [shut EXCEPT ![current] = "closing"] /\ current' = 0
  /\ UNCHANGED <<driver, opened, line, work, single, savepoint, within, outcome, wrote, stack, durable>>

Close(c) ==
  /\ shut[c] = "closing" /\ line[c] = << >>
  /\ shut' = [shut EXCEPT ![c] = "closed"]
  /\ UNCHANGED <<driver, opened, current, line, work, single, savepoint, within, outcome, wrote, stack, durable>>

TransactionsNext ==
  \/ \E j \in Job : \/ Request(j) \/ RunQuery(j) \/ BeginWork(j) \/ WriteRow(j) \/ OpenPart(j)
                    \/ \E how \in {"ok", "failed"} : ClosePart(j, how)
                    \/ Commit(j) \/ Rollback(j) \/ EscapedPart(j)
  \/ End
  \/ \E c \in Connection : Close(c)

-----------------------------------------------------------------------------
(* Correctness.                                                            *)

Stands(j, w) == \A i \in DOMAIN w.parts : outcome[j][w.parts[i]] = "ok"

\* What is in the database for good is what the callers were told: all a finished job
\* wrote outside parts that failed, nothing of a job that failed or is under way, even
\* when the pool was ended under it; SQLite runs one transaction at a time; and a
\* connection is closed only when nobody waits for it.
TransactionsAreWhole ==
  /\ durable = UNION {{<<j, w.n>> : w \in {w \in wrote[j] : Stands(j, w)}} : j \in {j \in Job : work[j] = "done"}}
  /\ driver = "sqlite" => Cardinality({j \in Job : Running(j)}) <= 1
  /\ \A c \in Connection : shut[c] = "closed" => line[c] = << >>
=============================================================================
