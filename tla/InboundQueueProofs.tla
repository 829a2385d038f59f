------------------------- MODULE InboundQueueProofs -------------------------
(***************************************************************************)
(* Proofs about InboundQueue, for any number of messages, customers,       *)
(* workers and attempts and for both orders of available_at: the rows, the *)
(* abstract queue, what the workers do at once, and the order of arrival.  *)
(***************************************************************************)
EXTENDS InboundQueue, FiniteSetTheorems, TLAPS

USE QueueAssumption

\* The order of available_at: ranks are positive, those of the inserted rows
\* are within 1..last, and a row that is not inserted yet waits at its id.
OrderOK ==
  /\ OrderTypes
  /\ \A x \in Message : /\ rank[x] >= 1
                        /\ x <= last => rank[x] <= last
                        /\ x > last  => rank[x] = x

\* The columns of a row agree: token and lease are set exactly while it is
\* processing, and a row that can be claimed has attempts left.
RowOK(m) ==
  /\ status[m] = "absent" <=> m > last
  /\ status[m] = "absent" => attempts[m] = 0
  /\ token[m] # None <=> status[m] = "processing"
  /\ lease[m] = "none" <=> token[m] = None
  /\ status[m] \in {"queued", "retry", "processing"} => attempts[m] < MaxAttempts

RowsOK == \A m \in Message : RowOK(m)

\* What failInbound has read is current as long as it holds the token.
RunOK(w, m) ==
  run[w][m] = "updating" /\ token[m] = w => seen[w][m] = attempts[m]

RunsOK == \A w \in Worker, m \in Message : RunOK(w, m)

IInv == RowTypes /\ WorkerTypes /\ BoundTypes /\ OrderOK /\ RowsOK /\ RunsOK

-----------------------------------------------------------------------------
\* Moving an inserted row keeps the ranks of the inserted rows in 1..last.
LEMMA RepositionInRange ==
  ASSUME OrderOK, NEW m \in Message, m <= last, NEW k \in 1..last
  PROVE  /\ Reposition(m, k) \in [Message -> Nat]
         /\ \A x \in Message : /\ Reposition(m, k)[x] >= 1
                               /\ x <= last => Reposition(m, k)[x] <= last
                               /\ x > last  => Reposition(m, k)[x] = x
<1>1. \A x \in Message : rank[x] \in Nat /\ last \in Nat /\ k \in Nat
  BY DEF OrderOK, OrderTypes, Message
<1>2. rank[m] >= 1 /\ rank[m] <= last
  BY DEF OrderOK, OrderTypes, Message
<1>3. ASSUME NEW x \in Message
      PROVE  /\ Reposition(m, k)[x] \in Nat
             /\ Reposition(m, k)[x] >= 1
             /\ x <= last => Reposition(m, k)[x] <= last
             /\ x > last  => Reposition(m, k)[x] = x
  <2>1. Reposition(m, k)[x] =
          IF x = m THEN k
          ELSE IF rank[m] < rank[x] /\ rank[x] <= k THEN rank[x] - 1
          ELSE IF k <= rank[x] /\ rank[x] < rank[m] THEN rank[x] + 1
          ELSE rank[x]
    BY DEF Reposition
  <2>2. /\ rank[x] >= 1
        /\ x <= last => rank[x] <= last
        /\ x > last  => rank[x] = x
    BY DEF OrderOK, OrderTypes, Message
  <2>. QED BY <1>1, <1>2, <2>1, <2>2
<1>. QED BY <1>3 DEF Reposition

LEMMA RescheduleOrder ==
  ASSUME OrderOK, NEW m \in Message, m <= last, NEW k \in 1..last,
         Reschedule(m, k), due' \in 0..last
  PROVE  OrderOK' /\ last' = last
<1>1. last' = last /\ rank' = Reposition(m, k)
  BY DEF Reschedule
<1>2. fresh' \in 0..last
  <2>1. rank[m] \in Nat /\ rank[m] >= 1 /\ fresh \in Nat /\ last \in Nat /\ fresh <= last
    BY DEF OrderOK, OrderTypes, Message
  <2>2. fresh' = IF rank[m] <= fresh THEN fresh - 1 ELSE fresh
    BY DEF Reschedule
  <2>. QED BY <2>1, <2>2
<1>3. /\ rank' \in [Message -> Nat]
      /\ \A x \in Message : /\ rank'[x] >= 1
                            /\ x <= last => rank'[x] <= last
                            /\ x > last  => rank'[x] = x
  BY <1>1, RepositionInRange
<1>. QED BY <1>1, <1>2, <1>3 DEF OrderOK, OrderTypes, Message

LEMMA DueNowOrder ==
  ASSUME OrderOK, NEW m \in Message, m <= last, DueNow(m)
  PROVE  OrderOK' /\ last' = last
<1>1. /\ last \in Nat /\ due \in Nat /\ due <= last
      /\ rank[m] \in Nat /\ rank[m] >= 1 /\ rank[m] <= last
  BY DEF OrderOK, OrderTypes, Message
<1>2. CASE rank[m] <= due
  <2>1. Reschedule(m, due) /\ due' = due BY <1>2 DEF DueNow
  <2>2. due \in 1..last /\ due' \in 0..last BY <1>1, <1>2, <2>1
  <2>. QED BY <2>1, <2>2, RescheduleOrder
<1>3. CASE ~ (rank[m] <= due)
  <2>1. Reschedule(m, due + 1) /\ due' = due + 1 BY <1>3 DEF DueNow
  <2>2. due + 1 \in 1..last /\ due' \in 0..last BY <1>1, <1>3, <2>1
  <2>. QED BY <2>1, <2>2, RescheduleOrder
<1>. QED BY <1>2, <1>3

LEMMA DueLaterOrder ==
  ASSUME OrderOK, NEW m \in Message, m <= last, DueLater(m)
  PROVE  OrderOK' /\ last' = last
<1> DEFINE stillDue == IF rank[m] <= due THEN due - 1 ELSE due
<1>1. stillDue \in 0..last
  <2>1. /\ last \in Nat /\ due \in Nat /\ due <= last
        /\ rank[m] \in Nat /\ rank[m] >= 1
    BY DEF OrderOK, OrderTypes, Message
  <2>. QED BY <2>1
<1>2. (\E k \in (stillDue + 1)..last : Reschedule(m, k)) /\ due' = stillDue
  BY DEF DueLater
<1> HIDE DEF stillDue
<1>3. PICK k \in (stillDue + 1)..last : Reschedule(m, k)
  BY <1>2
<1>4. k \in 1..last
  BY <1>1, <1>3 DEF OrderOK, OrderTypes, Message
<1>. QED BY <1>1, <1>2, <1>3, <1>4, RescheduleOrder

LEMMA EnqueueOrder ==
  ASSUME OrderOK, NEW w \in Worker, NEW m \in Message, Enqueue(w, m)
  PROVE  OrderOK' /\ last' = last + 1 /\ m = last + 1
<1> DEFINE k == IF TextClock THEN fresh + 1 ELSE due + 1
<1>1. /\ m = last + 1 /\ last' = m /\ due' = due + 1
      /\ rank' = Reposition(m, k)
      /\ fresh' = IF TextClock THEN fresh + 1 ELSE fresh
  BY DEF Enqueue
<1>2. /\ last \in Nat /\ due \in Nat /\ due <= last
      /\ fresh \in Nat /\ fresh <= last
  BY DEF OrderOK, OrderTypes, Message
<1>3. k \in Nat /\ k >= 1 /\ k <= m
  BY <1>1, <1>2
<1> HIDE DEF k
<1>4. rank[m] = m
  BY <1>1, <1>2 DEF OrderOK, OrderTypes, Message
<1>5. ASSUME NEW x \in Message
      PROVE  /\ rank'[x] \in Nat
             /\ rank'[x] >= 1
             /\ x <= m => rank'[x] <= m
             /\ x > m  => rank'[x] = x
  <2>1. rank'[x] =
          IF x = m THEN k
          ELSE IF rank[m] < rank[x] /\ rank[x] <= k THEN rank[x] - 1
          ELSE IF k <= rank[x] /\ rank[x] < rank[m] THEN rank[x] + 1
          ELSE rank[x]
    BY <1>1 DEF Reposition
  <2>2. /\ rank[x] \in Nat /\ rank[x] >= 1
        /\ x <= last => rank[x] <= last
        /\ x > last  => rank[x] = x
    BY DEF OrderOK, OrderTypes, Message
  <2>. QED BY <1>1, <1>2, <1>3, <1>4, <2>1, <2>2
<1>6. rank' \in [Message -> Nat]
  BY <1>1, <1>5 DEF Reposition
<1>7. last' \in 0..N /\ due' \in 0..last' /\ fresh' \in 0..last'
  BY <1>1, <1>2 DEF Message
<1>. QED BY <1>1, <1>5, <1>6, <1>7 DEF OrderOK, OrderTypes, Message

-----------------------------------------------------------------------------
(* The inductive invariant.                                                *)

LEMMA InitIInv == Init => IInv
<1> SUFFICES ASSUME Init PROVE IInv
  OBVIOUS
<1>1. RowTypes
  BY DEF Init, RowTypes, Status
<1>2. WorkerTypes /\ BoundTypes
  BY DEF Init, WorkerTypes, BoundTypes, Phase
<1>3. OrderOK
  BY DEF Init, OrderOK, OrderTypes, Message
<1>4. RowsOK
  BY DEF Init, RowsOK, RowOK, Message
<1>5. RunsOK
  BY DEF Init, RunsOK, RunOK
<1>. QED BY <1>1, <1>2, <1>3, <1>4, <1>5 DEF IInv

\* Steps that leave the rows and their order alone and start no UPDATE.
LEMMA WorkerKeepsIInv ==
  ASSUME IInv, UNCHANGED <<rowVars, orderVars>>, WorkerTypes', BoundTypes',
         \A w \in Worker, m \in Message :
           run'[w][m] = "updating" =>
             run[w][m] = "updating" /\ seen'[w][m] = seen[w][m]
  PROVE  IInv'
<1>1. RowTypes' /\ OrderOK' /\ RowsOK'
  BY DEF IInv, RowTypes, OrderOK, OrderTypes, RowsOK, RowOK, rowVars, orderVars
<1>2. RunsOK'
  BY DEF IInv, RunsOK, RunOK, rowVars
<1>. QED BY <1>1, <1>2 DEF IInv

LEMMA NextIInv == IInv /\ [Next]_vars => IInv'
<1> SUFFICES ASSUME IInv, [Next]_vars PROVE IInv'
  OBVIOUS
<1>0. RowTypes /\ WorkerTypes /\ BoundTypes /\ OrderOK /\ RowsOK /\ RunsOK
  BY DEF IInv
<1>a. \A m \in Message : m \in Nat /\ last \in Nat /\ (status[m] # "absent" <=> m <= last)
  BY <1>0 DEF OrderOK, OrderTypes, RowsOK, RowOK, Message
<1>1. ASSUME NEW w \in Worker, NEW m \in Message, StartRun(w, m) PROVE IInv'
  <2>1. WorkerTypes' /\ BoundTypes'
    BY <1>0, <1>1 DEF StartRun, WorkerTypes, BoundTypes, Phase, boundVars
  <2>2. \A v \in Worker, x \in Message :
          run'[v][x] = "updating" => run[v][x] = "updating" /\ seen'[v][x] = seen[v][x]
    BY <1>0, <1>1 DEF StartRun, WorkerTypes
  <2>3. UNCHANGED <<rowVars, orderVars>>
    BY <1>1 DEF StartRun
  <2>. QED BY <2>1, <2>2, <2>3, WorkerKeepsIInv
<1>2. ASSUME NEW w \in Worker, EndBurst(w) PROVE IInv'
  <2>1. WorkerTypes' /\ BoundTypes'
    BY <1>0, <1>2 DEF EndBurst, WorkerTypes, BoundTypes, Phase, boundVars
  <2>2. \A v \in Worker, x \in Message :
          run'[v][x] = "updating" => run[v][x] = "updating" /\ seen'[v][x] = seen[v][x]
    BY <1>0, <1>2 DEF EndBurst, WorkerTypes
  <2>3. UNCHANGED <<rowVars, orderVars>>
    BY <1>2 DEF EndBurst
  <2>. QED BY <2>1, <2>2, <2>3, WorkerKeepsIInv
<1>3. ASSUME NEW w \in Worker, Poll(w) PROVE IInv'
  <2>1. WorkerTypes' /\ BoundTypes'
    BY <1>0, <1>3 DEF Poll, WorkerTypes, BoundTypes, Phase, boundVars
  <2>2. \A v \in Worker, x \in Message :
          run'[v][x] = "updating" => run[v][x] = "updating" /\ seen'[v][x] = seen[v][x]
    BY <1>0, <1>3 DEF Poll, WorkerTypes
  <2>3. UNCHANGED <<rowVars, orderVars>>
    BY <1>3 DEF Poll
  <2>. QED BY <2>1, <2>2, <2>3, WorkerKeepsIInv
<1>4. ASSUME NEW w \in Worker, Wake(w) PROVE IInv'
  <2>1. WorkerTypes' /\ BoundTypes'
    BY <1>0, <1>4 DEF Wake, WorkerTypes, BoundTypes, Phase, boundVars
  <2>2. \A v \in Worker, x \in Message :
          run'[v][x] = "updating" => run[v][x] = "updating" /\ seen'[v][x] = seen[v][x]
    BY <1>0, <1>4 DEF Wake, WorkerTypes
  <2>3. UNCHANGED <<rowVars, orderVars>>
    BY <1>4 DEF Wake
  <2>. QED BY <2>1, <2>2, <2>3, WorkerKeepsIInv
<1>5. ASSUME NEW w \in Worker, NEW m \in Message, NEW p \in Phase, EndHandler(w, m, p) PROVE IInv'
  <2>1. WorkerTypes' /\ BoundTypes'
    BY <1>0, <1>5 DEF EndHandler, WorkerTypes, BoundTypes, Phase, boundVars
  <2>2. \A v \in Worker, x \in Message :
          run'[v][x] = "updating" => run[v][x] = "updating" /\ seen'[v][x] = seen[v][x]
    BY <1>0, <1>5 DEF EndHandler, WorkerTypes
  <2>3. UNCHANGED <<rowVars, orderVars>>
    BY <1>5 DEF EndHandler
  <2>. QED BY <2>1, <2>2, <2>3, WorkerKeepsIInv
<1>6. ASSUME NEW w \in Worker, NEW m \in Message, CompleteThrows(w, m) PROVE IInv'
  <2>1. WorkerTypes' /\ BoundTypes'
    BY <1>0, <1>6 DEF CompleteThrows, WorkerTypes, BoundTypes, Phase, boundVars
  <2>2. \A v \in Worker, x \in Message :
          run'[v][x] = "updating" => run[v][x] = "updating" /\ seen'[v][x] = seen[v][x]
    BY <1>0, <1>6 DEF CompleteThrows, WorkerTypes
  <2>3. UNCHANGED <<rowVars, orderVars>>
    BY <1>6 DEF CompleteThrows
  <2>. QED BY <2>1, <2>2, <2>3, WorkerKeepsIInv
<1>7. ASSUME NEW w \in Worker, Start(w) PROVE IInv'
  <2>1. WorkerTypes' /\ BoundTypes'
    BY <1>0, <1>7 DEF Start, WorkerTypes, BoundTypes, Phase, boundVars
  <2>2. \A v \in Worker, x \in Message :
          run'[v][x] = "updating" => run[v][x] = "updating" /\ seen'[v][x] = seen[v][x]
    BY <1>0, <1>7 DEF Start, WorkerTypes
  <2>3. UNCHANGED <<rowVars, orderVars>>
    BY <1>7 DEF Start
  <2>. QED BY <2>1, <2>2, <2>3, WorkerKeepsIInv
<1>8. ASSUME NEW w \in Worker, Stop(w) PROVE IInv'
  <2>1. WorkerTypes' /\ BoundTypes'
    BY <1>0, <1>8 DEF Stop, WorkerTypes, BoundTypes, Phase, boundVars
  <2>2. \A v \in Worker, x \in Message :
          run'[v][x] = "updating" => run[v][x] = "updating" /\ seen'[v][x] = seen[v][x]
    BY <1>0, <1>8 DEF Stop, WorkerTypes
  <2>3. UNCHANGED <<rowVars, orderVars>>
    BY <1>8 DEF Stop
  <2>. QED BY <2>1, <2>2, <2>3, WorkerKeepsIInv
<1>9. CASE Crash
  <2>1. WorkerTypes' /\ BoundTypes'
    BY <1>0, <1>9 DEF Crash, WorkerTypes, BoundTypes, Phase
  <2>2. \A v \in Worker, x \in Message : run'[v][x] # "updating"
    BY <1>9 DEF Crash
  <2>3. UNCHANGED <<rowVars, orderVars>>
    BY <1>9 DEF Crash
  <2>. QED BY <2>1, <2>2, <2>3, WorkerKeepsIInv
<1>10. CASE Tick
  <2>1. OrderOK'
    BY <1>0, <1>10 DEF Tick, OrderOK, OrderTypes
  <2>2. RowTypes' /\ WorkerTypes' /\ BoundTypes'
    BY <1>0, <1>10 DEF Tick, RowTypes, WorkerTypes, BoundTypes, rowVars, boundVars
  <2>3. RowsOK' /\ RunsOK'
    BY <1>0, <1>10 DEF Tick, RowsOK, RowOK, RunsOK, RunOK, rowVars
  <2>. QED BY <2>1, <2>2, <2>3 DEF IInv
<1>11. ASSUME NEW w \in Worker, NEW m \in Message, Enqueue(w, m) PROVE IInv'
  <2>1. OrderOK' /\ last' = last + 1 /\ m = last + 1
    BY <1>0, <1>11, EnqueueOrder
  <2>2. /\ status' = [status EXCEPT ![m] = "queued"]
        /\ UNCHANGED <<attempts, lease, token, run, seen>>
    BY <1>11 DEF Enqueue
  <2>3. RowTypes'
    BY <1>0, <2>2 DEF RowTypes, Status
  <2>4. WorkerTypes' /\ BoundTypes'
    BY <1>0, <1>11 DEF Enqueue, WorkerTypes, BoundTypes, boundVars
  <2>5. ASSUME NEW x \in Message PROVE RowOK(x)'
    <3>1. status[m] = "absent" /\ token[m] = None /\ RowOK(m) /\ RowOK(x)
      BY <1>0, <1>a, <2>1 DEF RowsOK, RowOK
    <3>2. CASE x = m
      <4>1. status'[m] = "queued" /\ attempts'[m] = 0 /\ token'[m] = None /\ lease'[m] = "none"
        BY <1>0, <3>1, <2>2 DEF RowTypes, RowOK
      <4>. QED BY <1>a, <3>2, <2>1, <4>1 DEF RowOK
    <3>3. CASE x # m
      BY <1>0, <1>a, <3>1, <3>3, <2>1, <2>2 DEF RowOK, RowTypes
    <3>. QED BY <3>2, <3>3
  <2>6. RunsOK'
    BY <1>0, <2>2 DEF RunsOK, RunOK
  <2>. QED BY <2>1, <2>3, <2>4, <2>5, <2>6 DEF IInv, RowsOK
<1>12. ASSUME NEW w \in Worker, NEW m \in Message, ClaimRow(w, m) PROVE IInv'
  <2>1. status[m] \in {"queued", "retry", "processing"}
    BY <1>12 DEF ClaimRow, FirstRow, Claimable
  <2>2. /\ status' = [status EXCEPT ![m] = "processing"]
        /\ lease'  = [lease  EXCEPT ![m] = "live"]
        /\ token'  = [token  EXCEPT ![m] = w]
        /\ run'    = [run    EXCEPT ![w][m] = "claimed"]
        /\ UNCHANGED <<attempts, orderVars, loop, stopped, seen, boundVars>>
    BY <1>12 DEF ClaimRow
  <2>3. RowTypes' /\ WorkerTypes' /\ BoundTypes' /\ OrderOK'
    BY <1>0, <2>2 DEF RowTypes, WorkerTypes, BoundTypes, OrderOK, OrderTypes, Status, Phase,
                      orderVars, boundVars
  <2>4. ASSUME NEW x \in Message PROVE RowOK(x)'
    BY <1>0, <2>1, <2>2 DEF RowTypes, RowsOK, RowOK, orderVars
  <2>5. ASSUME NEW v \in Worker, NEW x \in Message PROVE RunOK(v, x)'
    BY <1>0, <2>2 DEF RowTypes, WorkerTypes, RunsOK, RunOK
  <2>. QED BY <2>3, <2>4, <2>5 DEF IInv, RowsOK, RunsOK
<1>13. ASSUME NEW w \in Worker, NEW m \in Message, Complete(w, m) PROVE IInv'
  <2>1. CASE ~ (HoldsToken(w, m) /\ status[m] = "processing")
    <3>1. /\ run' = [run EXCEPT ![w][m] = "none"]
          /\ UNCHANGED <<rowVars, orderVars, loop, stopped, seen, boundVars>>
      BY <1>13, <2>1 DEF Complete, EndRun, rowVars
    <3>2. WorkerTypes' /\ BoundTypes'
      BY <1>0, <3>1 DEF WorkerTypes, BoundTypes, Phase, boundVars
    <3>3. \A v \in Worker, x \in Message :
            run'[v][x] = "updating" => run[v][x] = "updating" /\ seen'[v][x] = seen[v][x]
      BY <1>0, <3>1 DEF WorkerTypes
    <3>. QED BY <3>1, <3>2, <3>3, WorkerKeepsIInv
  <2>2. CASE HoldsToken(w, m) /\ status[m] = "processing"
    <3>1. status[m] = "processing" /\ attempts[m] < MaxAttempts /\ token[m] = w
      BY <1>0, <2>2 DEF HoldsToken, RowsOK, RowOK
    <3>2. /\ status' = [status EXCEPT ![m] = "completed"]
          /\ lease' = [lease EXCEPT ![m] = "none"]
          /\ token' = [token EXCEPT ![m] = None]
          /\ attempts' = attempts
          /\ run' = [run EXCEPT ![w][m] = "none"]
          /\ UNCHANGED <<orderVars, loop, stopped, seen, boundVars>>
      BY <1>13, <2>2 DEF Complete, Release, EndRun
    <3>3. RowTypes'
      BY <1>0, <3>1, <3>2 DEF RowTypes, Status
    <3>4. WorkerTypes' /\ BoundTypes' /\ OrderOK'
      BY <1>0, <3>2 DEF WorkerTypes, BoundTypes, OrderOK, OrderTypes, Phase, orderVars, boundVars
    <3>5. ASSUME NEW x \in Message PROVE RowOK(x)'
      BY <1>0, <3>1, <3>2 DEF RowTypes, RowsOK, RowOK, orderVars
    <3>6. ASSUME NEW v \in Worker, NEW x \in Message PROVE RunOK(v, x)'
      BY <1>0, <3>2 DEF RowTypes, WorkerTypes, RunsOK, RunOK
    <3>. QED BY <3>3, <3>4, <3>5, <3>6 DEF IInv, RowsOK, RunsOK
  <2>. QED BY <2>1, <2>2
<1>14. ASSUME NEW w \in Worker, NEW m \in Message, Reject(w, m) PROVE IInv'
  <2>1. CASE ~ (HoldsToken(w, m) /\ status[m] = "processing")
    <3>1. /\ run' = [run EXCEPT ![w][m] = "none"]
          /\ UNCHANGED <<rowVars, orderVars, loop, stopped, seen, boundVars>>
      BY <1>14, <2>1 DEF Reject, EndRun, rowVars
    <3>2. WorkerTypes' /\ BoundTypes'
      BY <1>0, <3>1 DEF WorkerTypes, BoundTypes, Phase, boundVars
    <3>3. \A v \in Worker, x \in Message :
            run'[v][x] = "updating" => run[v][x] = "updating" /\ seen'[v][x] = seen[v][x]
      BY <1>0, <3>1 DEF WorkerTypes
    <3>. QED BY <3>1, <3>2, <3>3, WorkerKeepsIInv
  <2>2. CASE HoldsToken(w, m) /\ status[m] = "processing"
    <3>1. status[m] = "processing" /\ attempts[m] < MaxAttempts /\ token[m] = w
      BY <1>0, <2>2 DEF HoldsToken, RowsOK, RowOK
    <3>2. /\ status' = [status EXCEPT ![m] = "dead_letter"]
          /\ lease' = [lease EXCEPT ![m] = "none"]
          /\ token' = [token EXCEPT ![m] = None]
          /\ attempts' = [attempts EXCEPT ![m] = attempts[m] + 1]
          /\ run' = [run EXCEPT ![w][m] = "none"]
          /\ UNCHANGED <<orderVars, loop, stopped, seen, boundVars>>
      BY <1>14, <2>2 DEF Reject, Release, EndRun
    <3>3. RowTypes'
      BY <1>0, <3>1, <3>2 DEF RowTypes, Status
    <3>4. WorkerTypes' /\ BoundTypes' /\ OrderOK'
      BY <1>0, <3>2 DEF WorkerTypes, BoundTypes, OrderOK, OrderTypes, Phase, orderVars, boundVars
    <3>5. ASSUME NEW x \in Message PROVE RowOK(x)'
      BY <1>0, <3>1, <3>2 DEF RowTypes, RowsOK, RowOK, orderVars
    <3>6. ASSUME NEW v \in Worker, NEW x \in Message PROVE RunOK(v, x)'
      BY <1>0, <3>2 DEF RowTypes, WorkerTypes, RunsOK, RunOK
    <3>. QED BY <3>3, <3>4, <3>5, <3>6 DEF IInv, RowsOK, RunsOK
  <2>. QED BY <2>1, <2>2
<1>15. ASSUME NEW w \in Worker, NEW m \in Message, FailRead(w, m) PROVE IInv'
  <2>1. UNCHANGED <<rowVars, orderVars, loop, stopped, boundVars>>
    BY <1>15 DEF FailRead
  <2>2. CASE ~ HoldsToken(w, m)
    <3>1. run' = [run EXCEPT ![w][m] = "none"] /\ seen' = seen
      BY <1>15, <2>2 DEF FailRead, EndRun
    <3>2. WorkerTypes' /\ BoundTypes'
      BY <1>0, <2>1, <3>1 DEF WorkerTypes, BoundTypes, Phase, boundVars
    <3>3. \A v \in Worker, x \in Message :
            run'[v][x] = "updating" => run[v][x] = "updating" /\ seen'[v][x] = seen[v][x]
      BY <1>0, <3>1 DEF WorkerTypes
    <3>. QED BY <2>1, <3>2, <3>3, WorkerKeepsIInv
  <2>3. CASE HoldsToken(w, m)
    <3>1. /\ run'  = [run  EXCEPT ![w][m] = "updating"]
          /\ seen' = [seen EXCEPT ![w][m] = attempts[m]]
      BY <1>15, <2>3 DEF FailRead
    <3>2. RowTypes' /\ OrderOK' /\ RowsOK' /\ BoundTypes'
      BY <1>0, <2>1 DEF RowTypes, OrderOK, OrderTypes, RowsOK, RowOK, BoundTypes, rowVars,
                        orderVars, boundVars
    <3>3. attempts[m] \in 0..MaxAttempts
      BY <1>0 DEF RowTypes
    <3>4. WorkerTypes'
      BY <1>0, <2>1, <3>1, <3>3 DEF WorkerTypes, Phase
    <3>5. ASSUME NEW v \in Worker, NEW x \in Message PROVE RunOK(v, x)'
      <4>1. token' = token /\ attempts' = attempts
        BY <2>1 DEF rowVars
      <4>2. CASE v = w /\ x = m
        BY <1>0, <3>1, <4>1, <4>2 DEF WorkerTypes, RunOK
      <4>3. CASE ~ (v = w /\ x = m)
        <5>1. run'[v][x] = run[v][x] /\ seen'[v][x] = seen[v][x]
          BY <1>0, <3>1, <4>3 DEF WorkerTypes
        <5>. QED BY <1>0, <4>1, <5>1 DEF RunsOK, RunOK
      <4>. QED BY <4>2, <4>3
    <3>. QED BY <3>2, <3>4, <3>5 DEF IInv, RunsOK
  <2>. QED BY <2>2, <2>3
<1>16. ASSUME NEW w \in Worker, NEW m \in Message, FailWrite(w, m) PROVE IInv'
  <2>0. /\ run[w][m] = "updating"
        /\ run' = [run EXCEPT ![w][m] = "none"]
        /\ seen' = [seen EXCEPT ![w][m] = 0]
        /\ UNCHANGED <<loop, stopped, boundVars>>
    BY <1>16 DEF FailWrite, EndRun
  <2>a. WorkerTypes' /\ BoundTypes'
    BY <1>0, <2>0 DEF WorkerTypes, BoundTypes, Phase, boundVars
  <2>b. \A v \in Worker, x \in Message :
          run'[v][x] = "updating" => run[v][x] = "updating" /\ seen'[v][x] = seen[v][x]
    BY <1>0, <2>0 DEF WorkerTypes
  <2>1. CASE ~ HoldsToken(w, m)
    <3>1. UNCHANGED <<rowVars, orderVars>>
      BY <1>16, <2>1 DEF FailWrite
    <3>. QED BY <2>a, <2>b, <3>1, WorkerKeepsIInv
  <2>2. CASE HoldsToken(w, m)
    <3>1. /\ status[m] = "processing" /\ attempts[m] < MaxAttempts
          /\ token[m] = w /\ seen[w][m] = attempts[m]
      BY <1>0, <2>0, <2>2 DEF HoldsToken, RowsOK, RowOK, RunsOK, RunOK
    <3>2. m <= last
      BY <1>a, <3>1
    <3>3. DueNow(m) \/ DueLater(m)
      BY <1>16, <2>2 DEF FailWrite
    <3>4. OrderOK' /\ last' = last
      BY <1>0, <3>2, <3>3, DueNowOrder, DueLaterOrder
    <3>5. /\ attempts' = [attempts EXCEPT ![m] = attempts[m] + 1]
          /\ token' = [token EXCEPT ![m] = None]
          /\ lease' = [lease EXCEPT ![m] = "none"]
      BY <1>16, <2>2, <3>1 DEF FailWrite, Release
    <3>6. \/ status' = [status EXCEPT ![m] = "dead_letter"]
          \/ status' = [status EXCEPT ![m] = "retry"] /\ ~ (attempts[m] + 1 >= MaxAttempts)
      BY <1>16, <2>2, <3>1 DEF FailWrite, Release, Spent
    <3>7. attempts[m] \in Nat /\ MaxAttempts \in Nat
      BY <1>0 DEF RowTypes
    <3>8. RowTypes'
      BY <1>0, <3>1, <3>5, <3>6, <3>7 DEF RowTypes, Status
    <3>9. ASSUME NEW x \in Message PROVE RowOK(x)'
      BY <1>0, <1>a, <3>1, <3>4, <3>5, <3>6, <3>7 DEF RowTypes, RowsOK, RowOK
    <3>10. ASSUME NEW v \in Worker, NEW x \in Message PROVE RunOK(v, x)'
      BY <1>0, <2>b, <3>5 DEF RowTypes, RunsOK, RunOK
    <3>. QED BY <2>a, <3>4, <3>8, <3>9, <3>10 DEF IInv, RowsOK, RunsOK
  <2>. QED BY <2>1, <2>2
<1>17. ASSUME NEW m \in Message, ExpireLease(m) PROVE IInv'
  <2>1. /\ lease[m] = "live"
        /\ lease' = [lease EXCEPT ![m] = "expired"]
        /\ UNCHANGED <<status, attempts, token, orderVars, loop, stopped, run, seen>>
    BY <1>17 DEF ExpireLease
  <2>2. BoundTypes'
    BY <1>0, <1>17 DEF ExpireLease, BoundTypes
  <2>3. RowTypes' /\ WorkerTypes' /\ OrderOK'
    BY <1>0, <2>1 DEF RowTypes, WorkerTypes, OrderOK, OrderTypes, orderVars
  <2>4. RowsOK' /\ RunsOK'
    BY <1>0, <2>1 DEF RowTypes, RowsOK, RowOK, RunsOK, RunOK, orderVars
  <2>. QED BY <2>2, <2>3, <2>4 DEF IInv
<1>18. ASSUME NEW m \in Message, RetryInboundFailure(m) PROVE IInv'
  <2>1. /\ status[m] \in {"retry", "dead_letter"}
        /\ status' = [status EXCEPT ![m] = "queued"]
        /\ lease' = [lease EXCEPT ![m] = "none"]
        /\ token' = [token EXCEPT ![m] = None]
        /\ attempts' = [attempts EXCEPT ![m] = 0]
        /\ DueNow(m)
        /\ UNCHANGED <<loop, stopped, run, seen>>
    BY <1>18 DEF RetryInboundFailure, Release
  <2>2. m <= last /\ token[m] = None
    BY <1>0, <1>a, <2>1 DEF RowsOK, RowOK
  <2>3. OrderOK' /\ last' = last
    BY <1>0, <2>1, <2>2, DueNowOrder
  <2>4. RowTypes' /\ WorkerTypes'
    BY <1>0, <2>1 DEF RowTypes, WorkerTypes, Status
  <2>5. BoundTypes'
    BY <1>0, <1>18 DEF RetryInboundFailure, BoundTypes
  <2>6. ASSUME NEW x \in Message PROVE RowOK(x)'
    BY <1>0, <1>a, <2>1, <2>2, <2>3 DEF RowTypes, RowsOK, RowOK
  <2>7. ASSUME NEW v \in Worker, NEW x \in Message PROVE RunOK(v, x)'
    BY <1>0, <2>1, <2>2 DEF RowTypes, RunsOK, RunOK
  <2>. QED BY <2>3, <2>4, <2>5, <2>6, <2>7 DEF IInv, RowsOK, RunsOK
<1>19. CASE UNCHANGED vars
  BY <1>0, <1>19 DEF IInv, RowTypes, WorkerTypes, BoundTypes, OrderOK, OrderTypes, RowsOK, RowOK,
                 RunsOK, RunOK, vars, rowVars, orderVars, boundVars
<1>. QED BY <1>1, <1>2, <1>3, <1>4, <1>5, <1>6, <1>7, <1>8, <1>9, <1>10, <1>11, <1>12, <1>13, <1>14, <1>15, <1>16, <1>17, <1>18, <1>19
  DEF Next, WorkerStep, RunStep

LEMMA Invariance == Spec => []IInv
BY InitIInv, NextIInv, PTL DEF Spec

\* Every state of the queue is well typed; in particular no row ever counts
\* more than max_attempts attempts.
THEOREM TypeCorrect == Spec => []TypeOK
<1>1. IInv => TypeOK BY DEF IInv, TypeOK, OrderOK
<1>. QED BY <1>1, Invariance, PTL

\* A row that can still be claimed has attempts left.
THEOREM BudgetHolds == Spec => []AttemptsBudget
<1>1. IInv => AttemptsBudget BY DEF IInv, RowsOK, RowOK, AttemptsBudget
<1>. QED BY <1>1, Invariance, PTL

\* The read-then-write of failInbound never acts on a stale count.
THEOREM SeenStaysCurrent == Spec => []SeenIsCurrent
<1>1. IInv => SeenIsCurrent
  BY DEF IInv, RowsOK, RowOK, RunsOK, RunOK, SeenIsCurrent, HoldsToken
<1>. QED BY <1>1, Invariance, PTL

-----------------------------------------------------------------------------
(* What a step does to the rows: it leaves them alone, or changes one row  *)
(* in one of five ways.                                                    *)

Accepted(m) ==
  /\ status[m] = "absent"
  /\ status' = [status EXCEPT ![m] = "queued"]
  /\ UNCHANGED <<attempts, lease, token>>

Taken(w, m) ==
  /\ status[m] \in {"queued", "retry", "processing"}
  /\ lease[m] # "live"
  /\ status' = [status EXCEPT ![m] = "processing"]
  /\ lease'  = [lease  EXCEPT ![m] = "live"]
  /\ token'  = [token  EXCEPT ![m] = w]
  /\ UNCHANGED attempts

Lapsed(m) ==
  /\ lease[m] = "live"
  /\ lease' = [lease EXCEPT ![m] = "expired"]
  /\ UNCHANGED <<status, attempts, token>>

Left(w, m) ==
  /\ token[m] = w /\ status[m] = "processing"
  /\ \/ Release(m, "completed") /\ UNCHANGED attempts
     \/ /\ Release(m, "retry") \/ Release(m, "dead_letter")
        /\ attempts' = [attempts EXCEPT ![m] = attempts[m] + 1]
        /\ Release(m, "dead_letter") =>
             \/ run[w][m] = "updating" /\ attempts[m] + 1 = MaxAttempts
             \/ run[w][m] = "rejecting"

Revived(m) ==
  /\ status[m] \in {"retry", "dead_letter"}
  /\ Release(m, "queued")
  /\ attempts' = [attempts EXCEPT ![m] = 0]
  /\ revivals' = revivals + 1

RowStep ==
  \/ UNCHANGED rowVars
  \/ \E m \in Message : Accepted(m) \/ Lapsed(m) \/ Revived(m)
  \/ \E w \in Worker, m \in Message : Taken(w, m) \/ Left(w, m)

LEMMA EveryStepIsRowStep == IInv /\ [Next]_vars => RowStep
<1> SUFFICES ASSUME IInv, [Next]_vars PROVE RowStep
  OBVIOUS
<1>0. RowTypes /\ RowsOK /\ RunsOK /\ OrderOK
  BY DEF IInv
<1>1. ASSUME NEW w \in Worker, NEW m \in Message, Enqueue(w, m) PROVE RowStep
  <2>1. m > last
    BY <1>0, <1>1 DEF Enqueue, OrderOK, OrderTypes
  <2>2. status[m] = "absent"
    BY <1>0, <2>1 DEF RowsOK, RowOK
  <2>. QED BY <1>1, <2>2 DEF Enqueue, RowStep, Accepted
<1>2. ASSUME NEW w \in Worker, NEW m \in Message, ClaimRow(w, m) PROVE RowStep
  <2>1. status[m] \in {"queued", "retry", "processing"} /\ lease[m] # "live"
    BY <1>2 DEF ClaimRow, FirstRow, Claimable
  <2>2. Taken(w, m)
    BY <1>2, <2>1 DEF ClaimRow, Taken
  <2>. QED BY <2>2 DEF RowStep
<1>3. ASSUME NEW w \in Worker, NEW m \in Message, Complete(w, m) PROVE RowStep
  <2>1. UNCHANGED rowVars \/ Left(w, m)
    BY <1>3 DEF Complete, HoldsToken, Left, rowVars
  <2>. QED BY <2>1 DEF RowStep
<1>4. ASSUME NEW w \in Worker, NEW m \in Message, FailWrite(w, m) PROVE RowStep
  <2>1. CASE ~ HoldsToken(w, m)
    BY <1>4, <2>1 DEF FailWrite, RowStep
  <2>2. CASE HoldsToken(w, m)
    <3>1. /\ status[m] = "processing" /\ token[m] = w /\ run[w][m] = "updating"
          /\ seen[w][m] = attempts[m]
          /\ attempts[m] \in Nat /\ attempts[m] < MaxAttempts
      BY <1>0, <1>4, <2>2 DEF FailWrite, HoldsToken, RowTypes, RowsOK, RowOK, RunsOK, RunOK
    <3>2. /\ attempts' = [attempts EXCEPT ![m] = attempts[m] + 1]
          /\ \/ Release(m, "dead_letter") /\ attempts[m] + 1 >= MaxAttempts
             \/ Release(m, "retry") /\ ~ (attempts[m] + 1 >= MaxAttempts)
      BY <1>4, <2>2, <3>1 DEF FailWrite, Spent
    <3>3. Release(m, "dead_letter") => ~ Release(m, "retry")
      BY <1>0 DEF Release, RowTypes
    <3>4. Release(m, "dead_letter") => attempts[m] + 1 = MaxAttempts
      BY <3>1, <3>2, <3>3
    <3>5. Left(w, m)
      BY <3>1, <3>2, <3>4 DEF Left
    <3>. QED BY <3>5 DEF RowStep
  <2>. QED BY <2>1, <2>2
<1>5. ASSUME NEW w \in Worker, NEW m \in Message, Reject(w, m) PROVE RowStep
  <2>1. UNCHANGED rowVars \/ Left(w, m)
    BY <1>5 DEF Reject, HoldsToken, Left
  <2>. QED BY <2>1 DEF RowStep
<1>6. ASSUME NEW m \in Message, ExpireLease(m) PROVE RowStep
  BY <1>6 DEF ExpireLease, Lapsed, RowStep
<1>7. ASSUME NEW m \in Message, RetryInboundFailure(m) PROVE RowStep
  BY <1>7 DEF RetryInboundFailure, Revived, RowStep
<1>8. ASSUME NEW w \in Worker, EndBurst(w) \/ Poll(w) \/ Wake(w) \/ Start(w) \/ Stop(w)
      PROVE RowStep
  BY <1>8 DEF EndBurst, Poll, Wake, Start, Stop, RowStep
<1>9. ASSUME NEW w \in Worker, NEW m \in Message,
             \/ StartRun(w, m) \/ CompleteThrows(w, m) \/ FailRead(w, m)
             \/ \E p \in Phase : EndHandler(w, m, p)
      PROVE RowStep
  BY <1>9 DEF StartRun, CompleteThrows, FailRead, EndHandler, RowStep
<1>10. CASE Tick \/ Crash \/ UNCHANGED vars
  BY <1>10 DEF Tick, Crash, vars, RowStep
<1>. QED BY <1>1, <1>2, <1>3, <1>4, <1>5, <1>6, <1>7, <1>8, <1>9, <1>10
  DEF Next, WorkerStep, RunStep

\* A settled row stays as it is, but for an operator's retry of a dead one.
THEOREM SettledStaysFinal == Spec => SettledIsFinal
<1> DEFINE Final ==
  \A m \in Message :
    /\ status[m] = "completed" => status'[m] = "completed" /\ attempts'[m] = attempts[m]
    /\ status[m] = "dead_letter" /\ status'[m] # "dead_letter" => revivals' > revivals
<1>1. IInv /\ RowStep => Final
  <2> SUFFICES ASSUME IInv, RowStep, NEW x \in Message
               PROVE /\ status[x] = "completed" =>
                          status'[x] = "completed" /\ attempts'[x] = attempts[x]
                     /\ status[x] = "dead_letter" /\ status'[x] # "dead_letter"
                          => revivals' > revivals
    OBVIOUS
  <2>0. RowTypes /\ revivals \in Nat
    BY DEF IInv, BoundTypes
  <2>1. CASE UNCHANGED rowVars
    BY <2>1 DEF rowVars
  <2>2. ASSUME NEW m \in Message, Accepted(m) \/ Lapsed(m)
        PROVE  \/ status'[x] = status[x] /\ attempts'[x] = attempts[x]
               \/ status[x] = "absent"
    BY <2>0, <2>2 DEF Accepted, Lapsed, RowTypes
  <2>3. ASSUME NEW m \in Message, Revived(m)
        PROVE  \/ status'[x] = status[x] /\ attempts'[x] = attempts[x]
               \/ status[x] # "completed" /\ revivals' > revivals
    BY <2>0, <2>3 DEF Revived, Release, RowTypes
  <2>4. ASSUME NEW w \in Worker, NEW m \in Message, Taken(w, m) \/ Left(w, m)
        PROVE  \/ status'[x] = status[x] /\ attempts'[x] = attempts[x]
               \/ status[x] \in {"queued", "retry", "processing"}
    BY <2>0, <2>4 DEF Taken, Left, Release, RowTypes
  <2>. QED BY <2>1, <2>2, <2>3, <2>4 DEF RowStep
<1>2. IInv /\ [Next]_vars => [Final]_vars
  BY <1>1, EveryStepIsRowStep
<1>. QED BY <1>2, Invariance, PTL DEF Spec, SettledIsFinal

\* Only the run that holds the token gives a message up, after max_attempts
\* runs or a permanent error.
THEOREM DeadLettersAreEarned == Spec => DeadLetterEarned
<1> DEFINE Earned ==
  \A m \in Message :
    status[m] # "dead_letter" /\ status'[m] = "dead_letter"
      => /\ attempts'[m] = attempts[m] + 1
         /\ \E w \in Worker :
              /\ HoldsToken(w, m)
              /\ \/ run[w][m] = "updating" /\ attempts'[m] = MaxAttempts
                 \/ run[w][m] = "rejecting"
<1>1. IInv /\ RowStep => Earned
  <2> SUFFICES ASSUME IInv, RowStep, NEW x \in Message,
                      status[x] # "dead_letter", status'[x] = "dead_letter"
               PROVE  /\ attempts'[x] = attempts[x] + 1
                      /\ \E w \in Worker :
                           /\ HoldsToken(w, x)
                           /\ \/ run[w][x] = "updating" /\ attempts'[x] = MaxAttempts
                              \/ run[w][x] = "rejecting"
    OBVIOUS
  <2>0. RowTypes
    BY DEF IInv
  <2>1. PICK w \in Worker, m \in Message : Left(w, m)
    BY <2>0 DEF RowStep, rowVars, Accepted, Lapsed, Revived, Taken, Release, RowTypes
  <2>2. x = m /\ Release(m, "dead_letter")
    BY <2>0, <2>1 DEF Left, Release, RowTypes
  <2>3. /\ attempts' = [attempts EXCEPT ![m] = attempts[m] + 1]
        /\ token[m] = w
        /\ \/ run[w][m] = "updating" /\ attempts[m] + 1 = MaxAttempts
           \/ run[w][m] = "rejecting"
    BY <2>0, <2>1, <2>2 DEF Left, Release, RowTypes
  <2>4. attempts'[m] = attempts[m] + 1
    BY <2>0, <2>3 DEF RowTypes
  <2>. QED BY <2>2, <2>3, <2>4 DEF HoldsToken
<1>2. IInv /\ [Next]_vars => [Earned]_vars
  BY <1>1, EveryStepIsRowStep
<1>. QED BY <1>2, Invariance, PTL DEF Spec, DeadLetterEarned

-----------------------------------------------------------------------------
(* Refinement of LeasedQueue.                                              *)

\* What an item of the abstract queue is, in this state and in the next.
LEMMA AbsPhaseAt ==
  ASSUME NEW x \in Message
  PROVE  /\ AbsPhase[x] = CASE status[x] = "absent"      -> "absent"
                            [] status[x] = "completed"   -> "done"
                            [] status[x] = "dead_letter" -> "dead"
                            [] OTHER                     -> "pending"
         /\ AbsPhase'[x] = CASE status'[x] = "absent"      -> "absent"
                             [] status'[x] = "completed"   -> "done"
                             [] status'[x] = "dead_letter" -> "dead"
                             [] OTHER                     -> "pending"
         /\ AbsLapsed[x] = (lease[x] = "expired")
         /\ AbsLapsed'[x] = (lease'[x] = "expired")
BY DEF AbsPhase, AbsLapsed

\* The abstract change of one row, from the change of its columns.
LEMMA AbsChange ==
  ASSUME RowTypes, NEW m \in Message, NEW p, NEW b \in BOOLEAN,
         \A x \in Message : x # m => status'[x] = status[x] /\ lease'[x] = lease[x],
         AbsPhase'[m] = p, AbsLapsed'[m] = b
  PROVE  /\ AbsPhase'  = [AbsPhase  EXCEPT ![m] = p]
         /\ AbsLapsed' = [AbsLapsed EXCEPT ![m] = b]
<1>1. \A x \in Message : x # m => AbsPhase'[x] = AbsPhase[x] /\ AbsLapsed'[x] = AbsLapsed[x]
  BY AbsPhaseAt
<1>2. /\ AbsPhase = [x \in Message |-> AbsPhase[x]] /\ AbsPhase' = [x \in Message |-> AbsPhase'[x]]
      /\ AbsLapsed = [x \in Message |-> AbsLapsed[x]]
      /\ AbsLapsed' = [x \in Message |-> AbsLapsed'[x]]
  BY DEF AbsPhase, AbsLapsed
<1>. QED BY <1>1, <1>2

\* A row that keeps its abstract phase and lease is an unchanged item.
LEMMA AbsSame ==
  ASSUME NEW m \in Message,
         \A x \in Message : x # m => status'[x] = status[x] /\ lease'[x] = lease[x],
         AbsPhase'[m] = AbsPhase[m], AbsLapsed'[m] = AbsLapsed[m]
  PROVE  AbsPhase' = AbsPhase /\ AbsLapsed' = AbsLapsed
<1>1. \A x \in Message : AbsPhase'[x] = AbsPhase[x] /\ AbsLapsed'[x] = AbsLapsed[x]
  BY AbsPhaseAt
<1>2. /\ AbsPhase = [x \in Message |-> AbsPhase[x]] /\ AbsPhase' = [x \in Message |-> AbsPhase'[x]]
      /\ AbsLapsed = [x \in Message |-> AbsLapsed[x]]
      /\ AbsLapsed' = [x \in Message |-> AbsLapsed'[x]]
  BY DEF AbsPhase, AbsLapsed
<1>. QED BY <1>1, <1>2

LEMMA RefinesInit == Init => LQ!Init
<1> SUFFICES ASSUME Init PROVE LQ!Init
  OBVIOUS
<1>1. AbsPhase = [i \in Message |-> "absent"]
  BY DEF Init, AbsPhase
<1>2. AbsLapsed = [i \in Message |-> FALSE]
  BY DEF Init, AbsLapsed
<1>. QED BY <1>1, <1>2 DEF Init, LQ!Init

LEMMA RefinesStep == IInv /\ RowStep => [LQ!Next]_(LQ!qvars)
<1> SUFFICES ASSUME IInv, RowStep PROVE LQ!Next \/ UNCHANGED LQ!qvars
  OBVIOUS
<1>0. RowTypes /\ RowsOK
  BY DEF IInv
<1>1. CASE UNCHANGED rowVars
  BY <1>1 DEF rowVars, LQ!qvars, AbsPhase, AbsLapsed
<1>2. ASSUME NEW m \in Message, Accepted(m) PROVE LQ!Next
  <2>1. /\ status[m] = "absent" /\ status'[m] = "queued" /\ lease'[m] = lease[m]
        /\ \A x \in Message : x # m => status'[x] = status[x] /\ lease'[x] = lease[x]
        /\ token' = token
    BY <1>0, <1>2 DEF Accepted, RowTypes
  <2>2. AbsPhase[m] = "absent" /\ AbsPhase'[m] = "pending"
    BY <2>1, AbsPhaseAt
  <2>3. AbsLapsed'[m] = AbsLapsed[m] /\ AbsLapsed[m] \in BOOLEAN
    BY <2>1, AbsPhaseAt
  <2>4. AbsPhase' = [AbsPhase EXCEPT ![m] = "pending"] /\ AbsLapsed' = AbsLapsed
    <3>1. AbsLapsed = [AbsLapsed EXCEPT ![m] = AbsLapsed[m]]
      BY DEF AbsLapsed
    <3>. QED BY <1>0, <2>1, <2>2, <2>3, <3>1, AbsChange
  <2>5. LQ!Accept(m, "pending")
    BY <2>1, <2>2, <2>4 DEF LQ!Accept
  <2>. QED BY <2>5 DEF LQ!Next
<1>3. ASSUME NEW m \in Message, Lapsed(m) PROVE LQ!Next
  <2>1. /\ lease[m] = "live" /\ lease'[m] = "expired" /\ status' = status /\ token' = token
        /\ \A x \in Message : x # m => status'[x] = status[x] /\ lease'[x] = lease[x]
    BY <1>0, <1>3 DEF Lapsed, RowTypes
  <2>2. token[m] # None
    BY <1>0, <2>1 DEF RowsOK, RowOK
  <2>3. AbsPhase' = AbsPhase
    BY <2>1 DEF AbsPhase
  <2>4. AbsLapsed'[m] = TRUE
    BY <2>1, AbsPhaseAt
  <2>5. AbsLapsed' = [AbsLapsed EXCEPT ![m] = TRUE]
    BY <1>0, <2>1, <2>4, AbsChange
  <2>6. LQ!Lapse(m)
    BY <2>1, <2>2, <2>3, <2>5 DEF LQ!Lapse
  <2>. QED BY <2>6 DEF LQ!Next
<1>4. ASSUME NEW m \in Message, Revived(m) PROVE LQ!Next \/ UNCHANGED LQ!qvars
  <2>1. /\ status[m] \in {"retry", "dead_letter"} /\ status'[m] = "queued" /\ lease'[m] = "none"
        /\ token' = [token EXCEPT ![m] = None]
        /\ \A x \in Message : x # m => status'[x] = status[x] /\ lease'[x] = lease[x]
    BY <1>0, <1>4 DEF Revived, Release, RowTypes
  <2>2. token[m] = None /\ lease[m] = "none"
    BY <1>0, <2>1 DEF RowsOK, RowOK
  <2>3. token' = token
    BY <1>0, <2>1, <2>2 DEF RowTypes
  <2>4. AbsPhase'[m] = "pending" /\ AbsLapsed'[m] = FALSE /\ AbsLapsed[m] = FALSE
    BY <2>1, <2>2, AbsPhaseAt
  <2>5. CASE status[m] = "retry"
    <3>1. AbsPhase[m] = "pending"
      BY <2>5, AbsPhaseAt
    <3>2. AbsPhase' = AbsPhase /\ AbsLapsed' = AbsLapsed
      BY <2>1, <2>4, <3>1, AbsSame
    <3>. QED BY <2>3, <3>2 DEF LQ!qvars
  <2>6. CASE status[m] = "dead_letter"
    <3>1. AbsPhase[m] = "dead"
      BY <2>6, AbsPhaseAt
    <3>2. AbsPhase' = [AbsPhase EXCEPT ![m] = "pending"] /\ AbsLapsed' = [AbsLapsed EXCEPT ![m] = FALSE]
      BY <1>0, <2>1, <2>4, AbsChange
    <3>3. AbsLapsed = [AbsLapsed EXCEPT ![m] = FALSE]
      BY <2>4 DEF AbsLapsed
    <3>4. LQ!Revive(m)
      BY <2>3, <3>1, <3>2, <3>3 DEF LQ!Revive
    <3>. QED BY <3>4 DEF LQ!Next
  <2>. QED BY <2>1, <2>5, <2>6
<1>5. ASSUME NEW w \in Worker, NEW m \in Message, Taken(w, m) PROVE LQ!Next
  <2>1. /\ status[m] \in {"queued", "retry", "processing"} /\ status'[m] = "processing"
        /\ lease[m] # "live" /\ lease'[m] = "live"
        /\ token' = [token EXCEPT ![m] = w]
        /\ \A x \in Message : x # m => status'[x] = status[x] /\ lease'[x] = lease[x]
    BY <1>0, <1>5 DEF Taken, RowTypes
  <2>2. AbsPhase[m] = "pending" /\ AbsPhase'[m] = "pending" /\ AbsLapsed'[m] = FALSE
    BY <2>1, AbsPhaseAt
  <2>3. token[m] = None \/ AbsLapsed[m]
    BY <1>0, <2>1, AbsPhaseAt DEF RowTypes, RowsOK, RowOK
  <2>4. AbsPhase' = [AbsPhase EXCEPT ![m] = "pending"] /\ AbsLapsed' = [AbsLapsed EXCEPT ![m] = FALSE]
    BY <1>0, <2>1, <2>2, AbsChange
  <2>5. AbsPhase = [AbsPhase EXCEPT ![m] = "pending"]
    BY <2>2 DEF AbsPhase
  <2>6. LQ!Take(w, m)
    BY <2>1, <2>2, <2>3, <2>4, <2>5 DEF LQ!Take
  <2>. QED BY <2>6 DEF LQ!Next
<1>6. ASSUME NEW w \in Worker, NEW m \in Message, Left(w, m) PROVE LQ!Next
  <2>1. PICK s \in {"completed", "retry", "dead_letter"} : Release(m, s)
    BY <1>6 DEF Left
  <2>2. /\ token[m] = w /\ status'[m] = s /\ lease'[m] = "none"
        /\ token' = [token EXCEPT ![m] = None]
        /\ \A x \in Message : x # m => status'[x] = status[x] /\ lease'[x] = lease[x]
    BY <1>0, <1>6, <2>1 DEF Left, Release, RowTypes
  <2>3. PICK p \in {"pending", "done", "dead"} : AbsPhase'[m] = p
    BY <2>2, AbsPhaseAt
  <2>4. AbsLapsed'[m] = FALSE
    BY <2>2, AbsPhaseAt
  <2>5. AbsPhase' = [AbsPhase EXCEPT ![m] = p] /\ AbsLapsed' = [AbsLapsed EXCEPT ![m] = FALSE]
    BY <1>0, <2>2, <2>3, <2>4, AbsChange
  <2>6. LQ!Leave(w, m, p)
    BY <2>2, <2>5 DEF LQ!Leave
  <2>. QED BY <2>6 DEF LQ!Next
<1>. QED BY <1>1, <1>2, <1>3, <1>4, <1>5, <1>6 DEF RowStep

\* The queue with its columns, order and workers is a LeasedQueue.
THEOREM QueueImplementsLeasedQueue == Spec => ImplementsLeasedQueue
<1>1. IInv /\ [Next]_vars => [LQ!Next]_(LQ!qvars)
  BY RefinesStep, EveryStepIsRowStep
<1>. QED BY <1>1, RefinesInit, Invariance, PTL DEF Spec, ImplementsLeasedQueue, LQ!Spec

-----------------------------------------------------------------------------
(* What the workers do at once: the lease is a lock while it outlasts the  *)
(* handlers, and a worker keeps to its concurrency and to one message of a *)
(* customer at a time.                                                     *)


\* A run that no expired lease has disturbed holds a live lease.
LockOK(w, m) ==
  slow = 0 /\ run[w][m] # "none" => token[m] = w /\ lease[m] = "live"

Locks == \A w \in Worker, m \in Message : LockOK(w, m)

\* A step that starts no run and changes neither lease nor token.
LEMMA KeepsLocks ==
  ASSUME Locks, UNCHANGED <<lease, token, slow>>,
         \A w \in Worker, m \in Message : run'[w][m] # "none" => run[w][m] # "none"
  PROVE  Locks'
BY DEF Locks, LockOK

\* A step that ends the run of (w, m) and changes at most the lease of m.
LEMMA EndsRun ==
  ASSUME IInv, Locks, NEW w \in Worker, NEW m \in Message,
         run[w][m] # "none",
         EndRun(w, m), slow' = slow,
         \A x \in Message : x # m => token'[x] = token[x] /\ lease'[x] = lease[x],
         ~ HoldsToken(w, m) => token' = token /\ lease' = lease
  PROVE  Locks'
<1> SUFFICES ASSUME NEW v \in Worker, NEW x \in Message, slow = 0, run'[v][x] # "none"
             PROVE  token'[x] = v /\ lease'[x] = "live"
  BY DEF Locks, LockOK
<1>1. run'[v][x] = run[v][x] /\ ~ (v = w /\ x = m)
  BY DEF EndRun, IInv, WorkerTypes
<1>2. token[x] = v /\ lease[x] = "live"
  BY <1>1 DEF Locks, LockOK
<1>3. token[m] = w
  BY DEF Locks, LockOK
<1>4. x # m
  BY <1>1, <1>2, <1>3
<1>. QED BY <1>2, <1>4

LEMMA InitLocks == Init => Locks
BY DEF Init, Locks, LockOK

LEMMA NextLocks == IInv /\ Locks /\ [Next]_vars => Locks'
<1> SUFFICES ASSUME IInv, Locks, [Next]_vars PROVE Locks'
  OBVIOUS
<1>0. RowTypes /\ WorkerTypes /\ BoundTypes /\ RowsOK /\ RunsOK
  BY DEF IInv
<1>1. ASSUME NEW w \in Worker, NEW m \in Message, ClaimRow(w, m) PROVE Locks'
  <2>1. /\ lease[m] # "live"
        /\ lease'  = [lease  EXCEPT ![m] = "live"]
        /\ token'  = [token  EXCEPT ![m] = w]
        /\ run'    = [run    EXCEPT ![w][m] = "claimed"]
        /\ slow' = slow
    BY <1>1 DEF ClaimRow, FirstRow, Claimable, boundVars
  <2> SUFFICES ASSUME NEW v \in Worker, NEW x \in Message, slow = 0, run'[v][x] # "none"
               PROVE  token'[x] = v /\ lease'[x] = "live"
    BY <2>1 DEF Locks, LockOK
  <2>2. CASE x = m
    <3>1. run[v][m] = "none"
      BY <2>1 DEF Locks, LockOK
    <3>2. v = w
      BY <1>0, <2>1, <2>2, <3>1 DEF WorkerTypes
    <3>. QED BY <1>0, <2>1, <2>2, <3>2 DEF RowTypes
  <2>3. CASE x # m
    <3>1. run[v][x] # "none"
      BY <1>0, <2>1, <2>3 DEF WorkerTypes
    <3>. QED BY <1>0, <2>1, <2>3, <3>1 DEF RowTypes, Locks, LockOK
  <2>. QED BY <2>2, <2>3
<1>2. ASSUME NEW w \in Worker, NEW m \in Message, Complete(w, m) PROVE Locks'
  <2>1. run[w][m] # "none" /\ EndRun(w, m) /\ slow' = slow
    BY <1>2 DEF Complete, boundVars
  <2>2. \A x \in Message : x # m => token'[x] = token[x] /\ lease'[x] = lease[x]
    BY <1>0, <1>2 DEF Complete, Release, RowTypes
  <2>3. ~ HoldsToken(w, m) => token' = token /\ lease' = lease
    BY <1>2 DEF Complete
  <2>. QED BY <2>1, <2>2, <2>3, EndsRun
<1>3. ASSUME NEW w \in Worker, NEW m \in Message, Reject(w, m) PROVE Locks'
  <2>1. run[w][m] # "none" /\ EndRun(w, m) /\ slow' = slow
    BY <1>3 DEF Reject, boundVars
  <2>2. \A x \in Message : x # m => token'[x] = token[x] /\ lease'[x] = lease[x]
    BY <1>0, <1>3 DEF Reject, Release, RowTypes, rowVars
  <2>3. ~ HoldsToken(w, m) => token' = token /\ lease' = lease
    BY <1>3 DEF Reject, rowVars
  <2>. QED BY <2>1, <2>2, <2>3, EndsRun
<1>4. ASSUME NEW w \in Worker, NEW m \in Message, FailWrite(w, m) PROVE Locks'
  <2>1. run[w][m] # "none" /\ EndRun(w, m) /\ slow' = slow
    BY <1>4 DEF FailWrite, boundVars
  <2>2. \A x \in Message : x # m => token'[x] = token[x] /\ lease'[x] = lease[x]
    BY <1>0, <1>4 DEF FailWrite, Release, RowTypes, rowVars
  <2>3. ~ HoldsToken(w, m) => token' = token /\ lease' = lease
    BY <1>4 DEF FailWrite, rowVars
  <2>. QED BY <2>1, <2>2, <2>3, EndsRun
<1>5. ASSUME NEW w \in Worker, NEW m \in Message, FailRead(w, m) PROVE Locks'
  <2>1. UNCHANGED <<lease, token, slow>>
    BY <1>5 DEF FailRead, rowVars, boundVars
  <2>2. run[w][m] # "none"
    BY <1>5 DEF FailRead
  <2>3. \A v \in Worker, x \in Message : run'[v][x] # "none" => run[v][x] # "none"
    BY <1>0, <1>5, <2>2 DEF FailRead, EndRun, WorkerTypes
  <2>. QED BY <2>1, <2>3, KeepsLocks
<1>6. ASSUME NEW w \in Worker, NEW m \in Message,
             \/ StartRun(w, m) \/ CompleteThrows(w, m)
             \/ \E p \in Phase : EndHandler(w, m, p)
      PROVE Locks'
  <2>1. UNCHANGED <<lease, token, slow>>
    BY <1>6 DEF StartRun, CompleteThrows, EndHandler, rowVars, boundVars
  <2>2. run[w][m] # "none"
    BY <1>6 DEF StartRun, CompleteThrows, EndHandler
  <2>3. PICK p \in Phase : run' = [run EXCEPT ![w][m] = p]
    BY <1>6 DEF StartRun, CompleteThrows, EndHandler, Phase
  <2>4. \A v \in Worker, x \in Message : run'[v][x] # "none" => run[v][x] # "none"
    BY <1>0, <2>2, <2>3 DEF WorkerTypes
  <2>. QED BY <2>1, <2>4, KeepsLocks
<1>7. ASSUME NEW m \in Message, ExpireLease(m) PROVE Locks'
  <2>1. /\ lease' = [lease EXCEPT ![m] = "expired"]
        /\ token' = token /\ run' = run
    BY <1>7 DEF ExpireLease
  <2>2. CASE \E w \in Worker : HoldsToken(w, m) /\ run[w][m] # "none"
    <3>1. slow' # 0
      BY <1>0, <1>7, <2>2 DEF ExpireLease, BoundTypes
    <3>. QED BY <3>1 DEF Locks, LockOK
  <2>3. CASE ~ \E w \in Worker : HoldsToken(w, m) /\ run[w][m] # "none"
    <3>1. slow' = slow
      BY <1>7, <2>3 DEF ExpireLease
    <3>2. \A v \in Worker : slow = 0 => run[v][m] = "none"
      BY <2>3 DEF Locks, LockOK, HoldsToken
    <3>. QED BY <1>0, <2>1, <3>1, <3>2 DEF Locks, LockOK, RowTypes
  <2>. QED BY <2>2, <2>3
<1>8. ASSUME NEW m \in Message, RetryInboundFailure(m) PROVE Locks'
  <2>1. /\ status[m] \in {"retry", "dead_letter"}
        /\ lease' = [lease EXCEPT ![m] = "none"]
        /\ token' = [token EXCEPT ![m] = None]
        /\ UNCHANGED <<run, slow>>
    BY <1>8 DEF RetryInboundFailure, Release
  <2>2. token[m] = None /\ lease[m] = "none"
    BY <1>0, <2>1 DEF RowsOK, RowOK
  <2>3. token' = token /\ lease' = lease
    BY <1>0, <2>1, <2>2 DEF RowTypes
  <2>. QED BY <2>1, <2>3, KeepsLocks
<1>9. ASSUME NEW w \in Worker,
             \/ EndBurst(w) \/ Poll(w) \/ Wake(w) \/ Start(w) \/ Stop(w)
             \/ \E m \in Message : Enqueue(w, m)
      PROVE Locks'
  <2>1. UNCHANGED <<lease, token, slow, run>>
    BY <1>9 DEF EndBurst, Poll, Wake, Start, Stop, Enqueue, rowVars, boundVars
  <2>. QED BY <2>1, KeepsLocks
<1>10. CASE Tick \/ UNCHANGED vars
  <2>1. UNCHANGED <<lease, token, slow, run>>
    BY <1>10 DEF Tick, vars, rowVars, boundVars
  <2>. QED BY <2>1, KeepsLocks
<1>11. CASE Crash
  <2>1. UNCHANGED <<lease, token, slow>>
    BY <1>11 DEF Crash, rowVars
  <2>2. \A v \in Worker, x \in Message : run'[v][x] = "none"
    BY <1>11 DEF Crash
  <2>. QED BY <2>1, <2>2, KeepsLocks
<1>. QED BY <1>1, <1>2, <1>3, <1>4, <1>5, <1>6, <1>7, <1>8, <1>9, <1>10, <1>11
  DEF Next, WorkerStep, RunStep

\* While no lease has expired under a running handler, a message is in one
\* run at a time, and that run holds the token of its row.
THEOREM LeaseIsALock == Spec => []LeaseIsLock
<1>1. IInv /\ Locks => LeaseIsLock
  <2> SUFFICES ASSUME IInv, Locks, slow = 0, NEW m \in Message, NEW w \in Worker,
                      m \in Running(w)
               PROVE  /\ HoldsToken(w, m) /\ status[m] = "processing"
                      /\ \A v \in Worker : m \in Running(v) => v = w
    BY DEF LeaseIsLock
  <2>1. token[m] = w
    BY DEF Locks, LockOK, Running
  <2>2. status[m] = "processing"
    BY <2>1 DEF IInv, RowsOK, RowOK
  <2>3. \A v \in Worker : m \in Running(v) => token[m] = v
    BY DEF Locks, LockOK, Running
  <2>. QED BY <2>1, <2>2, <2>3 DEF HoldsToken
<1>. QED BY <1>1, InitLocks, NextLocks, Invariance, PTL DEF Spec

-----------------------------------------------------------------------------
(* The loop of one worker.                                                 *)

Discipline(w) ==
  /\ Cardinality(Running(w)) <= Concurrency
  /\ \A m1, m2 \in Running(w) : JidOf[m1] = JidOf[m2] => m1 = m2

\* A worker runs finitely many messages.
LEMMA RunningFinite ==
  ASSUME NEW w \in Worker
  PROVE  IsFiniteSet(Running(w)) /\ Cardinality(Running(w)) \in Nat
<1>1. IsFiniteSet(Message)
  BY FS_Interval DEF Message
<1>2. Running(w) \subseteq Message
  BY DEF Running
<1>. QED BY <1>1, <1>2, FS_Subset, FS_CardinalityType

\* Ending runs does not break the discipline.
LEMMA FewerRuns ==
  ASSUME NEW w \in Worker, Discipline(w), Running(w)' \subseteq Running(w)
  PROVE  Discipline(w)'
<1>1. /\ Cardinality(Running(w)') <= Cardinality(Running(w))
      /\ Cardinality(Running(w)') \in Nat
      /\ Cardinality(Running(w)) \in Nat
  BY RunningFinite, FS_Subset, FS_CardinalityType
<1>2. Cardinality(Running(w)') <= Concurrency
  BY <1>1 DEF Discipline
<1>3. \A m1, m2 \in Running(w)' : JidOf[m1] = JidOf[m2] => m1 = m2
  BY DEF Discipline
<1>. QED BY <1>2, <1>3 DEF Discipline

\* The claim counts every run of its worker and excludes their customers.
LEMMA ClaimKeepsDiscipline ==
  ASSUME IInv, NEW w \in Worker, NEW m \in Message, ClaimRow(w, m), Discipline(w)
  PROVE  Discipline(w)'
<1>1. Active(w) = Running(w)
  BY DEF ClaimRow, InBurst, Active, Running
<1>2. Cardinality(Running(w)) < Concurrency /\ JidOf[m] \notin {JidOf[x] : x \in Running(w)}
  BY <1>1 DEF ClaimRow, FirstRow, Claimable, ActiveJids
<1>3. run' = [run EXCEPT ![w][m] = "claimed"]
  BY DEF ClaimRow
<1>4. Running(w)' = Running(w) \cup {m}
  BY <1>3 DEF Running, IInv, WorkerTypes
<1>5. m \notin Running(w)
  BY <1>2
<1>6. Cardinality(Running(w)') = Cardinality(Running(w)) + 1
  BY <1>4, <1>5, RunningFinite, FS_AddElement
<1>7. Cardinality(Running(w)') <= Concurrency
  BY <1>2, <1>6, RunningFinite
<1>8. \A m1, m2 \in Running(w)' : JidOf[m1] = JidOf[m2] => m1 = m2
  BY <1>2, <1>4 DEF Discipline
<1>. QED BY <1>7, <1>8 DEF Discipline

\* Every other step starts no run.
LEMMA OtherStepsStartNoRun ==
  ASSUME IInv, [Next]_vars, NEW w \in Worker,
         ~ \E m \in Message : ClaimRow(w, m)
  PROVE  Running(w)' \subseteq Running(w)
<1> SUFFICES ASSUME NEW x \in Message, run'[w][x] # "none" PROVE run[w][x] # "none"
  BY DEF Running
<1>0. WorkerTypes
  BY DEF IInv
<1>1. ASSUME NEW v \in Worker, NEW m \in Message, ClaimRow(v, m) PROVE run[w][x] # "none"
  <2>1. v # w /\ run' = [run EXCEPT ![v][m] = "claimed"]
    BY <1>1 DEF ClaimRow
  <2>. QED BY <1>0, <2>1 DEF WorkerTypes
<1>2. ASSUME NEW v \in Worker, NEW m \in Message, StartRun(v, m) \/ RunStep(v, m)
      PROVE run[w][x] # "none"
  <2>1. run[v][m] # "none"
    BY <1>2 DEF StartRun, RunStep, EndHandler, Complete, CompleteThrows, FailRead, FailWrite, Reject
  <2>2. PICK p \in Phase : run' = [run EXCEPT ![v][m] = p]
    <3>1. CASE ~ FailRead(v, m)
      BY <1>2, <3>1 DEF StartRun, RunStep, EndHandler, Complete, CompleteThrows, FailWrite,
                        Reject, EndRun, Phase
    <3>2. CASE FailRead(v, m)
      BY <3>2 DEF FailRead, EndRun, Phase
    <3>. QED BY <3>1, <3>2
  <2>. QED BY <1>0, <2>1, <2>2 DEF WorkerTypes
<1>3. ASSUME NEW v \in Worker,
             \/ EndBurst(v) \/ Poll(v) \/ Wake(v) \/ Start(v) \/ Stop(v)
             \/ \E m \in Message : Enqueue(v, m)
      PROVE run[w][x] # "none"
  BY <1>3 DEF EndBurst, Poll, Wake, Start, Stop, Enqueue
<1>4. ASSUME NEW m \in Message, ExpireLease(m) \/ RetryInboundFailure(m)
      PROVE run[w][x] # "none"
  BY <1>4 DEF ExpireLease, RetryInboundFailure
<1>5. CASE Tick \/ UNCHANGED vars
  BY <1>5 DEF Tick, vars
<1>6. CASE Crash
  BY <1>6 DEF Crash
<1>. QED BY <1>1, <1>2, <1>3, <1>4, <1>5, <1>6 DEF Next, WorkerStep

\* A worker never exceeds its concurrency and never runs two messages of one
\* customer at once.
THEOREM WorkersAreDisciplined == Spec => []WorkerDiscipline
<1>1. Init => WorkerDiscipline
  <2> SUFFICES ASSUME Init, NEW w \in Worker PROVE Discipline(w)
    BY DEF WorkerDiscipline, Discipline
  <2>1. Running(w) = {}
    BY DEF Init, Running
  <2>. QED BY <2>1, FS_EmptySet DEF Discipline
<1>2. IInv /\ WorkerDiscipline /\ [Next]_vars => WorkerDiscipline'
  <2> SUFFICES ASSUME IInv, WorkerDiscipline, [Next]_vars, NEW w \in Worker
               PROVE  Discipline(w)'
    BY DEF WorkerDiscipline, Discipline
  <2>1. Discipline(w)
    BY DEF WorkerDiscipline, Discipline
  <2>2. CASE \E m \in Message : ClaimRow(w, m)
    BY <2>1, <2>2, ClaimKeepsDiscipline
  <2>3. CASE ~ \E m \in Message : ClaimRow(w, m)
    BY <2>1, <2>3, OtherStepsStartNoRun, FewerRuns
  <2>. QED BY <2>2, <2>3
<1>. QED BY <1>1, <1>2, Invariance, PTL DEF Spec

\* Leases, tokens and the limits of a worker together keep claims apart.
THEOREM ClaimsAlwaysExclude == Spec => []ClaimsExclude
BY LeaseIsALock, SeenStaysCurrent, WorkersAreDisciplined, PTL DEF ClaimsExclude

\* Attempts are counted, and what is settled is settled once.
THEOREM MessagesSettleOnce == Spec => SettledOnce
BY BudgetHolds, SettledStaysFinal, DeadLettersAreEarned DEF SettledOnce

-----------------------------------------------------------------------------
(* The order in which the messages of a customer are handled.              *)

\* Nothing has disturbed the order so far: one worker at most, no socket
\* closed, no death, no retry by an operator.
Undisturbed ==
  /\ disruptions = 0 /\ revivals = 0
  /\ \A v, w \in Worker : loop[v] # "off" /\ loop[w] # "off" => v = w

\* A worker that was never started runs nothing.
OffIsQuiet == \A w \in Worker, m \in Message : run[w][m] # "none" => loop[w] # "off"

\* The row of a run is its worker's until the run ends, also after the lease
\* has expired, and only a run keeps a row in progress.
RunsHold ==
  /\ \A w \in Worker, m \in Message : run[w][m] # "none" => token[m] = w
  /\ \A m \in Message : status[m] = "processing" => \E w \in Worker : run[w][m] # "none"

\* available_at orders the rows; those with the textual default come first,
\* and their time has come.
RanksDiffer ==
  /\ \A x, y \in Message : rank[x] = rank[y] => x = y
  /\ fresh <= due

\* A row whose first run has not ended.
Pristine(m) == m <= last /\ attempts[m] = 0 /\ status[m] \notin {"completed", "dead_letter"}
\* Where the rows wait whose available_at nothing has rewritten.
Front == IF TextClock THEN fresh ELSE due

\* Pristine rows are ordered by arrival, and a customer's later rows wait.
ArrivalOrder ==
  /\ \A m \in Message : Pristine(m) => rank[m] <= Front
  /\ \A x, y \in Message : Pristine(x) /\ Pristine(y) /\ x < y => rank[x] < rank[y]
  /\ \A x, y \in Message :
       Pristine(x) /\ x < y /\ JidOf[x] = JidOf[y] => status[y] \in {"absent", "queued"} /\ attempts[y] = 0

FifoInv == OffIsQuiet /\ RanksDiffer /\ (Undisturbed => RunsHold /\ ArrivalOrder)

-----------------------------------------------------------------------------
\* Moving a row keeps the order of the others.
LEMMA RepositionKeepsOrder ==
  ASSUME OrderOK, RanksDiffer, NEW m \in Message, NEW k \in Nat
  PROVE  /\ \A x, y \in Message : Reposition(m, k)[x] = Reposition(m, k)[y] => x = y
         /\ \A x, y \in Message : x # m /\ y # m /\ rank[x] < rank[y] => Reposition(m, k)[x] < Reposition(m, k)[y]
<1>1. \A x \in Message :
        Reposition(m, k)[x] =
          IF x = m THEN k
          ELSE IF rank[m] < rank[x] /\ rank[x] <= k THEN rank[x] - 1
          ELSE IF k <= rank[x] /\ rank[x] < rank[m] THEN rank[x] + 1
          ELSE rank[x]
  BY DEF Reposition
<1>2. \A x \in Message : rank[x] \in Nat /\ (rank[x] = rank[m] => x = m)
  BY DEF OrderOK, OrderTypes, RanksDiffer
<1>3. ASSUME NEW x \in Message, NEW y \in Message, x # m, y # m, rank[x] < rank[y]
      PROVE  Reposition(m, k)[x] < Reposition(m, k)[y]
  BY <1>1, <1>2, <1>3
<1>4. ASSUME NEW x \in Message, x # m PROVE Reposition(m, k)[x] # k /\ Reposition(m, k)[m] = k
  BY <1>1, <1>2, <1>4
<1>5. ASSUME NEW x \in Message, NEW y \in Message, Reposition(m, k)[x] = Reposition(m, k)[y], x # m, y # m
      PROVE  x = y
  <2>1. Reposition(m, k)[x] \in Nat /\ Reposition(m, k)[y] \in Nat
    BY <1>1, <1>2, <1>5
  <2>2. ~ (rank[x] < rank[y]) /\ ~ (rank[y] < rank[x])
    BY <1>3, <1>5, <2>1
  <2>. QED BY <1>2, <2>2 DEF RanksDiffer
<1>. QED BY <1>3, <1>4, <1>5

\* The end of a run that failed, or a retry, moves one row behind the front.
Moved(m) == m <= last /\ (DueNow(m) \/ DueLater(m))

LEMMA MovedKeepsFront ==
  ASSUME OrderOK, RanksDiffer, NEW m \in Message, Moved(m)
  PROVE  /\ RanksDiffer'
         /\ \A x, y \in Message : x # m /\ y # m /\ rank[x] < rank[y] => rank'[x] < rank'[y]
         /\ \A x \in Message : x # m /\ rank[x] <= Front => rank'[x] <= Front'
         /\ last' = last
<1>1. /\ last \in Nat /\ due \in Nat /\ due <= last /\ fresh \in Nat /\ fresh <= due
      /\ rank[m] \in Nat /\ rank[m] >= 1 /\ rank[m] <= last
  BY DEF OrderOK, OrderTypes, Moved, RanksDiffer
<1>2. PICK k \in Nat : /\ Reschedule(m, k)
                       /\ rank[m] <= due => k >= due /\ due' \in {due - 1, due}
                       /\ rank[m] > due => k >= due + 1 /\ due' \in {due, due + 1}
  <2>1. CASE DueNow(m)
    <3>1. CASE rank[m] <= due
      BY <1>1, <2>1, <3>1 DEF DueNow
    <3>2. CASE ~ (rank[m] <= due)
      <4>1. Reschedule(m, due + 1) /\ due' = due + 1 /\ due + 1 \in Nat
        BY <1>1, <2>1, <3>2 DEF DueNow
      <4>. QED BY <1>1, <3>2, <4>1
    <3>. QED BY <3>1, <3>2
  <2>2. CASE DueLater(m)
    <3>1. CASE rank[m] <= due
      <4>1. (\E k \in (due - 1 + 1)..last : Reschedule(m, k)) /\ due' = due - 1
        BY <2>2, <3>1 DEF DueLater
      <4>. QED BY <1>1, <3>1, <4>1
    <3>2. CASE ~ (rank[m] <= due)
      <4>1. (\E k \in (due + 1)..last : Reschedule(m, k)) /\ due' = due
        BY <2>2, <3>2 DEF DueLater
      <4>. QED BY <1>1, <3>2, <4>1
    <3>. QED BY <3>1, <3>2
  <2>. QED BY <2>1, <2>2 DEF Moved
<1>3. /\ rank' = Reposition(m, k) /\ last' = last
      /\ fresh' = IF rank[m] <= fresh THEN fresh - 1 ELSE fresh
  BY <1>2 DEF Reschedule
<1>4. fresh' <= due'
  BY <1>1, <1>2, <1>3
<1>5. RanksDiffer'
  BY <1>3, <1>4, RepositionKeepsOrder DEF RanksDiffer
<1>6. ASSUME NEW x \in Message, x # m, rank[x] <= Front PROVE rank'[x] <= Front'
  <2>1. rank'[x] = IF rank[m] < rank[x] /\ rank[x] <= k THEN rank[x] - 1
                   ELSE IF k <= rank[x] /\ rank[x] < rank[m] THEN rank[x] + 1
                   ELSE rank[x]
    BY <1>3, <1>6 DEF Reposition
  <2>2. rank[x] \in Nat /\ rank[x] # rank[m]
    BY <1>6 DEF OrderOK, OrderTypes, RanksDiffer
  <2>3. CASE TextClock
    <3>1. rank[x] <= fresh /\ Front' = fresh'
      BY <1>6, <2>3 DEF Front
    <3>. QED BY <1>1, <1>2, <1>3, <2>1, <2>2, <3>1
  <2>4. CASE ~ TextClock
    <3>1. rank[x] <= due /\ Front' = due'
      BY <1>6, <2>4 DEF Front
    <3>2. CASE rank[m] <= due
      <4>1. k >= due /\ due' \in {due - 1, due}
        BY <1>2, <3>2
      <4>. QED BY <1>1, <1>2, <2>1, <2>2, <3>1, <4>1
    <3>3. CASE ~ (rank[m] <= due)
      <4>1. k >= due + 1 /\ due' \in {due, due + 1}
        BY <1>1, <1>2, <3>3
      <4>. QED BY <1>1, <1>2, <2>1, <2>2, <3>1, <3>3, <4>1
    <3>. QED BY <3>2, <3>3
  <2>. QED BY <2>3, <2>4
<1>. QED BY <1>3, <1>5, <1>6, RepositionKeepsOrder

\* A new row comes behind the front, which moves up by one.
LEMMA EnqueueAtFront ==
  ASSUME OrderOK, RanksDiffer, NEW w \in Worker, NEW m \in Message, Enqueue(w, m)
  PROVE  /\ RanksDiffer'
         /\ \A x, y \in Message : x # m /\ y # m /\ rank[x] < rank[y] => rank'[x] < rank'[y]
         /\ \A x \in Message : x # m /\ rank[x] <= Front => rank'[x] < rank'[m]
         /\ rank'[m] = Front'
<1>1. /\ last \in Nat /\ due \in Nat /\ due <= last /\ fresh \in Nat /\ fresh <= due
      /\ Front \in Nat /\ Front <= last
  BY DEF OrderOK, OrderTypes, RanksDiffer, Front
<1>2. /\ m = last + 1 /\ rank' = Reposition(m, Front + 1) /\ Front' = Front + 1
      /\ due' = due + 1 /\ fresh' \in {fresh, fresh + 1}
  <2>1. CASE TextClock
    BY <2>1 DEF Enqueue, Front
  <2>2. CASE ~ TextClock
    BY <2>2 DEF Enqueue, Front
  <2>. QED BY <2>1, <2>2
<1>3. rank[m] = m /\ \A x \in Message : rank[x] \in Nat
  BY <1>1, <1>2 DEF OrderOK, OrderTypes
<1>4. RanksDiffer'
  BY <1>1, <1>2, RepositionKeepsOrder DEF RanksDiffer
<1>5. rank'[m] = Front + 1
  BY <1>2 DEF Reposition
<1>6. ASSUME NEW x \in Message, x # m, rank[x] <= Front PROVE rank'[x] = rank[x]
  BY <1>1, <1>2, <1>3, <1>6 DEF Reposition
<1>7. \A x, y \in Message : x # m /\ y # m /\ rank[x] < rank[y] => rank'[x] < rank'[y]
  BY <1>1, <1>2, RepositionKeepsOrder
<1>. QED BY <1>1, <1>2, <1>3, <1>4, <1>5, <1>6, <1>7

-----------------------------------------------------------------------------
\* What a step does to the order: it leaves it alone, lets time pass, inserts
\* a row, or moves one whose run has failed or which an operator retries.
LEMMA OrderSteps ==
  ASSUME IInv, [Next]_vars
  PROVE  \/ UNCHANGED orderVars
         \/ Tick
         \/ \E w \in Worker, m \in Message : Enqueue(w, m)
         \/ \E w \in Worker, m \in Message : FailWrite(w, m) /\ HoldsToken(w, m) /\ Moved(m)
         \/ \E m \in Message : RetryInboundFailure(m) /\ Moved(m)
<1>0. \A m \in Message : m \in Nat /\ last \in Nat /\ (status[m] # "absent" <=> m <= last)
  BY DEF IInv, OrderOK, OrderTypes, RowsOK, RowOK, Message
<1>1. ASSUME NEW w \in Worker, NEW m \in Message, FailWrite(w, m)
      PROVE  UNCHANGED orderVars \/ (FailWrite(w, m) /\ HoldsToken(w, m) /\ Moved(m))
  <2>1. CASE HoldsToken(w, m)
    <3>1. status[m] = "processing"
      BY <2>1 DEF IInv, RowsOK, RowOK, HoldsToken
    <3>. QED BY <1>0, <1>1, <2>1, <3>1 DEF FailWrite, Moved
  <2>2. CASE ~ HoldsToken(w, m)
    BY <1>1, <2>2 DEF FailWrite
  <2>. QED BY <2>1, <2>2
<1>2. ASSUME NEW m \in Message, RetryInboundFailure(m) PROVE Moved(m)
  BY <1>0, <1>2 DEF RetryInboundFailure, Moved
<1>3. ASSUME NEW w \in Worker, NEW m \in Message,
             \/ ClaimRow(w, m) \/ StartRun(w, m) \/ Complete(w, m) \/ CompleteThrows(w, m)
             \/ FailRead(w, m) \/ Reject(w, m) \/ \E p \in Phase : EndHandler(w, m, p)
      PROVE  UNCHANGED orderVars
  BY <1>3 DEF ClaimRow, StartRun, Complete, CompleteThrows, FailRead, Reject, EndHandler
<1>4. ASSUME NEW w \in Worker, EndBurst(w) \/ Poll(w) \/ Wake(w) \/ Start(w) \/ Stop(w)
      PROVE  UNCHANGED orderVars
  BY <1>4 DEF EndBurst, Poll, Wake, Start, Stop
<1>5. ASSUME NEW m \in Message, ExpireLease(m) PROVE UNCHANGED orderVars
  BY <1>5 DEF ExpireLease
<1>6. Crash \/ UNCHANGED vars => UNCHANGED orderVars
  BY DEF Crash, vars
<1>. QED BY <1>1, <1>2, <1>3, <1>4, <1>5, <1>6 DEF Next, WorkerStep, RunStep

LEMMA NextRanksDiffer ==
  ASSUME IInv, RanksDiffer, [Next]_vars
  PROVE  RanksDiffer'
<1>1. CASE UNCHANGED orderVars
  BY <1>1 DEF RanksDiffer, orderVars
<1>2. CASE Tick
  BY <1>2 DEF Tick, RanksDiffer, IInv, OrderOK, OrderTypes
<1>. QED BY <1>1, <1>2, OrderSteps, EnqueueAtFront, MovedKeepsFront DEF IInv

\* A worker is off until it is started, and after a crash.
LEMMA NextOffIsQuiet ==
  ASSUME IInv, OffIsQuiet, [Next]_vars
  PROVE  OffIsQuiet'
<1>1. ASSUME NEW v \in Worker PROVE loop[v] # "off" => loop'[v] # "off" \/ Crash
  BY DEF Next, WorkerStep, RunStep, Tick, Enqueue, EndBurst, Poll, Wake, ClaimRow, StartRun, EndHandler, Complete,
         CompleteThrows, FailRead, FailWrite, Reject, ExpireLease, Start, Stop, RetryInboundFailure, vars,
         IInv, WorkerTypes
<1>2. CASE Crash
  BY <1>2 DEF Crash, OffIsQuiet
<1>3. ASSUME NEW v \in Worker, NEW x \in Message, run'[v][x] # "none", ~ Crash PROVE loop'[v] # "off"
  <2>1. CASE \E m \in Message : ClaimRow(v, m)
    BY <2>1 DEF ClaimRow, InBurst
  <2>2. CASE ~ \E m \in Message : ClaimRow(v, m)
    <3>1. run[v][x] # "none"
      BY <1>3, <2>2, OtherStepsStartNoRun DEF Running
    <3>. QED BY <1>1, <1>3, <3>1 DEF OffIsQuiet
  <2>. QED BY <2>1, <2>2
<1>. QED BY <1>2, <1>3 DEF OffIsQuiet

\* Once disturbed, always: workers go off in a crash only.
LEMMA StaysUndisturbed ==
  ASSUME IInv, [Next]_vars, Undisturbed'
  PROVE  Undisturbed /\ disruptions' = disruptions /\ revivals' = revivals
<1>1. /\ disruptions \in Nat /\ revivals \in Nat
      /\ loop \in [Worker -> {"off", "idle", "claiming", "sleeping"}]
  BY DEF IInv, BoundTypes, WorkerTypes
<1>2. /\ disruptions' \in {disruptions, disruptions + 1} /\ revivals' \in {revivals, revivals + 1}
      /\ disruptions' = disruptions => \A w \in Worker : loop[w] # "off" => loop'[w] # "off"
  BY <1>1 DEF Next, WorkerStep, RunStep, Tick, Enqueue, EndBurst, Poll, Wake, ClaimRow, StartRun, EndHandler, Complete,
         CompleteThrows, FailRead, FailWrite, Reject, ExpireLease, Start, Stop, RetryInboundFailure, Crash, vars, boundVars
<1>. QED BY <1>1, <1>2 DEF Undisturbed

-----------------------------------------------------------------------------
\* A run ends with its row let go, or goes on with its row as it is.
LEMMA NextRunsHold ==
  ASSUME IInv, OffIsQuiet, Undisturbed, RunsHold, [Next]_vars, Undisturbed'
  PROVE  RunsHold'
<1>0. /\ RowTypes /\ WorkerTypes /\ RowsOK
      /\ disruptions' = disruptions /\ revivals' = revivals /\ disruptions \in Nat /\ revivals \in Nat
  BY StaysUndisturbed DEF IInv, BoundTypes
<1>1. ASSUME NEW w \in Worker, NEW m \in Message, ClaimRow(w, m) PROVE RunsHold'
  <2>1. /\ status' = [status EXCEPT ![m] = "processing"]
        /\ token'  = [token  EXCEPT ![m] = w]
        /\ run'    = [run    EXCEPT ![w][m] = "claimed"]
        /\ loop[w] = "claiming"
    BY <1>1 DEF ClaimRow, InBurst
  <2>2. \A v \in Worker, x \in Message : run[v][x] # "none" => v = w
    BY <2>1 DEF OffIsQuiet, Undisturbed
  <2>3. ASSUME NEW v \in Worker, NEW x \in Message, run'[v][x] # "none" PROVE token'[x] = v
    BY <1>0, <2>1, <2>2, <2>3 DEF RunsHold, RowTypes, WorkerTypes
  <2>4. ASSUME NEW x \in Message, status'[x] = "processing" PROVE \E v \in Worker : run'[v][x] # "none"
    <3>1. CASE x = m
      BY <1>0, <2>1, <3>1 DEF WorkerTypes
    <3>2. CASE x # m
      <4>1. status[x] = "processing" /\ \A v \in Worker : run'[v][x] = run[v][x]
        BY <1>0, <2>1, <2>4, <3>2 DEF RowTypes, WorkerTypes
      <4>. QED BY <4>1 DEF RunsHold
    <3>. QED BY <3>1, <3>2
  <2>. QED BY <2>3, <2>4 DEF RunsHold
<1>2. ASSUME NEW w \in Worker, NEW m \in Message,
             Complete(w, m) \/ FailWrite(w, m) \/ Reject(w, m)
      PROVE  RunsHold'
  <2>1. HoldsToken(w, m) /\ run[w][m] # "none" /\ run' = [run EXCEPT ![w][m] = "none"]
    BY <1>2 DEF RunsHold, HoldsToken, Complete, FailWrite, Reject, EndRun
  <2>2. status[m] = "processing"
    BY <1>0, <2>1 DEF HoldsToken, RowsOK, RowOK
  <2>3. PICK s \in {"completed", "retry", "dead_letter"} : Release(m, s)
    BY <1>2, <2>1, <2>2 DEF Complete, FailWrite, Reject, Spent
  <2>4. \A v \in Worker : v # w => run[v][m] = "none"
    BY <2>1 DEF RunsHold, HoldsToken
  <2>5. ASSUME NEW v \in Worker, NEW x \in Message, run'[v][x] # "none" PROVE token'[x] = v
    <3>1. x # m /\ run[v][x] # "none"
      BY <1>0, <2>1, <2>4, <2>5 DEF WorkerTypes
    <3>. QED BY <1>0, <2>3, <3>1 DEF RunsHold, Release, RowTypes
  <2>6. ASSUME NEW x \in Message, status'[x] = "processing" PROVE \E v \in Worker : run'[v][x] # "none"
    <3>1. x # m /\ status[x] = "processing"
      BY <1>0, <2>3, <2>6 DEF Release, RowTypes
    <3>2. \A v \in Worker : run'[v][x] = run[v][x]
      BY <1>0, <2>1, <3>1 DEF WorkerTypes
    <3>. QED BY <3>1, <3>2 DEF RunsHold
  <2>. QED BY <2>5, <2>6 DEF RunsHold
<1>3. ASSUME NEW w \in Worker, NEW m \in Message,
             \/ StartRun(w, m) \/ CompleteThrows(w, m) \/ FailRead(w, m)
             \/ \E p \in Phase : EndHandler(w, m, p)
      PROVE  RunsHold'
  <2>1. UNCHANGED rowVars /\ run[w][m] # "none"
    BY <1>3 DEF StartRun, CompleteThrows, FailRead, EndHandler
  <2>2. token[m] = w
    BY <2>1 DEF RunsHold
  <2>3. PICK p \in Phase \ {"none"} : run' = [run EXCEPT ![w][m] = p]
    BY <1>3, <2>2 DEF StartRun, CompleteThrows, FailRead, EndHandler, HoldsToken, Phase
  <2>4. \A v \in Worker, x \in Message : run'[v][x] # "none" <=> run[v][x] # "none"
    BY <1>0, <2>1, <2>3 DEF WorkerTypes
  <2>. QED BY <2>1, <2>4 DEF RunsHold, rowVars
<1>4. ASSUME NEW w \in Worker, NEW m \in Message, Enqueue(w, m) PROVE RunsHold'
  <2>1. status' = [status EXCEPT ![m] = "queued"] /\ UNCHANGED <<token, run>>
    BY <1>4 DEF Enqueue
  <2>. QED BY <1>0, <2>1 DEF RunsHold, RowTypes
<1>5. ASSUME NEW w \in Worker, EndBurst(w) \/ Poll(w) \/ Wake(w) \/ Start(w) \/ Stop(w) PROVE RunsHold'
  BY <1>5 DEF EndBurst, Poll, Wake, Start, Stop, RunsHold, rowVars
<1>6. ASSUME NEW m \in Message, ExpireLease(m) PROVE RunsHold'
  BY <1>6 DEF ExpireLease, RunsHold
<1>7. ~ Crash /\ \A m \in Message : ~ RetryInboundFailure(m)
  BY <1>0 DEF Crash, RetryInboundFailure
<1>8. CASE Tick \/ UNCHANGED vars
  BY <1>8 DEF Tick, vars, rowVars, RunsHold
<1>. QED BY <1>1, <1>2, <1>3, <1>4, <1>5, <1>6, <1>7, <1>8 DEF Next, WorkerStep, RunStep

\* A step after which no more rows are pristine than before, in the order in
\* which they were, and no later row has been touched.
LEMMA KeepsArrivalOrder ==
  ASSUME ArrivalOrder, UNCHANGED <<last, rank>>, Front <= Front', Front \in Nat, Front' \in Nat,
         rank \in [Message -> Nat],
         \A x \in Message : Pristine(x)' => Pristine(x),
         \A x, y \in Message : Pristine(x)' /\ x < y /\ JidOf[x] = JidOf[y]
                               => status'[y] = status[y] /\ attempts'[y] = attempts[y]
  PROVE  ArrivalOrder'
<1>1. \A x \in Message : Pristine(x)' => rank'[x] <= Front'
  BY DEF ArrivalOrder
<1>2. \A x, y \in Message : Pristine(x)' /\ Pristine(y)' /\ x < y => rank'[x] < rank'[y]
  BY DEF ArrivalOrder
<1>3. \A x, y \in Message :
        Pristine(x)' /\ x < y /\ JidOf[x] = JidOf[y] => status'[y] \in {"absent", "queued"} /\ attempts'[y] = 0
  BY DEF ArrivalOrder
<1>. QED BY <1>1, <1>2, <1>3 DEF ArrivalOrder

\* The claim takes the oldest of a customer's pristine rows.
LEMMA ClaimInOrder ==
  ASSUME IInv, OffIsQuiet, Undisturbed, RunsHold, ArrivalOrder,
         NEW w \in Worker, NEW m \in Message, ClaimRow(w, m),
         NEW x \in Message, Pristine(x), x < m, JidOf[x] = JidOf[m]
  PROVE  FALSE
<1>1. m \in Claimable(w) /\ (\A y \in Claimable(w) : rank[m] <= rank[y]) /\ InBurst(w)
  BY DEF ClaimRow, FirstRow
<1>2. /\ status[m] \in {"queued", "retry", "processing"} /\ rank[m] <= due
      /\ JidOf[m] \notin ActiveJids(w)
  BY <1>1 DEF Claimable
<1>3. status[m] = "queued" /\ attempts[m] = 0
  BY <1>2 DEF ArrivalOrder
<1>4. Pristine(m)
  BY <1>3 DEF Pristine, IInv, RowsOK, RowOK, OrderOK, OrderTypes, Message
<1>5. rank[x] < rank[m] /\ rank[x] \in Nat /\ rank[m] \in Nat /\ due \in Nat
  BY <1>4 DEF ArrivalOrder, IInv, OrderOK, OrderTypes
<1>6. status[x] \in {"queued", "retry", "processing"}
  BY DEF Pristine, IInv, RowTypes, RowsOK, RowOK, OrderOK, OrderTypes, Message, Status
<1>7. status[x] # "processing"
  <2>1. SUFFICES ASSUME status[x] = "processing" PROVE FALSE
    OBVIOUS
  <2>2. PICK v \in Worker : run[v][x] # "none"
    BY <2>1 DEF RunsHold
  <2>3. v = w
    BY <1>1, <2>2 DEF OffIsQuiet, Undisturbed, InBurst
  <2>4. x \in Active(w)
    BY <1>1, <2>2, <2>3 DEF Active, InBurst
  <2>. QED BY <1>2, <2>4 DEF ActiveJids
<1>8. lease[x] = "none"
  BY <1>6, <1>7 DEF IInv, RowsOK, RowOK
<1>9. x \in Claimable(w)
  BY <1>2, <1>5, <1>6, <1>8 DEF Claimable
<1>. QED BY <1>1, <1>5, <1>9

LEMMA NextArrivalOrder ==
  ASSUME IInv, OffIsQuiet, RanksDiffer, Undisturbed, RunsHold, ArrivalOrder, [Next]_vars, Undisturbed'
  PROVE  ArrivalOrder'
<1>0. /\ RowTypes /\ OrderOK /\ RowsOK /\ RunsOK /\ WorkerTypes
      /\ last \in Nat /\ due \in Nat /\ fresh \in Nat /\ rank \in [Message -> Nat]
      /\ disruptions' = disruptions /\ revivals' = revivals /\ disruptions \in Nat /\ revivals \in Nat
      /\ \A x \in Message : x \in Nat
  BY StaysUndisturbed DEF IInv, OrderOK, OrderTypes, BoundTypes, Message
<1>a. Front \in Nat
  BY <1>0 DEF Front
<1>1. ASSUME UNCHANGED <<rank, last, due, fresh, status, attempts>> PROVE ArrivalOrder'
  BY <1>1 DEF ArrivalOrder, Pristine, Front
<1>2. CASE Tick
  <2>1. UNCHANGED <<rank, last, fresh, status, attempts>> /\ due' = due + 1
    BY <1>2 DEF Tick, rowVars
  <2>2. Front <= Front' /\ Front' \in Nat
    BY <1>0, <2>1 DEF Front
  <2>. QED BY <1>0, <1>a, <2>1, <2>2, KeepsArrivalOrder DEF Pristine
<1>3. ASSUME NEW w \in Worker, NEW m \in Message, Enqueue(w, m) PROVE ArrivalOrder'
  <2>1. /\ m = last + 1 /\ last' = m /\ status' = [status EXCEPT ![m] = "queued"] /\ attempts' = attempts
    BY <1>3 DEF Enqueue
  <2>2. status[m] = "absent" /\ attempts[m] = 0
    BY <1>0, <2>1 DEF RowsOK, RowOK
  <2>3. /\ \A x, y \in Message : x # m /\ y # m /\ rank[x] < rank[y] => rank'[x] < rank'[y]
        /\ \A x \in Message : x # m /\ rank[x] <= Front => rank'[x] < rank'[m]
        /\ rank'[m] = Front'
    BY <1>0, <1>3, EnqueueAtFront
  <2>4. Front' \in Nat /\ \A x \in Message : rank'[x] \in Nat
    BY <1>0, <1>3, EnqueueOrder DEF OrderOK, OrderTypes, Front
  <2>5. \A x \in Message : Pristine(x)' => x = m \/ (Pristine(x) /\ x # m /\ x < m)
    BY <1>0, <2>1 DEF Pristine, RowTypes
  <2>6. \A x \in Message : Pristine(x) => rank[x] <= Front
    BY DEF ArrivalOrder
  <2>7. \A x \in Message : Pristine(x)' => rank'[x] <= Front'
    BY <2>3, <2>4, <2>5, <2>6
  <2>8. \A x, y \in Message : Pristine(x)' /\ Pristine(y)' /\ x < y => rank'[x] < rank'[y]
    BY <1>0, <2>3, <2>5, <2>6 DEF ArrivalOrder
  <2>9. ASSUME NEW x \in Message, NEW y \in Message, Pristine(x)', x < y, JidOf[x] = JidOf[y]
        PROVE  status'[y] \in {"absent", "queued"} /\ attempts'[y] = 0
    <3>1. CASE x = m
      <4>1. status[y] = "absent" /\ attempts[y] = 0 /\ y # m
        BY <1>0, <2>1, <2>9, <3>1 DEF RowsOK, RowOK
      <4>. QED BY <1>0, <2>1, <4>1 DEF RowTypes
    <3>2. CASE y = m
      BY <1>0, <2>1, <2>2, <3>2 DEF RowTypes
    <3>3. CASE x # m /\ y # m
      <4>1. Pristine(x)
        BY <2>5, <2>9, <3>3
      <4>2. status[y] \in {"absent", "queued"} /\ attempts[y] = 0
        BY <2>9, <4>1 DEF ArrivalOrder
      <4>. QED BY <1>0, <2>1, <3>3, <4>2 DEF RowTypes
    <3>. QED BY <3>1, <3>2, <3>3
  <2>. QED BY <2>7, <2>8, <2>9 DEF ArrivalOrder
<1>4. ASSUME NEW w \in Worker, NEW m \in Message, ClaimRow(w, m) PROVE ArrivalOrder'
  <2>1. /\ status' = [status EXCEPT ![m] = "processing"]
        /\ UNCHANGED <<rank, last, due, fresh, attempts>>
        /\ status[m] \in {"queued", "retry", "processing"}
    BY <1>4 DEF ClaimRow, FirstRow, Claimable, orderVars
  <2>2. \A x \in Message : Pristine(x)' => Pristine(x)
    BY <1>0, <2>1 DEF Pristine, RowTypes
  <2>3. \A x, y \in Message : Pristine(x)' /\ x < y /\ JidOf[x] = JidOf[y] => y # m
    BY <1>4, <2>2, ClaimInOrder
  <2>4. Front' = Front
    BY <2>1 DEF Front
  <2>. QED BY <1>0, <1>a, <2>1, <2>2, <2>3, <2>4, KeepsArrivalOrder DEF RowTypes
<1>5. ASSUME NEW w \in Worker, NEW m \in Message, Complete(w, m) \/ Reject(w, m) \/ FailWrite(w, m)
      PROVE  ArrivalOrder'
  <2>1. HoldsToken(w, m)
    BY <1>5 DEF RunsHold, HoldsToken, Complete, Reject, FailWrite
  <2>2. status[m] = "processing"
    BY <1>0, <2>1 DEF HoldsToken, RowsOK, RowOK
  <2>3. PICK s \in {"completed", "retry", "dead_letter"} :
          /\ Release(m, s)
          /\ s = "retry" => attempts'[m] > 0
          /\ \A x \in Message : x # m => attempts'[x] = attempts[x]
    <3>1. CASE Complete(w, m)
      BY <2>1, <2>2, <3>1 DEF Complete
    <3>2. CASE Reject(w, m)
      BY <1>0, <2>1, <2>2, <3>2 DEF Reject, RowTypes
    <3>3. CASE FailWrite(w, m)
      <4>1. /\ attempts' = [attempts EXCEPT ![m] = seen[w][m] + 1]
            /\ Release(m, "dead_letter") \/ Release(m, "retry")
        BY <2>1, <3>3 DEF FailWrite, Spent
      <4>. QED BY <1>0, <4>1 DEF RowTypes, WorkerTypes
    <3>. QED BY <1>5, <3>1, <3>2, <3>3
  <2>4. last' = last
    <3>1. CASE FailWrite(w, m)
      BY <2>1, <3>1 DEF FailWrite, DueNow, DueLater, Reschedule
    <3>. QED BY <1>5, <3>1 DEF Complete, Reject, orderVars
  <2>5. ~ Pristine(m)' /\ status'[m] = s
    BY <1>0, <2>3 DEF Pristine, Release, RowTypes
  <2>6. \A x \in Message : Pristine(x)' => Pristine(x) /\ x # m
    BY <1>0, <2>3, <2>4, <2>5 DEF Pristine, Release, RowTypes
  <2>7. \A x, y \in Message : Pristine(x)' /\ x < y /\ JidOf[x] = JidOf[y]
                              => status'[y] = status[y] /\ attempts'[y] = attempts[y]
    BY <1>0, <2>2, <2>3, <2>6 DEF ArrivalOrder, Release, RowTypes
  <2>8. CASE UNCHANGED orderVars
    <3>1. UNCHANGED <<rank, last>> /\ Front' = Front
      BY <2>8 DEF Front, orderVars
    <3>. QED BY <1>0, <1>a, <2>6, <2>7, <3>1, KeepsArrivalOrder
  <2>9. CASE Moved(m)
    <3>1. /\ \A x, y \in Message : x # m /\ y # m /\ rank[x] < rank[y] => rank'[x] < rank'[y]
          /\ \A x \in Message : x # m /\ rank[x] <= Front => rank'[x] <= Front'
      BY <1>0, <2>9, MovedKeepsFront
    <3>2. \A x \in Message : Pristine(x)' => rank'[x] <= Front'
      BY <2>6, <3>1 DEF ArrivalOrder
    <3>3. \A x, y \in Message : Pristine(x)' /\ Pristine(y)' /\ x < y => rank'[x] < rank'[y]
      BY <2>6, <3>1 DEF ArrivalOrder
    <3>4. \A x, y \in Message : Pristine(x)' /\ x < y /\ JidOf[x] = JidOf[y]
                                => status'[y] \in {"absent", "queued"} /\ attempts'[y] = 0
      BY <2>6, <2>7 DEF ArrivalOrder
    <3>. QED BY <3>2, <3>3, <3>4 DEF ArrivalOrder
  <2>10. UNCHANGED orderVars \/ Moved(m)
    <3>1. CASE FailWrite(w, m)
      <4>1. m <= last
        BY <1>0, <2>2 DEF RowsOK, RowOK
      <4>. QED BY <2>1, <3>1, <4>1 DEF FailWrite, Moved
    <3>. QED BY <1>5, <3>1 DEF Complete, Reject
  <2>. QED BY <2>8, <2>9, <2>10
<1>6. ASSUME NEW w \in Worker,
             \/ EndBurst(w) \/ Poll(w) \/ Wake(w) \/ Start(w) \/ Stop(w)
             \/ \E m \in Message : \/ StartRun(w, m) \/ CompleteThrows(w, m) \/ FailRead(w, m)
                                   \/ \E p \in Phase : EndHandler(w, m, p)
      PROVE  ArrivalOrder'
  <2>1. UNCHANGED <<rank, last, due, fresh, status, attempts>>
    BY <1>6 DEF EndBurst, Poll, Wake, Start, Stop, StartRun, CompleteThrows, FailRead, EndHandler, rowVars, orderVars
  <2>. QED BY <1>1, <2>1
<1>7. ASSUME NEW m \in Message, ExpireLease(m) PROVE ArrivalOrder'
  BY <1>1, <1>7 DEF ExpireLease, orderVars
<1>8. ~ Crash /\ \A m \in Message : ~ RetryInboundFailure(m)
  BY <1>0 DEF Crash, RetryInboundFailure
<1>9. CASE UNCHANGED vars
  BY <1>1, <1>9 DEF vars, rowVars, orderVars
<1>. QED BY <1>2, <1>3, <1>4, <1>5, <1>6, <1>7, <1>8, <1>9 DEF Next, WorkerStep, RunStep

\* With one worker and nothing that disturbs it, the messages of a customer
\* are handled in the order in which they arrived until one fails, whatever
\* is inserted, backs off or fails of other customers: for any number of
\* messages and both clocks.
THEOREM OrderHoldsUntilFailure == Spec => []FifoUntilFailure
<1>1. Init => FifoInv
  BY DEF Init, FifoInv, OffIsQuiet, RanksDiffer, RunsHold, ArrivalOrder, Pristine, Message
<1>2. IInv /\ FifoInv /\ [Next]_vars => FifoInv'
  BY NextRanksDiffer, NextOffIsQuiet, StaysUndisturbed, NextRunsHold, NextArrivalOrder DEF FifoInv
<1>3. IInv /\ FifoInv => FifoUntilFailure
  <2> SUFFICES ASSUME IInv, Undisturbed, RunsHold, ArrivalOrder,
                      NEW m1 \in Message, NEW m2 \in Message, m1 < m2, JidOf[m1] = JidOf[m2],
                      NEW w \in Worker, m2 \in Running(w)
               PROVE  attempts[m1] > 0 \/ status[m1] \in {"completed", "dead_letter"}
    BY DEF FifoUntilFailure, FifoInv, Undisturbed
  <2>1. token[m2] = w
    BY DEF RunsHold, Running
  <2>2. status[m2] = "processing"
    BY <2>1 DEF IInv, RowsOK, RowOK
  <2>3. ~ Pristine(m1)
    BY <2>2 DEF ArrivalOrder
  <2>4. m1 <= last
    BY <2>2 DEF IInv, RowsOK, RowOK, OrderOK, OrderTypes, Message
  <2>. QED BY <2>3, <2>4 DEF Pristine, IInv, RowTypes
<1>. QED BY <1>1, <1>2, <1>3, Invariance, PTL DEF Spec
=============================================================================
