---------------------------- MODULE OutboxProofs ----------------------------
(***************************************************************************)
(* Proofs about Outbox, for any rows, any number of attempts and any       *)
(* number of crashes, shutdowns, faults and retries.                       *)
(***************************************************************************)
EXTENDS Outbox, TLAPS

USE OutboxAssumption

\* The columns of a row agree, and a row that can be sent has attempts left.
RowOK(m) ==
  /\ token[m] # 0 <=> status[m] = "sending"
  /\ lease[m] = "none" <=> token[m] = 0
  /\ token[m] <= boot
  /\ status[m] = "absent" => attempts[m] = 0 /\ limit[m] = MaxAttempts /\ post[m] = "null"
  /\ status[m] \in {"queued", "failed", "sending"} => attempts[m] < limit[m]

RowsOK == \A m \in Message : RowOK(m)

\* Until its send has ended, a run holds the token of its row; what
\* failOutbound has read is current as long as the run holds it.  The action
\* in progress is that of a message that has left.
RunOK ==
  /\ pc \in {"claimed", "sending", "marking"} => token[cur] = boot
  /\ pc = "updating" /\ token[cur] = boot => seen = attempts[cur]
  /\ pc \in Acting => post[cur] = "processing" /\ status[cur] \in Gone
  /\ pc = "marking" => wire[cur] > 0

\* A transmission is covered by a crash, a fault, or the row's being sent or
\* about to be marked as sent.
Allowance(m) == IF status[m] \in Gone \/ (pc = "marking" /\ cur = m) THEN 1 ELSE 0

WireOK ==
  \A m \in Message :
    /\ wire[m] <= crashes + faults + Allowance(m)
    /\ status[m] \in Gone => wire[m] > 0
    /\ acted[m] > 0 => status[m] \in Gone

\* The effect of an action is covered by a failure, or by the action's being
\* in progress or completed.
ActedAllowance(m) ==
  IF post[m] \in {"processing", "completed"} /\ ~ (cur = m /\ pc \in {"acting", "unacted"})
  THEN 1 ELSE 0

ActedOK == \A m \in Message : acted[m] <= actionFailures + ActedAllowance(m)

\* Every process but the first follows a crash or a shutdown.
BootOK ==
  /\ boot <= crashes + drains + IF pc = "off" \/ stopped THEN 0 ELSE 1
  /\ pc # "off" => boot > 0

IInv == TypeOK /\ RowsOK /\ RunOK /\ WireOK /\ ActedOK /\ BootOK

-----------------------------------------------------------------------------
LEMMA InitIInv == Init => IInv
<1> SUFFICES ASSUME Init PROVE IInv
  OBVIOUS
<1>1. RowTypes
  BY DEF Init, RowTypes, Status
<1>2. WorkerTypes
  <2>1. seen \in 0..MaxAttempts
    BY DEF Init
  <2>. QED BY <2>1 DEF Init, WorkerTypes, PC
<1>3. CountTypes
  BY DEF Init, CountTypes
<1>4. RowsOK /\ RunOK
  BY DEF Init, RowsOK, RowOK, RunOK, Acting
<1>5. WireOK /\ ActedOK /\ BootOK
  BY DEF Init, WireOK, Allowance, ActedOK, ActedAllowance, BootOK, Gone
<1>. QED BY <1>1, <1>2, <1>3, <1>4, <1>5 DEF IInv, TypeOK

\* A step that only moves the loop, away from the send and the action.
LEMMA LoopStep ==
  ASSUME IInv, UNCHANGED <<rowVars, post, cur, seen, boot, stopped, wire, acted, boundVars>>,
         pc \notin {"off", "marking"},
         pc' \in {"idle", "head", "claiming", "sending", "failing"},
         pc' = "sending" => token[cur] = boot
  PROVE  IInv'
<1>1. TypeOK'
  BY DEF IInv, TypeOK, RowTypes, WorkerTypes, CountTypes, PC, Sending, rowVars, boundVars
<1>2. RowsOK' /\ RunOK' /\ BootOK'
  BY DEF IInv, RowsOK, RowOK, RunOK, BootOK, Acting, rowVars, boundVars
<1>3. WireOK'
  BY DEF IInv, WireOK, Allowance, rowVars, boundVars
<1>4. ActedOK'
  BY DEF IInv, TypeOK, CountTypes, ActedOK, ActedAllowance, boundVars
<1>. QED BY <1>1, <1>2, <1>3, <1>4 DEF IInv

LEMMA NextIInv == IInv /\ [Next]_vars => IInv'
<1> SUFFICES ASSUME IInv, [Next]_vars PROVE IInv'
  OBVIOUS
<1>0. /\ RowTypes /\ WorkerTypes /\ CountTypes
      /\ RowsOK /\ RunOK /\ WireOK /\ ActedOK /\ BootOK
  BY DEF IInv, Goto, TypeOK
<1>1. CASE Boot
  <2>1. RowTypes' /\ CountTypes'
    BY <1>0, <1>1 DEF Boot, rowVars, boundVars, RowTypes, CountTypes
  <2>2. WorkerTypes'
    <3>1. boot < MaxDeaths + 1
      BY <1>0, <1>1 DEF Boot, BootOK, CountTypes, WorkerTypes, Process
    <3>2. boot + 1 \in Process
      BY <1>0, <3>1 DEF WorkerTypes, Process
    <3>. QED BY <1>0, <1>1, <3>2 DEF Boot, Goto, WorkerTypes, PC
  <2>3. RowsOK'
    BY <1>0, <1>1 DEF Boot, Goto, rowVars, workerVars, boundVars, RowTypes,
       WorkerTypes, RowsOK, RowOK, BootOK, Process
  <2>4. RunOK'
    BY <1>0, <1>1 DEF Boot, Goto, rowVars, RunOK, Acting
  <2>5. WireOK'
    BY <1>0, <1>1 DEF Boot, Goto, rowVars, boundVars, RowTypes, CountTypes, WireOK,
       Allowance, Gone
  <2>6. ActedOK'
    BY <1>0, <1>1 DEF Boot, Goto, boundVars, CountTypes, ActedOK, ActedAllowance
  <2>7. BootOK'
    <3>1. pc = "off" /\ pc' = "head" /\ stopped' = FALSE /\ boot' = boot + 1
          /\ crashes' = crashes /\ drains' = drains
      BY <1>1 DEF Boot, Goto, boundVars
    <3>2. boot \in Nat /\ crashes \in Nat /\ drains \in Nat
      BY <1>0 DEF WorkerTypes, CountTypes, Process
    <3>3. boot <= crashes + drains
      BY <1>0, <3>1, <3>2 DEF BootOK
    <3>. QED BY <3>1, <3>2, <3>3 DEF BootOK
  <2>. QED BY <2>1, <2>2, <2>3, <2>4, <2>5, <2>6, <2>7 DEF IInv, TypeOK
<1>2. CASE Crash
  <2>1. RowTypes' /\ RowsOK'
    BY <1>0, <1>2 DEF Crash, rowVars, RowTypes, RowsOK, RowOK
  <2>2. WorkerTypes'
    BY <1>0, <1>2 DEF Crash, Goto, WorkerTypes, PC, Acting, Sending
  <2>3. CountTypes'
    BY <1>0, <1>2 DEF Crash, Goto, CountTypes
  <2>4. RunOK'
    BY <1>0, <1>2 DEF Crash, Goto, rowVars, RunOK, Acting
  <2>5. WireOK'
    BY <1>0, <1>2 DEF Crash, Goto, rowVars, RowTypes, CountTypes, WireOK, Allowance, Gone
  <2>6. ActedOK'
    BY <1>0, <1>2 DEF Crash, Goto, CountTypes, ActedOK, ActedAllowance
  <2>7. BootOK'
    <3>1. pc # "off" /\ pc' = "off" /\ boot' = boot /\ crashes' = crashes + 1 /\ drains' = drains
      BY <1>2 DEF Crash, Goto
    <3>2. boot \in Nat /\ crashes \in Nat /\ drains \in Nat
      BY <1>0 DEF WorkerTypes, CountTypes, Process
    <3>3. boot <= crashes + drains + 1
      BY <1>0, <3>2 DEF BootOK
    <3>. QED BY <3>1, <3>2, <3>3 DEF BootOK
  <2>. QED BY <2>1, <2>2, <2>3, <2>4, <2>5, <2>6, <2>7 DEF IInv, TypeOK
<1>3. CASE Drain
  <2>1. RowTypes' /\ RowsOK' /\ RunOK' /\ WireOK' /\ ActedOK'
    BY <1>0, <1>3 DEF Drain, rowVars, workerVars, RowTypes, RowsOK, RowOK, RunOK,
       WireOK, Allowance, ActedOK, ActedAllowance
  <2>2. WorkerTypes'
    BY <1>0, <1>3 DEF Drain, workerVars, WorkerTypes, PC, Acting, Sending
  <2>3. CountTypes'
    BY <1>0, <1>3 DEF Drain, CountTypes
  <2>4. BootOK'
    BY <1>0, <1>3 DEF Drain, Goto, rowVars, workerVars, boundVars, WorkerTypes,
       CountTypes, BootOK, Acting, Sending
  <2>. QED BY <2>1, <2>2, <2>3, <2>4 DEF IInv, TypeOK
<1>4. CASE Exit
  <2>1. RowTypes' /\ CountTypes' /\ RowsOK'
    BY <1>0, <1>4 DEF Exit, rowVars, boundVars, RowTypes, CountTypes, RowsOK, RowOK
  <2>2. WorkerTypes'
    BY <1>0, <1>4 DEF Exit, Goto, WorkerTypes, PC, Acting, Sending
  <2>3. RunOK'
    BY <1>0, <1>4 DEF Exit, Goto, rowVars, RunOK, Acting
  <2>4. WireOK'
    BY <1>0, <1>4 DEF Exit, Goto, rowVars, boundVars, WireOK, Allowance, Sending
  <2>5. ActedOK'
    BY <1>0, <1>4 DEF Exit, Goto, boundVars, CountTypes, ActedOK, ActedAllowance
  <2>6. BootOK'
    BY <1>0, <1>4 DEF Exit, Goto, boundVars, BootOK
  <2>. QED BY <2>1, <2>2, <2>3, <2>4, <2>5, <2>6 DEF IInv, TypeOK
<1>5. CASE Wake
  BY <1>5, LoopStep DEF Wake, Goto
<1>6. CASE Leave
  BY <1>6, LoopStep DEF Leave, Goto
<1>7. CASE NoAction
  BY <1>7, LoopStep DEF NoAction, Goto
<1>8. CASE ActionOk
  <2>1. RowTypes' /\ RowsOK'
    BY <1>0, <1>8 DEF ActionOk, rowVars, boundVars, RowTypes, RowsOK, RowOK
  <2>2. WorkerTypes'
    BY <1>0, <1>8 DEF ActionOk, Goto, WorkerTypes, PC, Acting, Sending
  <2>3. CountTypes'
    BY <1>0, <1>8 DEF ActionOk, Goto, rowVars, workerVars, boundVars, WorkerTypes, CountTypes
  <2>4. RunOK'
    BY <1>0, <1>8 DEF ActionOk, Goto, rowVars, RunOK, Acting
  <2>5. WireOK'
    BY <1>0, <1>8 DEF ActionOk, Goto, rowVars, boundVars, CountTypes, WorkerTypes,
       RunOK, WireOK, Allowance, Acting
  <2>6. ActedOK'
    BY <1>0, <1>8 DEF ActionOk, Goto, rowVars, workerVars, boundVars, RowTypes,
       WorkerTypes, CountTypes, RunOK, ActedOK, ActedAllowance, Acting
  <2>7. BootOK'
    BY <1>0, <1>8 DEF ActionOk, Goto, boundVars, BootOK
  <2>. QED BY <2>1, <2>2, <2>3, <2>4, <2>5, <2>6, <2>7 DEF IInv, TypeOK
<1>9. CASE ActionThrows
  <2>1. RowTypes' /\ RowsOK'
    BY <1>0, <1>9 DEF ActionThrows, rowVars, RowTypes, RowsOK, RowOK
  <2>2. WorkerTypes'
    BY <1>0, <1>9 DEF ActionThrows, Goto, WorkerTypes, PC, Acting, Sending
  <2>3. CountTypes'
    BY <1>0, <1>9 DEF ActionThrows, Goto, CountTypes
  <2>4. RunOK'
    BY <1>0, <1>9 DEF ActionThrows, Goto, rowVars, RunOK, Acting
  <2>5. WireOK'
    <3>1. status[cur] \in Gone /\ \A m \in Message \ {cur} : acted'[m] = acted[m]
      BY <1>0, <1>9 DEF ActionThrows, Goto, RunOK, Acting, CountTypes
    <3>. QED
      BY <1>0, <1>9, <3>1 DEF ActionThrows, Goto, rowVars, WireOK, Allowance
  <2>6. ActedOK'
    BY <1>0, <1>9 DEF ActionThrows, Goto, CountTypes, ActedOK, ActedAllowance
  <2>7. BootOK'
    BY <1>0, <1>9 DEF ActionThrows, Goto, BootOK
  <2>. QED BY <2>1, <2>2, <2>3, <2>4, <2>5, <2>6, <2>7 DEF IInv, TypeOK
<1>10. CASE CompletePostSendAction
  <2>1. CountTypes'
    BY <1>0, <1>10 DEF CompletePostSendAction, EndAction, rowVars, boundVars, CountTypes
  <2>2. RowTypes'
    BY <1>0, <1>10 DEF CompletePostSendAction, EndAction, Goto, rowVars, RowTypes, Status
  <2>3. WorkerTypes'
    BY <1>0, <1>10 DEF CompletePostSendAction, EndAction, Goto, WorkerTypes, PC, Acting, Sending
  <2>4. RowsOK'
    BY <1>0, <1>10 DEF CompletePostSendAction, EndAction, Goto, rowVars, RowTypes, RowsOK, RowOK
  <2>5. RunOK'
    BY <1>0, <1>10 DEF CompletePostSendAction, EndAction, Goto, rowVars, RunOK, Acting
  <2>6. WireOK'
    BY <1>0, <1>10 DEF CompletePostSendAction, EndAction, Goto, rowVars, boundVars,
       RowTypes, CountTypes, WireOK, Allowance, Gone
  <2>7. ActedOK'
    BY <1>0, <1>10 DEF CompletePostSendAction, EndAction, Goto, boundVars, CountTypes,
       ActedOK, ActedAllowance
  <2>8. BootOK'
    BY <1>0, <1>10 DEF CompletePostSendAction, EndAction, Goto, boundVars, BootOK
  <2>. QED BY <2>1, <2>2, <2>3, <2>4, <2>5, <2>6, <2>7, <2>8 DEF IInv, TypeOK
<1>11. CASE RetryPostSendAction
  <2>1. CountTypes'
    BY <1>0, <1>11 DEF RetryPostSendAction, EndAction, rowVars, boundVars, CountTypes
  <2>2. RowTypes'
    BY <1>0, <1>11 DEF RetryPostSendAction, EndAction, Goto, rowVars, RowTypes, Status
  <2>3. WorkerTypes'
    BY <1>0, <1>11 DEF RetryPostSendAction, EndAction, Goto, WorkerTypes, PC, Acting, Sending
  <2>4. RowsOK'
    BY <1>0, <1>11 DEF RetryPostSendAction, EndAction, Goto, rowVars, RowTypes, RowsOK, RowOK
  <2>5. RunOK'
    BY <1>0, <1>11 DEF RetryPostSendAction, EndAction, Goto, rowVars, RunOK, Acting
  <2>6. WireOK'
    BY <1>0, <1>11 DEF RetryPostSendAction, EndAction, Goto, rowVars, boundVars,
       RowTypes, CountTypes, WireOK, Allowance, Gone
  <2>7. ActedOK'
    BY <1>0, <1>11 DEF RetryPostSendAction, EndAction, Goto, boundVars, CountTypes,
       ActedOK, ActedAllowance
  <2>8. BootOK'
    BY <1>0, <1>11 DEF RetryPostSendAction, EndAction, Goto, boundVars, BootOK
  <2>. QED BY <2>1, <2>2, <2>3, <2>4, <2>5, <2>6, <2>7, <2>8 DEF IInv, TypeOK
<1>12. CASE Pause
  BY <1>12, LoopStep DEF Pause, Goto
<1>13. CASE NothingToSend
  BY <1>13, LoopStep DEF NothingToSend, Goto
<1>14. CASE StartSend
  BY <1>0, <1>14, LoopStep DEF StartSend, Goto, RunOK
<1>15. CASE SendOk
  <2>1. RowTypes' /\ RowsOK'
    BY <1>0, <1>15 DEF SendOk, rowVars, boundVars, RowTypes, RowsOK, RowOK
  <2>2. WorkerTypes'
    BY <1>0, <1>15 DEF SendOk, Goto, WorkerTypes, PC, Acting, Sending
  <2>3. CountTypes'
    BY <1>0, <1>15 DEF SendOk, Goto, rowVars, workerVars, boundVars, WorkerTypes, CountTypes
  <2>4. RunOK'
    BY <1>0, <1>15 DEF SendOk, Goto, rowVars, CountTypes, WorkerTypes, RunOK, Acting
  <2>5. WireOK'
    <3>1. token[cur] = boot /\ status[cur] = "sending"
      BY <1>0, <1>15 DEF SendOk, RunOK, BootOK, RowsOK, RowOK, WorkerTypes, RowTypes, Process
    <3>2. wire[cur] <= crashes + faults /\ acted[cur] = 0
      BY <1>0, <1>15, <3>1 DEF SendOk, WireOK, Allowance, Gone, WorkerTypes, CountTypes
    <3>. QED
      BY <1>0, <1>15, <3>1, <3>2 DEF SendOk, Goto, rowVars, boundVars, CountTypes,
         WorkerTypes, WireOK, Allowance, Gone
  <2>6. ActedOK'
    BY <1>0, <1>15 DEF SendOk, Goto, boundVars, CountTypes, ActedOK, ActedAllowance
  <2>7. BootOK'
    BY <1>0, <1>15 DEF SendOk, Goto, boundVars, BootOK
  <2>. QED BY <2>1, <2>2, <2>3, <2>4, <2>5, <2>6, <2>7 DEF IInv, TypeOK
<1>16. CASE SendFails
  BY <1>16, LoopStep DEF SendFails, Goto
<1>17. CASE SendLost
  <2>1. RowTypes' /\ RowsOK'
    BY <1>0, <1>17 DEF SendLost, rowVars, RowTypes, RowsOK, RowOK
  <2>2. WorkerTypes'
    BY <1>0, <1>17 DEF SendLost, Goto, WorkerTypes, PC, Acting, Sending
  <2>3. CountTypes'
    BY <1>0, <1>17 DEF SendLost, Goto, rowVars, workerVars, boundVars, WorkerTypes, CountTypes
  <2>4. RunOK'
    BY <1>0, <1>17 DEF SendLost, Goto, rowVars, RunOK, Acting
  <2>5. WireOK'
    BY <1>0, <1>17 DEF SendLost, Goto, rowVars, RowTypes, CountTypes, WireOK, Allowance, Gone
  <2>6. ActedOK'
    BY <1>0, <1>17 DEF SendLost, Goto, CountTypes, ActedOK, ActedAllowance
  <2>7. BootOK'
    BY <1>0, <1>17 DEF SendLost, Goto, BootOK
  <2>. QED BY <2>1, <2>2, <2>3, <2>4, <2>5, <2>6, <2>7 DEF IInv, TypeOK
<1>18. CASE MarkOutboundSent
  <2>1. CountTypes'
    BY <1>0, <1>18 DEF MarkOutboundSent, boundVars, CountTypes
  <2>2. RowTypes'
    BY <1>0, <1>18 DEF MarkOutboundSent, Release, SetStatus, HoldsToken, Goto, RowTypes, Status
  <2>3. WorkerTypes'
    BY <1>0, <1>18 DEF MarkOutboundSent, Release, SetStatus, HoldsToken, Goto,
       WorkerTypes, PC, Acting, Sending
  <2>4. RowsOK'
    BY <1>0, <1>18 DEF MarkOutboundSent, Goto, Release, SetStatus, HoldsToken,
       rowVars, workerVars, boundVars, RowTypes, WorkerTypes, RowsOK, RowOK, BootOK,
       Process
  <2>5. RunOK'
    BY <1>0, <1>18 DEF MarkOutboundSent, Release, SetStatus, HoldsToken, Goto,
       RowTypes, RunOK, Acting, Gone
  <2>6. WireOK'
    <3>1. wire[cur] > 0 /\ pc = "marking"
      BY <1>0, <1>18 DEF MarkOutboundSent, RunOK
    <3>2. HoldsToken(cur) /\ status[cur] = "sending"
      BY <1>0, <3>1 DEF HoldsToken, RunOK, BootOK, RowsOK, RowOK, WorkerTypes, RowTypes, Process
    <3>3. status' = [status EXCEPT ![cur] = "sent"] /\ pc' = "head"
      BY <1>18, <3>2 DEF MarkOutboundSent, Release, SetStatus, Goto
    <3>. QED
      BY <1>0, <1>18, <3>1, <3>3 DEF MarkOutboundSent, boundVars, RowTypes,
         WorkerTypes, CountTypes, WireOK, Allowance, Gone
  <2>7. ActedOK'
    BY <1>0, <1>18 DEF MarkOutboundSent, Release, SetStatus, HoldsToken, Goto,
       boundVars, CountTypes, ActedOK, ActedAllowance
  <2>8. BootOK'
    BY <1>0, <1>18 DEF MarkOutboundSent, Release, SetStatus, HoldsToken, Goto, boundVars, BootOK
  <2>. QED BY <2>1, <2>2, <2>3, <2>4, <2>5, <2>6, <2>7, <2>8 DEF IInv, TypeOK
<1>19. CASE MarkWithoutKey
  <2>1. RowTypes'
    BY <1>0, <1>19 DEF MarkWithoutKey, Release, SetStatus, Goto, RowTypes, Status
  <2>2. WorkerTypes'
    BY <1>0, <1>19 DEF MarkWithoutKey, Release, SetStatus, Goto, WorkerTypes, PC,
       Acting, Sending
  <2>3. CountTypes'
    BY <1>0, <1>19 DEF MarkWithoutKey, Release, SetStatus, Goto, CountTypes
  <2>4. RowsOK'
    BY <1>0, <1>19 DEF MarkWithoutKey, Goto, Release, SetStatus, rowVars, workerVars,
       boundVars, RowTypes, WorkerTypes, RowsOK, RowOK, BootOK, Process
  <2>5. RunOK'
    BY <1>0, <1>19 DEF MarkWithoutKey, Release, SetStatus, Goto, RowTypes, RunOK, Acting, Gone
  <2>6. WireOK'
    BY <1>0, <1>19 DEF MarkWithoutKey, Goto, Release, SetStatus, rowVars, workerVars,
       boundVars, RowTypes, WorkerTypes, CountTypes, RowsOK, RowOK, RunOK, WireOK,
       Allowance, Gone
  <2>7. ActedOK'
    BY <1>0, <1>19 DEF MarkWithoutKey, Release, SetStatus, Goto, CountTypes, ActedOK,
       ActedAllowance
  <2>8. BootOK'
    BY <1>0, <1>19 DEF MarkWithoutKey, Release, SetStatus, Goto, BootOK
  <2>. QED BY <2>1, <2>2, <2>3, <2>4, <2>5, <2>6, <2>7, <2>8 DEF IInv, TypeOK
<1>20. CASE MarkThrows
  <2>1. RowTypes'
    BY <1>0, <1>20 DEF MarkThrows, Release, SetStatus, Goto, RowTypes, Status
  <2>2. WorkerTypes'
    BY <1>0, <1>20 DEF MarkThrows, Release, SetStatus, Goto, WorkerTypes, PC, Acting, Sending
  <2>3. CountTypes'
    BY <1>0, <1>20 DEF MarkThrows, Release, SetStatus, Goto, CountTypes
  <2>4. RowsOK'
    BY <1>0, <1>20 DEF MarkThrows, Goto, Release, SetStatus, rowVars, workerVars,
       boundVars, RowTypes, WorkerTypes, RowsOK, RowOK, BootOK, Process
  <2>5. RunOK'
    BY <1>0, <1>20 DEF MarkThrows, Release, SetStatus, Goto, RowTypes, RunOK, Acting, Gone
  <2>6. WireOK'
    BY <1>0, <1>20 DEF MarkThrows, Goto, Release, SetStatus, rowVars, workerVars,
       boundVars, RowTypes, WorkerTypes, CountTypes, RowsOK, RowOK, RunOK, WireOK,
       Allowance, Gone
  <2>7. ActedOK'
    BY <1>0, <1>20 DEF MarkThrows, Release, SetStatus, Goto, CountTypes, ActedOK, ActedAllowance
  <2>8. BootOK'
    BY <1>0, <1>20 DEF MarkThrows, Release, SetStatus, Goto, BootOK
  <2>. QED BY <2>1, <2>2, <2>3, <2>4, <2>5, <2>6, <2>7, <2>8 DEF IInv, TypeOK
<1>21. CASE FailRead
  <2>1. RowTypes' /\ CountTypes' /\ RowsOK'
    BY <1>0, <1>21 DEF FailRead, rowVars, boundVars, RowTypes, CountTypes, RowsOK, RowOK
  <2>2. WorkerTypes'
    BY <1>0, <1>21 DEF FailRead, Goto, HoldsToken, rowVars, workerVars, boundVars,
       RowTypes, WorkerTypes, PC, Acting, Sending, Process
  <2>3. RunOK'
    BY <1>0, <1>21 DEF FailRead, HoldsToken, Goto, rowVars, RunOK, Acting
  <2>4. WireOK'
    BY <1>0, <1>21 DEF FailRead, HoldsToken, Goto, rowVars, boundVars, RowTypes,
       CountTypes, WireOK, Allowance, Gone
  <2>5. ActedOK'
    BY <1>0, <1>21 DEF FailRead, HoldsToken, Goto, boundVars, CountTypes, ActedOK,
       ActedAllowance
  <2>6. BootOK'
    BY <1>0, <1>21 DEF FailRead, HoldsToken, Goto, boundVars, BootOK
  <2>. QED BY <2>1, <2>2, <2>3, <2>4, <2>5, <2>6 DEF IInv, TypeOK
<1>22. CASE FailWrite
  <2>1. CountTypes'
    BY <1>0, <1>22 DEF FailWrite, boundVars, CountTypes
  <2>2. RowTypes'
    <3>1. CASE ~HoldsToken(cur)
      BY <1>0, <1>22, <3>1 DEF FailWrite, RowTypes
    <3>2. CASE HoldsToken(cur)
      <4>1. status[cur] = "sending" /\ seen = attempts[cur] /\ attempts[cur] < limit[cur]
        BY <1>0, <1>22, <3>2 DEF FailWrite, HoldsToken, RunOK, BootOK, RowsOK,
           RowOK, WorkerTypes, RowTypes, Process
      <4>2. seen + 1 \in 0..MaxAttempts
        BY <1>0, <4>1 DEF RowTypes, WorkerTypes
      <4>. QED
        BY <1>0, <1>22, <3>2, <4>2 DEF FailWrite, Release, SetStatus, RowTypes,
           Status, WorkerTypes
    <3>. QED BY <3>1, <3>2
  <2>3. WorkerTypes'
    BY <1>0, <1>22 DEF FailWrite, Release, SetStatus, HoldsToken, Spent, Goto,
       WorkerTypes, PC, Acting, Sending
  <2>4. RowsOK'
    BY <1>0, <1>22 DEF FailWrite, Goto, Release, SetStatus, HoldsToken, Spent,
       rowVars, workerVars, boundVars, RowTypes, WorkerTypes, RowsOK, RowOK, BootOK,
       Process
  <2>5. RunOK'
    BY <1>0, <1>22 DEF FailWrite, Release, SetStatus, HoldsToken, Spent, Goto,
       RowTypes, RunOK, Acting, Gone
  <2>6. WireOK'
    <3>1. CASE ~HoldsToken(cur)
      BY <1>0, <1>22, <3>1 DEF FailWrite, Goto, boundVars, WireOK, Allowance
    <3>2. CASE HoldsToken(cur)
      <4>1. status[cur] = "sending"
        BY <1>0, <1>22, <3>2 DEF FailWrite, HoldsToken, BootOK, RowsOK, RowOK,
           WorkerTypes, RowTypes, Process
      <4>2. \A m \in Message : status'[m] \in Gone <=> status[m] \in Gone
        BY <1>0, <1>22, <3>2, <4>1 DEF FailWrite, Release, SetStatus, Gone,
           RowTypes, WorkerTypes
      <4>. QED
        BY <1>0, <1>22, <4>2 DEF FailWrite, Goto, boundVars, WireOK, Allowance
    <3>. QED BY <3>1, <3>2
  <2>7. ActedOK'
    BY <1>0, <1>22 DEF FailWrite, Release, SetStatus, HoldsToken, Spent, Goto,
       boundVars, CountTypes, ActedOK, ActedAllowance
  <2>8. BootOK'
    BY <1>0, <1>22 DEF FailWrite, Release, SetStatus, HoldsToken, Spent, Goto, boundVars, BootOK
  <2>. QED BY <2>1, <2>2, <2>3, <2>4, <2>5, <2>6, <2>7, <2>8 DEF IInv, TypeOK
<1>23. ASSUME NEW m \in Message, ClaimPostSendAction(m) PROVE IInv'
  <2>1. CountTypes'
    BY <1>0, <1>23 DEF ClaimPostSendAction, rowVars, boundVars, CountTypes
  <2>2. RowTypes'
    BY <1>0, <1>23 DEF ClaimPostSendAction, Goto, rowVars, RowTypes, Status
  <2>3. WorkerTypes'
    BY <1>0, <1>23 DEF ClaimPostSendAction, Goto, WorkerTypes, PC, Acting, Sending
  <2>4. RowsOK'
    BY <1>0, <1>23 DEF ClaimPostSendAction, Goto, ActionReady, rowVars, workerVars,
       boundVars, RowTypes, WorkerTypes, RowsOK, RowOK, BootOK, Process
  <2>5. RunOK'
    BY <1>0, <1>23 DEF ClaimPostSendAction, Goto, ActionReady, rowVars, workerVars,
       boundVars, RowTypes, WorkerTypes, RowsOK, RowOK, RunOK, Acting, Gone
  <2>6. WireOK'
    <3>1. \A n \in Message : Allowance(n)' = Allowance(n)
      BY <1>23 DEF ClaimPostSendAction, Goto, rowVars, Allowance
    <3>. QED
      BY <1>0, <1>23, <3>1 DEF ClaimPostSendAction, rowVars, boundVars, WireOK
  <2>7. ActedOK'
    BY <1>0, <1>23 DEF ClaimPostSendAction, Goto, ActionReady, rowVars, workerVars,
       boundVars, RowTypes, WorkerTypes, CountTypes, RunOK, ActedOK, ActedAllowance,
       Acting
  <2>8. BootOK'
    BY <1>0, <1>23 DEF ClaimPostSendAction, Goto, boundVars, BootOK
  <2>. QED BY <2>1, <2>2, <2>3, <2>4, <2>5, <2>6, <2>7, <2>8 DEF IInv, TypeOK
<1>24. ASSUME NEW m \in Message, ClaimOutbound(m) PROVE IInv'
  <2>1. CountTypes'
    BY <1>0, <1>24 DEF ClaimOutbound, boundVars, CountTypes
  <2>2. RowTypes'
    <3>1. boot \in Process
      BY <1>0, <1>24 DEF ClaimOutbound, BootOK, WorkerTypes
    <3>. QED
      BY <1>0, <1>24, <3>1 DEF ClaimOutbound, SetStatus, RowTypes, Status
  <2>3. WorkerTypes'
    BY <1>0, <1>24 DEF ClaimOutbound, SetStatus, Goto, WorkerTypes, PC, Acting, Sending
  <2>4. RowsOK'
    BY <1>0, <1>24 DEF ClaimOutbound, Goto, Claimable, SetStatus, rowVars, workerVars,
       boundVars, RowTypes, WorkerTypes, RowsOK, RowOK, BootOK, Process
  <2>5. RunOK'
    BY <1>0, <1>24 DEF ClaimOutbound, SetStatus, Goto, RowTypes, RunOK, Acting, Gone
  <2>6. WireOK'
    <3>1. \A n \in Message : status'[n] \in Gone <=> status[n] \in Gone
      BY <1>0, <1>24 DEF ClaimOutbound, Claimable, SetStatus, Gone, RowTypes
    <3>. QED
      <4>1. \A n \in Message : Allowance(n)' = Allowance(n)
        BY <1>24, <3>1 DEF ClaimOutbound, Goto, Allowance
      <4>. QED
        BY <1>0, <1>24, <3>1, <4>1 DEF ClaimOutbound, boundVars, WireOK
  <2>7. ActedOK'
    BY <1>0, <1>24 DEF ClaimOutbound, SetStatus, Goto, boundVars, CountTypes, ActedOK,
       ActedAllowance
  <2>8. BootOK'
    BY <1>0, <1>24 DEF ClaimOutbound, SetStatus, Goto, boundVars, BootOK
  <2>. QED BY <2>1, <2>2, <2>3, <2>4, <2>5, <2>6, <2>7, <2>8 DEF IInv, TypeOK
<1>25. ASSUME NEW m \in Message, Enqueue(m) PROVE IInv'
  <2>1. CountTypes'
    BY <1>0, <1>25 DEF Enqueue, boundVars, CountTypes
  <2>2. RowTypes'
    BY <1>0, <1>25 DEF Enqueue, SetStatus, RowTypes, Status
  <2>3. WorkerTypes'
    BY <1>0, <1>25 DEF Enqueue, SetStatus, WorkerTypes, PC, Acting, Sending
  <2>4. RowsOK'
    BY <1>0, <1>25 DEF Enqueue, SetStatus, RowTypes, RowsOK, RowOK
  <2>5. RunOK'
    BY <1>0, <1>25 DEF Enqueue, SetStatus, RowTypes, RunOK, Acting, Gone
  <2>6. WireOK'
    BY <1>0, <1>25 DEF Enqueue, SetStatus, boundVars, RowTypes, CountTypes, WireOK,
       Allowance, Gone
  <2>7. ActedOK'
    <3>1. acted[m] = 0
      BY <1>0, <1>25 DEF Enqueue, WireOK, CountTypes, Gone
    <3>2. \A n \in Message \ {m} : post'[n] = post[n]
      BY <1>0, <1>25 DEF Enqueue, RowTypes
    <3>3. pc' \in {"acting", "unacted"} <=> pc \in {"acting", "unacted"}
      BY <1>25 DEF Enqueue
    <3>. QED
      BY <1>0, <1>25, <3>1, <3>2, <3>3 DEF Enqueue, boundVars, CountTypes, ActedOK,
         ActedAllowance
  <2>8. BootOK'
    BY <1>0, <1>25 DEF Enqueue, SetStatus, boundVars, BootOK
  <2>. QED BY <2>1, <2>2, <2>3, <2>4, <2>5, <2>6, <2>7, <2>8 DEF IInv, TypeOK
<1>26. ASSUME NEW m \in Message, EnqueueDead(m) PROVE IInv'
  <2>1. WorkerTypes' /\ CountTypes' /\ ActedOK' /\ BootOK'
    BY <1>0, <1>26 DEF EnqueueDead, workerVars, boundVars, WorkerTypes, CountTypes,
       ActedOK, ActedAllowance, BootOK
  <2>2. RowTypes'
    BY <1>0, <1>26 DEF EnqueueDead, SetStatus, RowTypes, Status
  <2>3. RowsOK'
    BY <1>0, <1>26 DEF EnqueueDead, SetStatus, RowTypes, RowsOK, RowOK
  <2>4. RunOK'
    <3>1. pc # "off" /\ boot # 0 /\ token[m] = 0 /\ status[m] = "absent"
      BY <1>0, <1>26 DEF EnqueueDead, BootOK, RowsOK, RowOK, WorkerTypes, Process
    <3>. QED
      BY <1>0, <1>26, <3>1 DEF EnqueueDead, SetStatus, workerVars, boundVars,
         RowTypes, WorkerTypes, RunOK, Acting, Gone
  <2>5. WireOK'
    BY <1>0, <1>26 DEF EnqueueDead, SetStatus, workerVars, boundVars, RowTypes,
       CountTypes, WireOK, Allowance, Gone
  <2>. QED BY <2>1, <2>2, <2>3, <2>4, <2>5 DEF IInv, TypeOK
<1>27. ASSUME NEW m \in Message, RetryOutboundFailure(m) PROVE IInv'
  <2>1. WorkerTypes' /\ ActedOK' /\ BootOK'
    BY <1>0, <1>27 DEF RetryOutboundFailure, workerVars, WorkerTypes, ActedOK,
       ActedAllowance, BootOK
  <2>2. RowTypes'
    BY <1>0, <1>27 DEF RetryOutboundFailure, Release, SetStatus, RowTypes, Status
  <2>3. CountTypes'
    BY <1>0, <1>27 DEF RetryOutboundFailure, Release, SetStatus, CountTypes
  <2>4. RowsOK'
    BY <1>0, <1>27 DEF RetryOutboundFailure, Release, SetStatus, RowTypes, RowsOK, RowOK
  <2>5. RunOK'
    <3>1. pc # "off" /\ boot # 0 /\ token[m] = 0 /\ status[m] \in {"failed", "dead_letter"}
      BY <1>0, <1>27 DEF RetryOutboundFailure, BootOK, RowsOK, RowOK, WorkerTypes, Process
    <3>. QED
      BY <1>0, <1>27, <3>1 DEF RetryOutboundFailure, Release, SetStatus, workerVars,
         RowTypes, WorkerTypes, RunOK, Acting, Gone
  <2>6. WireOK'
    BY <1>0, <1>27 DEF RetryOutboundFailure, Release, SetStatus, workerVars, RowTypes,
       CountTypes, WireOK, Allowance, Gone
  <2>. QED BY <2>1, <2>2, <2>3, <2>4, <2>5, <2>6 DEF IInv, TypeOK
<1>28. ASSUME NEW m \in Message, Tick(m) PROVE IInv'
  <2>1. WorkerTypes' /\ CountTypes' /\ RowsOK' /\ RunOK' /\ WireOK' /\ ActedOK' /\ BootOK'
    BY <1>0, <1>28 DEF Tick, workerVars, boundVars, WorkerTypes, CountTypes, RowsOK,
       RowOK, RunOK, WireOK, Allowance, ActedOK, ActedAllowance, BootOK
  <2>2. RowTypes'
    BY <1>0, <1>28 DEF Tick, RowTypes, Status
  <2>. QED BY <2>1, <2>2 DEF IInv, TypeOK
<1>29. ASSUME NEW m \in Message, ExpireLease(m) PROVE IInv'
  <2>1. WorkerTypes' /\ CountTypes' /\ RunOK' /\ WireOK' /\ ActedOK' /\ BootOK'
    BY <1>0, <1>29 DEF ExpireLease, workerVars, boundVars, WorkerTypes, CountTypes,
       RunOK, WireOK, Allowance, ActedOK, ActedAllowance, BootOK
  <2>2. RowTypes'
    BY <1>0, <1>29 DEF ExpireLease, RowTypes, Status
  <2>3. RowsOK'
    BY <1>0, <1>29 DEF ExpireLease, RowTypes, RowsOK, RowOK
  <2>. QED BY <2>1, <2>2, <2>3 DEF IInv, TypeOK
<1>30. ASSUME NEW m \in Message, NEW s \in {"delivered", "read"}, Receipt(m, s) PROVE IInv'
  <2>1. WorkerTypes' /\ CountTypes' /\ ActedOK' /\ BootOK'
    BY <1>0, <1>30 DEF Receipt, workerVars, boundVars, WorkerTypes, CountTypes,
       ActedOK, ActedAllowance, BootOK
  <2>2. RowTypes'
    BY <1>0, <1>30 DEF Receipt, SetStatus, RowTypes, Status
  <2>3. RowsOK'
    BY <1>0, <1>30 DEF Receipt, SetStatus, RowTypes, RowsOK, RowOK
  <2>4. RunOK'
    BY <1>0, <1>30 DEF Receipt, SetStatus, workerVars, RowTypes, RunOK, Acting, Gone
  <2>5. WireOK'
    BY <1>0, <1>30 DEF Receipt, SetStatus, workerVars, boundVars, RowTypes,
       CountTypes, WireOK, Allowance, Gone
  <2>. QED BY <2>1, <2>2, <2>3, <2>4, <2>5 DEF IInv, TypeOK
<1>31. CASE UNCHANGED vars
  BY <1>0, <1>31 DEF vars, rowVars, workerVars, boundVars, IInv, TypeOK, RowTypes, WorkerTypes,
    CountTypes, RowsOK, RowOK, RunOK, WireOK, Allowance, ActedOK, ActedAllowance, BootOK
<1>. QED BY <1>1, <1>2, <1>3, <1>4, <1>5, <1>6, <1>7, <1>8, <1>9, <1>10, <1>11, <1>12,
   <1>13, <1>14, <1>15, <1>16, <1>17, <1>18, <1>19, <1>20, <1>21, <1>22, <1>23, <1>24,
   <1>25, <1>26, <1>27, <1>28, <1>29, <1>30, <1>31
  DEF Next, Goto, WorkerStep

-----------------------------------------------------------------------------
LEMMA Invariance == Spec => []IInv
<1>. QED BY InitIInv, NextIInv, PTL DEF Spec

\* The state keeps its types: in particular attempts never exceeds max_attempts
\* and no process number is drawn twice.
THEOREM OutboxTypeCorrect == Spec => []TypeOK
<1>1. IInv => TypeOK
  BY DEF IInv
<1>. QED BY <1>1, Invariance, PTL

\* A message is transmitted once, and once more only for each death of the
\* process and each send or mark whose outcome was lost.
THEOREM SendsArePaidFor == Spec => []RepeatsArePaidFor
<1>1. IInv => RepeatsArePaidFor
  BY DEF IInv, TypeOK, CountTypes, WireOK, Allowance, RepeatsArePaidFor
<1>. QED BY <1>1, Invariance, PTL

\* No message is recorded as sent, and no customer handed over, before
\* WhatsApp has accepted the message.
THEOREM SendComesFirst == Spec => []NothingBeforeSend
<1>1. IInv => NothingBeforeSend
  BY DEF IInv, WireOK, NothingBeforeSend
<1>. QED BY <1>1, Invariance, PTL

\* A post-send action has its effect once, and once more only for each
\* failure of the action.
THEOREM ActionsArePaidFor == Spec => []ActionRepeatsArePaidFor
<1>1. IInv => ActionRepeatsArePaidFor
  BY DEF IInv, TypeOK, CountTypes, ActedOK, ActedAllowance, ActionRepeatsArePaidFor
<1>. QED BY <1>1, Invariance, PTL

-----------------------------------------------------------------------------
(* What a step does to the rows.                                           *)

Accepted(m) ==
  /\ status[m] = "absent"
  /\ SetStatus(m, "queued") \/ SetStatus(m, "dead_letter")
  /\ UNCHANGED <<lease, token>>

Lapsed(m) ==
  /\ lease[m] = "live"
  /\ lease' = [lease EXCEPT ![m] = "expired"]
  /\ UNCHANGED <<status, token>>

Revived(m) ==
  /\ status[m] \in {"failed", "dead_letter"}
  /\ Release(m, "queued")

Taken(m) ==
  /\ status[m] \in {"queued", "failed", "sending"} /\ lease[m] # "live"
  /\ boot \in Process
  /\ SetStatus(m, "sending")
  /\ lease' = [lease EXCEPT ![m] = "live"]
  /\ token' = [token EXCEPT ![m] = boot]

Left(m) ==
  /\ status[m] = "sending" /\ token[m] = boot /\ boot \in Process
  /\ \/ Release(m, "sent") \/ Release(m, "failed")
     \/ /\ Release(m, "dead_letter")
        /\ attempts' = [attempts EXCEPT ![m] = attempts[m] + 1]
        /\ attempts[m] + 1 = limit[m]

Receipted(m) ==
  /\ \/ SetStatus(m, "delivered") /\ status[m] = "sent"
     \/ SetStatus(m, "read") /\ status[m] \in {"sent", "delivered"}
  /\ UNCHANGED <<lease, token>>

RowStep ==
  \/ UNCHANGED <<status, lease, token>>
  \/ \E m \in Message :
       Accepted(m) \/ Lapsed(m) \/ Revived(m) \/ Taken(m) \/ Left(m) \/ Receipted(m)

\* The run that ends, or whose outcome is about to be written, owns its row.
LEMMA RunOwnsRow ==
  ASSUME IInv, pc = "marking" \/ (pc = "updating" /\ HoldsToken(cur))
  PROVE  /\ cur \in Message /\ boot \in Process /\ token[cur] = boot
         /\ status[cur] = "sending" /\ attempts[cur] < limit[cur]
         /\ pc = "updating" => seen = attempts[cur]
BY DEF IInv, TypeOK, RowTypes, WorkerTypes, Process, RowsOK, RowOK, RunOK, BootOK, HoldsToken

LEMMA EveryStepIsRowStep == IInv /\ [Next]_vars => RowStep
<1> SUFFICES ASSUME IInv, [Next]_vars PROVE RowStep
  OBVIOUS
<1>1. CASE UNCHANGED vars
  BY <1>1 DEF vars, rowVars, RowStep
<1>2. CASE Boot \/ Crash \/ Drain \/ Exit
  BY <1>2 DEF Boot, Crash, Drain, Exit, rowVars, RowStep
<1>3. CASE MarkOutboundSent
  BY <1>3, RunOwnsRow DEF MarkOutboundSent, RowStep, Left
<1>4. CASE MarkWithoutKey
  BY <1>4, RunOwnsRow DEF MarkWithoutKey, RowStep, Left
<1>5. CASE MarkThrows
  BY <1>5, RunOwnsRow DEF MarkThrows, RowStep, Left
<1>6. CASE FailWrite
  <2>1. CASE ~HoldsToken(cur)
    BY <1>6, <2>1 DEF FailWrite, RowStep
  <2>2. CASE HoldsToken(cur)
    <3>1. /\ cur \in Message /\ boot \in Process /\ token[cur] = boot
          /\ status[cur] = "sending" /\ attempts[cur] < limit[cur] /\ seen = attempts[cur]
      BY <1>6, <2>2, RunOwnsRow DEF FailWrite
    <3>2. attempts[cur] \in Nat /\ limit[cur] \in Nat
      BY <3>1 DEF IInv, TypeOK, RowTypes
    <3>3. /\ attempts' = [attempts EXCEPT ![cur] = attempts[cur] + 1]
          /\ \/ Release(cur, "failed")
             \/ Release(cur, "dead_letter") /\ attempts[cur] + 1 = limit[cur]
      BY <1>6, <2>2, <3>1, <3>2 DEF FailWrite, Spent
    <3>. QED BY <3>1, <3>3 DEF RowStep, Left
  <2>. QED BY <2>1, <2>2
<1>7. CASE WorkerStep /\ UNCHANGED rowVars
  BY <1>7 DEF rowVars, RowStep
<1>8. ASSUME NEW m \in Message, ClaimOutbound(m) PROVE RowStep
  <2>1. boot \in Process
    BY <1>8 DEF ClaimOutbound, IInv, BootOK, TypeOK, WorkerTypes
  <2>. QED BY <1>8, <2>1 DEF ClaimOutbound, Claimable, RowStep, Taken
<1>9. WorkerStep /\ ~(UNCHANGED rowVars) =>
        \/ MarkOutboundSent \/ MarkWithoutKey \/ MarkThrows \/ FailWrite
        \/ \E m \in Message : ClaimOutbound(m)
  BY DEF WorkerStep, Wake, Leave, NoAction, ActionOk, ActionThrows, CompletePostSendAction,
         RetryPostSendAction, EndAction, Pause, NothingToSend, StartSend, SendOk, SendFails,
         SendLost, FailRead, ClaimPostSendAction, rowVars
<1>10. ASSUME NEW m \in Message, Enqueue(m) \/ EnqueueDead(m) PROVE RowStep
  BY <1>10 DEF Enqueue, EnqueueDead, RowStep, Accepted
<1>11. ASSUME NEW m \in Message, RetryOutboundFailure(m) PROVE RowStep
  BY <1>11 DEF RetryOutboundFailure, RowStep, Revived
<1>12. ASSUME NEW m \in Message, Tick(m) \/ ExpireLease(m) PROVE RowStep
  BY <1>12 DEF Tick, ExpireLease, RowStep, Lapsed
<1>13. ASSUME NEW m \in Message, NEW s \in {"delivered", "read"}, Receipt(m, s) PROVE RowStep
  BY <1>13 DEF Receipt, RowStep, Receipted
<1>. QED BY <1>1, <1>2, <1>3, <1>4, <1>5, <1>6, <1>7, <1>8, <1>9, <1>10, <1>11, <1>12, <1>13
  DEF Next

\* A message that has left is never sent again, whatever its run, its lease or
\* an operator does; its receipts only advance it.
THEOREM GoneStaysGone == Spec => GoneForGood
<1> DEFINE Forward ==
  \A m \in Message :
    status[m] \in Gone =>
      status'[m] \in CASE status[m] = "sent"      -> Gone
                       [] status[m] = "delivered" -> {"delivered", "read"}
                       [] status[m] = "read"      -> {"read"}
<1>1. IInv /\ RowStep => Forward
  <2> SUFFICES ASSUME IInv, RowStep, NEW x \in Message, status[x] \in Gone
               PROVE  \/ status'[x] = status[x]
                      \/ status[x] = "sent" /\ status'[x] \in {"delivered", "read"}
                      \/ status[x] = "delivered" /\ status'[x] = "read"
    BY DEF Gone
  <2>. QED
    BY DEF IInv, TypeOK, RowTypes, RowStep, Accepted, Lapsed, Revived, Taken, Left, Receipted,
           Release, SetStatus, Gone
<1>2. IInv /\ [Next]_vars => [Forward]_vars
  BY <1>1, EveryStepIsRowStep
<1>. QED BY <1>2, Invariance, PTL DEF Spec, GoneForGood

\* A message is given up only by the run that holds it, when its attempts are
\* spent.
THEOREM GivenUpOnlyWhenSpent == Spec => GivenUpWhenSpent
<1> DEFINE Earned ==
  \A m \in Message :
    status[m] = "sending" /\ status'[m] = "dead_letter"
      => attempts'[m] = limit[m] /\ attempts'[m] = attempts[m] + 1 /\ token[m] = boot
<1>1. IInv /\ RowStep => Earned
  <2> SUFFICES ASSUME IInv, RowStep, NEW x \in Message,
                      status[x] = "sending", status'[x] = "dead_letter"
               PROVE  attempts'[x] = limit[x] /\ attempts'[x] = attempts[x] + 1 /\ token[x] = boot
    OBVIOUS
  <2>0. RowTypes
    BY DEF IInv, TypeOK
  <2>1. Left(x) /\ Release(x, "dead_letter")
    BY <2>0 DEF RowStep, Accepted, Lapsed, Revived, Taken, Left, Receipted, Release, SetStatus,
                RowTypes
  <2>2. /\ attempts' = [attempts EXCEPT ![x] = attempts[x] + 1]
        /\ attempts[x] + 1 = limit[x] /\ token[x] = boot
    BY <2>0, <2>1 DEF Left, Release, SetStatus, RowTypes
  <2>. QED BY <2>0, <2>2 DEF RowTypes
<1>2. IInv /\ [Next]_vars => [Earned]_vars
  BY <1>1, EveryStepIsRowStep
<1>. QED BY <1>2, Invariance, PTL DEF Spec, GivenUpWhenSpent

-----------------------------------------------------------------------------
(* Refinement of LeasedQueue.                                              *)

\* The abstract phase of a row in a status.
PhaseOf(s) == CASE s = "absent"      -> "absent"
                [] s \in Gone        -> "done"
                [] s = "dead_letter" -> "dead"
                [] OTHER             -> "pending"

LEMMA AbsAt ==
  /\ AbsPhase  = [m \in Message |-> PhaseOf(status[m])]
  /\ AbsPhase' = [m \in Message |-> PhaseOf(status'[m])]
  /\ AbsLapsed  = [m \in Message |-> lease[m] = "expired"]
  /\ AbsLapsed' = [m \in Message |-> lease'[m] = "expired"]
BY DEF AbsPhase, AbsLapsed, PhaseOf

\* The abstract change of one row, from the change of its columns.
LEMMA AbsChange ==
  ASSUME NEW m \in Message, NEW p, NEW b \in BOOLEAN,
         \A x \in Message : x # m => status'[x] = status[x] /\ lease'[x] = lease[x],
         PhaseOf(status'[m]) = p, (lease'[m] = "expired") = b
  PROVE  /\ AbsPhase'  = [AbsPhase  EXCEPT ![m] = p]
         /\ AbsLapsed' = [AbsLapsed EXCEPT ![m] = b]
BY AbsAt

LEMMA RefinesInit == Init => LQ!Init
<1> SUFFICES ASSUME Init PROVE LQ!Init
  OBVIOUS
<1>1. AbsPhase = [i \in Message |-> "absent"] /\ AbsLapsed = [i \in Message |-> FALSE]
  BY DEF Init, AbsPhase, AbsLapsed, Gone
<1>. QED BY <1>1 DEF Init, LQ!Init

LEMMA RefinesStep == IInv /\ RowStep => [LQ!Next]_(LQ!qvars)
<1> SUFFICES ASSUME IInv, RowStep PROVE LQ!Next \/ UNCHANGED LQ!qvars
  OBVIOUS
<1>0. RowTypes /\ RowsOK
  BY DEF IInv, TypeOK
<1>1. CASE UNCHANGED <<status, lease, token>>
  BY <1>1 DEF LQ!qvars, AbsPhase, AbsLapsed
<1>2. ASSUME NEW m \in Message, Accepted(m) PROVE LQ!Next
  <2>1. PICK s \in {"queued", "dead_letter"} : SetStatus(m, s)
    BY <1>2 DEF Accepted
  <2>2. PhaseOf(s) \in {"pending", "dead"}
    BY DEF PhaseOf, Gone
  <2>3. AbsPhase' = [AbsPhase EXCEPT ![m] = PhaseOf(s)] /\ UNCHANGED <<token, AbsLapsed>>
    BY <1>0, <1>2, <2>1, AbsAt DEF Accepted, SetStatus, RowTypes
  <2>4. AbsPhase[m] = "absent"
    BY <1>2, AbsAt DEF Accepted, PhaseOf, Gone
  <2>. QED BY <2>2, <2>3, <2>4 DEF LQ!Next, LQ!Accept
<1>3. ASSUME NEW m \in Message, Lapsed(m) PROVE LQ!Next
  <2>1. token[m] # 0
    BY <1>0, <1>3 DEF Lapsed, RowsOK, RowOK
  <2>2. AbsLapsed' = [AbsLapsed EXCEPT ![m] = TRUE] /\ UNCHANGED <<AbsPhase, token>>
    BY <1>0, <1>3, AbsAt DEF Lapsed, RowTypes
  <2>. QED BY <2>1, <2>2 DEF LQ!Next, LQ!Lapse
<1>4. ASSUME NEW m \in Message, Revived(m) PROVE LQ!Next \/ UNCHANGED LQ!qvars
  <2>1. token[m] = 0 /\ lease[m] = "none"
    BY <1>0, <1>4 DEF Revived, RowsOK, RowOK
  <2>2. token' = token /\ lease' = lease
    BY <1>0, <1>4, <2>1 DEF Revived, Release, RowTypes
  <2>3. status' = [status EXCEPT ![m] = "queued"] /\ AbsLapsed' = AbsLapsed
    BY <1>4, <2>2 DEF Revived, Release, SetStatus, AbsLapsed
  <2>4. AbsPhase' = [AbsPhase EXCEPT ![m] = "pending"]
    BY <1>0, <2>3, AbsAt DEF RowTypes, PhaseOf, Gone
  <2>5. CASE status[m] = "failed"
    BY <2>2, <2>3, <2>4, <2>5, AbsAt DEF PhaseOf, Gone, LQ!qvars
  <2>6. CASE status[m] = "dead_letter"
    <3>1. AbsPhase[m] = "dead"
      BY <2>6, AbsAt DEF PhaseOf, Gone
    <3>. QED BY <2>2, <2>3, <2>4, <3>1 DEF LQ!Next, LQ!Revive
  <2>. QED BY <1>4, <2>5, <2>6 DEF Revived
<1>5. ASSUME NEW m \in Message, Taken(m) PROVE LQ!Next
  <2>1. AbsPhase[m] = "pending" /\ (token[m] = 0 \/ AbsLapsed[m])
    BY <1>0, <1>5, AbsAt DEF Taken, RowTypes, RowsOK, RowOK, PhaseOf, Gone
  <2>2. PhaseOf(status'[m]) = "pending" /\ (lease'[m] = "expired") = FALSE
    BY <1>0, <1>5 DEF Taken, SetStatus, RowTypes, PhaseOf, Gone
  <2>3. \A x \in Message : x # m => status'[x] = status[x] /\ lease'[x] = lease[x]
    BY <1>0, <1>5 DEF Taken, SetStatus, RowTypes
  <2>4. /\ AbsPhase' = [AbsPhase EXCEPT ![m] = "pending"]
        /\ AbsLapsed' = [AbsLapsed EXCEPT ![m] = FALSE]
    BY <2>2, <2>3, AbsChange
  <2>5. AbsPhase' = AbsPhase
    BY <2>1, <2>4, AbsAt
  <2>6. LQ!Take(boot, m)
    BY <1>5, <2>1, <2>4, <2>5 DEF Taken, LQ!Take
  <2>. QED BY <1>5, <2>6 DEF Taken, LQ!Next
<1>6. ASSUME NEW m \in Message, Left(m) PROVE LQ!Next
  <2>1. PICK s \in {"sent", "failed", "dead_letter"} : Release(m, s)
    BY <1>6 DEF Left
  <2>2. PhaseOf(s) \in {"pending", "done", "dead"}
    BY DEF PhaseOf, Gone
  <2>3. /\ \A x \in Message : x # m => status'[x] = status[x] /\ lease'[x] = lease[x]
        /\ status'[m] = s /\ (lease'[m] = "expired") = FALSE
        /\ token' = [token EXCEPT ![m] = 0]
    BY <1>0, <2>1 DEF Release, SetStatus, RowTypes
  <2>4. /\ AbsPhase' = [AbsPhase EXCEPT ![m] = PhaseOf(s)]
        /\ AbsLapsed' = [AbsLapsed EXCEPT ![m] = FALSE]
    BY <2>3, AbsChange
  <2>5. LQ!Leave(boot, m, PhaseOf(s))
    BY <1>6, <2>2, <2>3, <2>4 DEF Left, LQ!Leave
  <2>. QED BY <1>6, <2>2, <2>5 DEF Left, LQ!Next
<1>7. ASSUME NEW m \in Message, Receipted(m) PROVE UNCHANGED LQ!qvars
  <2>1. \A x \in Message : PhaseOf(status'[x]) = PhaseOf(status[x])
    BY <1>0, <1>7 DEF Receipted, SetStatus, RowTypes, PhaseOf, Gone
  <2>. QED BY <1>7, <2>1, AbsAt DEF Receipted, AbsLapsed, LQ!qvars
<1>. QED BY <1>1, <1>2, <1>3, <1>4, <1>5, <1>6, <1>7 DEF RowStep

\* The outbox, with its worker, its receipts and its actions, is a
\* LeasedQueue whose owners are the processes.
THEOREM OutboxImplementsLeasedQueue == Spec => ImplementsLeasedQueue
<1>1. IInv /\ [Next]_vars => [LQ!Next]_(LQ!qvars)
  BY RefinesStep, EveryStepIsRowStep
<1>. QED BY <1>1, RefinesInit, Invariance, PTL DEF Spec, ImplementsLeasedQueue, LQ!Spec

\* Every transmission and effect is accounted for and in its order.
THEOREM EffectsAreAlwaysPaidFor == Spec => []EffectsArePaidFor
BY SendsArePaidFor, SendComesFirst, ActionsArePaidFor, PTL DEF EffectsArePaidFor

\* Rows that have left stay gone, those given up have spent their attempts.
THEOREM RowsSettleForGood == Spec => SettledForGood
BY GoneStaysGone, GivenUpOnlyWhenSpent DEF SettledForGood
=============================================================================
