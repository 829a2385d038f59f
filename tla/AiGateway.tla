----------------------------- MODULE AiGateway -----------------------------
(***************************************************************************)
(* The calls of the language model and what protects them: the cost limits *)
(* (src/src/ai/token-limiter.ts) and the circuit breaker                   *)
(* (src/src/ai/circuit-breaker.ts), one of each for all callers of         *)
(* createCompatibleCompletion (src/src/ai/agent.ts).  A caller is a turn,  *)
(* or a preview in the panel, which repeats a call that failed.            *)
(*                                                                         *)
(* Abstractions:                                                           *)
(*  - a time is its age in ticks; ages older than anything compares with   *)
(*    them are forgotten.  The clocks of the breaker (minutes) and of the  *)
(*    limits (hours) are the same;                                         *)
(*  - cost is in units; a call may be free, its answer streamed without    *)
(*    usage; prompts that are too long are a choice of the caller;         *)
(*  - totals that are only shown, and reset(), called by tests, are left   *)
(*    out.                                                                 *)
(***************************************************************************)
EXTENDS Naturals, FiniteSets, FiniteSetsExt

CONSTANTS
  Caller,
  FailureThreshold, SuccessThreshold, ResetTimeout, MonitoringWindow,
  Hour, HourLimit, Day, DayLimit,
  MaxCost,      \* bound: cost of a call
  MaxFailures   \* bound: calls that fail

ASSUME AiGatewayAssumption ==
  /\ {FailureThreshold, SuccessThreshold, ResetTimeout, HourLimit, DayLimit} \subseteq Nat \ {0}
  /\ {MonitoringWindow, MaxCost, MaxFailures, Hour, Day} \subseteq Nat /\ Hour <= Day
  /\ IsFiniteSet(Caller)

VARIABLES
  calls,           \* what each caller is doing, and the repeats it has left
  circuit, successes,
  lastFailure,     \* age of lastFailureTime
  recentFailures,  \* how many there are of each age
  usage,           \* cost recorded at each age
  failed           \* calls that have failed

aiVars == <<calls, circuit, successes, lastFailure, recentFailures, usage, failed>>

AiInit ==
  /\ calls = [c \in Caller |-> [at |-> "idle", left |-> 0]]
  /\ circuit = "CLOSED" /\ successes = 0 /\ lastFailure = ResetTimeout
  /\ recentFailures = [age \in 0..MonitoringWindow |-> 0]
  /\ usage = [age \in 0..Day |-> 0]
  /\ failed = 0

Total(f, ages) == MapThenSumSet(LAMBDA age : f[age], ages)
Later(f) == [age \in DOMAIN f |-> IF age = 0 THEN 0 ELSE f[age - 1]]

-----------------------------------------------------------------------------
\* a plausible mistake: the limit may be used up to the last unit
WithinLimitsLate == Total(usage, 0..Hour) <= HourLimit /\ Total(usage, 0..Day) <= DayLimit

(* checkLimits: what was recorded, not what is under way                   *)
WithinLimits == Total(usage, 0..Hour) < HourLimit /\ Total(usage, 0..Day) < DayLimit
ShouldAttemptReset == lastFailure >= ResetTimeout
Admits == circuit # "OPEN" \/ ShouldAttemptReset

\* a plausible mistake: every admitted call starts the count again
FreshCount == 0

CountOnEntry == IF circuit = "OPEN" THEN 0 ELSE successes

(* createCompatibleCompletion up to the fetch.  A refused call throws      *)
(* before execute has called anything, and is not repeated.                *)
AskModel(c, left) ==
  /\ IF WithinLimits /\ Admits
     THEN /\ calls' = [calls EXCEPT ![c] = [at |-> "asking", left |-> left]]
          /\ circuit' = IF circuit = "OPEN" THEN "HALF_OPEN" ELSE circuit
          /\ successes' = CountOnEntry
     ELSE /\ calls' = [calls EXCEPT ![c] = [at |-> "idle", left |-> 0]]
          /\ UNCHANGED <<circuit, successes>>
  /\ UNCHANGED <<lastFailure, recentFailures, usage, failed>>

(* a turn does not repeat a call; a preview does, twice                    *)
BeginCall(c) == calls[c].at = "idle" /\ \E left \in {0, 2} : AskModel(c, left)
RepeatCall(c) == calls[c].at = "again" /\ AskModel(c, calls[c].left)

(* onSuccess, then recordUsage                                             *)
CallSucceeds(c) ==
  /\ calls[c].at = "asking"
  /\ calls' = [calls EXCEPT ![c] = [at |-> "idle", left |-> 0]]
  /\ \E cost \in 0..MaxCost : usage' = [usage EXCEPT ![0] = @ + cost]
  /\ IF circuit = "HALF_OPEN" /\ successes + 1 >= SuccessThreshold
     THEN circuit' = "CLOSED" /\ successes' = 0
     ELSE /\ successes' = IF circuit = "HALF_OPEN" THEN successes + 1 ELSE successes
          /\ UNCHANGED circuit
  /\ UNCHANGED <<lastFailure, recentFailures, failed>>

(* onFailure, in the state the breaker has now.  A prompt the provider     *)
(* calls too long is repeated once, shorter; what looks transient as often *)
(* as is left.                                                             *)
CallFails(c) ==
  /\ calls[c].at = "asking" /\ failed < MaxFailures /\ failed' = failed + 1
  /\ lastFailure' = 0
  /\ recentFailures' = [recentFailures EXCEPT ![0] = @ + 1]
  /\ IF circuit = "HALF_OPEN"
     THEN circuit' = "OPEN" /\ successes' = 0
     ELSE /\ circuit' = IF Total(recentFailures, 0..MonitoringWindow) + 1 >= FailureThreshold
                        THEN "OPEN" ELSE circuit
          /\ UNCHANGED successes
  /\ \/ calls' = [calls EXCEPT ![c] = [at |-> "idle", left |-> 0]]
     \/ /\ calls[c].left > 0
        /\ \E left \in {0, calls[c].left - 1} :
             calls' = [calls EXCEPT ![c] = [at |-> "again", left |-> left]]
  /\ UNCHANGED usage

AiTick ==
  /\ lastFailure' = IF lastFailure < ResetTimeout THEN lastFailure + 1 ELSE lastFailure
  /\ recentFailures' = Later(recentFailures) /\ usage' = Later(usage)
  /\ UNCHANGED <<calls, circuit, successes, failed>>

AiReturn(c) == CallSucceeds(c) \/ CallFails(c)
AiNext == AiTick \/ \E c \in Caller : BeginCall(c) \/ RepeatCall(c) \/ AiReturn(c)

-----------------------------------------------------------------------------
(* What the calls of an hour cost passes the limit by no more than the     *)
(* calls that can be under way at once, which were all let in before the   *)
(* first of them was charged.                                              *)
InFlight == Cardinality({c \in Caller : calls[c].at = "asking"})
SpendingIsBounded ==
  Total(usage, 0..Hour) + MaxCost * InFlight <= HourLimit - 1 + MaxCost * Cardinality(Caller)

(* When the provider has stopped failing, and calls go on being made, the  *)
(* breaker closes, whatever late answers it has counted in between.        *)
BreakerRecovers ==
  (\A c \in Caller : WF_aiVars(BeginCall(c))) => []<>(circuit = "CLOSED")
=============================================================================
