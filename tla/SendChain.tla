----------------------------- MODULE SendChain -----------------------------
(***************************************************************************)
(* The queue of the sends of each number: a chain of promises with a map   *)
(* of their tails and one of their depths, both cleaned up when a chain    *)
(* runs empty (src/src/whatsapp/per-number-queue.ts).                      *)
(*                                                                         *)
(* A send is a task given to enqueue; the clean-up of its tail runs some   *)
(* time after its task has ended.  Of the delay only that it may pass      *)
(* before the task starts.                                                 *)
(***************************************************************************)
EXTENDS Naturals, FiniteSets

CONSTANTS Send, Line, NoSend

ASSUME SendChainAssumption == NoSend \notin Send

VARIABLES
  stage,   \* of each send
  line,    \* the number it goes through
  after,   \* the send whose tail it waits for
  tails,   \* by number
  depths   \* by number; 0 for no entry

chainVars == <<stage, line, after, tails, depths>>

ChainInit ==
  /\ stage = [s \in Send |-> "new"]
  /\ line \in [Send -> Line]
  /\ after = [s \in Send |-> NoSend]
  /\ tails = [l \in Line |-> NoSend]
  /\ depths = [l \in Line |-> 0]

Step(s, from, to) == stage[s] = from /\ stage' = [stage EXCEPT ![s] = to]

EnqueueSend(s) ==
  /\ Step(s, "new", "waiting")
  /\ after' = [after EXCEPT ![s] = tails[line[s]]]
  /\ tails' = [tails EXCEPT ![line[s]] = s]
  /\ depths' = [depths EXCEPT ![line[s]] = @ + 1]
  /\ UNCHANGED line

(* previous.then: a tail is settled when its clean-up has run              *)
StartTask(s) ==
  /\ after[s] # NoSend => stage[after[s]] = "settled"
  /\ Step(s, "waiting", "sending")
  /\ UNCHANGED <<line, after, tails, depths>>

(* sent, or failed                                                         *)
EndTask(s) == Step(s, "sending", "ended") /\ UNCHANGED <<line, after, tails, depths>>

\* a plausible mistake: every tail takes the entry of its number along
Empties(depth) == TRUE

LastOne(depth) == depth <= 0

CleanUp(s) ==
  /\ Step(s, "ended", "settled")
  /\ LET depth == depths[line[s]] - 1 IN
     IF LastOne(depth)
     THEN /\ depths' = [depths EXCEPT ![line[s]] = 0]
          /\ tails' = [tails EXCEPT ![line[s]] = NoSend]
     ELSE depths' = [depths EXCEPT ![line[s]] = depth] /\ UNCHANGED tails
  /\ UNCHANGED <<line, after>>

ChainNext == \E s \in Send : EnqueueSend(s) \/ StartTask(s) \/ EndTask(s) \/ CleanUp(s)

(* docs/operations.md:72, "Outbound dari nomor sama diserialkan": a number *)
(* sends one message at a time, and forgets a chain only with nothing in   *)
(* it.                                                                     *)
SendsAreSerial ==
  /\ \A s, t \in Send : s # t /\ line[s] = line[t] => ~(stage[s] = "sending" /\ stage[t] = "sending")
  /\ \A l \in Line : depths[l] = Cardinality({s \in Send : line[s] = l /\ stage[s] \in {"waiting", "sending", "ended"}})
=============================================================================
