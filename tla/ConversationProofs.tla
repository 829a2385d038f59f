------------------------- MODULE ConversationProofs -------------------------
(***************************************************************************)
(* Proofs about the turns of a customer, for any number of messages,       *)
(* operators, handoffs, tool calls and incidents: that what was deleted    *)
(* stays deleted, that the bot keeps quiet while a human has the customer, *)
(* and that a turn comes to rest having told an operator what it must, or  *)
(* is one of those that lost what they carried.                            *)
(*                                                                         *)
(* What a step may do to the log of handoffs, to a turn and to a message   *)
(* at rest is said once, action by action (LogStep, PastStep, RestStep);   *)
(* the invariants follow from that.                                        *)
(*                                                                         *)
(* And about what a turn remembers of a customer's choice, for any         *)
(* perfumes and messages: every write that is left to make is one that     *)
(* keeps it the customer's.                                                *)
(***************************************************************************)
EXTENDS Conversation, Turns, SequenceTheorems, TLAPS

ConversationSpec == ConversationInit /\ [][ConversationNext]_conversationVars
TurnsSpec == TurnsInit /\ [][TurnsNext]_choiceVars

Entry == [resolved : BOOLEAN, here : BOOLEAN, by : Message, cleared : SUBSET Message]

ConversationTypes ==
  /\ log \in Seq(Entry) /\ resolving \in [Operator -> Nat]
  /\ content \in [Message -> Content]
  /\ turn \in [Message -> Working \cup Resting \cup {"queued"}]
  /\ attempts \in [Message -> Nat]
  /\ kept \subseteq {"user", "assistant", "lead", "media"} \X Message
  /\ outbox \subseteq CustomerKeys \cup OperatorKeys
  /\ postSend \in [Message -> {"none", "pending", "running", "logged", "done", "stuck"}]
  /\ carried \in [Message -> SUBSET {"handoff", "order", "payment"}]
  /\ direct \in [Message -> BOOLEAN] /\ toolCalls \in [Message -> Nat]
  /\ confirmed \subseteq Message /\ cut \subseteq Message
  /\ orphans \subseteq Message /\ erased \subseteq Message
  /\ incidents \in Nat

-----------------------------------------------------------------------------
(* The log.                                                                *)

\* Who may make a handoff: a turn in progress, or the action after the reply.
MayLog(m) == turn[m] \in Working \/ postSend[m] = "running"

\* An unresolved handoff was unresolved before, or this step made it.
Inherited(r) ==
  r \in DOMAIN log /\ Open(r) /\ log'[r].by = log[r].by /\ log'[r].cleared = log[r].cleared
Fresh(r) == \E m \in Message :
  /\ MayLog(m) /\ log'[r].by = m
  /\ log'[r].cleared = Cleared \cup {m}

(* create adds an unresolved row only if there is none.                    *)
LEMMA CreatedEntry ==
  ASSUME ConversationTypes, NEW m \in Message, MayLog(m), LogHandoff(m)
  PROVE  /\ log' \in Seq(Entry)
         /\ \A r \in DOMAIN log' : Open(r)' => Inherited(r) \/ Fresh(r)
<1>1. log \in Seq(Entry) /\ DOMAIN log = 1..Len(log) /\ Len(log) \in Nat
  BY LenProperties DEF ConversationTypes
<1>2. CASE HandedOff
  <2>1. log' = log
    BY <1>2 DEF LogHandoff, Created
  <2> QED BY <1>1, <2>1 DEF Inherited, Open
<1>3. CASE ~HandedOff
  <2> DEFINE new == [resolved |-> FALSE, here |-> TRUE, by |-> m, cleared |-> Cleared \cup {m}]
  <2>1. log' = Append(log, new)
    BY <1>3 DEF LogHandoff, Created
  <2>2. new \in Entry
    BY DEF Entry, Cleared
  <2>3. new.by = m /\ new.cleared = Cleared \cup {m}
    OBVIOUS
  <2> HIDE DEF new
  <2>4. /\ log' \in Seq(Entry) /\ DOMAIN log' = 1..(Len(log) + 1)
        /\ log'[Len(log) + 1] = new
        /\ \A r \in 1..Len(log) : log'[r] = log[r]
    <3>1. /\ log' \in Seq(Entry) /\ Len(log') = Len(log) + 1
          /\ \A i \in 1..Len(log) : log'[i] = log[i]
          /\ log'[Len(log) + 1] = new
      BY <1>1, <2>1, <2>2, AppendProperties
    <3>2. DOMAIN log' = 1..Len(log')
      BY <3>1, LenProperties
    <3> QED BY <3>1, <3>2
  <2>5. ASSUME NEW r \in DOMAIN log', Open(r)' PROVE Inherited(r) \/ Fresh(r)
    <3>1. CASE r = Len(log) + 1
      BY <2>3, <2>4, <3>1 DEF Fresh
    <3>2. CASE r \in 1..Len(log)
      BY <1>1, <2>4, <2>5, <3>2 DEF Inherited, Open
    <3> QED BY <1>1, <2>4, <3>1, <3>2
  <2> QED BY <2>4, <2>5
<1> QED BY <1>2, <1>3

(* A resolution by id and a deletion close rows and open none.             *)
LEMMA ClosedEntry ==
  ASSUME ConversationTypes,
         \/ \E o \in Operator : ResolveEntry(o)
         \/ DeleteCustomer
  PROVE  /\ log' \in Seq(Entry)
         /\ \A r \in DOMAIN log' : Open(r)' => Inherited(r)
<1>1. log \in Seq(Entry) /\ DOMAIN log = 1..Len(log) /\ Len(log) \in Nat
  BY LenProperties DEF ConversationTypes
<1>e. \A r \in DOMAIN log : log[r] \in Entry
  BY <1>1, ElementOfSeq
<1>2. ASSUME NEW o \in Operator, ResolveEntry(o)
      PROVE  log' \in Seq(Entry) /\ \A r \in DOMAIN log' : Open(r)' => Inherited(r)
  <2> DEFINE e == resolving[o]
             new == [log[e] EXCEPT !.resolved = @ \/ log[e].here]
  <2>1. CASE e \in DOMAIN log
    <3>1. log' = [log EXCEPT ![e] = new]
      BY <1>2 DEF ResolveEntry
    <3>2. new \in Entry /\ new.by = log[e].by /\ new.cleared = log[e].cleared
          /\ new.here = log[e].here /\ (~new.resolved => ~log[e].resolved)
      BY <1>e, <2>1 DEF Entry
    <3> HIDE DEF new, e
    <3>3. log' \in Seq(Entry) /\ DOMAIN log' = DOMAIN log /\ log'[e] = new
          /\ \A r \in DOMAIN log : r # e => log'[r] = log[r]
      BY <1>1, <2>1, <3>1, <3>2, ExceptSeq, LenProperties
    <3> QED BY <3>2, <3>3 DEF Open, Inherited
  <2>2. CASE e \notin DOMAIN log
    <3>1. log' = log
      BY <1>1, <1>2, <2>2 DEF ResolveEntry
    <3> QED BY <1>1, <3>1 DEF Open, Inherited
  <2> QED BY <2>1, <2>2
<1>3. ASSUME DeleteCustomer
      PROVE  log' \in Seq(Entry) /\ \A r \in DOMAIN log' : Open(r)' => Inherited(r)
  <2>1. log' = [r \in 1..Len(log) |-> [log[r] EXCEPT !.here = FALSE]]
    BY <1>1, <1>3 DEF DeleteCustomer
  <2>2. \A r \in 1..Len(log) : log'[r] \in Entry /\ ~log'[r].here
    BY <1>1, <1>e, <2>1 DEF Entry
  <2>3. DOMAIN log' = 1..Len(log)
    BY <2>1
  <2>4. log' \in Seq(Entry)
    BY <1>1, <2>1, <2>2, IsASeq
  <2> QED BY <2>2, <2>3, <2>4 DEF Open
<1> QED BY <1>2, <1>3

LEMMA LogStep ==
  ASSUME ConversationTypes, ConversationNext
  PROVE  /\ log' \in Seq(Entry)
         /\ \A r \in DOMAIN log' : Open(r)' => Inherited(r) \/ Fresh(r)
<1> DEFINE Goal == /\ log' \in Seq(Entry)
                   /\ \A r \in DOMAIN log' : Open(r)' => Inherited(r) \/ Fresh(r)
<1>1. ASSUME log' = log PROVE Goal
  BY <1>1 DEF ConversationTypes, Inherited, Open
<1>2. ASSUME NEW m \in Message, Receive(m) \/ TurnStep(m) \/ AfterStep(m)
                                \/ ModelFails(m) \/ Fail(m) \/ AfterSendFails(m)
      PROVE  log' = log \/ (MayLog(m) /\ LogHandoff(m))
  <2>1. CASE AnswerClosed(m) \/ AnswerByRule(m) \/ CallTool(m) \/ MediaHandoff(m) \/ LogAfterSend(m)
    BY <2>1 DEF AnswerClosed, AnswerByRule, CallTool, MediaHandoff, LogAfterSend, MayLog,
                Working, Past, logVars
  <2>2. CASE Begin(m) \/ AnswerConsent(m) \/ CheckHandoff(m) \/ ModelAnswers(m) \/ AnswerPostage(m)
             \/ Reply(m) \/ Tell(m) \/ Complete(m) \/ MediaReply(m) \/ MediaNotice(m)
    BY <2>2 DEF Begin, AnswerConsent, CheckHandoff, ModelAnswers, AnswerPostage, Reply, Tell,
                Complete, MediaReply, MediaNotice, logVars
  <2>3. CASE Receive(m) \/ SendReply(m) \/ TellAfterSend(m)
             \/ ModelFails(m) \/ Fail(m) \/ AfterSendFails(m)
    BY <2>3 DEF Receive, SendReply, TellAfterSend, ModelFails, Fail, AfterSendFails, logVars
  <2> QED BY <1>2, <2>1, <2>2, <2>3 DEF TurnStep, AfterStep
<1>3. ASSUME NEW m \in Message, MayLog(m), LogHandoff(m) PROVE Goal
  BY <1>3, CreatedEntry
<1>4. ASSUME NEW o \in Operator, NEW r \in DOMAIN log, ReadToResolve(o, r) PROVE log' = log
  BY <1>4 DEF ReadToResolve
<1>5. ASSUME Crash PROVE log' = log
  BY <1>5 DEF Crash
<1>6. ASSUME (\E o \in Operator : ResolveEntry(o)) \/ DeleteCustomer PROVE Goal
  BY <1>6, ClosedEntry
<1> QED BY <1>1, <1>2, <1>3, <1>4, <1>5, <1>6 DEF ConversationNext

-----------------------------------------------------------------------------
(* Turns.                                                                  *)

(* What the claim of a message does, whatever the message is.              *)
LEMMA BeginTurn ==
  ASSUME ConversationTypes, NEW m \in Message, Begin(m)
  PROVE  \E s \in {"read", "consenting", "media"}, column \in {"user", "media"} :
           Go(m, s) /\ Keep({<<column, m>>})
<1>1. content[m] = "talk" \/ content[m] = "optOut" \/ content[m] = "badMedia"
  BY DEF ConversationTypes, Content
<1>2. CASE content[m] = "talk"
  BY <1>2 DEF Begin
<1>3. CASE content[m] = "optOut"
  BY <1>3 DEF Begin
<1>4. CASE content[m] = "badMedia"
  BY <1>4 DEF Begin
<1> QED BY <1>1, <1>2, <1>3, <1>4

(* A turn gets past the look at the handoff only when none is active.      *)
LEMMA PastStep ==
  ASSUME ConversationTypes, ConversationNext, NEW n \in Message, turn'[n] \in Past
  PROVE  turn[n] \in Past \/ (~HandedOff /\ log' = log)
<1>t. turn \in [Message -> Working \cup Resting \cup {"queued"}]
  BY DEF ConversationTypes
<1>1. ASSUME NEW m \in Message, TurnStep(m) PROVE turn[n] \in Past \/ (~HandedOff /\ log' = log)
  <2>1. CASE CheckHandoff(m)
    BY <1>t, <2>1 DEF CheckHandoff, Silent, Go, Past, logVars
  <2>2. CASE Begin(m)
    BY <1>t, <2>2, BeginTurn DEF Go, Past
  <2>3. CASE AnswerByRule(m) \/ ModelAnswers(m) \/ AnswerPostage(m) \/ CallTool(m)
    BY <1>t, <2>3 DEF AnswerByRule, ModelAnswers, AnswerPostage, CallTool, Go, Past
  <2>4. CASE AnswerConsent(m) \/ AnswerClosed(m) \/ Reply(m) \/ Tell(m) \/ Complete(m)
    BY <1>t, <2>4 DEF AnswerConsent, AnswerClosed, Reply, Tell, Complete, Go, Past
  <2>5. CASE MediaReply(m) \/ MediaHandoff(m) \/ MediaNotice(m)
    BY <1>t, <2>5 DEF MediaReply, MediaHandoff, MediaNotice, Go, Past
  <2> QED BY <1>1, <2>1, <2>2, <2>3, <2>4, <2>5 DEF TurnStep
<1>2. ASSUME NEW m \in Message, AfterStep(m) \/ AfterSendFails(m) PROVE turn' = turn
  BY <1>2 DEF AfterStep, SendReply, LogAfterSend, TellAfterSend, AfterSendFails, turnVars
<1>3. ASSUME NEW m \in Message, Receive(m) \/ ModelFails(m) \/ Fail(m) PROVE turn[n] \in Past
  BY <1>t, <1>3 DEF Receive, ModelFails, Fail, AfterFailure, Go, Past
<1>4. ASSUME NEW o \in Operator, UNCHANGED <<content, turnVars, dataVars, ghostVars>> PROVE turn' = turn
  BY <1>4 DEF turnVars
<1>5. CASE Crash \/ DeleteCustomer
  BY <1>t, <1>5 DEF Crash, DeleteCustomer, AfterFailure, Cleaned, Past
<1> QED BY <1>1, <1>2, <1>3, <1>4, <1>5 DEF ConversationNext

\* Whom a deletion finds at rest, and who stays so.
Gone(m) == turn[m] = "gone" /\ postSend[m] \in {"none", "done", "stuck"}

(* A message that is gone writes nothing any more.                         *)
LEMMA RestStep ==
  ASSUME ConversationTypes, ConversationNext, NEW n \in Message, Gone(n)
  PROVE  /\ Gone(n)' /\ ~MayLog(n)
         /\ \A column : <<column, n>> \in kept' => <<column, n>> \in kept
         /\ \A key \in CustomerKeys : key[2] = n /\ key \in outbox' => key \in outbox
<1>t. /\ turn \in [Message -> Working \cup Resting \cup {"queued"}]
      /\ postSend \in [Message -> {"none", "pending", "running", "logged", "done", "stuck"}]
      /\ turn[n] = "gone" /\ postSend[n] \in {"none", "done", "stuck"}
  BY DEF ConversationTypes, Gone
<1> DEFINE Goal == /\ turn'[n] = "gone" /\ postSend'[n] \in {"none", "done", "stuck"}
                   /\ \A column : <<column, n>> \in kept' => <<column, n>> \in kept
                   /\ \A key \in CustomerKeys : key[2] = n /\ key \in outbox' => key \in outbox
<1>1. ASSUME NEW m \in Message, Receive(m) \/ TurnStep(m) \/ ModelFails(m) \/ Fail(m) PROVE m # n
  BY <1>t, <1>1 DEF Receive, TurnStep, Begin, AnswerConsent, CheckHandoff, AnswerClosed, AnswerByRule,
     CallTool, ModelAnswers, AnswerPostage, Reply, Tell, Complete, MediaReply, MediaHandoff,
     MediaNotice, ModelFails, Fail, Working, Past
<1>2. ASSUME NEW m \in Message, AfterStep(m) \/ AfterSendFails(m) PROVE m # n
  BY <1>t, <1>2 DEF AfterStep, SendReply, LogAfterSend, TellAfterSend, AfterSendFails, Acting
<1>3. ASSUME NEW m \in Message, m # n, TurnStep(m) PROVE Goal
  <2>1. CASE Begin(m)
    <3>1. PICK s \in {"read", "consenting", "media"}, column \in {"user", "media"} :
                 Go(m, s) /\ Keep({<<column, m>>})
      BY <2>1, BeginTurn
    <3>2. postSend' = postSend /\ outbox' = outbox
      BY <2>1 DEF Begin
    <3> QED BY <1>t, <1>3, <3>1, <3>2 DEF Go, Keep
  <2>2. CASE AnswerConsent(m) \/ AnswerClosed(m)
    BY <1>t, <1>3, <2>2 DEF AnswerConsent, AnswerClosed, Go, Keep, Enqueue
  <2>3. CASE CheckHandoff(m) \/ Complete(m) \/ MediaHandoff(m)
    BY <1>t, <1>3, <2>3 DEF CheckHandoff, Complete, MediaHandoff, Go, dataVars
  <2>4. CASE AnswerByRule(m) \/ CallTool(m) \/ ModelAnswers(m)
    BY <1>t, <1>3, <2>4 DEF AnswerByRule, CallTool, ModelAnswers, Go, Keep
  <2>5. CASE AnswerPostage(m)
    BY <1>t, <1>3, <2>5 DEF AnswerPostage, Go, dataVars
  <2>6. CASE Reply(m)
    BY <1>t, <1>3, <2>6 DEF Reply, Go, Keep, Enqueue
  <2>7. CASE Tell(m)
    BY <1>t, <1>3, <2>7 DEF Tell, Notices, Go, Enqueue
  <2>8. CASE MediaReply(m) \/ MediaNotice(m)
    BY <1>t, <1>3, <2>8 DEF MediaReply, MediaNotice, Go, Enqueue
  <2> QED BY <1>3, <2>1, <2>2, <2>3, <2>4, <2>5, <2>6, <2>7, <2>8 DEF TurnStep
<1>4. ASSUME NEW m \in Message, m # n, Receive(m) \/ ModelFails(m) \/ Fail(m) PROVE Goal
  BY <1>t, <1>4 DEF Receive, ModelFails, Fail, Go, Keep, dataVars
<1>5. ASSUME NEW m \in Message, m # n, AfterStep(m) \/ AfterSendFails(m) PROVE Goal
  BY <1>t, <1>5 DEF AfterStep, SendReply, LogAfterSend, TellAfterSend, AfterSendFails, Enqueue, turnVars
<1>6. ASSUME UNCHANGED <<content, turnVars, dataVars, ghostVars>> PROVE Goal
  BY <1>t, <1>6 DEF turnVars, dataVars
<1>7. ASSUME Crash PROVE Goal
  <2>1. turn'[n] = "gone" /\ postSend'[n] = postSend[n]
    BY <1>t, <1>7 DEF Crash, Working, Past, Acting
  <2> QED BY <1>t, <1>7, <2>1 DEF Crash
<1>8. ASSUME DeleteCustomer PROVE Goal
  <2>1. turn'[n] = "gone" /\ postSend'[n] = postSend[n]
    BY <1>t, <1>8 DEF DeleteCustomer, Cleaned
  <2> QED BY <1>t, <1>8, <2>1 DEF DeleteCustomer
<1>9. Goal
  <2> HIDE DEF Goal
  <2> QED BY <1>1, <1>2, <1>3, <1>4, <1>5, <1>6, <1>7, <1>8 DEF ConversationNext
<1>10. ~MayLog(n)
  BY <1>t DEF MayLog, Working, Past
<1> QED BY <1>9, <1>10 DEF Gone

-----------------------------------------------------------------------------
(* Types.                                                                  *)

LEMMA ConversationTypesStay ==
  ASSUME ConversationTypes, ConversationNext
  PROVE  ConversationTypes'
<1> DEFINE Turn == Working \cup Resting \cup {"queued"}
           After == {"none", "pending", "running", "logged", "done", "stuck"}
           What == {"handoff", "order", "payment"}
           Kept == {"user", "assistant", "lead", "media"} \X Message
           Goal == /\ resolving' \in [Operator -> Nat] /\ content' \in [Message -> Content]
                   /\ turn' \in [Message -> Turn] /\ attempts' \in [Message -> Nat]
                   /\ kept' \subseteq Kept /\ outbox' \subseteq CustomerKeys \cup OperatorKeys
                   /\ postSend' \in [Message -> After] /\ carried' \in [Message -> SUBSET What]
                   /\ direct' \in [Message -> BOOLEAN] /\ toolCalls' \in [Message -> Nat]
                   /\ confirmed' \subseteq Message /\ cut' \subseteq Message
                   /\ orphans' \subseteq Message /\ erased' \subseteq Message
                   /\ incidents' \in Nat
<1>t. /\ resolving \in [Operator -> Nat] /\ content \in [Message -> Content]
      /\ turn \in [Message -> Turn] /\ attempts \in [Message -> Nat]
      /\ kept \subseteq Kept /\ outbox \subseteq CustomerKeys \cup OperatorKeys
      /\ postSend \in [Message -> After] /\ carried \in [Message -> SUBSET What]
      /\ direct \in [Message -> BOOLEAN] /\ toolCalls \in [Message -> Nat]
      /\ confirmed \subseteq Message /\ cut \subseteq Message
      /\ orphans \subseteq Message /\ erased \subseteq Message
      /\ incidents \in Nat
  BY DEF ConversationTypes
<1>k. ASSUME NEW m \in Message
      PROVE  /\ {<<"reply", m>>, <<"consent", m>>, <<"out-of-hours", m>>, <<"media-failure-customer", m>>}
                  \subseteq CustomerKeys
             /\ {<<"order-admin", m>>, <<"handoff-admin", m>>, <<"media-failure-admin", m>>} \subseteq OperatorKeys
             /\ {<<"user", m>>, <<"assistant", m>>, <<"lead", m>>, <<"media", m>>} \subseteq Kept
  BY DEF CustomerKeys, OperatorKeys
<1>c. ASSUME NEW m \in Message, NEW what \in SUBSET What, Carry(m, what)
      PROVE  carried' \in [Message -> SUBSET What]
  BY <1>t, <1>c DEF Carry
<1>1. ASSUME NEW m \in Message, Receive(m) PROVE Goal
  BY <1>t, <1>1 DEF Receive, Go, logVars, dataVars, ghostVars, Resting
<1>2. ASSUME NEW m \in Message, Begin(m) PROVE Goal
  <2>1. PICK s \in {"read", "consenting", "media"}, column \in {"user", "media"} :
               Go(m, s) /\ Keep({<<column, m>>})
    BY <1>2, BeginTurn
  <2>2. turn' \in [Message -> Turn] /\ kept' \subseteq Kept
    BY <1>t, <1>k, <2>1 DEF Go, Keep, Working, Past
  <2>3. attempts' \in [Message -> Nat] /\ carried' \in [Message -> SUBSET What]
    BY <1>t, <1>2 DEF Begin, Carry
  <2>4. direct' \in [Message -> BOOLEAN] /\ toolCalls' \in [Message -> Nat]
    BY <1>t, <1>2 DEF Begin
  <2> QED BY <1>t, <1>2, <2>2, <2>3, <2>4 DEF Begin, logVars, ghostVars
<1>3. ASSUME NEW m \in Message, AnswerConsent(m) \/ AnswerClosed(m) PROVE Goal
  <2>1. CASE AnswerConsent(m)
    BY <1>t, <2>1, <1>k, ZenonT(40) DEF AnswerConsent, LogHandoff, Go, Keep, Enqueue, Working, logVars, ghostVars
  <2>2. CASE AnswerClosed(m)
    BY <1>t, <2>2, <1>k, ZenonT(40) DEF AnswerClosed, LogHandoff, Go, Keep, Enqueue, Working, logVars, ghostVars
  <2> QED BY <1>3, <2>1, <2>2
<1>4. ASSUME NEW m \in Message, CheckHandoff(m) \/ Complete(m) PROVE Goal
  BY <1>t, <1>4 DEF CheckHandoff, Complete, Go, Working, Past, Resting, logVars, dataVars, ghostVars
<1>5. ASSUME NEW m \in Message, AnswerByRule(m) PROVE Goal
  <2>1. carried' \in [Message -> SUBSET What]
    <3>1. carried' = carried \/ Carry(m, {"handoff"})
      BY <1>5 DEF AnswerByRule
    <3> QED BY <1>t, <1>c, <3>1
  <2> QED BY <1>t, <1>5, <1>k, <2>1 DEF AnswerByRule, LogHandoff, Go, Keep, Working, Past, logVars, ghostVars
<1>6. ASSUME NEW m \in Message, CallTool(m) PROVE Goal
  <2>1. carried' \in [Message -> SUBSET What]
    <3>1. carried' = carried \/ \E what \in SUBSET What : Carry(m, carried[m] \cup what)
      <4>1. \/ Carry(m, carried[m] \cup {"handoff"})
            \/ \E pay \in SUBSET {"payment"} : Carry(m, carried[m] \cup {"order"} \cup pay)
            \/ carried' = carried
        BY <1>6 DEF CallTool
      <4>2. ASSUME NEW pay \in SUBSET {"payment"}, Carry(m, carried[m] \cup {"order"} \cup pay)
            PROVE  \E what \in SUBSET What : Carry(m, carried[m] \cup what)
        <5>1. carried[m] \cup {"order"} \cup pay = carried[m] \cup ({"order"} \cup pay)
          OBVIOUS
        <5> QED BY <4>2, <5>1
      <4> QED BY <4>1, <4>2
    <3> QED BY <1>t, <1>c, <3>1
  <2>2. toolCalls' \in [Message -> Nat]
    BY <1>t, <1>6 DEF CallTool
  <2>5. direct' \in [Message -> BOOLEAN]
    <3>1. direct' = direct \/ direct' = [direct EXCEPT ![m] = TRUE]
      BY <1>6 DEF CallTool
    <3> QED BY <1>t, <3>1
  <2>6. confirmed' \subseteq Message
    <3>1. confirmed' = confirmed \/ confirmed' = confirmed \cup {m}
      BY <1>6 DEF CallTool
    <3> QED BY <1>t, <3>1
  <2>3. resolving' = resolving
    BY <1>6 DEF CallTool, LogHandoff, logVars
  <2>4. kept' \subseteq Kept
    BY <1>t, <1>6, <1>k DEF CallTool, Keep
  <2> QED BY <1>t, <1>6, <2>1, <2>2, <2>3, <2>4, <2>5, <2>6 DEF CallTool, ghostVars
<1>7. ASSUME NEW m \in Message, ModelAnswers(m) PROVE Goal
  BY <1>t, <1>7, <1>k DEF ModelAnswers, Go, Keep, Working, Past, logVars, ghostVars
<1>8. ASSUME NEW m \in Message, AnswerPostage(m) PROVE Goal
  BY <1>t, <1>8 DEF AnswerPostage, Go, Carry, Working, Past, logVars, dataVars
<1>9. ASSUME NEW m \in Message, ModelFails(m) PROVE Goal
  <2>1. carried' \in [Message -> SUBSET What]
    BY <1>c, <1>9 DEF ModelFails
  <2>2. incidents' \in Nat /\ cut' \subseteq Message
    BY <1>t, <1>9 DEF ModelFails, Incident
  <2> QED BY <1>t, <1>9, <1>k, <2>1, <2>2 DEF ModelFails, Go, Keep, Working, Past, logVars
<1>10. ASSUME NEW m \in Message, Reply(m) PROVE Goal
  BY <1>t, <1>10, <1>k DEF Reply, Go, Keep, Enqueue, Working, logVars, ghostVars
<1>11. ASSUME NEW m \in Message, Tell(m) PROVE Goal
  BY <1>t, <1>11, <1>k DEF Tell, Notices, Go, Enqueue, Working, logVars, ghostVars
<1>12. ASSUME NEW m \in Message, MediaReply(m) \/ MediaNotice(m) PROVE Goal
  <2>1. CASE MediaReply(m)
    BY <1>t, <2>1, <1>k, ZenonT(40) DEF MediaReply, Go, Enqueue, Working, Resting, logVars, ghostVars
  <2>2. CASE MediaNotice(m)
    BY <1>t, <2>2, <1>k, ZenonT(40) DEF MediaNotice, Go, Enqueue, Working, Resting, logVars, ghostVars
  <2> QED BY <1>12, <2>1, <2>2
<1>13. ASSUME NEW m \in Message, MediaHandoff(m) PROVE Goal
  BY <1>t, <1>13 DEF MediaHandoff, LogHandoff, Go, Working, dataVars, ghostVars
<1>14. ASSUME NEW m \in Message, AfterStep(m) PROVE Goal
  <2>1. CASE SendReply(m)
    BY <1>t, <2>1, <1>k, ZenonT(40) DEF SendReply, Enqueue, logVars, turnVars, ghostVars
  <2>2. CASE LogAfterSend(m)
    BY <1>t, <2>2, <1>k, ZenonT(40) DEF LogAfterSend, LogHandoff, logVars, turnVars, ghostVars
  <2>3. CASE TellAfterSend(m)
    BY <1>t, <2>3, <1>k, ZenonT(40) DEF TellAfterSend, Enqueue, logVars, turnVars, ghostVars
  <2> QED BY <1>14, <2>1, <2>2, <2>3 DEF AfterStep
<1>15. ASSUME NEW m \in Message, Fail(m) PROVE Goal
  BY <1>t, <1>15 DEF Fail, AfterFailure, Go, Incident, Resting, logVars, dataVars
<1>16. ASSUME NEW m \in Message, AfterSendFails(m) PROVE Goal
  BY <1>t, <1>16 DEF AfterSendFails, Incident, logVars, turnVars
<1>17. ASSUME NEW o \in Operator, UNCHANGED <<content, turnVars, dataVars, ghostVars>>,
              (\E r \in DOMAIN log : ReadToResolve(o, r)) \/ ResolveEntry(o)
       PROVE  Goal
  <2>1. DOMAIN log \subseteq Nat
    BY LenProperties DEF ConversationTypes
  <2> QED BY <1>t, <1>17, <2>1 DEF ReadToResolve, ResolveEntry, NoEntry, turnVars, dataVars, ghostVars
<1>18. ASSUME Crash PROVE Goal
  BY <1>t, <1>18 DEF Crash, AfterFailure, Incident, NoEntry, Resting
<1>19. ASSUME DeleteCustomer PROVE Goal
  BY <1>t, <1>19 DEF DeleteCustomer, Cleaned, Incident, Resting
<1>20. Goal
  <2> HIDE DEF Goal
  <2> QED BY <1>1, <1>2, <1>3, <1>4, <1>5, <1>6, <1>7, <1>8, <1>9, <1>10, <1>11, <1>12, <1>13, <1>14,
             <1>15, <1>16, <1>17, <1>18, <1>19 DEF ConversationNext, TurnStep
<1>21. log' \in Seq(Entry)
  BY LogStep
<1> QED BY <1>20, <1>21 DEF ConversationTypes, Entry, Content, Working, Past, Resting, CustomerKeys, OperatorKeys

-----------------------------------------------------------------------------
(* What a deletion forgets, and the silence while a human has the customer.*)

\* A turn past its look at the log is cleared of every handoff still active.
Clearance == \A m \in Message : turn[m] \in Past =>
  \A r \in DOMAIN log : Open(r) => m \in log[r].cleared

\* Whom the customer's deletion found at rest has stayed so, and has left nothing.
ErasedAreGone == \A m \in erased : Gone(m)

QuietInv == ConversationTypes /\ Clearance /\ ErasedAreGone /\ ForgottenForGood

(* A handoff made while the turn was past its look counts it as cleared;   *)
(* when the turn looked, there was none.                                   *)
LEMMA ClearanceStays ==
  ASSUME ConversationTypes, Clearance, ConversationNext
  PROVE  Clearance'
<1> SUFFICES ASSUME NEW m \in Message, turn'[m] \in Past, NEW r \in DOMAIN log', Open(r)'
             PROVE  m \in log'[r].cleared
  BY DEF Clearance
<1>1. CASE turn[m] \in Past
  <2>1. CASE Inherited(r)
    BY <1>1, <2>1 DEF Clearance, Inherited
  <2>2. CASE Fresh(r)
    BY <1>1, <2>2 DEF Fresh, Cleared
  <2> QED BY <2>1, <2>2, LogStep
<1>2. CASE ~HandedOff /\ log' = log
  BY <1>2 DEF HandedOff, Open
<1> QED BY <1>1, <1>2, PastStep

(* Only a deletion erases, and then only messages that leave nothing.      *)
LEMMA Erasure ==
  ASSUME ConversationTypes, ConversationNext, NEW m \in Message, m \in erased' \ erased
  PROVE  /\ Gone(m)'
         /\ \A column \in {"user", "assistant", "lead", "media"} : <<column, m>> \notin kept'
         /\ \A key \in outbox' \cap CustomerKeys : key[2] # m
         /\ \A r \in DOMAIN log' : ~Open(r)'
<1>1. DeleteCustomer
  <2>1. ASSUME NEW n \in Message, TurnStep(n) PROVE erased' = erased
    BY <2>1 DEF TurnStep, Begin, AnswerConsent, CheckHandoff, AnswerClosed, AnswerByRule, CallTool,
       ModelAnswers, AnswerPostage, Reply, Tell, Complete, MediaReply, MediaHandoff, MediaNotice, ghostVars
  <2>2. ASSUME NEW n \in Message, Receive(n) \/ AfterStep(n) \/ ModelFails(n) \/ Fail(n) \/ AfterSendFails(n)
        PROVE  erased' = erased
    BY <2>2 DEF Receive, AfterStep, SendReply, LogAfterSend, TellAfterSend, ModelFails, Fail,
       AfterSendFails, ghostVars
  <2>3. ASSUME Crash \/ UNCHANGED <<content, turnVars, dataVars, ghostVars>> PROVE erased' = erased
    BY <2>3 DEF Crash, ghostVars
  <2> QED BY <2>1, <2>2, <2>3 DEF ConversationNext
<1>2. /\ turn[m] \in Working \cup Resting \cup {"queued"}
      /\ postSend[m] \in {"none", "pending", "running", "logged", "done", "stuck"}
  BY DEF ConversationTypes
<1>3. turn[m] # "new" /\ ~Busy(m)
  BY <1>1 DEF DeleteCustomer
<1>4. turn'[m] = Cleaned(m) /\ postSend'[m] = IF postSend[m] = "pending" THEN "none" ELSE postSend[m]
  BY <1>1 DEF DeleteCustomer
<1>5. turn'[m] = "gone"
  BY <1>2, <1>3, <1>4 DEF Cleaned, Busy, Resting
<1>6. postSend'[m] \in {"none", "done", "stuck"}
  BY <1>2, <1>3, <1>4 DEF Busy, Acting
<1>7. kept' = {} /\ outbox' \cap CustomerKeys = {}
  BY <1>1 DEF DeleteCustomer, CustomerKeys, OperatorKeys
<1>8. \A r \in DOMAIN log' : ~Open(r)'
  <2>1. /\ log' = [r \in DOMAIN log |-> [log[r] EXCEPT !.here = FALSE]]
        /\ \A r \in DOMAIN log : log[r] \in Entry
    BY <1>1, ElementOfSeq, LenProperties DEF DeleteCustomer, ConversationTypes
  <2> QED BY <2>1 DEF Open, Entry
<1> QED BY <1>5, <1>6, <1>7, <1>8 DEF Gone

(* A message that is gone writes nothing, and the handoffs made by it have *)
(* been removed.                                                           *)
LEMMA ForgettingStays ==
  ASSUME ConversationTypes, ErasedAreGone, ForgottenForGood, ConversationNext
  PROVE  ErasedAreGone' /\ ForgottenForGood'
<1> DEFINE Left(m) == /\ \A column \in {"user", "assistant", "lead", "media"} : <<column, m>> \notin kept'
                      /\ \A key \in outbox' \cap CustomerKeys : key[2] # m
                      /\ postSend'[m] \notin Acting \cup {"pending"}
                      /\ \A r \in DOMAIN log' : log'[r].by = m => ~Open(r)'
<1>1. ASSUME NEW m \in erased' PROVE Gone(m)' /\ Left(m)
  <2>1. m \in Message
    BY ConversationTypesStay DEF ConversationTypes
  <2>2. CASE m \in erased
    <3>1. Gone(m)
      BY <2>2 DEF ErasedAreGone
    <3>2. /\ Gone(m)' /\ ~MayLog(m)
          /\ \A column : <<column, m>> \in kept' => <<column, m>> \in kept
          /\ \A key \in CustomerKeys : key[2] = m /\ key \in outbox' => key \in outbox
      BY <2>1, <3>1, RestStep
    <3>3. ASSUME NEW r \in DOMAIN log', log'[r].by = m, Open(r)' PROVE FALSE
      <4>1. ~Fresh(r)
        BY <3>2, <3>3 DEF Fresh
      <4>2. r \in DOMAIN log /\ Open(r) /\ log[r].by = m
        BY <3>3, <4>1, LogStep DEF Inherited
      <4> QED BY <2>2, <4>2 DEF ForgottenForGood
    <3>4. \A column \in {"user", "assistant", "lead", "media"} : <<column, m>> \notin kept'
      BY <2>2, <3>2 DEF ForgottenForGood
    <3>5. \A key \in outbox' \cap CustomerKeys : key[2] # m
      BY <2>2, <3>2 DEF ForgottenForGood
    <3>6. postSend'[m] \notin Acting \cup {"pending"}
      BY <3>2 DEF Gone, Acting
    <3> QED BY <3>2, <3>3, <3>4, <3>5, <3>6
  <2>3. CASE m \notin erased
    <3>1. /\ Gone(m)'
          /\ \A column \in {"user", "assistant", "lead", "media"} : <<column, m>> \notin kept'
          /\ \A key \in outbox' \cap CustomerKeys : key[2] # m
          /\ \A r \in DOMAIN log' : ~Open(r)'
      BY <2>1, <2>3, Erasure
    <3> QED BY <3>1 DEF Gone, Acting
  <2> QED BY <2>2, <2>3
<1> QED BY <1>1 DEF ErasedAreGone, ForgottenForGood, Open

LEMMA QuietInvInit == ASSUME ConversationInit PROVE QuietInv
<1>1. /\ log = << >> /\ kept = {} /\ outbox = {} /\ erased = {} /\ cut = {} /\ orphans = {}
      /\ turn = [m \in Message |-> "new"] /\ confirmed = {} /\ incidents = 0
      /\ content \in [Message -> Content] /\ resolving = [o \in Operator |-> NoEntry]
      /\ postSend = [m \in Message |-> "none"] /\ carried = [m \in Message |-> {}]
      /\ attempts = [m \in Message |-> 0] /\ direct = [m \in Message |-> FALSE]
      /\ toolCalls = [m \in Message |-> 0]
  BY DEF ConversationInit
<1>2. log \in Seq(Entry)
  BY <1>1, EmptySeq
<1>3. ConversationTypes
  BY <1>1, <1>2 DEF ConversationTypes, Resting, NoEntry
<1>4. Clearance
  BY <1>1 DEF Clearance, Past
<1> QED BY <1>1, <1>3, <1>4 DEF QuietInv, ErasedAreGone, ForgottenForGood

LEMMA QuietInvStep == ASSUME QuietInv, [ConversationNext]_conversationVars PROVE QuietInv'
<1>1. CASE ConversationNext
  BY <1>1, ConversationTypesStay, ClearanceStays, ForgettingStays DEF QuietInv
<1>2. CASE UNCHANGED conversationVars
  <2>1. /\ UNCHANGED <<log, resolving, content, turn, attempts, carried, direct, toolCalls, orphans>>
        /\ UNCHANGED <<kept, outbox, postSend, confirmed, cut, erased, incidents>>
    BY <1>2 DEF conversationVars, logVars, turnVars, dataVars, ghostVars
  <2>2. ConversationTypes'
    BY <2>1 DEF QuietInv, ConversationTypes
  <2>3. Clearance'
    BY <2>1 DEF QuietInv, Clearance, Open
  <2>4. ErasedAreGone'
    BY <2>1 DEF QuietInv, ErasedAreGone, Gone
  <2>5. ForgottenForGood'
    BY <2>1 DEF QuietInv, ForgottenForGood, Open
  <2> QED BY <2>2, <2>3, <2>4, <2>5 DEF QuietInv
<1> QED BY <1>1, <1>2

\* What was at rest when the customer was deleted never comes back
\* (deleteCustomerData): through no crash, retry or late post-send action.
THEOREM ForgottenStaysForgotten == ConversationSpec => []ForgottenForGood
<1>1. QuietInv => ForgottenForGood
  BY DEF QuietInv
<1> QED BY <1>1, QuietInvInit, QuietInvStep, PTL DEF ConversationSpec

\* Only Reply enqueues a reply, and it follows the look at the handoffs.
LEMMA RepliesAreCleared ==
  ASSUME QuietInv, ConversationNext, NEW m \in Message, <<"reply", m>> \in outbox' \ outbox
  PROVE  \A r \in DOMAIN log : Open(r) => m \in log[r].cleared
<1>1. ASSUME NEW n \in Message, TurnStep(n) PROVE Reply(n) /\ n = m
  <2>1. CASE Reply(n)
    BY <2>1 DEF Reply, Enqueue
  <2>2. CASE AnswerConsent(n) \/ AnswerClosed(n) \/ Tell(n) \/ MediaReply(n) \/ MediaNotice(n)
    BY <2>2 DEF AnswerConsent, AnswerClosed, Tell, Notices, MediaReply, MediaNotice, Enqueue
  <2>3. CASE Begin(n) \/ CheckHandoff(n) \/ AnswerByRule(n) \/ CallTool(n) \/ ModelAnswers(n)
             \/ AnswerPostage(n) \/ Complete(n) \/ MediaHandoff(n)
    BY <2>3 DEF Begin, CheckHandoff, AnswerByRule, CallTool, ModelAnswers, AnswerPostage, Complete,
       MediaHandoff, dataVars
  <2> QED BY <1>1, <2>1, <2>2, <2>3 DEF TurnStep
<1>2. ASSUME NEW n \in Message, Receive(n) \/ AfterStep(n) \/ ModelFails(n) \/ Fail(n) \/ AfterSendFails(n)
      PROVE  FALSE
  BY <1>2 DEF Receive, AfterStep, SendReply, LogAfterSend, TellAfterSend, ModelFails, Fail,
     AfterSendFails, Enqueue, dataVars
<1>3. ASSUME Crash \/ DeleteCustomer \/ UNCHANGED <<content, turnVars, dataVars, ghostVars>> PROVE FALSE
  BY <1>3 DEF Crash, DeleteCustomer, dataVars
<1>4. turn[m] \in Past
  BY <1>1, <1>2, <1>3 DEF ConversationNext, Reply, Past
<1> QED BY <1>4 DEF QuietInv, Clearance

\* The bot answers over an active handoff only with a turn that had found none
\* when that handoff was made (isHandoffActive in processInboundMessage).
THEOREM BotStaysQuiet == ConversationSpec => BotKeepsQuiet
<1>1. QuietInv /\ [ConversationNext]_conversationVars =>
        [\A m \in Message : <<"reply", m>> \in outbox' \ outbox =>
           \A r \in DOMAIN log : Open(r) => m \in log[r].cleared]_conversationVars
  BY RepliesAreCleared
<1> QED BY <1>1, QuietInvInit, QuietInvStep, PTL DEF ConversationSpec, BotKeepsQuiet

-----------------------------------------------------------------------------
(* What operators are told: the safety half of EveryTurnIsAnnounced.       *)

\* Where a turn still carries what it has to tell.
Carrying == {"asking", "answered", "telling"}

\* A turn has told an operator, or lost what it carried, or still carries it.
TellsOf(m) ==
  /\ m \in confirmed =>
       \/ m \in cut \/ <<"order-admin", m>> \in outbox
       \/ turn[m] \in Carrying /\ "order" \in carried[m]
  /\ "handoff" \in carried[m] =>
       m \in cut \/ <<"handoff-admin", m>> \in outbox \/ turn[m] \in Carrying
  /\ postSend[m] = "done" => <<"handoff-admin", m>> \in outbox
ToldOrCarried == \A m \in Message : TellsOf(m)

\* A turn carries nothing before its first tool call.
NothingYet == \A m \in Message :
  turn[m] \in {"read", "closed", "asking"} /\ toolCalls[m] = 0 => carried[m] = {}

ToldInv == ConversationTypes /\ ToldOrCarried /\ NothingYet

\* A turn that rests has told an operator what it must, or lost what it carried.
RestIsAnnounced == \A m \in Message : AtRest(m) => m \in cut \/ Announced(m)

LEMMA NothingYetStays == ASSUME ToldInv, ConversationNext PROVE NothingYet'
<1> SUFFICES ASSUME NEW n \in Message, turn'[n] \in {"read", "closed", "asking"}, toolCalls'[n] = 0
             PROVE  carried'[n] = {}
  BY DEF NothingYet
<1>t. /\ turn \in [Message -> Working \cup Resting \cup {"queued"}] /\ toolCalls \in [Message -> Nat]
      /\ carried \in [Message -> SUBSET {"handoff", "order", "payment"}]
      /\ turn[n] \in {"read", "closed", "asking"} /\ toolCalls[n] = 0 => carried[n] = {}
  BY DEF ToldInv, ConversationTypes, NothingYet
<1>1. ASSUME NEW m \in Message, TurnStep(m) PROVE carried'[n] = {}
  <2>1. CASE Begin(m)
    <3>1. carried' = [carried EXCEPT ![m] = {}] /\ toolCalls' = [toolCalls EXCEPT ![m] = 0]
      BY <2>1 DEF Begin, Carry
    <3>2. m # n => turn'[n] = turn[n]
      BY <1>t, <2>1, BeginTurn DEF ToldInv, Go
    <3> QED BY <1>t, <3>1, <3>2
  <2>2. CASE CallTool(m)
    <3>1. toolCalls' = [toolCalls EXCEPT ![m] = @ + 1] /\ turn' = turn
      BY <2>2 DEF CallTool
    <3>2. m # n
      BY <1>t, <3>1
    <3>3. carried'[n] = carried[n]
      BY <1>t, <2>2, <3>2 DEF CallTool, Carry
    <3> QED BY <1>t, <3>1, <3>2, <3>3
  <2>3. CASE CheckHandoff(m)
    BY <1>t, <2>3 DEF CheckHandoff, Go
  <2>4. CASE AnswerByRule(m) \/ AnswerPostage(m)
    BY <1>t, <2>4 DEF AnswerByRule, AnswerPostage, Go, Carry
  <2>5. CASE AnswerConsent(m) \/ AnswerClosed(m) \/ ModelAnswers(m) \/ Reply(m) \/ Tell(m) \/ Complete(m)
    BY <1>t, <2>5 DEF AnswerConsent, AnswerClosed, ModelAnswers, Reply, Tell, Complete, Go
  <2>6. CASE MediaReply(m) \/ MediaHandoff(m) \/ MediaNotice(m)
    BY <1>t, <2>6 DEF MediaReply, MediaHandoff, MediaNotice, Go
  <2> QED BY <1>1, <2>1, <2>2, <2>3, <2>4, <2>5, <2>6 DEF TurnStep
<1>2. ASSUME NEW m \in Message, Receive(m) \/ ModelFails(m) \/ Fail(m) PROVE carried'[n] = {}
  BY <1>t, <1>2 DEF Receive, ModelFails, Fail, AfterFailure, Go, Carry
<1>3. ASSUME NEW m \in Message, AfterStep(m) \/ AfterSendFails(m) PROVE carried'[n] = {}
  BY <1>t, <1>3 DEF AfterStep, SendReply, LogAfterSend, TellAfterSend, AfterSendFails, turnVars
<1>4. ASSUME UNCHANGED <<content, turnVars, dataVars, ghostVars>> PROVE carried'[n] = {}
  BY <1>t, <1>4 DEF turnVars
<1>5. ASSUME Crash \/ DeleteCustomer PROVE carried'[n] = {}
  BY <1>t, <1>5 DEF Crash, DeleteCustomer, AfterFailure, Cleaned
<1> QED BY <1>1, <1>2, <1>3, <1>4, <1>5 DEF ConversationNext

(* Rows that tell an operator stay, and what was lost stays lost.          *)
LEMMA TellingStays ==
  ASSUME ConversationTypes, ConversationNext
  PROVE  cut \subseteq cut' /\ outbox \cap OperatorKeys \subseteq outbox'
<1>1. ASSUME NEW m \in Message, TurnStep(m) \/ AfterStep(m)
      PROVE  cut \subseteq cut' /\ outbox \subseteq outbox'
  BY <1>1 DEF TurnStep, Begin, AnswerConsent, CheckHandoff, AnswerClosed, AnswerByRule, CallTool,
     ModelAnswers, AnswerPostage, Reply, Tell, Complete, MediaReply, MediaHandoff, MediaNotice,
     AfterStep, SendReply, LogAfterSend, TellAfterSend, Enqueue, dataVars, ghostVars
<1>2. ASSUME NEW m \in Message, Receive(m) \/ ModelFails(m) \/ Fail(m) \/ AfterSendFails(m)
      PROVE  cut \subseteq cut' /\ outbox \subseteq outbox'
  BY <1>2 DEF Receive, ModelFails, Fail, AfterSendFails, dataVars, ghostVars
<1>3. ASSUME Crash \/ DeleteCustomer \/ UNCHANGED <<content, turnVars, dataVars, ghostVars>>
      PROVE  cut \subseteq cut' /\ outbox \cap OperatorKeys \subseteq outbox'
  BY <1>3 DEF Crash, DeleteCustomer, dataVars, ghostVars
<1> QED BY <1>1, <1>2, <1>3 DEF ConversationNext

LEMMA TellingGoesOn ==
  ASSUME ToldInv, ConversationNext, NEW n \in Message
  PROVE  TellsOf(n)'
<1>t. /\ turn \in [Message -> Working \cup Resting \cup {"queued"}] /\ toolCalls \in [Message -> Nat]
      /\ carried \in [Message -> SUBSET {"handoff", "order", "payment"}]
      /\ postSend \in [Message -> {"none", "pending", "running", "logged", "done", "stuck"}]
      /\ TellsOf(n) /\ confirmed \subseteq Message
      /\ turn[n] \in {"read", "closed", "asking"} /\ toolCalls[n] = 0 => carried[n] = {}
  BY DEF ToldInv, ConversationTypes, ToldOrCarried, TellsOf, NothingYet
<1>s. /\ n \in cut => n \in cut'
      /\ <<"order-admin", n>> \in outbox => <<"order-admin", n>> \in outbox'
      /\ <<"handoff-admin", n>> \in outbox => <<"handoff-admin", n>> \in outbox'
  BY TellingStays DEF ToldInv, OperatorKeys
<1>u. ASSUME UNCHANGED <<confirmed, carried, postSend>>, turn'[n] = turn[n] PROVE TellsOf(n)'
  BY <1>t, <1>s, <1>u DEF TellsOf
<1>1. ASSUME NEW m \in Message, TurnStep(m), m # n PROVE TellsOf(n)'
  <2>1. /\ turn'[n] = turn[n] /\ carried'[n] = carried[n] /\ postSend'[n] = postSend[n]
        /\ n \in confirmed' => n \in confirmed
    <3>1. CASE Begin(m)
      <4>1. carried'[n] = carried[n] /\ postSend' = postSend /\ confirmed' = confirmed
        BY <1>t, <1>1, <3>1 DEF Begin, Carry
      <4>2. turn'[n] = turn[n]
        <5>1. PICK s \in {"read", "consenting", "media"} : Go(m, s)
          BY <3>1, BeginTurn DEF ToldInv
        <5> QED BY <1>t, <1>1, <5>1 DEF Go
      <4> QED BY <4>1, <4>2
    <3>2. CASE AnswerByRule(m) \/ AnswerPostage(m) \/ CallTool(m)
      BY <1>t, <1>1, <3>2 DEF AnswerByRule, AnswerPostage, CallTool, Go, Carry, dataVars
    <3>3. CASE Reply(m)
      BY <1>t, <1>1, <3>3 DEF Reply, Go
    <3>4. CASE CheckHandoff(m) \/ Complete(m) \/ MediaHandoff(m)
      BY <1>t, <1>1, <3>4 DEF CheckHandoff, Complete, MediaHandoff, Go, dataVars
    <3>5. CASE AnswerConsent(m) \/ AnswerClosed(m) \/ ModelAnswers(m) \/ Tell(m) \/ MediaReply(m) \/ MediaNotice(m)
      BY <1>t, <1>1, <3>5 DEF AnswerConsent, AnswerClosed, ModelAnswers, Tell, MediaReply, MediaNotice, Go
    <3> QED BY <1>1, <3>1, <3>2, <3>3, <3>4, <3>5 DEF TurnStep
  <2> QED BY <1>t, <1>s, <2>1 DEF TellsOf
<1>2. ASSUME TurnStep(n) PROVE TellsOf(n)'
  <2>1. CASE Begin(n)
    <3>1. carried'[n] = {} /\ postSend' = postSend /\ confirmed' = confirmed /\ turn[n] \notin Carrying
      BY <1>t, <2>1 DEF Begin, Carry, Carrying
    <3> QED BY <1>t, <1>s, <3>1 DEF TellsOf
  <2>2. CASE AnswerByRule(n)
    <3>1. /\ turn[n] = "asking" /\ turn'[n] = "answered" /\ carried[n] = {}
          /\ postSend' = postSend /\ confirmed' = confirmed
      BY <1>t, <2>2 DEF AnswerByRule, Go
    <3> QED BY <1>t, <1>s, <3>1 DEF TellsOf, Carrying
  <2>3. CASE CallTool(n)
    <3>1. /\ turn' = turn /\ turn[n] = "asking" /\ postSend' = postSend
          /\ carried[n] \subseteq carried'[n]
          /\ n \in confirmed' => n \in confirmed \/ "order" \in carried'[n]
      BY <1>t, <2>3 DEF CallTool, Carry
    <3> QED BY <1>t, <1>s, <3>1 DEF TellsOf, Carrying
  <2>4. CASE AnswerPostage(n)
    <3>1. /\ turn[n] = "asking" /\ turn'[n] = "answered" /\ postSend' = postSend /\ confirmed' = confirmed
          /\ "order" \in carried[n] => "order" \in carried'[n]
      BY <1>t, <2>4 DEF AnswerPostage, Go, Carry, dataVars
    <3> QED BY <1>t, <1>s, <3>1 DEF TellsOf, Carrying
  <2>5. CASE ModelAnswers(n)
    BY <1>t, <1>s, <2>5 DEF ModelAnswers, Go, TellsOf, Carrying
  <2>6. CASE Reply(n)
    <3>1. /\ turn[n] = "answered" /\ turn'[n] = "telling" /\ carried' = carried /\ confirmed' = confirmed
          /\ postSend'[n] = "done" => postSend[n] = "done"
      BY <1>t, <2>6 DEF Reply, Go
    <3> QED BY <1>t, <1>s, <3>1 DEF TellsOf, Carrying
  <2>7. CASE Tell(n)
    <3>1. /\ carried' = carried /\ confirmed' = confirmed /\ postSend' = postSend
          /\ "order" \in carried[n] => <<"order-admin", n>> \in outbox'
          /\ "handoff" \in carried[n] => <<"handoff-admin", n>> \in outbox'
      BY <2>7 DEF Tell, Enqueue, Notices
    <3> QED BY <1>t, <1>s, <3>1 DEF TellsOf
  <2>8. CASE CheckHandoff(n) \/ Complete(n) \/ MediaHandoff(n)
    <3>1. turn[n] \notin Carrying /\ UNCHANGED <<carried, confirmed, postSend>>
      BY <2>8 DEF CheckHandoff, Complete, MediaHandoff, Carrying, dataVars
    <3> QED BY <1>t, <1>s, <3>1 DEF TellsOf
  <2>9. CASE AnswerConsent(n) \/ AnswerClosed(n) \/ MediaReply(n) \/ MediaNotice(n)
    <3>1. turn[n] \notin Carrying /\ UNCHANGED <<carried, confirmed, postSend>>
      BY <2>9 DEF AnswerConsent, AnswerClosed, MediaReply, MediaNotice, Carrying
    <3> QED BY <1>t, <1>s, <3>1 DEF TellsOf
  <2> QED BY <1>2, <2>1, <2>2, <2>3, <2>4, <2>5, <2>6, <2>7, <2>8, <2>9 DEF TurnStep
<1>3. ASSUME NEW m \in Message, Receive(m) PROVE TellsOf(n)'
  BY <1>t, <1>s, <1>3 DEF Receive, Go, TellsOf, Carrying, dataVars
<1>4. ASSUME NEW m \in Message, AfterStep(m) PROVE TellsOf(n)'
  <2>1. /\ turn' = turn /\ carried' = carried /\ confirmed' = confirmed
        /\ postSend'[n] = "done" => postSend[n] = "done" \/ <<"handoff-admin", n>> \in outbox'
    BY <1>t, <1>4 DEF AfterStep, SendReply, LogAfterSend, TellAfterSend, Enqueue, turnVars
  <2> QED BY <1>t, <1>s, <2>1 DEF TellsOf
<1>5. ASSUME NEW m \in Message, AfterSendFails(m) PROVE TellsOf(n)'
  <2>1. turn' = turn /\ carried' = carried /\ confirmed' = confirmed
        /\ (postSend'[n] = "done" => postSend[n] = "done")
    BY <1>t, <1>5 DEF AfterSendFails, turnVars
  <2> QED BY <1>t, <1>s, <2>1 DEF TellsOf
<1>6. ASSUME NEW m \in Message, ModelFails(m) PROVE TellsOf(n)'
  <2>1. CASE m = n
    <3>1. /\ turn[n] = "asking" /\ turn'[n] = "answered" /\ carried'[n] = {}
          /\ UNCHANGED <<confirmed, postSend>> /\ (carried[n] # {} => n \in cut')
      BY <1>t, <1>6, <2>1 DEF ModelFails, Go, Carry
    <3> QED BY <1>t, <1>s, <3>1 DEF TellsOf, Carrying
  <2>2. CASE m # n
    <3>1. turn'[n] = turn[n] /\ carried'[n] = carried[n] /\ UNCHANGED <<confirmed, postSend>>
      BY <1>t, <1>6, <2>2 DEF ModelFails, Go, Carry
    <3> QED BY <1>t, <1>s, <3>1 DEF TellsOf
  <2> QED BY <2>1, <2>2
<1>7. ASSUME NEW m \in Message, Fail(m) PROVE TellsOf(n)'
  <2>1. UNCHANGED <<carried, confirmed, postSend>> /\ (Loses(n) /\ m = n => n \in cut')
    BY <1>7 DEF Fail, dataVars
  <2>2. m # n => turn'[n] = turn[n]
    BY <1>t, <1>7 DEF Fail, Go
  <2>3. "order" \in carried[n] \/ "handoff" \in carried[n] => Loses(n) \/ turn[n] \notin Carrying
    BY DEF Loses, Carrying
  <2> QED BY <1>t, <1>s, <2>1, <2>2, <2>3 DEF TellsOf
<1>8. ASSUME UNCHANGED <<content, turnVars, dataVars, ghostVars>> PROVE TellsOf(n)'
  BY <1>u, <1>8 DEF turnVars, dataVars
<1>9. ASSUME Crash PROVE TellsOf(n)'
  <2>1. UNCHANGED <<carried, confirmed>> /\ (Loses(n) => n \in cut')
    BY <1>9 DEF Crash
  <2>2. postSend'[n] = "done" => postSend[n] = "done"
    BY <1>9 DEF Crash
  <2>3. "order" \in carried[n] \/ "handoff" \in carried[n] => Loses(n) \/ turn[n] \notin Carrying
    BY DEF Loses, Carrying
  <2> QED BY <1>t, <1>s, <2>1, <2>2, <2>3 DEF TellsOf
<1>10. ASSUME DeleteCustomer PROVE TellsOf(n)'
  <2>1. /\ UNCHANGED <<carried, confirmed>> /\ (turn[n] \in Carrying => turn'[n] = turn[n])
        /\ postSend'[n] = "done" => postSend[n] = "done"
    BY <1>10 DEF DeleteCustomer, Cleaned, Carrying
  <2> QED BY <1>t, <1>s, <2>1 DEF TellsOf
<1> QED BY <1>1, <1>2, <1>3, <1>4, <1>5, <1>6, <1>7, <1>8, <1>9, <1>10 DEF ConversationNext

\* Whatever fails, dies or is deleted in between: a turn at rest has told an operator of the
\* order it confirmed and of the handoff it made, or it is one that lost what it carried.
THEOREM RestIsAlwaysAnnounced == ConversationSpec => []RestIsAnnounced
<1>1. ToldInv => RestIsAnnounced
  BY DEF ToldInv, ToldOrCarried, TellsOf, RestIsAnnounced, AtRest, Announced, Carrying, Resting
<1>2. ConversationInit => ToldInv
  <2>1. ASSUME ConversationInit PROVE ToldOrCarried /\ NothingYet
    BY <2>1 DEF ConversationInit, ToldOrCarried, TellsOf, NothingYet
  <2> QED BY <2>1, QuietInvInit DEF ToldInv, QuietInv
<1>3. ToldInv /\ [ConversationNext]_conversationVars => ToldInv'
  <2> SUFFICES ASSUME ToldInv, [ConversationNext]_conversationVars PROVE ToldInv'
    OBVIOUS
  <2>1. CASE ConversationNext
    <3>1. ToldOrCarried'
      BY <2>1, TellingGoesOn DEF ToldOrCarried
    <3> QED BY <2>1, <3>1, ConversationTypesStay, NothingYetStays DEF ToldInv
  <2>2. CASE UNCHANGED conversationVars
    <3>1. /\ UNCHANGED <<log, resolving, content, turn, attempts, carried, direct, toolCalls, orphans>>
          /\ UNCHANGED <<kept, outbox, postSend, confirmed, cut, erased, incidents>>
      BY <2>2 DEF conversationVars, logVars, turnVars, dataVars, ghostVars
    <3> QED BY <3>1 DEF ToldInv, ConversationTypes, ToldOrCarried, TellsOf, NothingYet
  <2> QED BY <2>1, <2>2
<1> QED BY <1>1, <1>2, <1>3, PTL DEF ConversationSpec

-----------------------------------------------------------------------------
(* The memory of a customer's choice.                                      *)

Name == Product \cup {NotSaid}
SomeClass == Class \cup {NotSaid}
SomeVariation == Variation \cup {NotSaid}
Selections == [product : Name, class : SomeClass, variation : SomeVariation]

(* The writes that keep what is remembered the customer's: a product is    *)
(* one of T, and a turn that chooses nothing leaves the draft alone.       *)
Allowed(T, chooses) ==
  {w \in [to : {"name"}] \cup [to : {"chat", "draft", "tool", "offer", "advice", "consulted"}, choice : Selections] :
     /\ w.to \in {"chat", "draft", "tool"} => w.choice.product \in T \cup {NotSaid}
     /\ ~chooses => w.to # "name" /\ (w.to = "draft" => w.choice = Blank)}

TurnTypes ==
  /\ chat \in [product : Name, class : SomeClass, variation : SomeVariation,
               advised : Name, advisedClass : SomeClass, advisedVariation : SomeVariation]
  /\ draft \in [product : Name, class : SomeClass, variation : SomeVariation, exists : BOOLEAN]
  /\ said \in Selections /\ said.product = NotSaid
  /\ letter \in [named : Name, chooses : BOOLEAN]
  /\ phase \in {"idle", "writing", "asking", "preview"}

ChoiceInv ==
  /\ TurnTypes
  /\ letter.named \in trusted \cup {NotSaid}
  /\ unwritten \in Seq(Allowed(trusted, letter.chooses))
  /\ phase \in {"idle", "preview"} => unwritten = << >>
  /\ ChoicesAreTheCustomers

(* The first of two that says something,                                   *)
LEMMA FirstOfTwo ==
  ASSUME NEW a, NEW b
  PROVE  FirstSaid(<<a, b>>) = IF a # NotSaid THEN a ELSE b
<1> DEFINE hits == {i \in 1..2 : <<a, b>>[i] # NotSaid}
<1>1. SelectInSeq(<<a, b>>, LAMBDA v : v # NotSaid) = IF hits # {} THEN Min(hits) ELSE 0
  BY DEF SelectInSeq
<1>2. hits = (IF a # NotSaid THEN {1} ELSE {}) \cup (IF b # NotSaid THEN {2} ELSE {})
  OBVIOUS
<1>3. CASE a # NotSaid
  <2>1. Min(hits) = 1
    BY <1>2, <1>3 DEF Min
  <2> QED BY <1>1, <1>2, <1>3, <2>1 DEF FirstSaid
<1>4. CASE a = NotSaid /\ b # NotSaid
  <2>1. Min(hits) = 2
    BY <1>2, <1>4 DEF Min
  <2> QED BY <1>1, <1>2, <1>4, <2>1 DEF FirstSaid
<1>5. CASE a = NotSaid /\ b = NotSaid
  <2>1. hits = {}
    BY <1>2, <1>5
  <2> QED BY <1>1, <1>5, <2>1 DEF FirstSaid
<1> QED BY <1>3, <1>4, <1>5

(* and of three.                                                           *)
LEMMA FirstOfThree ==
  ASSUME NEW a, NEW b, NEW c
  PROVE  FirstSaid(<<a, b, c>>) = IF a # NotSaid THEN a ELSE IF b # NotSaid THEN b ELSE c
<1> DEFINE hits == {i \in 1..3 : <<a, b, c>>[i] # NotSaid}
<1>1. SelectInSeq(<<a, b, c>>, LAMBDA v : v # NotSaid) = IF hits # {} THEN Min(hits) ELSE 0
  BY DEF SelectInSeq
<1>2. /\ 1 \in hits <=> a # NotSaid
      /\ 2 \in hits <=> b # NotSaid
      /\ 3 \in hits <=> c # NotSaid
      /\ hits \subseteq {1, 2, 3}
  OBVIOUS
<1>3. CASE a # NotSaid
  <2>1. Min(hits) = 1
    BY <1>2, <1>3 DEF Min
  <2> QED BY <1>1, <1>2, <1>3, <2>1 DEF FirstSaid
<1>4. CASE a = NotSaid /\ b # NotSaid
  <2>1. Min(hits) = 2
    BY <1>2, <1>4 DEF Min
  <2> QED BY <1>1, <1>2, <1>4, <2>1 DEF FirstSaid
<1>5. CASE a = NotSaid /\ b = NotSaid /\ c # NotSaid
  <2>1. Min(hits) = 3
    BY <1>2, <1>5 DEF Min
  <2> QED BY <1>1, <1>2, <1>5, <2>1 DEF FirstSaid
<1>6. CASE a = NotSaid /\ b = NotSaid /\ c = NotSaid
  <2>1. hits = {}
    BY <1>2, <1>6
  <2> QED BY <1>1, <1>6, <2>1 DEF FirstSaid
<1> QED BY <1>3, <1>4, <1>5, <1>6

(* What is chosen is made of what was, of the message and of what is known.*)
LEMMA ChoicesMade ==
  ASSUME TurnsAssumption, NEW t \in Letters, NEW k \in Selections
  PROVE  /\ Absorb(k, t) \in Selections /\ Absorb(k, t).product = k.product
         /\ TakeUp(k, t) \in Selections /\ TakeUp(k, t).product \in {k.product, Named(t)}
<1>t. t.product \in Name /\ t.class \in SomeClass /\ t.variation \in SomeVariation
  BY DEF TurnsAssumption, Name, SomeClass, SomeVariation
<1>1. \A v \in SomeVariation : FirstSaid(<<t.variation, v>>) \in SomeVariation
  BY <1>t, FirstOfTwo
<1>2. NotSaid \in SomeVariation
  BY DEF SomeVariation
<1>3. Absorb(k, t) \in Selections /\ Absorb(k, t).product = k.product
  BY <1>t, <1>1, <1>2 DEF Absorb, Choice, Selections
<1>4. TakeUp(k, t) \in Selections /\ TakeUp(k, t).product \in {k.product, Named(t)}
  <2>1. t.product # NotSaid => ClassOf[t.product] \in SomeClass
    BY <1>t DEF TurnsAssumption, Name, SomeClass
  <2> QED BY <1>t, <1>2, <2>1 DEF TakeUp, Named, Choice, Selections
<1> QED BY <1>3, <1>4

(* So is the selection of a message,                                       *)
LEMMA SelectionMade ==
  ASSUME TurnsAssumption, NEW t \in Letters, NEW k \in Selections, NEW offered \in Selections
  PROVE  Selected(t, k, offered) \in Selections
<1>t. t.product \in Name /\ t.class \in SomeClass /\ t.variation \in SomeVariation
  BY DEF TurnsAssumption, Name, SomeClass, SomeVariation
<1>1. FirstSaid(<<t.class, k.class, offered.class>>) \in SomeClass
  BY <1>t, FirstOfThree DEF Selections
<1>2. FirstSaid(<<t.variation, k.variation, offered.variation>>) \in SomeVariation
  BY <1>t, FirstOfThree DEF Selections
<1>3. NotSaid \in Name /\ NotSaid \in SomeClass /\ NotSaid \in SomeVariation
  BY DEF Name, SomeClass, SomeVariation
<1> QED BY <1>t, <1>1, <1>2, <1>3 DEF Selected, Choice, Selections, Blank

(* and what the model may find in it.                                      *)
LEMMA FindingsMade == ASSUME TurnsAssumption PROVE Findings \subseteq Selections
  BY DEF Findings, TurnsAssumption, Selections, Choice, Blank, Name, SomeClass, SomeVariation

(* A turn that may choose writes what it may.                              *)
LEMMA WritesAllowed ==
  ASSUME NEW T, NEW rule, NEW k \in Selections, NEW selected \in Selections, k.product \in T \cup {NotSaid}
  PROVE  Writes(rule, k, selected) \in Seq(Allowed(T, TRUE))
<1> DEFINE moved == k.class # NotSaid /\ k.class # selected.class
           offer == Choice(IF rule = "asks" /\ moved THEN NotSaid ELSE k.product, selected.class, selected.variation)
<1>1. offer \in Selections /\ offer.product \in T \cup {NotSaid}
  BY DEF Choice, Selections, Name
<1> HIDE DEF offer, moved
<1>2. {DropName, SaveChoice(offer), SaveDraftOf(offer)} \subseteq Allowed(T, TRUE)
  BY <1>1 DEF DropName, SaveChoice, SaveDraftOf, Allowed
<1>3. /\ <<DropName>> \in Seq(Allowed(T, TRUE))
      /\ <<SaveChoice(offer), SaveDraftOf(offer)>> \in Seq(Allowed(T, TRUE))
      /\ << >> \in Seq(Allowed(T, TRUE))
  <2> DEFINE S == Allowed(T, TRUE)
  <2>1. DropName \in S /\ SaveChoice(offer) \in S /\ SaveDraftOf(offer) \in S
    BY <1>2
  <2> HIDE DEF S
  <2>2. <<DropName>> \in Seq(S) /\ <<SaveChoice(offer), SaveDraftOf(offer)>> \in Seq(S) /\ << >> \in Seq(S)
    BY <2>1
  <2> QED BY <2>2 DEF S
<1>4. (IF moved THEN <<DropName>> ELSE << >>) \o <<SaveChoice(offer), SaveDraftOf(offer)>> \in Seq(Allowed(T, TRUE))
  BY <1>3, ConcatProperties
<1>5. \/ Writes(rule, k, selected) = <<SaveChoice(offer), SaveDraftOf(offer)>>
      \/ Writes(rule, k, selected) = (IF moved THEN <<DropName>> ELSE << >>) \o <<SaveChoice(offer), SaveDraftOf(offer)>>
      \/ Writes(rule, k, selected) = << >>
  <2>1. CASE rule = "picks"
    BY <2>1 DEF Writes, offer, moved
  <2>2. CASE rule = "asks" /\ Whole(selected)
    BY <2>2 DEF Writes, offer, moved
  <2>3. CASE rule # "picks" /\ ~(rule = "asks" /\ Whole(selected))
    BY <2>3 DEF Writes
  <2> QED BY <2>1, <2>2, <2>3
<1> QED BY <1>3, <1>4, <1>5

(* What advice leaves behind names nothing.                                *)
LEMMA AdviceAllowed ==
  ASSUME TurnsAssumption, NEW T, NEW c \in BOOLEAN, NEW rule, NEW found \in Findings
  PROVE  Advised(rule, found) \in Seq(Allowed(T, c))
<1>1. found \in Selections
  BY FindingsMade
<1>2. [to |-> "advice", choice |-> found] \in Allowed(T, c) /\ [to |-> "consulted", choice |-> found] \in Allowed(T, c)
  BY <1>1 DEF Allowed
<1> QED BY <1>2 DEF Advised

(* What a turn begins with was the customer's.                             *)
LEMMA RememberedIs ==
  ASSUME ChoiceInv
  PROVE  Remembered \in Selections /\ Remembered.product \in trusted \cup {NotSaid}
<1>1. /\ FirstSaid(<<draft.product, chat.product, chat.advised>>) \in Name \cap (trusted \cup {NotSaid})
      /\ FirstSaid(<<draft.class, chat.class, chat.advisedClass>>) \in SomeClass
      /\ FirstSaid(<<chat.variation, chat.advisedVariation>>) \in SomeVariation
  BY FirstOfTwo, FirstOfThree DEF ChoiceInv, TurnTypes, ChoicesAreTheCustomers
<1>2. draft.variation \in SomeVariation
  BY DEF ChoiceInv, TurnTypes
<1> QED BY <1>1, <1>2 DEF Remembered, Choice, Selections

(* What may be written stays so when the customer says more.               *)
LEMMA AllowedMore ==
  ASSUME NEW T, NEW U, T \subseteq U, NEW c \in BOOLEAN, NEW s \in Seq(Allowed(T, c))
  PROVE  s \in Seq(Allowed(U, c)) /\ s \in Seq(Allowed(U, TRUE))
<1>1. Allowed(T, c) \subseteq Allowed(U, c) /\ Allowed(T, c) \subseteq Allowed(U, TRUE)
  BY DEF Allowed
<1> QED BY <1>1, SeqMonotonic

(* A message begins with writes it may make,                               *)
LEMMA TakeMessageStep ==
  ASSUME TurnsAssumption, ChoiceInv, NEW t \in Letters, TakeMessage(t)
  PROVE  ChoiceInv'
<1> DEFINE T == trusted \cup ({Named(t)} \ {NotSaid})
           may == MayChoose(t)
<1>1. PICK offered \in {said, Blank} :
        LET quick == \E i \in 1..4 : Applies(LiveRules[i], t, Blank, Blank, Blank)
            k == TakeUp(Absorb(Remembered, t), t)
            known == Earlier(k, offered)
            switch == ~quick /\ Switches(t, k, known)
            now == IF switch THEN known ELSE k
            selected == Selected(t, now, known)
            rule == Rule(LiveRules, t, now, known, selected)
            switching == IF switch THEN <<DropName, SaveOffer(known), SaveDraftOf(known)>> ELSE << >>
            saved == IF "picks" \in t.facts THEN Writes(rule, now, selected) ELSE << >>
        IN  /\ unwritten' \in {switching \o saved \o Advised(rule, found) : found \in Findings}
            /\ phase' = IF rule = "model" THEN "asking" ELSE "writing"
  BY DEF TakeMessage
<1> DEFINE quick == \E i \in 1..4 : Applies(LiveRules[i], t, Blank, Blank, Blank)
           k == TakeUp(Absorb(Remembered, t), t)
           known == Earlier(k, offered)
           switch == ~quick /\ Switches(t, k, known)
           now == IF switch THEN known ELSE k
           selected == Selected(t, now, known)
           rule == Rule(LiveRules, t, now, known, selected)
           switching == IF switch THEN <<DropName, SaveOffer(known), SaveDraftOf(known)>> ELSE << >>
           saved == IF "picks" \in t.facts THEN Writes(rule, now, selected) ELSE << >>
<1>2. PICK found \in Findings : unwritten' = switching \o saved \o Advised(rule, found)
  BY <1>1
<1>3. phase' \in {"writing", "asking"}
  BY <1>1
<1>4. k \in Selections /\ k.product \in T \cup {NotSaid}
  BY RememberedIs, ChoicesMade
<1>5. offered \in Selections /\ offered.product = NotSaid
  BY DEF ChoiceInv, TurnTypes, Selections, Blank, Choice, Name, SomeClass, SomeVariation
<1> HIDE DEF k
<1>6. known \in Selections /\ known.product = NotSaid
  BY <1>4, <1>5 DEF Earlier, Choice, Selections, Name
<1> HIDE DEF known
<1>7. now \in Selections /\ now.product \in T \cup {NotSaid}
  BY <1>4, <1>6
<1>s. switch => may
  BY DEF Switches, MayChoose
<1> HIDE DEF switch, now, quick
<1>8. selected \in Selections
  BY <1>6, <1>7, SelectionMade
<1> HIDE DEF selected, rule
<1> DEFINE S == Allowed(T, may)
<1>m. may \in BOOLEAN
  BY DEF MayChoose, Whole
<1>9. switching \in Seq(S)
  <2>1. CASE switch
    <3>1. DropName \in S /\ SaveOffer(known) \in S /\ SaveDraftOf(known) \in S
      BY <1>6, <1>s, <2>1 DEF Allowed, DropName, SaveOffer, SaveDraftOf
    <3> HIDE DEF S
    <3>2. <<DropName, SaveOffer(known), SaveDraftOf(known)>> \in Seq(S)
      BY <3>1
    <3> QED BY <2>1, <3>2
  <2>2. CASE ~switch
    BY <2>2
  <2> QED BY <2>1, <2>2
<1>10. saved \in Seq(S)
  <2>1. CASE "picks" \in t.facts
    <3>1. may = TRUE
      BY <1>m, <2>1 DEF MayChoose
    <3> QED BY <1>7, <1>8, <2>1, <3>1, WritesAllowed
  <2>2. CASE "picks" \notin t.facts
    BY <2>2
  <2> QED BY <2>1, <2>2
<1>11. Advised(rule, found) \in Seq(S)
  BY <1>m, AdviceAllowed
<1>12. unwritten' \in Seq(S)
  <2> HIDE DEF S, switching, saved
  <2>1. switching \o saved \in Seq(S)
    BY <1>9, <1>10, ConcatProperties
  <2> QED BY <1>2, <1>11, <2>1, ConcatProperties
<1>13. /\ letter' = [named |-> Named(t), chooses |-> may] /\ before' = Chosen(draft) /\ trusted' = T
       /\ said' = (IF Whole(t) THEN Choice(NotSaid, t.class, t.variation) ELSE said)
       /\ UNCHANGED <<chat, draft, tools, sim, shown>>
  BY DEF TakeMessage
<1>14. TurnTypes'
  <2>1. t.product \in Name /\ t.class \in SomeClass /\ t.variation \in SomeVariation
    BY DEF TurnsAssumption, Name, SomeClass, SomeVariation
  <2>2. said' \in Selections /\ said'.product = NotSaid
    BY <1>13, <2>1 DEF ChoiceInv, TurnTypes, Choice, Selections, Name
  <2>3. Named(t) \in Name
    BY <2>1 DEF Named, Name
  <2> QED BY <1>3, <1>13, <1>m, <2>2, <2>3 DEF ChoiceInv, TurnTypes
<1>15. ChoicesAreTheCustomers'
  BY <1>13 DEF ChoiceInv, ChoicesAreTheCustomers, Chosen
<1> QED BY <1>3, <1>12, <1>13, <1>14, <1>15 DEF ChoiceInv

(* Writing.                                                                *)
LEMMA UpsertedIs ==
  ASSUME ChoiceInv, NEW k \in Selections
  PROVE  /\ Upserted(draft, k) \in [product : Name, class : SomeClass, variation : SomeVariation, exists : BOOLEAN]
         /\ Upserted(draft, k).product \in {k.product, draft.product}
         /\ k = Blank => Chosen(Upserted(draft, k)) = Chosen(draft)
<1>1. draft \in [product : Name, class : SomeClass, variation : SomeVariation, exists : BOOLEAN]
  BY DEF ChoiceInv, TurnTypes
<1>2. k.product \in Name /\ k.class \in SomeClass /\ k.variation \in SomeVariation
  BY DEF Selections
<1>3. Upserted(draft, k) =
        [draft EXCEPT !.product = IF k.product # NotSaid THEN k.product ELSE draft.product,
                      !.class = IF k.class # NotSaid THEN k.class ELSE draft.class,
                      !.variation = IF k.variation # NotSaid THEN k.variation ELSE draft.variation, !.exists = TRUE]
  <2>1. /\ FirstSaid(<<k.product, draft.product>>) = IF k.product # NotSaid THEN k.product ELSE draft.product
        /\ FirstSaid(<<k.class, draft.class>>) = IF k.class # NotSaid THEN k.class ELSE draft.class
        /\ FirstSaid(<<k.variation, draft.variation>>) = IF k.variation # NotSaid THEN k.variation ELSE draft.variation
    BY FirstOfTwo
  <2> QED BY <2>1 DEF Upserted
<1>4. k = Blank => k.product = NotSaid /\ k.class = NotSaid /\ k.variation = NotSaid
  BY DEF Blank, Choice
<1> QED BY <1>1, <1>2, <1>3, <1>4 DEF Chosen, Choice

(* each write keeps what is remembered the customer's,                     *)
LEMMA WriteNextStep ==
  ASSUME ChoiceInv, WriteNext
  PROVE  ChoiceInv'
<1> DEFINE w == Head(unwritten)
           c == letter.chooses
<1>t. c \in BOOLEAN /\ phase \in {"writing", "asking"}
  BY DEF WriteNext, ChoiceInv, TurnTypes
<1>1. w \in Allowed(trusted, c) /\ Tail(unwritten) \in Seq(Allowed(trusted, c))
  BY HeadTailProperties DEF ChoiceInv, WriteNext
<1>2. /\ unwritten' = Tail(unwritten) /\ UNCHANGED <<said, letter, phase, tools, before, sim, shown>>
      /\ draft' = CASE w.to = "name" -> [draft EXCEPT !.product = NotSaid]
                    [] w.to = "draft" -> Upserted(draft, w.choice)
                    [] OTHER -> draft
      /\ chat' = CASE w.to = "chat" -> [chat EXCEPT !.product = w.choice.product, !.class = w.choice.class,
                                                   !.variation = w.choice.variation]
                   [] w.to = "offer" -> [chat EXCEPT !.class = w.choice.class, !.variation = w.choice.variation]
                   [] w.to = "tool" -> [chat EXCEPT !.product = w.choice.product,
                                                    !.class = FirstSaid(<<w.choice.class, @>>),
                                                    !.variation = FirstSaid(<<w.choice.variation, @>>)]
                   [] w.to = "advice" -> [chat EXCEPT !.advised = w.choice.product, !.advisedClass = w.choice.class]
                   [] w.to = "consulted" -> [chat EXCEPT !.advisedClass = w.choice.class,
                                                         !.advisedVariation = w.choice.variation]
                   [] OTHER -> chat
      /\ trusted' = trusted \cup (IF w.to = "advice" THEN {w.choice.product} \ {NotSaid} ELSE {})
  BY DEF WriteNext
<1> HIDE DEF w
<1>3. unwritten' \in Seq(Allowed(trusted', c))
  <2>1. trusted \subseteq trusted'
    BY <1>2
  <2> QED BY <1>t, <1>1, <1>2, <2>1, AllowedMore
<1>n. w.to # "name" => w.choice \in Selections
  BY <1>1 DEF Allowed
<1>f. w.to # "name" => /\ w.choice.product \in Name /\ w.choice.class \in SomeClass
                       /\ w.choice.variation \in SomeVariation
  BY <1>n DEF Selections
<1>4. /\ draft' \in [product : Name, class : SomeClass, variation : SomeVariation, exists : BOOLEAN]
      /\ draft'.product \in trusted \cup {NotSaid}
      /\ ~c => Chosen(draft') = Chosen(draft)
  <2>1. CASE w.to = "name"
    BY <1>1, <1>2, <2>1 DEF Allowed, ChoiceInv, TurnTypes, ChoicesAreTheCustomers, Name
  <2>2. CASE w.to = "draft"
    <3>1. draft' = Upserted(draft, w.choice)
      BY <1>2, <2>2
    <3>2. w.choice.product \in trusted \cup {NotSaid} /\ (~c => w.choice = Blank)
      BY <1>1, <2>2 DEF Allowed
    <3> QED BY <1>n, <2>2, <3>1, <3>2, UpsertedIs DEF ChoiceInv, ChoicesAreTheCustomers
  <2>3. CASE w.to \notin {"name", "draft"}
    BY <1>2, <2>3 DEF ChoiceInv, TurnTypes, ChoicesAreTheCustomers
  <2> QED BY <2>1, <2>2, <2>3
<1> DEFINE Rows == [product : Name, class : SomeClass, variation : SomeVariation,
                    advised : Name, advisedClass : SomeClass, advisedVariation : SomeVariation]
<1>5. chat' \in Rows /\ {chat'.product, chat'.advised} \subseteq trusted' \cup {NotSaid}
  <2>1. chat \in Rows /\ {chat.product, chat.advised} \subseteq trusted \cup {NotSaid}
    BY DEF ChoiceInv, TurnTypes, ChoicesAreTheCustomers
  <2>2. w.to \in {"chat", "tool"} => w.choice.product \in trusted \cup {NotSaid}
    BY <1>1 DEF Allowed
  <2>3. w.to = "tool" => /\ FirstSaid(<<w.choice.class, chat.class>>) \in SomeClass
                         /\ FirstSaid(<<w.choice.variation, chat.variation>>) \in SomeVariation
    BY <1>f, <2>1, FirstOfTwo
  <2>4. CASE w.to = "chat"
    BY <1>2, <1>f, <2>1, <2>2, <2>4
  <2>5. CASE w.to = "offer"
    BY <1>2, <1>f, <2>1, <2>5
  <2>6. CASE w.to = "tool"
    BY <1>2, <1>f, <2>1, <2>2, <2>3, <2>6
  <2>7. CASE w.to = "advice"
    BY <1>2, <1>f, <2>1, <2>7
  <2>8. CASE w.to = "consulted"
    BY <1>2, <1>f, <2>1, <2>8
  <2>9. CASE w.to \notin {"chat", "offer", "tool", "advice", "consulted"}
    BY <1>2, <2>1, <2>9
  <2> QED BY <2>4, <2>5, <2>6, <2>7, <2>8, <2>9
<1>6. TurnTypes'
  BY <1>2, <1>4, <1>5 DEF ChoiceInv, TurnTypes
<1>7. ChoicesAreTheCustomers'
  BY <1>2, <1>4, <1>5, <1>t DEF ChoiceInv, ChoicesAreTheCustomers
<1> QED BY <1>2, <1>3, <1>6, <1>7, <1>t DEF ChoiceInv

(* The tools and the end of a turn.                                        *)
(* and so does what the model saves in its draft.                          *)
LEMMA SaveDraftStep ==
  ASSUME TurnsAssumption, ChoiceInv, NEW k \in Findings, SaveDraft(k)
  PROVE  ChoiceInv'
<1> DEFINE asked == IF letter.chooses THEN k ELSE Blank
           held == Choice(IF TrustsName(asked.product) THEN asked.product ELSE NotSaid, asked.class, asked.variation)
           S == Allowed(trusted, letter.chooses)
<1>1. asked \in Selections /\ (~letter.chooses => asked = Blank)
  BY FindingsMade DEF Blank, Choice, Selections, Name, SomeClass, SomeVariation
<1>2. held \in Selections /\ held.product \in trusted \cup {NotSaid} /\ (~letter.chooses => held = Blank)
  BY <1>1 DEF Choice, Selections, Name, TrustsName, ChoiceInv, ChoicesAreTheCustomers, Blank
<1>3. /\ unwritten' = <<[to |-> "tool", choice |-> held], SaveDraftOf(held)>> /\ phase = "asking"
      /\ UNCHANGED <<chat, draft, said, letter, phase, before, sim, trusted, shown>>
  BY DEF SaveDraft, Calls
<1> HIDE DEF held, asked
<1>4. [to |-> "tool", choice |-> held] \in S /\ SaveDraftOf(held) \in S
  BY <1>2 DEF Allowed, SaveDraftOf
<1> HIDE DEF S
<1>5. unwritten' \in Seq(S)
  BY <1>3, <1>4
<1> QED BY <1>3, <1>5 DEF ChoiceInv, TurnTypes, ChoicesAreTheCustomers, S

(* What the simulator takes to be chosen it was told, found or has said.   *)
LEMMA SimulatedIsShown ==
  ASSUME NEW t \in Letters, Simulate(t), sim.product \in shown \cup {NotSaid}
  PROVE  sim'.product \in shown' \cup {NotSaid}
<1>1. PICK offered \in {said, Blank}, found \in Findings :
        LET k == Understood(Absorb(sim, t), t)
            selected == Selected(t, k, offered)
            rule == Rule(PreviewRules, t, k, offered, selected)
            answered == Answered(rule, t, k, offered, selected, found)
            drafted == {answered} \cup
              (IF rule = "model" THEN {Drafted(answered, t, asked) : asked \in Findings} ELSE {})
            spoken == {Absorb(d, f) : d \in drafted, f \in Findings}
            replied == {Choice(p, ClassOf[p], d.variation) : p \in Product, d \in {e \in spoken : e.product = NotSaid}}
        IN  /\ sim' \in spoken \cup replied
            /\ shown' = shown \cup (({t.product, answered.product} \cup
                 (IF sim' \in replied THEN {sim'.product} ELSE {})) \ {NotSaid})
  BY DEF Simulate
<1> DEFINE k == Understood(Absorb(sim, t), t)
           selected == Selected(t, k, offered)
           rule == Rule(PreviewRules, t, k, offered, selected)
           answered == Answered(rule, t, k, offered, selected, found)
           drafted == {answered} \cup
             (IF rule = "model" THEN {Drafted(answered, t, asked) : asked \in Findings} ELSE {})
           spoken == {Absorb(d, f) : d \in drafted, f \in Findings}
           replied == {Choice(p, ClassOf[p], d.variation) : p \in Product, d \in {e \in spoken : e.product = NotSaid}}
<1>2. /\ sim' \in spoken \cup replied
      /\ shown' = shown \cup (({t.product, answered.product} \cup
           (IF sim' \in replied THEN {sim'.product} ELSE {})) \ {NotSaid})
  BY <1>1
<1> HIDE DEF answered, rule
<1>3. \A d \in drafted : d.product \in {t.product, answered.product, NotSaid}
  <2> SUFFICES ASSUME NEW d \in drafted PROVE d.product \in {t.product, answered.product, NotSaid}
    OBVIOUS
  <2>1. CASE d = answered
    BY <2>1
  <2>2. ASSUME NEW asked \in Findings, d = Drafted(answered, t, asked)
        PROVE  d.product \in {t.product, answered.product, NotSaid}
    BY <2>2 DEF Drafted, TrustsShown, Named, Choice
  <2> QED BY <2>1, <2>2
<1> HIDE DEF drafted
<1>4. \A d \in spoken : d.product \in {t.product, answered.product, NotSaid}
  <2> SUFFICES ASSUME NEW d \in drafted, NEW f \in Findings
               PROVE  Absorb(d, f).product \in {t.product, answered.product, NotSaid}
    OBVIOUS
  <2>1. Absorb(d, f).product = d.product
    BY DEF Absorb, Choice
  <2> QED BY <1>3, <2>1
<1> HIDE DEF spoken, replied
<1> QED BY <1>2, <1>4

(* So does every step.                                                     *)
LEMMA ChoiceInvStep ==
  ASSUME TurnsAssumption, ChoiceInv, [TurnsNext]_choiceVars
  PROVE  ChoiceInv'
<1>1. CASE \E t \in Letters : TakeMessage(t)
  BY <1>1, TakeMessageStep
<1>2. CASE \E t \in Letters : Simulate(t)
  <2>1. PICK t \in Letters : Simulate(t)
    BY <1>2
  <2>2. /\ phase = "preview" /\ said' = (IF Whole(t) THEN Choice(NotSaid, t.class, t.variation) ELSE said)
        /\ UNCHANGED <<chat, draft, letter, phase, unwritten, tools, before, trusted>>
    BY <2>1 DEF Simulate
  <2>3. said' \in Selections /\ said'.product = NotSaid
    BY <2>2 DEF ChoiceInv, TurnTypes, TurnsAssumption, Choice, Selections, Name, SomeClass, SomeVariation
  <2>4. sim'.product \in shown' \cup {NotSaid}
    BY <2>1, SimulatedIsShown DEF ChoiceInv, ChoicesAreTheCustomers
  <2> QED BY <2>2, <2>3, <2>4 DEF ChoiceInv, TurnTypes, ChoicesAreTheCustomers
<1>3. CASE WriteNext
  BY <1>3, WriteNextStep
<1>4. CASE EndTurn
  BY <1>4 DEF EndTurn, NoLetter, Name, ChoiceInv, TurnTypes, ChoicesAreTheCustomers
<1>5. CASE \E k \in Findings : SaveDraft(k)
  BY <1>5, SaveDraftStep
<1>6. CASE CheckPostage
  BY <1>6 DEF CheckPostage, Calls, ChoiceInv, TurnTypes, ChoicesAreTheCustomers
<1>7. CASE ConfirmOrder
  <2>1. draft' = draft \/ draft' = NoDraft
    BY <1>7 DEF ConfirmOrder
  <2>2. /\ draft' \in [product : Name, class : SomeClass, variation : SomeVariation, exists : BOOLEAN]
        /\ draft'.product \in trusted \cup {NotSaid}
    <3>1. CASE draft' = draft
      BY <3>1 DEF ChoiceInv, TurnTypes, ChoicesAreTheCustomers
    <3>2. CASE draft' = NoDraft
      <4>1. /\ NoDraft \in [product : Name, class : SomeClass, variation : SomeVariation, exists : BOOLEAN]
            /\ NoDraft.product = NotSaid
        BY DEF NoDraft, Name, SomeClass, SomeVariation
      <4> QED BY <3>2, <4>1
    <3> QED BY <2>1, <3>1, <3>2
  <2> QED BY <1>7, <2>2 DEF ConfirmOrder, Calls, Chosen, ChoiceInv, TurnTypes, ChoicesAreTheCustomers
<1>8. CASE UNCHANGED choiceVars
  BY <1>8 DEF choiceVars, ChoiceInv, TurnTypes, ChoicesAreTheCustomers, Chosen
<1> QED BY <1>1, <1>2, <1>3, <1>4, <1>5, <1>6, <1>7, <1>8 DEF TurnsNext

(* Whatever the tools are called with, the product of a draft and of what the *)
(* bot remembers is one the customer named or a rule recommended, and a    *)
(* message that selects nothing leaves the draft alone: for any products and *)
(* messages.                                                               *)
THEOREM ChoicesStayTheCustomers == TurnsSpec => []ChoicesAreTheCustomers
<1>1. TurnsInit => ChoiceInv
  <2> SUFFICES ASSUME TurnsInit PROVE ChoiceInv
    OBVIOUS
  <2>1. TurnTypes
    BY DEF TurnsInit, TurnTypes, NoChat, NoDraft, NoLetter, Blank, Choice, Selections, Name, SomeClass, SomeVariation
  <2> QED BY <2>1 DEF TurnsInit, ChoiceInv, ChoicesAreTheCustomers, NoChat, NoDraft, NoLetter, Blank, Choice
<1>2. ChoiceInv /\ [TurnsNext]_choiceVars => ChoiceInv'
  BY TurnsAssumption, ChoiceInvStep
<1>3. ChoiceInv => ChoicesAreTheCustomers
  BY DEF ChoiceInv
<1> QED BY <1>1, <1>2, <1>3, PTL DEF TurnsSpec

=============================================================================
