---------------------------- MODULE Conversation ----------------------------
(***************************************************************************)
(* What happens to the messages of one customer after they were claimed:   *)
(* the turn that answers one (processInboundMessage in                     *)
(* src/src/whatsapp/connection.ts), the loop of model and tools in it      *)
(* (askAgentRaw in src/src/ai/agent.ts), the handoff after the payment     *)
(* summary was sent, the operators who resolve a handoff, and the deletion *)
(* of the customer (src/src/admin/customer-data.ts).                       *)
(*                                                                         *)
(* A step is what a turn does from one await to the next, or several of    *)
(* them that touch nothing another step reads.  Turns of one customer run  *)
(* one after the other (ClaimsExclude of InboundQueue).                    *)
(* Abstractions:                                                           *)
(*  - a text is what it makes the turn do, content; a turn that finds the  *)
(*    shop closed or an answer without the model chooses so freely;        *)
(*  - a row of outbound_messages is its dedupe key, <<kind, message>>; the *)
(*    notice an operator cannot get because no ADMIN_WA_JID is set is a    *)
(*    row too, in state dead_letter, under the same key;                   *)
(*  - chat_history, leads, inbound_media are the pairs <<column, message>> *)
(*    in kept; repeated rows count once;                                   *)
(*  - of a handoff only whether it is resolved; Handoff has the rest; what *)
(*    cleared it is a ghost: the turns that had found none active when it  *)
(*    was made, and the one that made it;                                  *)
(*  - attempts are those of InboundQueue; sending is that of Outbox.       *)
(***************************************************************************)
EXTENDS Naturals, Sequences

CONSTANTS
  Message,      \* the customer's messages
  Operator,     \* requests of operators in progress at the same time
  MaxLogged,    \* bound: handoffs of the customer
  Talkers,      \* bound: messages that are neither commands nor media
  MaxAttempts,  \* inbound_messages.max_attempts
  MaxCalls,     \* bound: tool calls in a turn
  MaxIncidents  \* bound: turns and actions that fail, deaths, deletions

ASSUME ConversationAssumption ==
  Talkers \subseteq Message /\
  MaxAttempts \in Nat \ {0} /\ MaxLogged \in Nat \ {0} /\ MaxCalls \in Nat /\ MaxIncidents \in Nat

VARIABLES
  log,          \* handoff_log of the customer, by id
  resolving,    \* the row a resolution has read as unresolved
  content,      \* what a message is
  turn,         \* how far its turn is, or its row when there is no turn
  attempts,
  kept,         \* chat_history, leads and inbound_media of the customer
  outbox,       \* the dedupe keys in outbound_messages
  postSend,     \* the post-send action of the reply to a message
  carried,      \* handoffResult, orderConfirmed, postPaymentHandoff of a turn
  direct,       \* directShippingResult of a turn
  toolCalls,    \* tool calls the turn has made
  confirmed,    \* the messages whose turn has confirmed an order
  cut,          \* ghost: the turns that lost what they carried
  orphans,      \* turns whose row was deleted under them
  erased,       \* ghost: messages that were at rest when the customer was deleted
  incidents

logVars == <<log, resolving>>
turnVars == <<turn, attempts, carried, direct, toolCalls, orphans>>
dataVars == <<kept, outbox, postSend, confirmed>>
ghostVars == <<cut, erased, incidents>>
conversationVars == <<logVars, content, turnVars, dataVars, ghostVars>>

-----------------------------------------------------------------------------

NoEntry == 0
Content == {"talk", "optOut", "badMedia"}
Past == {"asking", "answered"}       \* after isHandoffActive, before the reply
Working == Past \cup {"read", "consenting", "closed", "telling", "told",
                      "media", "mediaReplied", "mediaHandoff"}
Resting == {"new", "done", "dead", "gone"}
Acting == {"running", "logged"}
CustomerKeys == {"reply", "consent", "out-of-hours", "media-failure-customer"} \X Message
OperatorKeys == {"order-admin", "handoff-admin", "media-failure-admin"} \X Message

ConversationInit ==
  /\ log = << >> /\ resolving = [o \in Operator |-> NoEntry]
  /\ content \in [Message -> Content] /\ \A m \in Talkers : content[m] = "talk"
  /\ turn = [m \in Message |-> "new"]
  /\ attempts = [m \in Message |-> 0]
  /\ kept = {} /\ outbox = {} /\ confirmed = {}
  /\ postSend = [m \in Message |-> "none"]
  /\ carried = [m \in Message |-> {}]
  /\ direct = [m \in Message |-> FALSE] /\ toolCalls = [m \in Message |-> 0]
  /\ cut = {} /\ orphans = {} /\ erased = {} /\ incidents = 0

Go(m, s) == turn' = [turn EXCEPT ![m] = s]
Keep(what) == kept' = kept \cup what
Enqueue(keys) == outbox' = outbox \cup keys
Carry(m, what) == carried' = [carried EXCEPT ![m] = what]
Cleared == {n \in Message : turn[n] \in Past}

Open(r) == log[r].here /\ ~log[r].resolved
HandedOff == \E r \in DOMAIN log : Open(r)
CanCreate == HandedOff \/ Len(log) < MaxLogged

(* HandoffRepository.create: ON CONFLICT DO NOTHING over the unresolved    *)
Created(m, cleared) ==
  IF HandedOff THEN log
  ELSE Append(log, [resolved |-> FALSE, here |-> TRUE, by |-> m,
                     cleared |-> cleared \cup {m}])
LogHandoff(m) == CanCreate /\ log' = Created(m, Cleared) /\ UNCHANGED resolving

Incident == incidents < MaxIncidents /\ incidents' = incidents + 1

-----------------------------------------------------------------------------
(* One turn.  An action whose name is a stage of the turn starts from it.  *)

Receive(m) ==
  /\ turn[m] = "new" /\ Go(m, "queued")
  /\ UNCHANGED <<logVars, content, attempts, carried, direct, toolCalls, orphans,
                 dataVars, ghostVars>>

(* claimed: the media is read and the message is saved                     *)
Begin(m) ==
  /\ turn[m] = "queued" /\ \A n \in Message : turn[n] \notin Working
  /\ attempts' = [attempts EXCEPT ![m] = @ + 1]
  /\ Carry(m, {}) /\ direct' = [direct EXCEPT ![m] = FALSE]
  /\ toolCalls' = [toolCalls EXCEPT ![m] = 0]
  /\ CASE content[m] = "talk"     -> Go(m, "read") /\ Keep({<<"user", m>>})
       [] content[m] = "optOut"   -> Go(m, "consenting") /\ Keep({<<"user", m>>})
       [] content[m] = "badMedia" -> Go(m, "media") /\ Keep({<<"media", m>>})
  /\ UNCHANGED <<logVars, content, orphans, outbox, postSend, confirmed, ghostVars>>

(* a command of consent is answered whether or not a handoff is active     *)
AnswerConsent(m) ==
  /\ turn[m] = "consenting" /\ Go(m, "told")
  /\ Keep({<<"assistant", m>>}) /\ Enqueue({<<"consent", m>>})
  /\ UNCHANGED <<logVars, content, attempts, carried, direct, toolCalls, orphans,
                 postSend, confirmed, ghostVars>>

\* a plausible mistake: the handoff is not looked at
NeverSilent(m) == FALSE

Silent(m) == HandedOff

(* isHandoffActive, then getBusinessHoursState                             *)
CheckHandoff(m) ==
  /\ turn[m] = "read"
  /\ IF Silent(m) THEN Go(m, "told") ELSE \E s \in {"asking", "closed"} : Go(m, s)
  /\ UNCHANGED <<logVars, content, attempts, carried, direct, toolCalls, orphans,
                 dataVars, ghostVars>>

(* out of hours: handoffPolicy says whether a handoff is made              *)
AnswerClosed(m) ==
  /\ turn[m] = "closed" /\ Go(m, "told")
  /\ LogHandoff(m) \/ UNCHANGED logVars
  /\ Keep({<<"assistant", m>>}) /\ Enqueue({<<"out-of-hours", m>>})
  /\ UNCHANGED <<content, attempts, carried, direct, toolCalls, orphans, postSend,
                 confirmed, ghostVars>>

(* answers of askAgentRaw that ask no model: postage, facts of the         *)
(* catalogue, a request for a human                                        *)
AnswerByRule(m) ==
  /\ turn[m] = "asking" /\ toolCalls[m] = 0 /\ Go(m, "answered")
  /\ Keep({<<"lead", m>>})
  /\ \/ LogHandoff(m) /\ Carry(m, {"handoff"})
     \/ UNCHANGED <<logVars, carried>>
  /\ UNCHANGED <<content, attempts, direct, toolCalls, orphans, outbox, postSend,
                 confirmed, ghostVars>>

(* one tool call: handleToolCall and what the loop takes from its result   *)
CallTool(m) ==
  /\ turn[m] = "asking" /\ toolCalls[m] < MaxCalls
  /\ toolCalls' = [toolCalls EXCEPT ![m] = @ + 1]
  /\ Keep({<<"lead", m>>})
  /\ \/ /\ LogHandoff(m) /\ Carry(m, carried[m] \cup {"handoff"})
        /\ UNCHANGED <<confirmed, direct>>
     \/ /\ m \notin confirmed /\ confirmed' = confirmed \cup {m}
        /\ \E pay \in SUBSET {"payment"} : Carry(m, carried[m] \cup {"order"} \cup pay)
        /\ UNCHANGED <<logVars, direct>>
     \/ /\ direct' = [direct EXCEPT ![m] = TRUE]
        /\ UNCHANGED <<logVars, carried, confirmed>>
  /\ UNCHANGED <<content, turn, attempts, orphans, outbox, postSend, ghostVars>>

(* a completion without tool calls, or the one after the last round        *)
ModelAnswers(m) ==
  /\ turn[m] = "asking" /\ ~direct[m] /\ Go(m, "answered")
  /\ Keep({<<"lead", m>>})
  /\ UNCHANGED <<logVars, content, attempts, carried, direct, toolCalls, orphans,
                 outbox, postSend, confirmed, ghostVars>>

(* the cost of delivery is returned at once, without handoffResult         *)
AnswerPostage(m) ==
  /\ turn[m] = "asking" /\ direct[m] /\ Go(m, "answered")
  /\ Carry(m, carried[m] \ {"handoff"})
  /\ cut' = IF "handoff" \in carried[m] THEN cut \cup {m} ELSE cut
  /\ UNCHANGED <<logVars, content, attempts, direct, toolCalls, orphans,
                 dataVars, erased, incidents>>

(* the provider fails, or the arguments of a tool call do not parse: the   *)
(* catch answers an apology and drops what the turn carried                *)
ModelFails(m) ==
  /\ turn[m] = "asking" /\ Incident
  /\ Go(m, "answered") /\ Carry(m, {}) /\ Keep({<<"lead", m>>})
  /\ cut' = IF carried[m] # {} THEN cut \cup {m} ELSE cut
  /\ UNCHANGED <<logVars, content, attempts, direct, toolCalls, orphans, outbox,
                 postSend, confirmed, erased>>

(* the reply; its post-send action goes with the row, if the row is new    *)
Reply(m) ==
  /\ turn[m] = "answered" /\ Go(m, "telling")
  /\ Keep({<<"assistant", m>>}) /\ Enqueue({<<"reply", m>>})
  /\ LET new == <<"reply", m>> \notin outbox IN
     postSend' = IF new /\ "payment" \in carried[m]
              THEN [postSend EXCEPT ![m] = "pending"] ELSE postSend
  /\ UNCHANGED <<logVars, content, attempts, carried, direct, toolCalls, orphans,
                 confirmed, ghostVars>>

\* a plausible mistake: one notice at most
OneNotice(m) == IF "handoff" \in carried[m] THEN {<<"handoff-admin", m>>}
                ELSE IF "order" \in carried[m] THEN {<<"order-admin", m>>} ELSE {}

Notices(m) == (IF "order" \in carried[m] THEN {<<"order-admin", m>>} ELSE {})
         \cup (IF "handoff" \in carried[m] THEN {<<"handoff-admin", m>>} ELSE {})

Tell(m) ==
  /\ turn[m] = "telling" /\ Go(m, "told") /\ Enqueue(Notices(m))
  /\ UNCHANGED <<logVars, content, attempts, carried, direct, toolCalls, orphans,
                 kept, postSend, confirmed, ghostVars>>

(* completeInbound, which finds no row when the customer was deleted       *)
Complete(m) ==
  /\ turn[m] = "told" /\ Go(m, IF m \in orphans THEN "gone" ELSE "done")
  /\ UNCHANGED <<logVars, content, attempts, carried, direct, toolCalls, orphans,
                 dataVars, ghostVars>>

(* PermanentMediaInputError: answer, handoff, notice, dead letter          *)
MediaReply(m) ==
  /\ turn[m] = "media" /\ Go(m, "mediaReplied")
  /\ Enqueue({<<"media-failure-customer", m>>})
  /\ UNCHANGED <<logVars, content, attempts, carried, direct, toolCalls, orphans,
                 kept, postSend, confirmed, ghostVars>>
MediaHandoff(m) ==
  /\ turn[m] = "mediaReplied" /\ Go(m, "mediaHandoff") /\ LogHandoff(m)
  /\ UNCHANGED <<content, attempts, carried, direct, toolCalls, orphans, dataVars, ghostVars>>
MediaNotice(m) ==
  /\ turn[m] = "mediaHandoff" /\ Go(m, IF m \in orphans THEN "gone" ELSE "dead")
  /\ Enqueue({<<"media-failure-admin", m>>})
  /\ UNCHANGED <<logVars, content, attempts, carried, direct, toolCalls, orphans,
                 kept, postSend, confirmed, ghostVars>>

TurnStep(m) ==
  \/ Begin(m) \/ AnswerConsent(m) \/ CheckHandoff(m) \/ AnswerClosed(m)
  \/ AnswerByRule(m) \/ CallTool(m) \/ ModelAnswers(m) \/ AnswerPostage(m)
  \/ Reply(m) \/ Tell(m) \/ Complete(m)
  \/ MediaReply(m) \/ MediaHandoff(m) \/ MediaNotice(m)

-----------------------------------------------------------------------------
(* The handoff after the payment summary: postSendHandler.                 *)

(* the reply is sent and its action claimed, or the action alone again     *)
SendReply(m) ==
  /\ postSend[m] = "pending" /\ postSend' = [postSend EXCEPT ![m] = "running"]
  /\ UNCHANGED <<logVars, content, turnVars, kept, outbox, confirmed, ghostVars>>
LogAfterSend(m) ==
  /\ postSend[m] = "running" /\ postSend' = [postSend EXCEPT ![m] = "logged"]
  /\ LogHandoff(m)
  /\ UNCHANGED <<content, turnVars, kept, outbox, confirmed, ghostVars>>
TellAfterSend(m) ==
  /\ postSend[m] = "logged" /\ postSend' = [postSend EXCEPT ![m] = "done"]
  /\ Enqueue({<<"handoff-admin", m>>})
  /\ UNCHANGED <<logVars, content, turnVars, kept, confirmed, ghostVars>>

AfterStep(m) == SendReply(m) \/ LogAfterSend(m) \/ TellAfterSend(m)

-----------------------------------------------------------------------------
(* An operator resolves the handoff, in WhatsApp or in the panel: the row  *)
(* is read as unresolved and then updated by its id.  The last row stays   *)
(* unresolved, so that a turn can always make the handoff it wants.        *)

ReadToResolve(o, r) ==
  /\ resolving[o] = NoEntry /\ Open(r) /\ Len(log) < MaxLogged
  /\ resolving' = [resolving EXCEPT ![o] = r] /\ UNCHANGED log
ResolveEntry(o) ==
  /\ resolving[o] # NoEntry /\ resolving' = [resolving EXCEPT ![o] = NoEntry]
  /\ log' = [log EXCEPT ![resolving[o]].resolved = @ \/ log[resolving[o]].here]

-----------------------------------------------------------------------------
(* What goes wrong, and the deletion of the customer.                      *)
(* where the row of a turn that failed goes                                *)
AfterFailure(m) == IF m \in orphans THEN "gone"
                   ELSE IF attempts[m] < MaxAttempts THEN "queued" ELSE "dead"
Loses(m) == carried[m] # {} /\ turn[m] \in {"asking", "answered", "telling"}

(* a query of a turn fails; inside askAgentRaw that is ModelFails          *)
Fail(m) ==
  /\ turn[m] \in Working
  /\ (turn[m] = "asking" => toolCalls[m] = 0) /\ Incident /\ Go(m, AfterFailure(m))
  /\ cut' = IF Loses(m) THEN cut \cup {m} ELSE cut
  /\ UNCHANGED <<logVars, content, attempts, carried, direct, toolCalls, orphans,
                 dataVars, erased>>

AfterSendFails(m) ==
  /\ postSend[m] \in Acting /\ Incident
  /\ postSend' = [postSend EXCEPT ![m] = IF <<"reply", m>> \in outbox THEN "pending" ELSE "none"]
  /\ UNCHANGED <<logVars, content, turnVars, kept, outbox, confirmed, cut, erased>>

(* an action in progress stays so for ever: nothing claims it again        *)
Crash ==
  /\ Incident /\ resolving' = [o \in Operator |-> NoEntry]
  /\ turn' = [m \in Message |-> IF turn[m] \in Working THEN AfterFailure(m) ELSE turn[m]]
  /\ cut' = cut \cup {m \in Message : Loses(m) \/ postSend[m] \in Acting}
  /\ postSend' = [m \in Message |-> IF postSend[m] \in Acting THEN "stuck" ELSE postSend[m]]
  /\ UNCHANGED <<log, content, attempts, carried, direct, toolCalls, orphans, kept,
                 outbox, confirmed, erased>>

Busy(m) == turn[m] \in Working \/ postSend[m] \in Acting

\* a plausible mistake: the queue is not deleted
QueueStays(m) == IF turn[m] \in {"done", "dead"} THEN "gone" ELSE turn[m]

Cleaned(m) == IF turn[m] \in {"queued", "done", "dead"} THEN "gone" ELSE turn[m]

(* one transaction over every table with the jid                           *)
DeleteCustomer ==
  /\ kept # {} /\ Len(log) < MaxLogged /\ Incident /\ kept' = {}
  /\ log' = [r \in DOMAIN log |-> [log[r] EXCEPT !.here = FALSE]]
  /\ outbox' = outbox \cap OperatorKeys
  /\ postSend' = [m \in Message |-> IF postSend[m] = "pending" THEN "none" ELSE postSend[m]]
  /\ turn' = [m \in Message |-> Cleaned(m)]
  /\ orphans' = orphans \cup {m \in Message : turn[m] \in Working}
  /\ erased' = erased \cup {m \in Message : turn[m] # "new" /\ ~Busy(m)}
  /\ UNCHANGED <<resolving, content, attempts, carried, direct, toolCalls, confirmed, cut>>

ConversationNext ==
  \/ \E m \in Message : \/ Receive(m) \/ TurnStep(m) \/ AfterStep(m)
                        \/ ModelFails(m) \/ Fail(m) \/ AfterSendFails(m)
  \/ \E o \in Operator :
       /\ (\E r \in DOMAIN log : ReadToResolve(o, r)) \/ ResolveEntry(o)
       /\ UNCHANGED <<content, turnVars, dataVars, ghostVars>>
  \/ Crash \/ DeleteCustomer

-----------------------------------------------------------------------------
(* The bot keeps quiet while a human has the customer: a turn that answers *)
(* with the model while a handoff is active is the one that made it, or    *)
(* had found none active before it was made.                               *)
BotKeepsQuiet == [][\A m \in Message :
  <<"reply", m>> \in outbox' \ outbox =>
    \A r \in DOMAIN log : Open(r) => m \in log[r].cleared]_conversationVars

(* What deleteCustomerData removed does not come back through a message    *)
(* that was at rest at the time: only turns and actions that were under    *)
(* way write the customer again (docs/operations.md:100).                  *)
ForgottenForGood == \A m \in erased :
  /\ \A column \in {"user", "assistant", "lead", "media"} : <<column, m>> \notin kept
  /\ \A key \in outbox \cap CustomerKeys : key[2] # m
  /\ postSend[m] \notin Acting \cup {"pending"}
  /\ \A r \in DOMAIN log : log[r].by = m => ~Open(r)

AtRest(m) == turn[m] \in Resting /\ postSend[m] \in {"none", "done", "stuck"}
Announced(m) ==
  /\ m \in confirmed => <<"order-admin", m>> \in outbox
  /\ "handoff" \in carried[m] \/ postSend[m] = "done" => <<"handoff-admin", m>> \in outbox

(* Every turn comes to rest, and unless it lost what it carried, by then   *)
(* an operator has been told of the order it confirmed and of the handoff  *)
(* it made, before or after the reply was sent.                            *)
EveryTurnIsAnnounced ==
  \A m \in Message : []<>(AtRest(m) /\ (m \in cut \/ Announced(m)))

(* docs/PRD.md:255, after konfirmasiPesanan: "Admin mendapat notifikasi    *)
(* WhatsApp."  Refuted: a completion that fails after the tool has         *)
(* confirmed the order ends in the catch of askAgentRaw, whose answer      *)
(* carries no orderConfirmed; a turn that fails before the notice finds no *)
(* draft when it is retried.                                               *)
OrdersAreAnnounced == \A m \in Message :
  turn[m] = "done" /\ m \in confirmed => <<"order-admin", m>> \in outbox
=============================================================================
