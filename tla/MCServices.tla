----------------------------- MODULE MCServices -----------------------------
(***************************************************************************)
(* The services beside the queues, and the turns of a customer, each on    *)
(* its own: a behaviour is one of the modules below, and the variables of  *)
(* the others stay as they are.                                            *)
(***************************************************************************)
EXTENDS AiGateway, AiHealth, Numbers, SendChain, Handoff, Lookups, Conversation, Turns

VARIABLE part

otherVars == <<numberVars, chainVars, handoffVars, lookupVars>>
customerVars == <<conversationVars, choiceVars>>
vars == <<part, aiVars, healthVars, otherVars, customerVars>>

MCKeyLists == {<< >>, <<"spent", "good">>, <<"down", "good">>, <<"spent", "spent", "good">>}

\* Two classes with a product each.
MCClassOf == "p" :> "c" @@ "q" :> "d"
Saying(p, c, v, facts) == [product |-> p, class |-> c, variation |-> v, facts |-> facts]
MCLetters ==
  {Saying(NotSaid, c, v, f) : c \in Class \cup {NotSaid}, v \in Variation \cup {NotSaid},
                              f \in {{"picks"}, {"picks", "asks"}, {"picks", "checkout"}}}
  \cup {Saying(NotSaid, c, v, {"asks"}) : c \in Class, v \in Variation}
  \cup {Saying(p, NotSaid, NotSaid, f) : p \in Product,
          f \in {{}, {"picks"}, {"relation"}, {"counterpart"}, {"ordinal"}, {"detail"}}}
  \cup {Saying(NotSaid, NotSaid, NotSaid, f) :
          f \in {{"postage"}, {"advice"}, {"compares"}, {"recommend"}, {"checkout"}, {"outside", "alike"},
                 {"checkout", "recommend"}, {"asks", "budget"}}}

Init ==
  /\ part \in {"ai", "health", "numbers", "chain", "handoff", "search", "shipping", "conversation", "turns"}
  /\ AiInit /\ HealthInit /\ NumbersInit /\ HandoffInit
  /\ IF part = "chain" THEN ChainInit
     ELSE stage = [s \in Send |-> "new"] /\ line = [s \in Send |-> CHOOSE l \in Line : TRUE]
          /\ after = [s \in Send |-> NoSend] /\ tails = [l \in Line |-> NoSend]
          /\ depths = [l \in Line |-> 0]
  /\ LookupInit
  /\ part # "shipping" => keys[Ongkir] = << >>
  /\ part # "search" => keys["brave"] = << >> /\ keys["tavily"] = << >>
  /\ ConversationInit /\ (part # "conversation" => \A m \in Message : content[m] = "talk")
  /\ TurnsInit /\ (part # "turns" => phase = "idle")

Ai == part = "ai" /\ UNCHANGED <<part, healthVars, otherVars, customerVars>>
Health == part = "health" /\ UNCHANGED <<part, aiVars, otherVars, customerVars>>
Talk == part = "conversation" /\ UNCHANGED <<part, aiVars, healthVars, otherVars, choiceVars>>

Next ==
  \/ Ai /\ AiNext
  \/ Health /\ HealthNext
  \/ Talk /\ ConversationNext
  \/ part = "turns" /\ TurnsNext /\ UNCHANGED <<part, aiVars, healthVars, otherVars, conversationVars>>
  \/ /\ UNCHANGED <<part, aiVars, healthVars, customerVars>>
     /\ \/ part = "numbers" /\ NumbersNext /\ UNCHANGED <<chainVars, handoffVars, lookupVars>>
        \/ part = "chain" /\ ChainNext /\ UNCHANGED <<numberVars, handoffVars, lookupVars>>
        \/ part = "handoff" /\ HandoffNext /\ UNCHANGED <<numberVars, chainVars, lookupVars>>
        \/ ((part = "search" /\ SearchNext) \/ (part = "shipping" /\ ShippingNext))
           /\ UNCHANGED <<numberVars, chainVars, handoffVars>>

(* A call of the model ends within 75 seconds, a probe within 25, a repeat *)
(* comes 800 ms later, and time passes; the worker goes on with a turn,    *)
(* and with a post-send action.  Nothing else is assumed to happen:        *)
(* whether anybody asks is not up to the program.                          *)
Fairness ==
  /\ WF_vars(AiTick /\ Ai) /\ WF_vars(HealthTick /\ Health)
  /\ \A c \in Caller : WF_vars(AiReturn(c) /\ Ai) /\ WF_vars(RepeatCall(c) /\ Ai)
  /\ \A p \in Probe : WF_vars(FinishProbe(p) /\ Health)
  /\ \A m \in Message : WF_vars(TurnStep(m) /\ Talk) /\ WF_vars(AfterStep(m) /\ Talk)

FairSpec == Init /\ [][Next]_vars /\ Fairness
=============================================================================
