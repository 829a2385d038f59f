-------------------------------- MODULE Turns --------------------------------
(***************************************************************************)
(* What the bot remembers of a customer's choice from turn to turn         *)
(* (src/src/ai/agent.ts, conversation-policy.ts, chat/orders.ts): the      *)
(* state a turn begins with, what its message adds, the first rule that    *)
(* answers, what that rule or the model's tools write, and the same for    *)
(* the simulator of the panel, which keeps its state to itself.            *)
(* A message is known by the product, price class and variation it names   *)
(* and by what it asks for; every class has the same variations, and a     *)
(* variation of a class has one price.  Prices are Catalogue's matter.     *)
(***************************************************************************)
EXTENDS Naturals, Sequences, SequencesExt

CONSTANTS
  Product, Class, Variation,
  ClassOf,   \* the class each product's name belongs to
  Letters,   \* the messages: [product, class, variation, facts]
  MaxTools,  \* bound: tool calls of a turn
  NotSaid

ASSUME TurnsAssumption ==
  /\ ClassOf \in [Product -> Class]
  /\ \A t \in Letters : /\ t.product \in Product \cup {NotSaid} /\ t.class \in Class \cup {NotSaid}
                        /\ t.variation \in Variation \cup {NotSaid}

VARIABLES
  chat,      \* chat_state.data: what was chosen, and what was recommended
  draft,     \* the draft order, and whether there is one
  said,      \* the last class and variation one message of the customer named
  letter,    \* of its message, the product it names and whether it may choose
  phase,     \* "idle", "writing" what its rule answered with, or "asking" the model;
             \* "preview" throughout when the simulator is used
  unwritten, \* the writes still to be made
  tools,     \* tool calls made
  before,    \* ghost: the draft when the turn began
  sim,       \* what the simulator takes to be chosen
  trusted,   \* ghost: the products customers named and rules recommended
  shown      \* ghost: those the simulator's messages and replies named

choiceVars ==
  <<chat, draft, said, letter, phase, unwritten, tools, before, sim, trusted, shown>>

Choice(p, c, v) == [product |-> p, class |-> c, variation |-> v]
Blank == Choice(NotSaid, NotSaid, NotSaid)
NoLetter == [named |-> NotSaid, chooses |-> FALSE]
NoDraft == [product |-> NotSaid, class |-> NotSaid, variation |-> NotSaid, exists |-> FALSE]
NoChat == [product |-> NotSaid, class |-> NotSaid, variation |-> NotSaid,
           advised |-> NotSaid, advisedClass |-> NotSaid, advisedVariation |-> NotSaid]
Chosen(row) == Choice(row.product, row.class, row.variation)
Whole(k) == k.class # NotSaid /\ k.variation # NotSaid

FirstSaid(values) ==
  LET i == SelectInSeq(values, LAMBDA v : v # NotSaid) IN IF i = 0 THEN NotSaid ELSE values[i]

TurnsInit ==
  /\ chat = NoChat /\ draft = NoDraft /\ said = Blank /\ letter = NoLetter
  /\ phase \in {"idle", "preview"} /\ unwritten = << >> /\ tools = 0 /\ before = Blank
  /\ sim = Blank /\ trusted = {} /\ shown = {}

-----------------------------------------------------------------------------
(* What a turn begins with, and what its message adds to that.             *)

\* The draft, then what was chosen, then what was recommended; a draft has variations, if none.
Remembered ==
  Choice(FirstSaid(<<draft.product, chat.product, chat.advised>>),
         FirstSaid(<<draft.class, chat.class, chat.advisedClass>>),
         IF draft.exists THEN draft.variation ELSE FirstSaid(<<chat.variation, chat.advisedVariation>>))

\* The product a message itself names, not one of a list it points into.
Named(t) == IF "ordinal" \in t.facts THEN NotSaid ELSE t.product

\* Only words that choose, or a whole offer, may change the choice.
MayChoose(t) == "picks" \in t.facts \/ Whole(t)

\* A class in a text replaces the class, and the variation with it unless it is the same.
Absorb(k, t) ==
  IF t.class = NotSaid THEN k
  ELSE Choice(k.product, t.class, FirstSaid(<<t.variation, IF k.class = t.class THEN k.variation ELSE NotSaid>>))

\* A product named is taken up with its class, and the counterpart asked for without variation.
TakeUp(k, t) ==
  IF Named(t) = NotSaid THEN k
  ELSE IF "counterpart" \in t.facts THEN Choice(t.product, ClassOf[t.product], NotSaid)
  ELSE IF "relation" \in t.facts THEN k
  ELSE Choice(t.product, ClassOf[t.product], k.variation)

Earlier(k, offered) == IF Whole(k) THEN Choice(NotSaid, k.class, k.variation) ELSE offered

\* The offer a message selects: its own, or that of the choice so far with what it changes.
Selected(t, k, offered) ==
  LET class == FirstSaid(<<t.class, k.class, offered.class>>)
      variation == FirstSaid(<<t.variation, k.variation, offered.variation>>)
  IN  IF "compares" \in t.facts THEN Blank
      ELSE IF Whole(t) /\ ("picks" \in t.facts \/ "asks" \notin t.facts) THEN Choice(NotSaid, t.class, t.variation)
      ELSE IF "picks" \in t.facts /\ Whole([class |-> class, variation |-> variation])
             THEN Choice(NotSaid, class, variation)
      ELSE Blank

\* Checkout data after a question about another class: the offer asked about is meant.
Switches(t, k, offered) ==
  /\ {"checkout", "picks"} \subseteq t.facts
  /\ Whole(offered) /\ k.class # NotSaid /\ offered.class # k.class

-----------------------------------------------------------------------------
(* The rules.  The first one of its list that applies gives the answer.    *)

LiveRules == <<"postage", "human", "advice", "unknown", "one", "class", "ifadmin", "picks", "asks", "relation",
               "compares", "detail", "fits", "recommend", "incomplete", "alike", "outside", "model">>

PreviewRules == <<"advice", "unknown", "quotes", "relation", "compares", "one", "class", "ifadmin", "picks",
                  "detail", "fits", "nameless", "incomplete", "recommend", "human", "outside", "alike", "model">>

\* k is the choice so far, offered what an earlier message named, selected what this one does.
Applies(rule, t, k, offered, selected) ==
  CASE rule = "relation"   -> {"relation", "counterpart"} \cap t.facts # {}
    [] rule = "one"        -> rule \in t.facts /\ k.product # NotSaid
    [] rule = "class"      -> rule \in t.facts /\ k.class # NotSaid
    [] rule = "ifadmin"    -> rule \in t.facts /\ Whole(offered)
    [] rule = "picks"      -> rule \in t.facts /\ Whole(selected) /\ {"checkout", "asks"} \cap t.facts = {}
    [] rule \in {"asks", "quotes"} ->
         /\ "asks" \in t.facts /\ ("budget" \in t.facts => k.product # NotSaid \/ k.class # NotSaid)
         /\ "ordinal" \in t.facts => rule = "quotes" /\ k.class # NotSaid
    [] rule \in {"detail", "fits"} -> rule \in t.facts /\ k.product # NotSaid
    [] rule = "nameless"   -> "checkout" \in t.facts /\ k.product = NotSaid
    [] rule = "incomplete" -> "checkout" \in t.facts /\ k.product # NotSaid /\ ~Whole(k)
    [] rule = "outside"    -> rule \in t.facts /\ "alike" \notin t.facts
    [] rule = "alike"      -> {"outside", "alike"} \subseteq t.facts
    [] rule = "model"      -> TRUE
    [] OTHER               -> rule \in t.facts

Rule(rules, t, k, offered, selected) ==
  rules[CHOOSE i \in DOMAIN rules : /\ Applies(rules[i], t, k, offered, selected)
                                    /\ \A j \in 1..(i - 1) : ~Applies(rules[j], t, k, offered, selected)]

-----------------------------------------------------------------------------
(* The writes: setChatState replaces every key it is given, also by        *)
(* nothing; upsertDraftOrder writes what has a value.                      *)

Upserted(row, k) ==
  [row EXCEPT !.product = FirstSaid(<<k.product, @>>), !.class = FirstSaid(<<k.class, @>>),
              !.variation = FirstSaid(<<k.variation, @>>), !.exists = TRUE]

DropName == [to |-> "name"]
SaveChoice(k) == [to |-> "chat", choice |-> k]
SaveOffer(k) == [to |-> "offer", choice |-> k]
SaveDraftOf(k) == [to |-> "draft", choice |-> k]

\* What a rule has the turn write; the name is dropped when the class it was chosen in changes.
Writes(rule, k, selected) ==
  LET moved == k.class # NotSaid /\ k.class # selected.class
      offer == Choice(IF rule = "asks" /\ moved THEN NotSaid ELSE k.product, selected.class, selected.variation)
  IN  CASE rule = "picks" -> <<SaveChoice(offer), SaveDraftOf(offer)>>
        [] rule = "asks" /\ Whole(selected) ->
             (IF moved THEN <<DropName>> ELSE << >>) \o <<SaveChoice(offer), SaveDraftOf(offer)>>
        [] OTHER -> << >>

\* What a recommendation, a search or advice can come to: a product, only a class, or nothing.
Findings ==
  {Blank} \cup {Choice(p, ClassOf[p], v) : p \in Product, v \in Variation}
          \cup {Choice(NotSaid, c, NotSaid) : c \in Class}

Advised(rule, found) ==
  CASE rule = "recommend" /\ found # Blank -> <<[to |-> "advice", choice |-> found]>>
    [] rule = "alike" /\ found.product # NotSaid -> <<[to |-> "advice", choice |-> found]>>
    [] rule = "advice" /\ found # Blank -> <<[to |-> "consulted", choice |-> found]>>
    [] OTHER -> << >>

\* Receiving a message: what is chosen, which rule answers, what it writes.
TakeMessage(t) ==
  /\ phase = "idle"
  /\ \E offered \in {said, Blank} :
       LET quick == \E i \in 1..4 : Applies(LiveRules[i], t, Blank, Blank, Blank)
           k == TakeUp(Absorb(Remembered, t), t)
           known == Earlier(k, offered)
           switch == ~quick /\ Switches(t, k, known)
           now == IF switch THEN known ELSE k
           selected == Selected(t, now, known)
           rule == Rule(LiveRules, t, now, known, selected)
           switching == IF switch THEN <<DropName, SaveOffer(known), SaveDraftOf(known)>> ELSE << >>
           saved == IF "picks" \in t.facts THEN Writes(rule, now, selected) ELSE << >>
       IN  /\ unwritten' \in {switching \o saved \o Advised(rule, found) : found \in Findings}
           /\ phase' = IF rule = "model" THEN "asking" ELSE "writing"
  /\ letter' = [named |-> Named(t), chooses |-> MayChoose(t)] /\ before' = Chosen(draft)
  /\ trusted' = trusted \cup ({Named(t)} \ {NotSaid})
  /\ said' = IF Whole(t) THEN Choice(NotSaid, t.class, t.variation) ELSE said
  /\ UNCHANGED <<chat, draft, tools, sim, shown>>

WriteNext ==
  /\ unwritten # << >> /\ unwritten' = Tail(unwritten)
  /\ LET w == Head(unwritten)
     IN  /\ draft' = CASE w.to = "name" -> [draft EXCEPT !.product = NotSaid]
                       [] w.to = "draft" -> Upserted(draft, w.choice)
                       [] OTHER -> draft
         /\ chat' = CASE w.to = "chat" -> [chat EXCEPT !.product = w.choice.product, !.class = w.choice.class,
                                                       !.variation = w.choice.variation]
                      [] w.to = "offer" -> [chat EXCEPT !.class = w.choice.class, !.variation = w.choice.variation]
                      [] w.to = "tool" -> [chat EXCEPT !.product = w.choice.product,
                                                       !.class = FirstSaid(<<w.choice.class, @>>),
                                                       !.variation = FirstSaid(<<w.choice.variation, @>>)]
                      [] w.to = "advice" -> [chat EXCEPT !.advised = w.choice.product, !.advisedClass = w.choice.class]
                      [] w.to = "consulted" -> [chat EXCEPT !.advisedClass = w.choice.class,
                                                            !.advisedVariation = w.choice.variation]
                      [] OTHER -> chat
         /\ trusted' = trusted \cup (IF w.to = "advice" THEN {w.choice.product} \ {NotSaid} ELSE {})
  /\ UNCHANGED <<said, letter, phase, tools, before, sim, shown>>

\* The turn is over, or fails, or the process dies: the rest is not written.
EndTurn ==
  /\ phase \in {"writing", "asking"} /\ phase' = "idle" /\ unwritten' = << >>
  /\ letter' = NoLetter /\ tools' = 0 /\ before' = Blank
  /\ UNCHANGED <<chat, draft, said, sim, trusted, shown>>

-----------------------------------------------------------------------------
(* The tools of the model.                                                 *)

Calls == phase = "asking" /\ unwritten = << >> /\ tools < MaxTools /\ tools' = tools + 1

\* A plausible slip: a name is taken from the model because the catalogue has it.
TrustsCatalogue(p) == p # NotSaid

TrustsShown(p, t, k) == p # NotSaid /\ p \in {Named(t), k.product}

TrustsName(p) == p # NotSaid /\ p \in {letter.named, chat.product, chat.advised}

\* A product is the customer's or a recommendation, and nothing is chosen by a message that chooses nothing.
SaveDraft(k) ==
  /\ Calls
  /\ LET asked == IF letter.chooses THEN k ELSE Blank
         kept == Choice(IF TrustsName(asked.product) THEN asked.product ELSE NotSaid, asked.class, asked.variation)
     IN  unwritten' = <<[to |-> "tool", choice |-> kept], SaveDraftOf(kept)>>
  /\ UNCHANGED <<chat, draft, said, letter, phase, before, sim, trusted, shown>>

\* Postage is told, and ends the turn, for a product whose variation is chosen.
CheckPostage ==
  /\ Calls
  /\ IF chat.product # NotSaid /\ Whole([class |-> FirstSaid(<<chat.class, chat.advisedClass>>),
                                           variation |-> chat.variation])
     THEN phase' \in {"asking", "writing"} ELSE UNCHANGED phase
  /\ UNCHANGED <<chat, draft, said, letter, unwritten, before, sim, trusted, shown>>

ConfirmOrder ==
  /\ Calls
  /\ IF draft.product # NotSaid /\ Whole(draft) THEN draft' = NoDraft ELSE UNCHANGED draft
  /\ before' = Chosen(draft')
  /\ UNCHANGED <<chat, said, letter, phase, unwritten, sim, trusted, shown>>

-----------------------------------------------------------------------------
(* The simulator: one request, answered from the state the panel sent.     *)

\* What the state becomes by a message: the simulator also takes up what a list's number points at.
Understood(k, t) ==
  IF "ordinal" \in t.facts /\ t.product # NotSaid THEN Choice(t.product, k.class, k.variation) ELSE TakeUp(k, t)

\* The state after the answer, with what a recommendation or a search came to.
Answered(rule, t, k, offered, selected, found) ==
  LET moved == k.class # NotSaid /\ k.class # selected.class
      locked == IF Whole(selected) THEN Choice(k.product, selected.class, selected.variation) ELSE k
      now == IF Switches(t, locked, offered) THEN offered ELSE locked
  IN  CASE rule = "advice" -> Absorb(k, found)
        [] rule \in {"unknown", "relation", "compares"} -> k
        [] rule = "quotes" ->
             IF Whole(selected) /\ "picks" \in t.facts
             THEN Choice(IF moved THEN NotSaid ELSE k.product, selected.class, selected.variation) ELSE k
        [] rule = "recommend" ->
             Choice(FirstSaid(<<found.product, now.product>>), FirstSaid(<<found.class, now.class>>),
                    FirstSaid(<<found.variation, now.variation>>))
        [] rule = "nameless" /\ found.product # NotSaid -> Choice(found.product, found.class, now.variation)
        [] rule = "alike" /\ found.product # NotSaid -> Choice(found.product, found.class, NotSaid)
        [] rule = "detail" -> Choice(now.product, ClassOf[now.product], now.variation)
        [] OTHER -> now

\* The model saves a draft of its own, within the same limits.
Drafted(k, t, asked) ==
  IF ~MayChoose(t) THEN k
  ELSE Choice(IF TrustsShown(asked.product, t, k) THEN asked.product ELSE k.product,
              FirstSaid(<<asked.class, k.class>>), FirstSaid(<<asked.variation, k.variation>>))

\* The class a reply names is taken up, and without a product so far its product.
Simulate(t) ==
  /\ phase = "preview"
  /\ \E offered \in {said, Blank}, found \in Findings :
       LET k == Understood(Absorb(sim, t), t)
           selected == Selected(t, k, offered)
           rule == Rule(PreviewRules, t, k, offered, selected)
           answered == Answered(rule, t, k, offered, selected, found)
           drafted == {answered} \cup
             (IF rule = "model" THEN {Drafted(answered, t, asked) : asked \in Findings} ELSE {})
           spoken == {Absorb(d, f) : d \in drafted, f \in Findings}
           replied == {Choice(p, ClassOf[p], d.variation) : p \in Product, d \in {e \in spoken : e.product = NotSaid}}
       IN  /\ sim' \in spoken \cup replied
           /\ shown' = shown \cup (({t.product, answered.product} \cup
                (IF sim' \in replied THEN {sim'.product} ELSE {})) \ {NotSaid})
  /\ said' = IF Whole(t) THEN Choice(NotSaid, t.class, t.variation) ELSE said
  /\ UNCHANGED <<chat, draft, letter, phase, unwritten, tools, before, trusted>>

TurnsNext ==
  \/ \E t \in Letters : TakeMessage(t) \/ Simulate(t)
  \/ WriteNext
  \/ EndTurn
  \/ \E k \in Findings : SaveDraft(k)
  \/ CheckPostage
  \/ ConfirmOrder

-----------------------------------------------------------------------------
(* Correctness.                                                            *)

\* Whatever the model's tools are called with, the product of a draft, thus of
\* an order, and of what the bot remembers is one the customer named or a rule
\* recommended, and a message that selects nothing leaves the draft's choice as it was; the
\* simulator takes a product only from its messages, its rules and its replies.
ChoicesAreTheCustomers ==
  /\ {chat.product, chat.advised, draft.product} \subseteq trusted \cup {NotSaid}
  /\ phase \in {"writing", "asking"} /\ ~letter.chooses => Chosen(draft) = before
  /\ sim.product \in shown \cup {NotSaid}

\* A change of the class drops the name of the product of the other class until a
\* product is chosen again (docs/PRD.md:386): the draft a turn has written is not of
\* one class with a product of another.
OldNamesAreDropped ==
  phase \in {"writing", "asking"} /\ unwritten = << >> /\ draft.product # NotSaid /\ draft.class # NotSaid =>
    ClassOf[draft.product] = draft.class
=============================================================================
