------------------------------ MODULE Catalogue ------------------------------
(***************************************************************************)
(* Prices: catalog/product-catalog.ts, the catalogue forms of              *)
(* admin/server.ts, and what a turn of ai/agent.ts and chat/orders.ts do   *)
(* with the selection of a customer until an order is confirmed.           *)
(*                                                                         *)
(* A price scheme is known by its name, a text by the names and values it  *)
(* mentions, in order, and by what its words ask for.  No name or value    *)
(* contains another, all schemes have the same axes, and the quantity is   *)
(* one.  The turns of a customer come one after the other; the forms of    *)
(* the panel come at any moment between the writes of a turn.              *)
(***************************************************************************)
EXTENDS Integers, Sequences, FiniteSetsExt, SequencesExt

CONSTANTS Scheme, Axis, ValuesOf, Prices, NoValue, MaxEdits, MaxWords

VARIABLES catalogue, chat, draft, turn, todo, against, order, edits

catalogueVars == <<catalogue, chat, draft, turn, todo, against, order, edits>>

None == [variant |-> NoValue, options |-> << >>, price |-> NoValue]
NoDraft == [None EXCEPT !.options = NoValue]
Values == UNION {ValuesOf[a] : a \in Axis}
(* Variations of an order: some axes with a value each. *)
Partial == UNION {[A -> Values] : A \in SUBSET Axis}
Options == {o \in Partial : \A a \in DOMAIN o : o[a] \in ValuesOf[a]}
(* buildVariationCombinations *)
Combinations(values) == {o \in [Axis -> Values] : \A a \in Axis : o[a] \in values[a]}

ASSUME CatalogueAssumption ==
  /\ Axis # {} /\ IsFiniteSet(Axis) /\ IsFiniteSet(Options) /\ MaxWords \in Nat
  /\ \A a, b \in Axis : a # b => ValuesOf[a] \cap ValuesOf[b] = {}
  /\ NoValue \notin Values /\ Scheme \cap (Values \cup {NoValue}) = {}

(* A scheme as the form saves it: a price for every combination. *)
SchemeForms == UNION {[Combinations(v) -> Prices] : v \in {w \in [Axis -> (SUBSET Values) \ {{}}] : \A a \in Axis : w[a] \subseteq ValuesOf[a]}}
ValuesIn(s, a) == {o[a] : o \in DOMAIN catalogue[s]}

Otherwise(found, other) == IF found # {} THEN found ELSE other
Sole(found) == IF Cardinality(found) = 1 THEN found ELSE {}
FirstOf(words, candidates) ==
  LET hits == {i \in DOMAIN words : words[i] \in candidates} IN IF hits = {} THEN 0 ELSE Min(hits)
LastOf(words, candidates) == Max({0} \cup {i \in DOMAIN words : words[i] \in candidates})
LastValue(words, s, a) ==
  LET i == LastOf(words, ValuesIn(s, a)) IN IF i = 0 THEN NoValue ELSE words[i]
-----------------------------------------------------------------------------
(* What the catalogue says of a class, or of none, and attributes; the     *)
(* empty attribute of an axis fits every value.                            *)
Fitting(s, attrs) ==
  {o \in DOMAIN catalogue[s] : attrs # << >> /\ \A a \in DOMAIN attrs : attrs[a] \in {NoValue, o[a]}}
Resolve(class, attrs) ==
  LET unique == {s \in DOMAIN catalogue : Cardinality(Fitting(s, attrs)) = 1}
      found == IF class \in DOMAIN catalogue THEN {class} ELSE Sole(unique)
      complete == {s \in found : DOMAIN attrs = Axis /\ Cardinality(Fitting(s, attrs)) = 1}
  IN  UNION {{[variant |-> s, options |-> o, price |-> catalogue[s][o]] : o \in Fitting(s, attrs)} : s \in complete}

(* The offer a text names: its last scheme, or the one all of whose axes   *)
(* it mentions, with the last value of each axis.                          *)
OfferInText(words) ==
  LET last == LastOf(words, DOMAIN catalogue)
      candidates == IF last > 0 THEN {words[last]}
                    ELSE {s \in DOMAIN catalogue : \A a \in Axis : LastValue(words, s, a) # NoValue}
  IN  Sole(UNION {Resolve(s, [a \in Axis |-> LastValue(words, s, a)]) : s \in candidates})

(* What a text adds to a selection: the scheme it names or mentions most,  *)
(* and the axes of which it mentions one value.                            *)
PartialSelection(words) ==
  LET named == Range(words) \cap DOMAIN catalogue
      Said(s, a) == Range(words) \cap ValuesIn(s, a)
      Count(s) == FoldSet(LAMBDA a, n : n + Cardinality(Said(s, a)), 0, Axis)
      candidates == {s \in IF named = {} THEN DOMAIN catalogue ELSE named : named # {} \/ Count(s) > 0}
      best == {s \in candidates : \A t \in candidates \ {s} : Count(s) > Count(t)}
      Attrs(s) == [a \in {b \in Axis : Cardinality(Said(s, b)) = 1} |-> CHOOSE v \in Said(s, a) : TRUE]
  IN  IF Cardinality(named) > 1 THEN {}
      ELSE {[variant |-> s, options |-> Attrs(s)] : s \in {t \in best : Count(t) = Cardinality(DOMAIN Attrs(t))}}

(* The offer a text selects, after the selection it starts from. *)
SelectionUpdate(text, previous) ==
  LET direct == OfferInText(text.words)
      before == <<previous.variant>> \o SetToSeq(Range(previous.options))
  IN  IF direct # {} /\ ("picks" \in text.kinds \/ "asks" \notin text.kinds) THEN direct
      ELSE IF "picks" \notin text.kinds \/ previous.variant = NoValue THEN {}
      ELSE OfferInText(before \o text.words)

(* The options whose prices the answer to a question for prices lists: all *)
(* of the class of the selection before, at a size or with the values      *)
(* chosen, or all of a class with the value the conversation came to last; *)
(* or else one offer, which the question names, or the question after the  *)
(* selection before, or the conversation, the earlier words of the         *)
(* customer and the question.                                              *)
PriceReply(text, conversation, previous) ==
  LET known == {previous.variant} \cap DOMAIN catalogue
      inState == IF previous.options = << >> THEN {}
                 ELSE OfferInText(<<previous.variant>> \o SetToSeq(Range(previous.options)) \o text.words)
      Listed(s, chosen) == {[variant |-> s, options |-> o, price |-> catalogue[s][o]] :
                              o \in {p \in DOMAIN catalogue[s] : \A v \in chosen : v \in Range(p)}}
      mentioned == Range(text.words) \cap Values
      last == LastOf(conversation, UNION {ValuesIn(s, a) : s \in DOMAIN catalogue, a \in Axis})
      recent == {s \in DOMAIN catalogue : last > 0 /\ \E a \in Axis : conversation[last] \in ValuesIn(s, a)}
      all == IF known # {} THEN UNION {Listed(s, Otherwise(mentioned, Range(previous.options))) : s \in known}
             ELSE IF recent # {} THEN Listed(CHOOSE s \in recent : TRUE, {conversation[last]})
             ELSE {}
  IN  Otherwise(IF "all" \in text.kinds THEN all ELSE {},
                Otherwise(OfferInText(text.words), Otherwise(inState, OfferInText(conversation))))
-----------------------------------------------------------------------------
Sayings == {s \in SeqOf(Scheme \cup Values, MaxWords) : IsInjective(s)}
Kinds == {{}, {"picks"}, {"asks"}, {"picks", "asks"}, {"picks", "checkout"}}

CatalogueInit ==
  /\ catalogue \in {[s \in S |-> f] : S \in {{}, Scheme}, f \in {g \in SchemeForms : Cardinality(DOMAIN g) > 1}}
  /\ chat = None /\ draft = NoDraft
  /\ turn = "idle" /\ todo = << >>
  /\ against = << >> /\ order = None
  /\ edits = 0

(* A column of the draft when it has a value, else the chat state; the     *)
(* options of a draft that exists are never null.                          *)
Known ==
  [variant |-> IF draft.variant # NoValue THEN draft.variant ELSE chat.variant,
   options |-> IF draft.options # NoValue THEN draft.options ELSE chat.options,
   price |-> IF draft.price # NoValue THEN draft.price ELSE chat.price]
(* The state of a turn: what was known, and what its text adds; the        *)
(* attributes are kept when the class is.                                  *)
Live(words) ==
  LET Kept(n) == IF Known.variant = n.variant THEN Known.options ELSE << >>
      Over(f, g) == [a \in DOMAIN f \cup DOMAIN g |-> IF a \in DOMAIN f THEN f[a] ELSE g[a]]
      told == {[Known EXCEPT !.variant = n.variant, !.options = Over(n.options, Kept(n))] : n \in PartialSelection(words)}
  IN  CHOOSE live \in Otherwise(told, {Known}) : TRUE
(* A text that changes a value: the draft has it by the id of its axis and *)
(* the text adds one by its name, and where these differ both stay and     *)
(* nothing fits.  Read as words, the later one counts.                     *)
Changes(words) ==
  \E n \in PartialSelection(words) :
    /\ n.variant = Known.variant
    /\ \E a \in DOMAIN n.options \cap DOMAIN Known.options : n.options[a] # Known.options[a]
(* The offer of that state, or else any that an earlier message named. *)
Previous(words) ==
  LET Offered(live) == IF live.variant = NoValue \/ live.options = << >> THEN {} ELSE Resolve(live.variant, live.options)
      inState == Offered(Live(words))
  IN  ({inState} \ {{}})
      \cup (IF inState = {} \/ Changes(words) THEN {{}} \cup {Resolve(s, o) : s \in DOMAIN catalogue, o \in Options}
            ELSE {})
(* The selection a question for prices is answered with.  An offer from    *)
(* Previous has neither class nor attributes by the names the answer       *)
(* reads; without one it is a selection the bot recommended or the         *)
(* customer pointed at, or the state of the turn.                          *)
Handed(words) ==
  LET live == Live(words)
  IN  {None} \cup (IF {} \notin Previous(words) THEN {}
                   ELSE {[variant |-> s, options |-> o, price |-> NoValue] : s \in DOMAIN catalogue, o \in Options}
                        \cup {l \in {live} : l.variant # NoValue})
(* setChatState and upsertDraftOrder with the offer. *)
Lock(offer) == <<[to |-> "chat", offer |-> offer], [to |-> "draft", offer |-> offer]>>
(* setChatState merges, upsertDraftOrder writes only what has a value. *)
Merged(row, offer) ==
  [variant |-> IF offer.variant # NoValue THEN offer.variant ELSE row.variant,
   options |-> IF offer.options # << >> THEN offer.options ELSE IF row.options = NoValue THEN << >> ELSE row.options,
   price |-> IF offer.price # NoValue THEN offer.price ELSE row.price]

(* A turn until its first write, or until it asks the model: the selection *)
(* of an earlier message at checkout, a selection, or a price.             *)
Answer(text, live, previous) ==
  LET P == IF previous = {} THEN None ELSE CHOOSE p \in previous : TRUE
      base == [variant |-> IF live.variant # NoValue THEN live.variant ELSE P.variant,
               options |-> IF live.options # << >> THEN live.options ELSE P.options]
      selected == SelectionUpdate(text, base)
      switched == previous # {} /\ live.variant # NoValue /\ P.variant # live.variant
  IN  \/ /\ "checkout" \in text.kinds /\ "picks" \in text.kinds /\ switched
         /\ todo' = Lock(P) /\ turn' \in {"writing", "asking"}
      \/ /\ ~("checkout" \in text.kinds /\ switched)
         /\ selected # {} /\ "picks" \in text.kinds /\ "checkout" \notin text.kinds /\ "asks" \notin text.kinds
         /\ todo' = Lock(CHOOSE s \in selected : TRUE) /\ turn' = "writing"
      \/ /\ "asks" \in text.kinds
         /\ todo' = IF selected # {} /\ "picks" \in text.kinds THEN Lock(CHOOSE s \in selected : TRUE) ELSE << >>
         /\ turn' = "writing"
      \/ /\ "asks" \notin text.kinds /\ ~("checkout" \in text.kinds /\ switched)
         /\ "picks" \in text.kinds => selected = {} \/ "checkout" \in text.kinds
         /\ todo' = << >>
         /\ turn' = IF "picks" \in text.kinds \/ OfferInText(text.words) # {} THEN "asking" ELSE "locked"
Message ==
  /\ turn = "idle" /\ order = None
  /\ \E words \in Sayings :
       \E previous \in Previous(words), kinds \in Kinds :
         Answer([words |-> words, kinds |-> kinds], Live(words), previous)
  /\ UNCHANGED <<catalogue, chat, draft, against, order, edits>>

Write ==
  /\ todo # << >>
  /\ todo' = Tail(todo)
  /\ IF Head(todo).to = "chat" THEN chat' = Merged(chat, Head(todo).offer) /\ UNCHANGED draft
     ELSE draft' = Merged(draft, Head(todo).offer) /\ UNCHANGED chat
  /\ UNCHANGED <<catalogue, turn, against, order, edits>>

EndTurn ==
  /\ turn \in {"writing", "asking", "locked"} /\ todo = << >>
  /\ turn' = "idle"
  /\ UNCHANGED <<catalogue, chat, draft, todo, against, order, edits>>

(* simpanDraftPesanan, with what the model made of the text: a price of    *)
(* its own stays when the selection is no offer.                           *)
SaveDraft ==
  /\ turn = "asking" /\ todo = << >>
  /\ \E variant \in Scheme \cup {NoValue}, options \in Options, price \in Prices \cup {NoValue} :
       LET offer == IF options = << >> THEN {} ELSE Resolve(variant, options)
           paid == IF offer = {} THEN price ELSE (CHOOSE o \in offer : TRUE).price
       IN  todo' = Lock([variant |-> variant, options |-> options, price |-> paid])
  /\ UNCHANGED <<catalogue, chat, draft, turn, against, order, edits>>

(* konfirmasiPesanan: the draft against the catalogue of this moment; the  *)
(* catalogue without schemes accepts every price.                          *)
Valid ==
  /\ draft.price # NoValue
  /\ DOMAIN catalogue # {} => \E o \in Resolve(draft.variant, draft.options) : o.price = draft.price
Validate ==
  /\ turn \in {"asking", "locked"} /\ todo = << >>
  /\ Valid
  /\ turn' = "confirming" /\ against' = catalogue
  /\ UNCHANGED <<catalogue, chat, draft, todo, order, edits>>
Confirm ==
  /\ turn = "confirming"
  /\ order' = draft /\ draft' = NoDraft
  /\ turn' = "idle"
  /\ UNCHANGED <<catalogue, chat, todo, against, edits>>

(* The forms of the panel: each reads, changes and writes the file at      *)
(* once.  MaxEdits bounds them, until the order is confirmed.              *)
Edit(new) ==
  /\ order = None /\ edits < MaxEdits /\ edits' = edits + 1
  /\ catalogue' = new
  /\ UNCHANGED <<chat, draft, turn, todo, against, order>>
SaveScheme == \E s \in DOMAIN catalogue, form \in SchemeForms : Edit([catalogue EXCEPT ![s] = form])
(* A new scheme is on sale at once, one combination at the price zero. *)
AddScheme ==
  \E s \in Scheme \ DOMAIN catalogue, o \in {p \in Options : DOMAIN p = Axis} :
    Edit([t \in DOMAIN catalogue \cup {s} |-> IF t = s THEN [p \in {o} |-> 0] ELSE catalogue[t]])
DeleteScheme == \E s \in DOMAIN catalogue : Edit([t \in DOMAIN catalogue \ {s} |-> catalogue[t]])

CatalogueNext == Message \/ Write \/ EndTurn \/ SaveDraft \/ Validate \/ Confirm \/ SaveScheme \/ AddScheme \/ DeleteScheme
-----------------------------------------------------------------------------
(* A confirmed order is for one combination of a scheme, at the price the  *)
(* catalogue had for it when the draft was checked, whatever the model     *)
(* wrote into the draft, the selections left from earlier turns and the    *)
(* forms saved between the steps.                                          *)
ConfirmedAtPrice ==
  order # None /\ DOMAIN against # {} =>
    \E s \in DOMAIN against :
      /\ order.variant \in {s, NoValue} \cup (Scheme \ DOMAIN against)
      /\ order.options \in DOMAIN against[s]
      /\ order.price = against[s][order.options]
(* A question for the price of a scheme, with one value of an axis at      *)
(* most, quotes the combination of that scheme with the values it names,   *)
(* and for the other axes those of the selection it is answered with, or,  *)
(* if these leave more than one, the last the customer has named before,   *)
(* of whichever scheme: never one of several that fit.  It need not be the *)
(* combination of the draft, which is not asked where it makes an offer.   *)
(* Prices, of all that are listed too, are those of the catalogue.         *)
Asking(s) == {w \in Sayings : Range(w) \cap DOMAIN catalogue = {s} /\ \A a \in Axis : Cardinality(Range(w) \cap ValuesIn(s, a)) <= 1}
(* The customer's earlier words: none, or as many as with the question and *)
(* the selection it is answered with are one more than a text has.         *)
SaidBefore(w, previous) ==
  {e \in Sayings : e = << >> \/ Len(e \o w) + Cardinality(DOMAIN previous.options) <= MaxWords + 1}
Nowhere == [a \in Axis |-> {}]
Recalled(previous) == [a \in Axis |-> {previous.options[b] : b \in {a} \cap DOMAIN previous.options}]
Heard(earlier, s) == [a \in Axis |-> {LastValue(earlier, s, a)}]
Wanted(s, w, before) ==
  LET of(a) == Otherwise(Range(w) \cap ValuesIn(s, a), Otherwise(before[a] \cap ValuesIn(s, a), ValuesIn(s, a)))
  IN  {o \in DOMAIN catalogue[s] : \A a \in Axis : o[a] \in of(a)}
QuotedAtPrice ==
  turn = "idle" /\ order = None => \A s \in DOMAIN catalogue : \A w \in Asking(s) : \A previous \in Handed(w) : \A earlier \in SaidBefore(w, previous) :
    LET Reply(kinds) == PriceReply([words |-> w, kinds |-> kinds], earlier \o w, previous)
        Only(before) == Sole(Wanted(s, w, before))
        wanted == Otherwise(Only(Nowhere), Otherwise(Only(Recalled(previous)), Only(Heard(earlier, s))))
    IN  /\ Reply({"asks"}) = {[variant |-> s, options |-> o, price |-> catalogue[s][o]] : o \in wanted}
        /\ \A q \in Reply({"asks", "all"}) : q.price = catalogue[q.variant][q.options]

(* What a customer is told a price is, and what an order is confirmed at,  *)
(* is the price of the catalogue for the one combination it is about.      *)
PricesHold == ConfirmedAtPrice /\ QuotedAtPrice
=============================================================================
