------------------------------- MODULE Answers -------------------------------
(***************************************************************************)
(* What becomes of the text of the language model before a customer, or    *)
(* the simulator of the panel, gets it: the ends of askAgentRaw and        *)
(* previewAgentReplyRaw (ai/agent.ts) and the checks both call.            *)
(*                                                                         *)
(* A text is the set of what is wrong with it:                             *)
(*   claim, stock  says something validateClaims finds no evidence for,    *)
(*                 stock when it is only about availability;               *)
(*   external      offers the product of a reference, or an unknown one;   *)
(*   internal      talks about its repair;  broken  ends in a conjunction; *)
(*   markup        has tool markup;         foreign has CJK characters;    *)
(*   empty         there is no text.                                       *)
(* The texts the program writes without the model have nothing wrong.      *)
(* Which price a text has, its layout and its tone are left out; what the  *)
(* tools do to orders and handoffs is in Conversation and Catalogue.       *)
(***************************************************************************)
EXTENDS Integers, FiniteSets

CONSTANTS Rounds    \* of tools: what askAgentRaw and the preview allow

ASSUME AnswersAssumption == Rounds["live"] \in Nat /\ Rounds["preview"] \in Nat

VARIABLES answering, mode, text, round, external, origin, repairs, asked

answerVars == <<answering, mode, text, round, external, origin, repairs, asked>>

Claims == {"claim", "stock"}
Stripped == {"markup", "foreign"}
Empty == {"empty"}
Outputs == {Empty} \cup {f \in SUBSET (Claims \cup Stripped \cup {"external", "internal", "broken"}) : Cardinality(f) <= 2}
(* sanitizeAgentText, which may find nothing but markup. *)
Sanitized(f) == {f \ Stripped} \cup (IF f \cap Stripped # {} THEN {Empty} ELSE {})

AnswersInit ==
  /\ answering = "idle" /\ mode = "live" /\ text = {} /\ round = 0
  /\ external = FALSE /\ origin = "rule" /\ repairs = 0 /\ asked = 0

Begin ==
  /\ answering = "idle"
  /\ mode' \in {"live", "preview"}
  /\ external' \in IF mode' = "preview" THEN BOOLEAN ELSE {FALSE}
  /\ text' = {} /\ round' = 0 /\ repairs' = 0 /\ asked' = 0
  /\ origin' \in {"rule", "model"}
  /\ answering' = IF origin' = "rule" THEN "sent" ELSE "asking"

Becoming(next, f) == answering' = next /\ text' = f
Sends(f, from) == Becoming("sent", f) /\ origin' = from
(* n calls of the model.  createCompletion of the preview repeats one that *)
(* fails: once with less of the catalogue when it was too long, up to      *)
(* twice when the connection failed.  A live turn asks once.               *)
Repeats == IF mode = "preview" THEN 2 ELSE 0
Calls(n) == \E more \in 0..(Repeats * n) : asked' = asked + n + more
Turned == UNCHANGED <<mode, round, external, repairs>>

(* Tools were called: a lookup names a reference from outside, and a price *)
(* of shipping is the answer.                                              *)
Tools ==
  /\ answering = "asking" /\ round < Rounds[mode] /\ Calls(1)
  /\ \/ /\ round' = round + 1 /\ external' \in {external} \cup (IF mode = "live" THEN {TRUE} ELSE {})
        /\ UNCHANGED <<answering, text, origin>>
     \/ Sends({}, "shipping") /\ UNCHANGED <<round, external>>
  /\ UNCHANGED <<mode, repairs>>

LiveText ==
  /\ answering = "asking" /\ mode = "live" /\ Calls(1)
  /\ \E f \in Outputs : \E s \in Sanitized(f) : Becoming("bounding", IF f = Empty THEN {} ELSE s)
  /\ UNCHANGED origin /\ Turned

(* A preview strips markup and answers with the rest; when nothing is left *)
(* it asks again.                                                          *)
PreviewMarkup ==
  /\ answering = "asking" /\ mode = "preview" /\ round < Rounds[mode] /\ Calls(1)
  /\ \E f \in {o \in Outputs : "markup" \in o} :
       \/ Sends(f \ Stripped, "markup") /\ UNCHANGED round
       \/ f = {"markup"} /\ round' = round + 1 /\ UNCHANGED <<answering, text, origin>>
  /\ UNCHANGED <<mode, external, repairs>>
(* A text that looks cut is continued, one in Chinese is written again, an *)
(* empty one asked for once more.                                          *)
PreviewText ==
  /\ answering = "asking" /\ mode = "preview" /\ round < Rounds[mode]
  /\ \E f \in {o \in Outputs : "markup" \notin o} :
       \/ f # Empty /\ "foreign" \notin f /\ Calls(1) /\ Becoming("pacing", f)
       \/ \E more \in Outputs \ {Empty} :
            /\ f # Empty /\ "foreign" \notin f \cup more /\ Calls(2)
            /\ \E s \in Sanitized(f \cup more) \ {Empty} : Becoming("pacing", s)
       \/ \E n \in {2, 3}, new \in Outputs \ {Empty} : \E s \in Sanitized(new) :
            f # Empty /\ ("foreign" \in f \/ n = 3) /\ Calls(n) /\ Becoming("pacing", s)
       \/ \E n \in {2, 3}, more \in Outputs \ {Empty} : \* what was written again is empty
            /\ f # Empty /\ (n = 2 => more = {}) /\ "foreign" \in f \cup more
            /\ Calls(n) /\ Becoming("pacing", (f \cup more) \ Stripped)
       \/ \E new \in Outputs : \E s \in Sanitized(new) :
            f = Empty /\ Calls(2) /\ Becoming("pacing", IF s = Empty THEN {} ELSE s)
  /\ UNCHANGED origin /\ Turned
PreviewLast ==
  /\ answering = "asking" /\ mode = "preview" /\ round = Rounds[mode] /\ Calls(1)
  /\ \E f \in Outputs : \E s \in Sanitized(f) : Becoming("pacing", IF s = Empty THEN {} ELSE s)
  /\ UNCHANGED origin /\ Turned
(* enforceConsultationPacing and enforceSingleRecommendation, when they    *)
(* are called for, keep the text when the new one is no better.            *)
Pace ==
  /\ answering = "pacing"
  /\ \E n \in 0..2 :
       /\ Calls(n)
       /\ \E f \in IF n = 0 THEN {text} ELSE {text} \cup {o \in UNION {Sanitized(o) : o \in Outputs} : o # Empty /\ "internal" \notin o} :
            Becoming("bounding", f)
  /\ UNCHANGED origin /\ Turned

(* enforceExternalReferenceBoundary *)
Bound ==
  /\ answering = "bounding"
  /\ IF external /\ "external" \in text
     THEN /\ Calls(1)
          /\ \E f \in Outputs : \E s \in Sanitized(f) : Becoming("guarding", IF s = Empty \/ "external" \in s THEN {} ELSE s)
     ELSE Becoming("guarding", text) /\ UNCHANGED asked
  /\ UNCHANGED origin /\ Turned

(* enforceCatalogEvidence: what is only about stock is cut out, if the     *)
(* rest reads well; else the model repairs the text, twice at most, and    *)
(* the repair counts if it is one.  A repair that adds a price or a weight *)
(* is refused.                                                             *)
Supported(f) == f \cap Claims = {} /\ "broken" \notin f
Trimmed(f) == f \ {"stock"}
AcceptedAsIs(f) == f # Empty /\ "internal" \notin f
Accepted(f) == f # Empty /\ "internal" \notin f /\ f \cap Claims = {}
Pass ==
  /\ answering = "guarding" /\ Supported(text)
  /\ Sends(text, "model") /\ UNCHANGED asked /\ Turned
Trim ==
  /\ answering = "guarding" /\ ~Supported(text) /\ repairs = 0
  /\ text \cap Claims = {"stock"}
  /\ Sends(Trimmed(text), "model") /\ UNCHANGED asked /\ Turned
Repair ==
  /\ answering = "guarding" /\ ~Supported(text) /\ repairs < 2
  /\ repairs' = repairs + 1 /\ Calls(1)
  /\ \/ \E f \in Outputs : \E s \in Sanitized(f) : Accepted(s) /\ Sends(s, "model")
     \/ UNCHANGED <<answering, text, origin>>
  /\ UNCHANGED <<mode, round, external>>
GiveUp ==
  /\ answering = "guarding" /\ ~Supported(text) /\ repairs = 2
  /\ Sends({}, "fallback") /\ UNCHANGED asked /\ Turned

(* A call fails, in the preview after its repeats: a customer is told so,  *)
(* the simulator shows the error.  Other calls may have come before it.    *)
UpToFailing ==
  CASE answering = "asking" /\ mode = "preview" /\ round < Rounds[mode] -> 3
    [] answering = "pacing" -> 2
    [] OTHER -> 1
Fails ==
  /\ answering \in {"asking", "pacing", "bounding", "guarding"}
  /\ answering = "bounding" => external /\ "external" \in text
  /\ answering = "guarding" => ~Supported(text) /\ repairs < 2
  /\ Sends({}, "error") /\ Turned
  /\ \E n \in 1..UpToFailing : Calls(n)
Sent ==
  /\ answering = "sent" /\ answering' = "idle"
  /\ UNCHANGED <<mode, text, round, external, origin, repairs, asked>>

AnswersNext ==
  \/ Begin \/ Tools \/ LiveText \/ PreviewMarkup \/ PreviewText \/ PreviewLast \/ Pace
  \/ Bound \/ Pass \/ Trim \/ Repair \/ GiveUp \/ Fails \/ Sent
-----------------------------------------------------------------------------
(* No customer gets a claim the evidence does not have, markup or Chinese, *)
(* however often the text was written again; an offer of a product from    *)
(* outside only if the evidence repair has put it back, and a text about   *)
(* the repair itself only if it was never repaired.  The simulator does    *)
(* not check what it finds beside markup.  And an answer costs no more     *)
(* calls of the model than its rounds and four; in the simulator, where    *)
(* each may be made three times, than three times its rounds and seven.    *)
AnswersAreGrounded ==
  /\ answering = "sent" /\ origin # "markup" =>
       /\ text \cap (Claims \cup Stripped) = {}
       /\ external /\ "external" \in text => repairs > 0
       /\ "internal" \in text => repairs = 0
  /\ origin = "markup" => mode = "preview"
  /\ asked <= IF mode = "live" THEN Rounds[mode] + 4 ELSE 3 * (Rounds[mode] + 7)
=============================================================================
