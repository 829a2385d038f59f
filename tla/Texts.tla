-------------------------------- MODULE Texts --------------------------------
(***************************************************************************)
(* Three cuts through a text:                                              *)
(*  - a document of the knowledge into chunks that overlap                 *)
(*    (src/src/ai/knowledge-chunking.ts),                                  *)
(*  - the chunks that were found into the evidence of one call             *)
(*    (src/src/ai/knowledge-retrieval.ts), and                             *)
(*  - an answer into what is sent: one question at most                    *)
(*    (src/src/ai/conversation-policy.ts) and, in the simulator, bubbles   *)
(*    (src/src/ai/response-plan.ts).                                       *)
(*                                                                         *)
(* A document is a sequence of letters, blanks and line ends, as           *)
(* normalizeText leaves it.  An answer is a sequence of words, list        *)
(* markers ("1."), punctuation, line ends and blank lines, and of prices,  *)
(* each in three parts, "Rp50", "." and "000", as the dot between digits   *)
(* is where the regular expressions cut it.  Ranking is left out: what was *)
(* found comes in its order.                                               *)
(***************************************************************************)
EXTENDS Integers, Sequences, SequencesExt

CONSTANTS
  ChunkChars, OverlapChars, LeastChars, \* maxChars, overlapChars, minChars of a chunk
  EvidenceChars, HeadingChars,          \* maxChars of the evidence, the length of a reference's heading
  BubbleChars, MaxBubbles,
  MaxChars,                             \* bound: the length of a document
  MaxTokens                             \* bound: the length of an answer

\* A chunk may be shorter than its length, but never empty, and overlaps the next by less.
ASSUME TextsAssumption ==
  /\ ChunkChars \in Nat /\ LeastChars \in 1..ChunkChars /\ OverlapChars \in 0..ChunkChars
  /\ EvidenceChars \in Nat /\ HeadingChars \in Nat
  /\ BubbleChars \in Nat /\ MaxBubbles \in Nat \ {0}

VARIABLES
  cutting,  \* "writing", then "chunks", "evidence" or "answer", then "done"
  script,   \* the document or the answer
  from,     \* where the next chunk starts
  chunks,   \* the chunks, as the places they start and end at
  room,     \* characters the evidence has room for
  evidence, \* length of each reference taken
  sent,     \* the answer with one question
  bubbles   \* and in bubbles

textVars == <<cutting, script, from, chunks, room, evidence, sent, bubbles>>

TextsInit ==
  /\ cutting = "writing" /\ script = << >> /\ from = 0 /\ chunks = << >> /\ room = EvidenceChars
  /\ evidence = << >> /\ sent = << >> /\ bubbles = << >>

-----------------------------------------------------------------------------
(* Documents.                                                              *)

Blank == {" ", "n"}
Letters == {"x"} \union Blank

\* Nothing blank at the ends, no blanks at the end of a line.
WriteDocument ==
  /\ cutting = "writing" /\ Len(script) < MaxChars
  /\ \E c \in Letters :
       /\ (script = << >> => c \notin Blank) /\ (c = "n" => Last(script) # " ")
       /\ Range(script) \subseteq Letters /\ script' = Append(script, c)
  /\ UNCHANGED <<cutting, from, chunks, room, evidence, sent, bubbles>>

IsDocument == script # << >> /\ Range(script) \subseteq Letters /\ Last(script) \notin Blank

\* chooseEnd takes the last of its four boundaries in the window, and a blank or a line
\* end is behind every paragraph and every sentence.
ChooseEnd(start, hardEnd) ==
  LET blanks == {p \in (start + LeastChars)..(hardEnd - 1) : script[p + 1] \in Blank}
  IN  IF hardEnd >= Len(script) THEN Len(script) ELSE IF blanks = {} THEN hardEnd ELSE Max(blanks)

\* A plausible slip: the next paragraph is looked for in the whole text, not in the overlap.
NextParagraph(start, end) ==
  LET next       == Max({start + 1, end - OverlapChars})
      paragraphs == {p \in next..Len(script) : p + 2 <= Len(script) /\ script[p + 1] = "n" /\ script[p + 2] = "n"}
  IN  IF paragraphs = {} THEN next ELSE Min(paragraphs) + 2

\* The overlap starts behind the first paragraph that ends in it.
NextStart(start, end) ==
  LET next       == Max({start + 1, end - OverlapChars})
      paragraphs == {p \in next..(end - 1) : p + 2 <= Len(script) /\ script[p + 1] = "n" /\ script[p + 2] = "n"}
  IN  IF paragraphs = {} THEN next ELSE Min(paragraphs) + 2

StartChunks ==
  /\ cutting = "writing" /\ IsDocument /\ cutting' = "chunks"
  /\ UNCHANGED <<script, from, chunks, room, evidence, sent, bubbles>>

CutChunk ==
  /\ cutting = "chunks"
  /\ LET end == ChooseEnd(from, Min({Len(script), from + ChunkChars}))
         cut == SubSeq(script, from + 1, end)
     IN  /\ chunks' = IF Range(cut) \subseteq Blank THEN chunks ELSE Append(chunks, <<from, end>>)
         /\ from' = NextStart(from, end)
         /\ cutting' = IF end >= Len(script) THEN "evidence" ELSE "chunks"
  /\ UNCHANGED <<script, room, evidence, sent, bubbles>>

\* The chunks found, best first; the last to find room may be cut, its heading too.
TakeEvidence ==
  /\ cutting = "evidence"
  /\ \/ /\ room > 0
        /\ \E c \in Range(chunks) :
             LET size == Min({room, HeadingChars + c[2] - c[1]})
             IN  evidence' = Append(evidence, size) /\ room' = room - size - 2
        /\ UNCHANGED cutting
     \/ cutting' = "done" /\ UNCHANGED <<room, evidence>>
  /\ UNCHANGED <<script, from, chunks, sent, bubbles>>

-----------------------------------------------------------------------------
(* Answers.                                                                *)

Gap == {"/", "//"} \* a line end, a blank line
Price == <<"Rp50", ".", "000">>
Atom == {"word", "Rp50", ".", "000", "1.", "?"} \union Gap

\* A marker stands before its text, or an orphaned one before a blank line and its text.
Fits(s, t) ==
  CASE t = "word" -> TRUE
    [] t \in {".", "?"} -> s # << >> /\ Last(s) \in {"word", "000"}
    [] t = "1." -> s # << >> /\ Last(s) # "1." /\ ~(Last(s) \in Gap /\ s[Len(s) - 1] = "1.")
    [] OTHER -> s # << >> /\ Last(s) \notin Gap /\ (Last(s) = "1." => t = "//")

WriteAnswer ==
  /\ cutting = "writing" /\ Range(script) \subseteq Atom
  /\ \/ /\ Len(script) < MaxTokens
        /\ \E t \in {"word", ".", "?", "1."} \union Gap : Fits(script, t) /\ script' = Append(script, t)
     \/ Len(script) + 3 <= MaxTokens /\ script' = script \o Price
  /\ UNCHANGED <<cutting, from, chunks, room, evidence, sent, bubbles>>

IsAnswer == script # << >> /\ Range(script) \subseteq Atom /\ Last(script) \notin Gap \union {"1."}

\* Line ends that meet make a blank line; none is at the ends.
Tidied(u) ==
  LET solid == {i \in DOMAIN u : u[i] \notin Gap}
      Tidy(i) == CASE i \in solid -> <<u[i]>>
                   [] i \notin solid /\ (\E k \in solid : k > i) /\ i - 1 \in solid ->
                        IF i + 1 \in solid THEN <<u[i]>> ELSE <<"//">>
                   [] OTHER -> << >>
  IN  FlattenSeq([i \in DOMAIN u |-> Tidy(i)])

\* enforceSingleQuestion: a part ends at its punctuation, or where the line does.
EndsPart(u, i) == u[i] \in {".", "?", "1."} \union Gap \/ i = Len(u) \/ u[i + 1] \in Gap
PartEnd(u, i) == Min({k \in i..Len(u) : EndsPart(u, k)})
\* A plausible slip: the first question is kept, not the last.
DroppedLater(u, i) == u[PartEnd(u, i)] = "?" /\ \E k \in 1..(i - 1) : u[k] = "?"
Dropped(u, i) == u[PartEnd(u, i)] = "?" /\ \E k \in (PartEnd(u, i) + 1)..Len(u) : u[k] = "?"
SingleQuestion(u) == Tidied(FlattenSeq([i \in DOMAIN u |-> IF Dropped(u, i) THEN << >> ELSE <<u[i]>>]))

\* ([^\n])\s*(\d+)\.\s+ : a marker with something before it that no such match took
\* already, or the end of a price that ends a sentence.
Torn(u, i) == i > 0 /\ u[i] = "000" /\ i + 1 < Len(u) /\ u[i + 1] = "."
Marks(u) ==
  LET Before(i) == IF u[i - 1] \in Gap THEN i - 2 ELSE i - 1
      marks[i \in DOMAIN u] ==
        \/ Torn(u, i)
        \/ /\ u[i] = "1." /\ i \notin {1, Len(u)}
           /\ ~Torn(u, Before(i) - 1) /\ (u[Before(i)] = "1." => ~marks[Before(i)])
  IN  marks

\* Each match begins a line, and what separates it from its text goes.
Separated(u) ==
  LET marks == Marks(u)
      Swallowed(i) == u[i] \in Gap /\ (marks[i + 1] \/ Torn(u, i - 2) \/ (u[i - 1] = "1." /\ marks[i - 1]))
  IN  FlattenSeq([i \in DOMAIN u |-> IF marks[i] THEN <<"/", u[i]>> ELSE IF Swallowed(i) THEN << >> ELSE <<u[i]>>])

\* Pieces put together: each of starts begins a group, the others go on with the last.
Grouped(pieces, starts) ==
  LET groups[n \in 0..Len(pieces)] ==
        IF n = 0 THEN << << >> >>
        ELSE LET done == groups[n - 1]
             IN  IF n \in starts THEN Append(done, pieces[n]) ELSE Append(Front(done), Last(done) \o pieces[n])
  IN  groups[Len(pieces)]

SplitAt(s, gap) ==
  Grouped([i \in DOMAIN s |-> IF s[i] = gap THEN << >> ELSE <<s[i]>>], {i \in DOMAIN s : s[i] = gap})

Sections(u) == SplitAt(Separated(u), "//")
Lines(section) == SplitAt(section, "/")

Width(atom) == CASE atom \in {"word", "Rp50", "000"} -> 4 [] atom = "1." -> 3 [] OTHER -> 1
Size(atoms) == FoldLeft(+, 0, [i \in DOMAIN atoms |-> Width(atoms[i])])

\* splitSentences, which takes every dot for the end of one.
EndMarks == {".", "?", "1."}
Sentences(s) == Grouped([i \in DOMAIN s |-> <<s[i]>>], {i \in DOMAIN s : i > 1 /\ s[i - 1] \in EndMarks})

\* One bubble if it is short, else as many sentences in each as fit.
Fitted(s) ==
  LET sentences == Sentences(s)
      fitted[n \in 0..Len(sentences)] ==
        IF n = 0 THEN << << >> >>
        ELSE LET done == fitted[n - 1]
             IN  IF Last(done) = << >> \/ Size(Last(done)) + Size(sentences[n]) + 1 <= BubbleChars
                 THEN Append(Front(done), Last(done) \o sentences[n])
                 ELSE Append(done, sentences[n])
  IN  IF s = << >> THEN << >> ELSE IF Size(s) <= BubbleChars THEN <<s>> ELSE fitted[Len(sentences)]

\* Lines before the first list item are fitted, then each item is a bubble; a marker
\* alone on its line makes the last line an item if no line is one.
IsItem(line) ==
  \/ Len(line) > 1 /\ line[1] = "1."
  \/ Len(line) > 2 /\ line[1] = "000" /\ line[2] = "."
Alone(lines) == \E k \in 1..(Len(lines) - 1) : lines[k] = <<"1.">>

BubblesOf(section) ==
  LET lines == Lines(section)
      items == {k \in DOMAIN lines : IsItem(lines[k])}
      groups == Grouped(lines, IF items = {} /\ Alone(lines) THEN {Len(lines)} ELSE items)
  IN  Fitted(Head(groups)) \o Tail(groups)

ResponsePlan(u) ==
  LET sections == Sections(u)
      all      == FlattenSeq([k \in DOMAIN sections |-> BubblesOf(sections[k])])
  IN  IF Len(all) <= MaxBubbles THEN all
      ELSE Append(SubSeq(all, 1, MaxBubbles - 1), FlattenSeq(SubSeq(all, MaxBubbles, Len(all))))

SendAnswer ==
  /\ cutting = "writing" /\ IsAnswer
  /\ sent' = SingleQuestion(script) /\ cutting' = "answer"
  /\ UNCHANGED <<script, from, chunks, room, evidence, bubbles>>

PlanBubbles ==
  /\ cutting = "answer" /\ sent # << >>
  /\ bubbles' = ResponsePlan(sent) /\ cutting' = "done"
  /\ UNCHANGED <<script, from, chunks, room, evidence, sent>>

TextsNext ==
  \/ WriteDocument \/ StartChunks \/ CutChunk \/ TakeEvidence
  \/ WriteAnswer \/ SendAnswer \/ PlanBubbles

-----------------------------------------------------------------------------
(* Correctness.                                                            *)

Words(u) == FlattenSeq([i \in DOMAIN u |-> IF u[i] \in Gap THEN << >> ELSE <<u[i]>>])

\* The words of a document that a chunk can hold behind its least length.
Word(a, b) ==
  /\ a < b /\ b <= Len(script) /\ \A p \in a..(b - 1) : script[p + 1] \notin Blank
  /\ (a = 0 \/ script[a] \in Blank) /\ (b = Len(script) \/ script[b + 1] \in Blank)

\* What stands in a question that is not the last.
Asks(i) ==
  \E q \in i..Len(script) :
    /\ script[q] = "?" /\ \E k \in (q + 1)..Len(script) : script[k] = "?"
    /\ \A k \in i..(q - 1) :
         script[k] \in {"word", "Rp50", "000"} \/ (k > 1 /\ script[k] = "." /\ script[k - 1] = "Rp50")
Stated == FlattenSeq([i \in DOMAIN script |-> IF Asks(i) THEN << >> ELSE <<script[i]>>])

\* Cutting a document loses nothing: no chunk is longer than it may be, they go forward,
\* and every word of the document that fits is whole in one of them; and the evidence
\* fits with its separators.
DocumentsArriveWhole ==
  /\ \A k \in DOMAIN chunks :
       /\ chunks[k][2] - chunks[k][1] \in 1..ChunkChars
       /\ k > 1 => chunks[k - 1][1] < chunks[k][1]
  /\ cutting = "evidence" =>
       \A a \in 0..Len(script), b \in 0..Len(script) :
         Word(a, b) /\ b - a <= ChunkChars - LeastChars =>
           \E c \in Range(chunks) : c[1] <= a /\ b <= c[2]
  /\ FoldLeft(+, 0, evidence) + 2 * (Len(evidence) - 1) <= EvidenceChars

\* An answer that asks for no price before its last question keeps what it states and
\* that question; and its bubbles are few and hold its words in order, none longer than it
\* may be unless it is one item, one sentence, the last line of a list whose marker stands
\* alone, or the rest of the answer.
AnswersArriveWhole ==
  /\ cutting = "answer" /\ (\A i \in DOMAIN script : Asks(i) => script[i] # "Rp50") =>
       Words(sent) = Words(Stated)
  /\ bubbles # << >> =>
       /\ Len(bubbles) <= MaxBubbles /\ Words(FlattenSeq(bubbles)) = Words(sent)
       /\ \A k \in DOMAIN bubbles \ {MaxBubbles} : Size(bubbles[k]) > BubbleChars =>
            \/ IsItem(bubbles[k])
            \/ \A i \in 1..(Len(bubbles[k]) - 1) : bubbles[k][i] \notin EndMarks
            \/ \E section \in Range(Sections(sent)) :
                 Alone(Lines(section)) /\ bubbles[k] = Last(Lines(section))
=============================================================================
