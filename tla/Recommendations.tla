--------------------------- MODULE Recommendations ---------------------------
(***************************************************************************)
(* Recommending a perfume of the shop: the catalogue read out of the       *)
(* knowledge text and remembered with it, the candidates a customer's      *)
(* needs pick from it, the lookups on the web that verify them one by one, *)
(* and the reply they amount to (src/src/ai/catalog-matcher.ts).  What a   *)
(* lookup finds is chosen freely from Pages, each time anew.  A knowledge  *)
(* text is its rows, none when it is empty: a text that has no table, from *)
(* which nothing is remembered either, is left out.                        *)
(***************************************************************************)
EXTENDS Integers, FiniteSets, SequencesExt

CONSTANTS
  Rows,          \* the rows a knowledge text can have, in the order of their perfumes' names
  Versions,      \* the sets of rows the versions of the knowledge have
  Pages,         \* what a lookup can find: sequences of hits, the first hit first
  Needs,         \* what customers ask for
  Length,        \* how long each name is
  MaxCandidates, \* rows considered (12)
  FewLookups,    \* rows looked up when one name is asked with no audience or quality (5)
  ManyLookups,   \* and otherwise (12)
  Nothing

Row == DOMAIN Rows

\* A name is the number of its place in the alphabet; one perfume is asked for, or two, and one match, or three.
ASSUME RecommendationsAssumption ==
  /\ Rows \in Seq([perfume : Int, mix : Int, family : STRING, hints : SUBSET STRING, sweet : BOOLEAN])
  /\ Versions \subseteq SUBSET Row
  /\ \A page \in Pages :
       page \in Seq([about : BOOLEAN, notes : SUBSET STRING, families : SUBSET STRING,
                     audiences : SUBSET STRING, qualities : SUBSET STRING, score : Int])
  /\ \A q \in Needs : /\ q.kind \in {"recommend", "match", "detail", "fit"} /\ q.families \in Seq(STRING)
                      /\ IsFiniteSet(q.notes) /\ IsFiniteSet(q.said) /\ q.count \in 1..3
  /\ {MaxCandidates, FewLookups, ManyLookups} \subseteq Nat

VARIABLES
  stored,    \* the rows of the active knowledge version
  held,      \* the rows of the knowledge text in memory
  cached,    \* the catalogue remembered: the text it belongs to, and its rows
  need,      \* what the customer asks for, Nothing before the first question
  stage,     \* "idle", "reading" the knowledge again, or "looking" candidates up
  rows,      \* the catalogue this question is answered from
  basis,     \* the rows of the text in memory as it began
  lookups,   \* the candidates left to look up
  inspected, \* the candidates whose lookup bore them out
  reply      \* the rows the reply names: the first is the one it explains

recommendationVars == <<stored, held, cached, need, stage, rows, basis, lookups, inspected, reply>>

RecommendationsInit ==
  /\ stored = {} /\ held = {} /\ cached = Nothing /\ need = Nothing /\ stage = "idle"
  /\ rows = {} /\ basis = {} /\ lookups = << >> /\ inspected = << >> /\ reply = << >>

-----------------------------------------------------------------------------
(* Candidates: by the families of the need, in its order of preference.    *)

\* Array.sort by several keys: the first that differs decides, the least first.
Sooner(a, b) == \E k \in DOMAIN a : a[k] < b[k] /\ \A l \in 1..(k - 1) : a[l] = b[l]

\* A finite set in the order of its keys: the k-th has k - 1 before it.
Sorted(S, key) ==
  [k \in 1..Cardinality(S) |-> CHOOSE x \in S : Cardinality({y \in S : Sooner(key[y], key[x])}) = k - 1]

Shortened(seq, n) == SubSeq(seq, 1, IF Len(seq) < n THEN Len(seq) ELSE n)

FamilyScore(r, q) ==
  LET at == SelectInSeq(q.families, LAMBDA f : f = Rows[r].family)
  IN  IF at = 0 THEN 0 ELSE Len(q.families) - at + 1

Candidates(from, q) ==
  LET suited == {r \in from : FamilyScore(r, q) > 0}
  IN  Shortened(Sorted(suited, [r \in suited |-> <<-FamilyScore(r, q), r>>]), MaxCandidates)

\* What a name hints at: wanted by one audience, by the other, or neither.
NameScore(r, audiences) ==
  LET said == Rows[r].hints
  IN  CASE audiences = {}              -> 0
        [] Cardinality(audiences) = 2  -> IF said = {} THEN 1 ELSE -1
        [] audiences \subseteq said    -> 2
        [] said # {}                   -> -2
        [] OTHER                       -> 0

LookupOrder(from, q) ==
  LET candidates == Candidates(from, q)
      kept == {i \in DOMAIN candidates : q.dry => ~Rows[candidates[i]].sweet}
      order == Sorted(kept, [i \in kept |-> <<-NameScore(candidates[i], q.audiences), i>>])
  IN  [k \in DOMAIN order |-> candidates[order[k]]]

\* The names the customer said, of both sides of the rows; the longest win.
LongestNamed(from, q) ==
  LET named == {x \in from \X q.said : x[2] \in {Rows[x[1]].perfume, Rows[x[1]].mix}}
  IN  {x \in named : \A y \in named : Length[y[2]] <= Length[x[2]]}

\* A description needs one row, whatever its sides; a product is one side of one row.
Resolved(from, q) ==
  LET longest == LongestNamed(from, q)
      found == {x[1] : x \in longest}
  IN  IF Cardinality(IF q.kind = "detail" THEN found ELSE longest) = 1 THEN SetToSeq(found) ELSE << >>

LookupLimit(q) == IF q.audiences # {} \/ q.qualities # {} \/ q.count > 1 THEN ManyLookups ELSE FewLookups

ToLookUp(from, q) ==
  CASE q.kind = "recommend" ->
         IF q.online THEN Shortened(LookupOrder(from, q), LookupLimit(q)) ELSE << >>
    [] q.kind = "match" -> Candidates(from, q)
    [] OTHER -> IF q.online THEN Resolved(from, q) ELSE << >>

-----------------------------------------------------------------------------
(* What a page proves of a perfume.                                        *)

Compatible(wanted, found) ==
  \/ wanted = {}
  \/ Cardinality(wanted) = 2 /\ wanted \subseteq found
  \/ Cardinality(wanted) = 1 /\ wanted \cap found # {}

\* The best hit about the perfume that meets the requirements, Nothing if there is none.
Evidence(page, audiences, qualities) ==
  LET met == {i \in DOMAIN page : /\ page[i].about
                                  /\ Compatible(audiences, page[i].audiences)
                                  /\ qualities \subseteq page[i].qualities}
      worth(i) == page[i].score + (IF audiences # {} /\ audiences \subseteq page[i].audiences THEN 4 ELSE 0)
  IN  IF met = {} THEN Nothing ELSE page[Sorted(met, [i \in met |-> <<-worth(i), i>>])[1]]

Inspection(r, ref, q) ==
  [row |-> r, ref |-> ref,
   notes |-> Cardinality(q.notes \cap ref.notes),
   overlap |-> Cardinality(ToSet(q.families) \cap ref.families),
   audience |-> IF q.audiences = {} \/ ref.audiences = {} THEN 0
                ELSE IF q.audiences \subseteq ref.audiences THEN 2 ELSE 1]

Passes(ref, q) ==
  /\ ref # Nothing
  /\ q.kind = "recommend" => ~(q.dry /\ "sweet" \in ref.qualities)
  /\ q.kind = "match" => q.notes \cap ref.notes # {} \/ ToSet(q.families) \cap ref.families # {}

Complete(i, q) == i.overlap >= Len(q.families) /\ (q.audiences # {} => i.audience = 2)

Enough(seen, q) ==
  /\ q.kind = "recommend"
  /\ Cardinality({k \in DOMAIN seen : Complete(seen[k], q)}) >= q.count

-----------------------------------------------------------------------------
(* The reply.                                                              *)

Presented(r, q) == IF q.mixed THEN Rows[r].mix ELSE Rows[r].perfume

\* A Map from names to rows: a name keeps its first place and takes its last row.
Unique(seq, q) ==
  LET name(i) == Presented(seq[i], q)
      first == {i \in DOMAIN seq : \A j \in 1..(i - 1) : name(j) # name(i)}
      places == Sorted(first, [i \in first |-> <<i>>])
      last(i) == Sorted({j \in DOMAIN seq : name(j) = name(i)}, [j \in DOMAIN seq |-> <<-j>>])[1]
  IN  [k \in DOMAIN places |-> seq[last(places[k])]]

\* Array.sort keeps the order of what no key tells apart.
Ranked(seen, q) ==
  LET score(i) == FamilyScore(seen[i].row, q)
      key(i) == IF q.kind = "match" THEN <<-seen[i].notes, -seen[i].overlap, -score(i), Rows[seen[i].row].mix, i>>
                ELSE <<-seen[i].overlap, -seen[i].audience, -score(i), Rows[seen[i].row].perfume, i>>
      order == Sorted(DOMAIN seen, [i \in DOMAIN seen |-> key(i)])
  IN  [k \in DOMAIN order |-> seen[order[k]]]

\* A plausible slip: an audience nobody was found to suit is answered all the same.
RecommendedAnyway(q) ==
  LET ranked == Ranked(inspected, q)
  IN  Shortened(Unique([i \in DOMAIN ranked |-> ranked[i].row] \o LookupOrder(rows, q), q), q.count)

Recommended(q) ==
  LET ranked == Ranked(inspected, q)
      verified == [i \in DOMAIN ranked |-> ranked[i].row]
  IN  IF q.online /\ q.audiences # {} /\ ranked = << >> THEN << >>
      ELSE Shortened(Unique(verified \o LookupOrder(rows, q), q), q.count)

\* Of the ranked: the closest, then the closest of each family not yet picked, then any other mix.
Matched(ranked, q) ==
  LET row(i) == Rows[ranked[i].row]
      others == {i \in DOMAIN ranked : row(i).mix # row(1).mix}
      leading == {i \in others : \A j \in others \union {1} : j < i => row(j).family # row(i).family}
      spread == <<1>> \o Shortened(Sorted(leading, [i \in leading |-> <<i>>]), 2)
      left == {i \in others : /\ \A j \in others : j < i => row(j).mix # row(i).mix
                              /\ \A k \in DOMAIN spread : row(spread[k]).mix # row(i).mix}
      picked == Shortened(spread \o Sorted(left, [i \in left |-> <<i>>]), q.count)
  IN  IF ranked = << >> \/ (q.notes # {} /\ \A i \in DOMAIN ranked : ranked[i].notes = 0) THEN << >>
      ELSE [k \in DOMAIN picked |-> ranked[picked[k]].row]

\* Without notes found a perfume is still described, but not recommended to an audience.
Described(q) ==
  LET named == Resolved(rows, q)
  IN  IF ~q.online \/ (q.kind = "fit" /\ q.audiences # {} /\ inspected = << >>) THEN << >> ELSE named

-----------------------------------------------------------------------------
(* The steps.                                                              *)

StartWith(from, memory, q) ==
  /\ rows' = from /\ lookups' = ToLookUp(from, q) /\ inspected' = << >> /\ reply' = << >> /\ stage' = "looking"
  /\ basis' = memory

\* A question finds the catalogue of the text in memory, read or remembered; no text, and it is read again.
Ask(q) ==
  /\ stage = "idle" /\ need' = q
  /\ IF cached # Nothing /\ cached.source = held
     THEN StartWith(cached.rows, held, q) /\ UNCHANGED cached
     ELSE IF held # {} THEN StartWith(held, held, q) /\ cached' = [source |-> held, rows |-> held]
     ELSE stage' = "reading" /\ UNCHANGED <<rows, basis, lookups, inspected, reply, cached>>
  /\ UNCHANGED <<stored, held>>

\* The rows read are remembered for the text there was when the reading began: none.  No rows are not.
ReadAgain ==
  /\ stage = "reading"
  /\ held' = stored
  /\ cached' = IF stored = {} THEN cached ELSE [source |-> {}, rows |-> stored]
  /\ StartWith(stored, stored, need) /\ UNCHANGED <<stored, need>>

LookUp(page) ==
  /\ stage = "looking" /\ lookups # << >>
  /\ LET ref == IF need.kind = "match" THEN Evidence(page, {}, {}) ELSE Evidence(page, need.audiences, need.qualities)
     IN  inspected' = IF Passes(ref, need) THEN Append(inspected, Inspection(Head(lookups), ref, need)) ELSE inspected
  /\ lookups' = IF Enough(inspected', need) THEN << >> ELSE Tail(lookups)
  /\ UNCHANGED <<stored, held, cached, need, stage, rows, basis, reply>>

Conclude ==
  /\ stage = "looking" /\ lookups = << >>
  /\ reply' = CASE need.kind = "recommend" -> Recommended(need)
                [] need.kind = "match" -> Matched(Ranked(inspected, need), need)
                [] OTHER -> Described(need)
  /\ stage' = "idle"
  /\ UNCHANGED <<stored, held, cached, need, rows, basis, lookups, inspected>>

\* A version is activated, and the text in memory follows.
Publish(version) == stored' = version /\ UNCHANGED <<held, cached, need, stage, rows, basis, lookups, inspected, reply>>

Refresh ==
  /\ held # stored /\ held' = stored
  /\ UNCHANGED <<stored, cached, need, stage, rows, basis, lookups, inspected, reply>>

RecommendationsNext ==
  \/ \E q \in Needs : Ask(q)
  \/ ReadAgain
  \/ \E page \in Pages : LookUp(page)
  \/ Conclude
  \/ \E version \in Versions : Publish(version)
  \/ Refresh

-----------------------------------------------------------------------------
(* Correctness.                                                            *)

\* What a reply names is of the catalogue it was made from, which is that of the text
\* in memory unless that text was empty: then it may be that of an earlier table, read
\* while the memory was empty, though docs/PRD.md:376 binds the cache to the active
\* corpus (catalog-matcher.ts:671); no more than asked and no
\* name twice, save for a mix of several families that is not the first of a match; the
\* name it puts first was borne out by a lookup whenever an audience was asked for and
\* the web could be searched, and nothing looked up fitted better; and a match with a
\* perfume the shop does not have offers only what a lookup bore out, of different
\* families where it could.
RecommendationsFit ==
  stage = "idle" /\ reply # << >> =>
    LET verified == {inspected[i].row : i \in DOMAIN inspected}
        of(r) == CHOOSE i \in ToSet(inspected) : i.row = r
    IN  /\ ToSet(reply) \subseteq rows
        /\ basis # {} => ToSet(reply) \subseteq basis
        /\ Len(reply) <= IF need.kind \in {"recommend", "match"} THEN need.count ELSE 1
        /\ need.kind # "match" =>
             \A i, j \in DOMAIN reply : i # j => Presented(reply[i], need) # Presented(reply[j], need)
        /\ need.kind = "recommend" /\ need.online /\ need.audiences # {} =>
             \E r \in verified : /\ Presented(r, need) = Presented(reply[1], need)
                                 /\ Compatible(need.audiences, of(r).ref.audiences)
                                 /\ ~(need.dry /\ "sweet" \in of(r).ref.qualities)
                                 /\ \A s \in verified : of(s).overlap <= of(r).overlap
        /\ need.kind = "match" =>
             /\ ToSet(reply) \subseteq verified
             /\ \A s \in verified : of(s).notes <= of(reply[1]).notes
             /\ \A i, j \in DOMAIN reply :
                  i < j /\ Rows[reply[i]].mix = Rows[reply[j]].mix =>
                    i > 1 /\ Rows[reply[i]].family # Rows[reply[j]].family
             /\ Len(reply) > 1 /\ Rows[reply[2]].family = Rows[reply[1]].family =>
                  \A s \in verified : Rows[s].mix # Rows[reply[1]].mix => Rows[s].family = Rows[reply[1]].family
=============================================================================
