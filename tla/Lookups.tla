------------------------------ MODULE Lookups ------------------------------
(***************************************************************************)
(* The web services the tools of the agent ask, each with several keys     *)
(* that are rotated: searches at two providers behind a cache              *)
(* (src/src/ai/external-lookup.ts), and costs of delivery                  *)
(* (src/src/api/rajaongkir.ts).  A search keeps its place in the keys to   *)
(* itself and writes it back; a request for costs reads the shared place   *)
(* at every attempt.                                                       *)
(*                                                                         *)
(* Abstractions:                                                           *)
(*  - a key is good, spent (the service refuses it, and the next is tried) *)
(*    or down (the service fails, and the request with it);                *)
(*  - all searches are for the same text; the knowledge base does not      *)
(*    answer them;                                                         *)
(*  - what a service answers is whether there is something in it.          *)
(***************************************************************************)
EXTENDS Naturals, Sequences

CONSTANTS
  Search, Shipment,  \* searches and shipping checks in progress
  KeyLists,       \* the keys a service may have
  Couriers        \* how many are configured

ASSUME LookupsAssumption ==
  Couriers \in Nat \ {0} /\ KeyLists \subseteq Seq({"good", "spent", "down"})

Provider == <<"brave", "tavily">>
Ongkir == "ongkir"

VARIABLES
  keys,      \* the keys of each service, and what they are worth
  keyIndex,  \* braveKeyIndex, tavilyKeyIndex, apiKeyIndex
  search,    \* the searches
  cache,     \* lookup_cache: none, fresh or old
  check,     \* the shipping checks
  overlap,   \* ghost: the checks that ran at the same time as another
  starved    \* ghost: those that had a request refused with every key tried

lookupVars == <<keys, keyIndex, search, cache, check, overlap, starved>>

NoSearch == [at |-> "idle", p |-> 1, key |-> 0, tries |-> 0]
NoCheck == [at |-> "idle", key |-> 0, tries |-> 0, courier |-> 0]

LookupInit ==
  /\ keys \in [{"brave", "tavily", Ongkir} -> KeyLists]
  /\ keyIndex = [s \in DOMAIN keys |-> 0]
  /\ search = [l \in Search |-> NoSearch]
  /\ cache = "none"
  /\ check = [c \in Shipment |-> NoCheck] /\ overlap = {} /\ starved = {}

Keys(s) == Len(keys[s])
Worth(s, index) == IF Keys(s) = 0 THEN "down" ELSE keys[s][index + 1]
Following(s, index) == (index + 1) % Keys(s)

-----------------------------------------------------------------------------
(* searchExternal: the providers in turn, those without keys left out      *)
NextProvider(from) ==
  IF from <= 1 /\ Keys("brave") > 0 THEN 1
  ELSE IF from <= 2 /\ Keys("tavily") > 0 THEN 2 ELSE 3
Enter(l, from) ==
  LET p == NextProvider(from) IN
  search' = [search EXCEPT ![l] =
    IF p = 3 THEN [at |-> "error", p |-> from, key |-> 0, tries |-> 0]
    ELSE [at |-> "trying", p |-> p, key |-> keyIndex[Provider[p]], tries |-> 0]]

(* getCached: an old row is deleted                                        *)
StartSearch(l) ==
  /\ search[l].at = "idle"
  /\ IF cache = "fresh" THEN search' = [search EXCEPT ![l].at = "cached"] /\ UNCHANGED cache
     ELSE Enter(l, 1) /\ cache' = "none"
  /\ UNCHANGED <<keys, keyIndex, check, overlap, starved>>

SearchAnswers(l) ==
  LET s == Provider[search[l].p] IN
  /\ search[l].at = "trying" /\ Worth(s, search[l].key) = "good"
  /\ search' = [search EXCEPT ![l].at = "found"] /\ cache' = "fresh"
  /\ keyIndex' = [keyIndex EXCEPT ![s] = search[l].key]
  /\ UNCHANGED <<keys, check, overlap, starved>>

(* the next key, or after the last one the next provider                   *)
SearchRefused(l) ==
  LET s == Provider[search[l].p]
      next == Following(s, search[l].key) IN
  /\ search[l].at = "trying" /\ Worth(s, search[l].key) = "spent"
  /\ keyIndex' = [keyIndex EXCEPT ![s] = next]
  /\ IF search[l].tries + 1 < Keys(s)
     THEN search' = [search EXCEPT ![l].key = next, ![l].tries = @ + 1]
     ELSE Enter(l, search[l].p + 1)
  /\ UNCHANGED <<keys, cache, check, overlap, starved>>

SearchFails(l) ==
  /\ search[l].at = "trying" /\ Worth(Provider[search[l].p], search[l].key) = "down"
  /\ Enter(l, search[l].p + 1)
  /\ UNCHANGED <<keys, keyIndex, cache, check, overlap, starved>>

CacheAges == cache = "fresh" /\ cache' = "old" /\ UNCHANGED <<keys, keyIndex, search, check, overlap, starved>>

-----------------------------------------------------------------------------
(* checkShippingCost: origin, destination, all couriers at once, then one  *)
(* by one.  A step is a request.                                           *)
Asking == {"origin", "destination", "together", "each"}
Begun(c) == check[c].at \in Asking

(* one attempt of a request is sent, with the key the shared place names   *)
Request(c, at, tries, courier) ==
  check' = [check EXCEPT ![c] =
    [at |-> at, key |-> IF Keys(Ongkir) = 0 THEN 0 ELSE keyIndex'[Ongkir] % Keys(Ongkir),
     tries |-> tries, courier |-> courier]]
EndCheck(c, answer) == check' = [check EXCEPT ![c].at = answer]

StartCheck(c) ==
  /\ check[c].at = "idle" /\ UNCHANGED keyIndex
  /\ \E at \in {"origin", "destination"} : Request(c, at, 0, 0)
  /\ overlap' = IF \E d \in Shipment : Begun(d) THEN overlap \cup {c} \cup {d \in Shipment : Begun(d)} ELSE overlap
  /\ UNCHANGED <<keys, search, cache, starved>>

(* what a request that failed leads to: the first two end the check        *)
AfterFailed(c) ==
  CASE check[c].at \in {"origin", "destination"} -> EndCheck(c, "outage")
    [] check[c].at = "together" /\ Couriers > 1  -> Request(c, "each", 0, 1)
    [] check[c].at = "each" /\ check[c].courier < Couriers -> Request(c, "each", 0, check[c].courier + 1)
    [] OTHER -> EndCheck(c, "nothing")

CheckAnswers(c) ==
  /\ Begun(c) /\ Worth(Ongkir, check[c].key) = "good" /\ UNCHANGED keyIndex
  /\ CASE check[c].at = "origin"      -> Request(c, "destination", 0, 0) \/ EndCheck(c, "outage")
       [] check[c].at = "destination" -> Request(c, "together", 0, 0) \/ EndCheck(c, "unknown")
       [] OTHER                       -> EndCheck(c, "options") \/ AfterFailed(c)
  /\ UNCHANGED <<keys, search, cache, overlap, starved>>

\* a plausible mistake: the same key again
SameKey(index) == index

Rotated(index) == Following(Ongkir, index)

CheckRefused(c) ==
  /\ Begun(c) /\ Worth(Ongkir, check[c].key) = "spent"
  /\ keyIndex' = [keyIndex EXCEPT ![Ongkir] = Rotated(check[c].key)]
  /\ IF check[c].tries + 1 < Keys(Ongkir)
     THEN Request(c, check[c].at, check[c].tries + 1, check[c].courier) /\ UNCHANGED starved
     ELSE AfterFailed(c) /\ starved' = starved \cup {c}
  /\ UNCHANGED <<keys, search, cache, overlap>>

(* the service fails, takes longer than ten seconds, or no key is set      *)
CheckFails(c) ==
  /\ Begun(c) /\ Worth(Ongkir, check[c].key) = "down"
  /\ UNCHANGED keyIndex /\ AfterFailed(c)
  /\ UNCHANGED <<keys, search, cache, overlap, starved>>

SearchNext ==
  \/ \E l \in Search : StartSearch(l) \/ SearchAnswers(l) \/ SearchRefused(l) \/ SearchFails(l)
  \/ CacheAges
ShippingNext ==
  \E c \in Shipment : StartCheck(c) \/ CheckAnswers(c) \/ CheckRefused(c) \/ CheckFails(c)

-----------------------------------------------------------------------------
Serves(s) == \E i \in DOMAIN keys[s] : keys[s][i] = "good"
Steady(s) == \A i \in DOMAIN keys[s] : keys[s][i] # "down"

(* A search finds something as long as a provider that does not fail has a *)
(* key that works, whatever other searches do to the shared place; a check *)
(* of shipping costs as well, unless another ran beside it and moved the   *)
(* place under it.                                                         *)
KeysAreAllTried ==
  /\ \A l \in Search : search[l].at = "error" =>
       \A p \in {1, 2} : ~(Serves(Provider[p]) /\ Steady(Provider[p]))
  /\ Serves(Ongkir) /\ Steady(Ongkir) => starved \subseteq overlap
=============================================================================
