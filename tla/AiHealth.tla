------------------------------ MODULE AiHealth ------------------------------
(***************************************************************************)
(* The state of the connection to the AI as the panel shows it: a probe of *)
(* the provider, its cached result and the saves of the settings that      *)
(* invalidate it (src/src/ai/health.ts, src/src/admin/server.ts).          *)
(*                                                                         *)
(* A configuration is the number of saves before it, an answer the         *)
(* configuration it is about, whichever status that is.                    *)
(***************************************************************************)
EXTENDS Naturals

CONSTANTS
  NoProbe, NoAnswer,
  Probe,     \* probes in progress at the same time
  CacheAge,  \* CACHE_MS in ticks
  MaxSaves   \* bound: saves of the settings

ASSUME AiHealthAssumption == CacheAge \in Nat /\ MaxSaves \in Nat

VARIABLES
  config,   \* the settings in process.env
  probing,  \* the configuration each probe has read, or NoAnswer
  inFlight, \* the probe that checkAiHealth joins, or NoProbe
  cached,   \* the configuration of the cached answer, or NoAnswer
  cachedAge

healthVars == <<config, probing, inFlight, cached, cachedAge>>

HealthInit ==
  /\ config = 0 /\ probing = [p \in Probe |-> NoAnswer] /\ inFlight = NoProbe
  /\ cached = NoAnswer /\ cachedAge = CacheAge

\* a plausible mistake: a cached answer is good until a save
FreshAlways == cached # NoAnswer

Fresh == cached # NoAnswer /\ cachedAge < CacheAge

(* checkAiHealth: with force a second probe starts beside the first        *)
CheckAiHealth(p, force) ==
  /\ probing[p] = NoAnswer /\ (force \/ (~Fresh /\ inFlight = NoProbe))
  /\ probing' = [probing EXCEPT ![p] = config] /\ inFlight' = p
  /\ UNCHANGED <<config, cached, cachedAge>>

(* the answer is cached whatever was saved since, and the probe others     *)
(* would join is forgotten, be it this one or not                          *)
FinishProbe(p) ==
  /\ probing[p] # NoAnswer
  /\ cached' = probing[p] /\ cachedAge' = 0
  /\ probing' = [probing EXCEPT ![p] = NoAnswer] /\ inFlight' = NoProbe
  /\ UNCHANGED config

(* the settings are written and the answer invalidated, in one turn of the *)
(* event loop                                                              *)
SaveSettings ==
  /\ config < MaxSaves /\ config' = config + 1
  /\ cached' = NoAnswer /\ cachedAge' = CacheAge
  /\ UNCHANGED <<probing, inFlight>>

HealthTick ==
  /\ cachedAge < CacheAge /\ cachedAge' = cachedAge + 1
  /\ UNCHANGED <<config, probing, inFlight, cached>>

HealthNext ==
  \/ SaveSettings \/ HealthTick
  \/ \E p \in Probe : FinishProbe(p) \/ \E force \in BOOLEAN : CheckAiHealth(p, force)

(* The panel may show the state of settings that were replaced, when a     *)
(* probe of them ends after the save; but not for ever.                    *)
HealthCatchesUp == <>[](Fresh => cached = config)
=============================================================================
