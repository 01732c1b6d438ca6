----------------------------- MODULE MCProviders -----------------------------
(* The catalog of providers and models, what presets put into it, and the  *)
(* prompt library.  They share no variable, so a behaviour is about one of *)
(* them.  The number of requests of several steps to the library is        *)
(* bounded.                                                                *)
EXTENDS MCProviderCatalog, ProviderPresets, PromptLibrary

CONSTANTS s1, s2, MaxPromptRequests

VARIABLES
  side,    \* the part the behaviour is about
  begun    \* requests of several steps to the library begun so far

mcVars == <<vars, presetVars, promptVars, side, begun>>

(* A model that two rules of qwen apply to, and one that none applies to. *)
TwoModels == [both |-> {"vl", "embedding"}, plain |-> {}]

PromptBegins == \E s \in PromptSessions : preq[s] = PromptIdle /\ preq'[s] # PromptIdle
Count == begun' = begun + (IF PromptBegins THEN 1 ELSE 0) /\ begun' <= MaxPromptRequests

MCInit == Init /\ PresetInit /\ PromptInit /\ side \in {"catalog", "presets", "prompts"} /\ begun = 0

MCNext ==
  /\ UNCHANGED side
  /\ \/ side = "catalog" /\ Next /\ UNCHANGED <<presetVars, promptVars, begun>>
     \/ side = "presets" /\ PresetNext /\ UNCHANGED <<vars, promptVars, begun>>
     \/ side = "prompts" /\ PromptNext /\ Count /\ UNCHANGED <<vars, presetVars>>
MCSpec == MCInit /\ [][MCNext]_mcVars

SymmetricAll == Symmetric \cup Permutations(PromptSessions)
=============================================================================
