--------------------------- MODULE ProviderPresets ---------------------------
(***************************************************************************)
(* What provider presets put into providers and models.  A preset can be   *)
(* installed (again); its rules look for words in the name of a model and  *)
(* say what type of model it is, which endpoint it is for and in which     *)
(* group it is shown.  An import applies them to every model it brings or  *)
(* finds, also to those that were edited by hand.  How imports interleave  *)
(* with other requests is in ProviderCatalog; here each is one step.       *)
(***************************************************************************)
EXTENDS Naturals, Sequences

CONSTANTS
  Keys,           \* presets that get installed
  Words,          \* Words[m]: the words in the name of model m
  Titles          \* names a provider is given by hand

VARIABLES
  presetProvider,  \* the provider, or NoPreset
  offers,          \* its models
  settled          \* nothing has happened since the last import

presetVars == <<presetProvider, offers, settled>>
-----------------------------------------------------------------------------
Rule(contains, types, group, endpoint) ==
  [contains |-> contains, types |-> types, group |-> group, endpoint |-> endpoint]
Preset(name, type, rules) == [name |-> name, type |-> type, rules |-> rules]

providerPresets ==
  [deepseek |-> Preset("DeepSeek", "",
     <<Rule({"reasoner", "r1"}, <<"reasoning">>, "deepseek", "chat")>>),
   qwen |-> Preset("Tongyi", "openai_compatible",
     <<Rule({"vl", "vision"}, <<"vision">>, "qwen", "chat"),
       Rule({"qwq", "reason", "thinking"}, <<"reasoning">>, "qwen", "chat"),
       Rule({"embedding", "embed"}, <<"embedding">>, "qwen", "embeddings")>>),
   openrouter |-> Preset("OpenRouter", "openai_compatible",
     <<Rule({"vision", "vl"}, <<"vision">>, "openrouter", "chat"),
       Rule({"web", "search"}, <<"web">>, "openrouter", "chat"),
       Rule({"tool"}, <<"tool">>, "openrouter", "chat")>>),
   siliconflow |-> Preset("SiliconFlow", "openai_compatible",
     <<Rule({"vl", "vision"}, <<"vision">>, "siliconflow", "chat"),
       Rule({"rerank"}, <<"rerank">>, "siliconflow", "rerank"),
       Rule({"embedding", "embed"}, <<"embedding">>, "siliconflow", "embeddings")>>)]

Provider(key, name, type) == [key |-> key, name |-> name, type |-> type]
NoPreset == Provider("", "", "")
Model(endpoint, group, types) == [endpoint |-> endpoint, group |-> group, types |-> types]
NoRow == Model("absent", "", <<>>)
Blank == Model("", "", <<>>)

ruleMatchesModel(rule, m) == rule.contains \cap Words[m] # {}

(* What a loop over the members of s makes of x.                           *)
Looped(Op(_, _), x, s) ==
  LET after[n \in 0..Len(s)] == IF n = 0 THEN x ELSE Op(after[n - 1], s[n])
  IN after[Len(s)]
Has(types, type) == \E i \in DOMAIN types : types[i] = type

(* Faults seeded for the checks: the membership is looked up the wrong way *)
(* round; the endpoint of a rule replaces any other.                       *)
WithTypeReversed(types, type) == IF types # <<>> /\ Has(<<type>>, types[1]) THEN Append(types, type) ELSE types
WithType(types, type) == IF Has(types, type) THEN types ELSE Append(types, type)

WithTypes(types, more) == Looped(WithType, types, more)

EndpointAlways(row, rule) == IF rule.endpoint # "" THEN rule.endpoint ELSE row.endpoint
EndpointFor(row, rule) == IF rule.endpoint # "" /\ row.endpoint = "chat" THEN rule.endpoint ELSE row.endpoint

ApplyRule(prov, m, row, rule) ==
  IF ruleMatchesModel(rule, m)
    THEN Model(EndpointFor(row, rule),
               IF rule.group # "" /\ row.group = prov.name THEN rule.group ELSE row.group,
               WithTypes(row.types, rule.types))
    ELSE row

(* applyPresetModelDefaults; whether it reports a change only decides      *)
(* whether a row is written that is the same.                              *)
Filled(prov, row) ==
  Model(IF row.endpoint = "" THEN "chat" ELSE row.endpoint,
        IF row.group = "" THEN prov.name ELSE row.group, row.types)
RulesOf(prov) == IF prov.key \in DOMAIN providerPresets THEN providerPresets[prov.key].rules ELSE <<>>
applyPresetModelDefaults(prov, m, row) ==
  Looped(LAMBDA r, rule : ApplyRule(prov, m, r, rule), Filled(prov, row), RulesOf(prov))

(* applyProviderPresetDefaults: what is not given comes from the preset. *)
applyProviderPresetDefaults(prov) ==
  IF prov.key \notin DOMAIN providerPresets THEN prov
  ELSE LET preset == providerPresets[prov.key] IN
       Provider(prov.key, IF prov.name = "" THEN preset.name ELSE prov.name,
                IF prov.type = "" THEN preset.type ELSE prov.type)
-----------------------------------------------------------------------------
PresetModels == DOMAIN Words
PresetInit == presetProvider = NoPreset /\ offers = [m \in PresetModels |-> NoRow] /\ settled = FALSE

InstallPreset(key) ==
  /\ key \in DOMAIN providerPresets
  /\ presetProvider = NoPreset \/ presetProvider.key = key
  /\ presetProvider' = Provider(key, providerPresets[key].name, providerPresets[key].type)
  /\ settled' = FALSE /\ UNCHANGED offers

(* A provider made by hand, of a preset or of none. *)
CreateProvider(key, title) ==
  /\ presetProvider = NoPreset
  /\ presetProvider' = applyProviderPresetDefaults(Provider(key, title, "custom"))
  /\ UNCHANGED <<offers, settled>>

RenameProvider(title) ==
  /\ presetProvider # NoPreset
  /\ presetProvider' = [presetProvider EXCEPT !.name = title]
  /\ settled' = FALSE /\ UNCHANGED offers

(* Models made or edited by hand are not looked at by the rules. *)
EditModel(m, row) ==
  /\ presetProvider # NoPreset
  /\ offers' = [offers EXCEPT ![m] = row]
  /\ settled' = FALSE /\ UNCHANGED presetProvider

ImportModels(remote) ==
  /\ presetProvider # NoPreset
  /\ offers' = [m \in PresetModels |->
       IF m \in remote
         THEN applyPresetModelDefaults(presetProvider, m, IF offers[m] = NoRow THEN Blank ELSE offers[m])
         ELSE offers[m]]
  /\ settled' = (remote = PresetModels) /\ UNCHANGED presetProvider

Edited ==
  [endpoint : {"", "chat", "rerank"}, group : {"mine"} \cup Titles, types : {<<>>, <<"vision">>, <<"own">>}]
PresetNext ==
  \/ \E k \in Keys : InstallPreset(k)
  \/ \E k \in Keys \cup {""}, t \in Titles : CreateProvider(k, t)
  \/ \E t \in Titles : RenameProvider(t)
  \/ \E m \in PresetModels, row \in Edited : EditModel(m, row)
  \/ \E remote \in SUBSET PresetModels : ImportModels(remote)
PresetSpec == PresetInit /\ [][PresetNext]_presetVars
-----------------------------------------------------------------------------
(* An import settles: another one right after it would change nothing,     *)
(* whatever was edited, renamed or installed again before, and every type  *)
(* the preset's rules see in the name of a model is in its row.            *)
ImportSettles ==
  settled =>
    \A m \in PresetModels :
      /\ applyPresetModelDefaults(presetProvider, m, offers[m]) = offers[m]
      /\ \A i \in DOMAIN RulesOf(presetProvider) :
           LET rule == RulesOf(presetProvider)[i] IN
           ruleMatchesModel(rule, m) => \A j \in DOMAIN rule.types : Has(offers[m].types, rule.types[j])

StartsWith(s, t) == Len(s) <= Len(t) /\ \A i \in DOMAIN s : t[i] = s[i]

(* An import takes nothing back that was chosen by hand: an endpoint other *)
(* than chat, a group other than the provider's name, types.               *)
ChoicesKept ==
  [][\A remote \in SUBSET PresetModels : ImportModels(remote) =>
       \A m \in PresetModels :
         /\ offers[m].endpoint \notin {"absent", "", "chat"} => offers'[m].endpoint = offers[m].endpoint
         /\ offers[m] # NoRow /\ offers[m].group \notin {"", presetProvider.name} => offers'[m].group = offers[m].group
         /\ StartsWith(offers[m].types, offers'[m].types)]_presetVars
=============================================================================
