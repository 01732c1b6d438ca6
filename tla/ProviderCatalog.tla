--------------------------- MODULE ProviderCatalog ---------------------------
(***************************************************************************)
(* Model providers, their models and the default-model bindings: tables    *)
(* providers, provider_models and system_llm_configs, and the requests of  *)
(* platformService that read and write them.                               *)
(*                                                                         *)
(* No request is one transaction.  Every database call is a step of its    *)
(* own, and what a request remembers between two calls (a row it read, a   *)
(* list it checked) is in req.  The two store calls that do open a         *)
(* transaction (Add and Update of a provider) run at READ COMMITTED, so    *)
(* their check and their write are two steps as well.                      *)
(*                                                                         *)
(* A provider is its name and the preset it came from, a model the         *)
(* provider, the display name and the model name; endpoint, capabilities,  *)
(* credentials and prices decide nothing here.                             *)
(***************************************************************************)
EXTENDS Naturals, Sequences

CONSTANTS
  Providers,    \* ids of provider rows; an id is used once (uuid)
  Models,       \* ids of model rows
  Purposes,     \* purposes a default model can be bound to
  Clients,      \* requests that can be in progress at once
  ProviderNames, PresetName,  \* provider names, one of them the preset's
  Names,        \* names and model names a request or the remote may use
  Fold,         \* Fold[n]: n trimmed and case-folded (strings.EqualFold)
  RemoteLists,  \* answers of GET /models, trimmed and sorted; an empty one is an error
  None,         \* no row
  MaxFaults     \* bound on database calls that fail

ASSUME CatalogAssumption ==
  /\ PresetName \in ProviderNames
  /\ Fold \in [Names -> Names]
  /\ RemoteLists \subseteq Seq(Names) \ {<<>>}
  /\ Providers \cap Models = {}
  /\ None \notin Providers \cup Models \cup Names \cup ProviderNames
  /\ MaxFaults \in Nat

VARIABLES
  provider,   \* table providers
  model,      \* table provider_models
  config,     \* table system_llm_configs, by its unique purpose
  req,        \* the request each client is in
  born,       \* ids handed out so far
  late,       \* providers something was written for while or after they were deleted
  faults      \* database errors so far

vars == <<provider, model, config, req, born, late, faults>>
-----------------------------------------------------------------------------
NoProvider == [name |-> None, preset |-> FALSE]
NoModel == [provider |-> None, name |-> None, model |-> None]
NoConfig == [provider |-> None, model |-> None]

ProviderRow == [name : ProviderNames, preset : BOOLEAN]
ModelRow == [provider : Providers, name : Names, model : Names]
ConfigRow == [provider : Providers, model : Models \cup {None}]

(* What a request keeps between two database calls. *)
Request(at, id, row) == [at |-> at, id |-> id, row |-> row, list |-> <<>>, todo |-> <<>>]
Idle == Request("idle", None, None)
Import(at, p, list, todo) == [at |-> at, id |-> p, row |-> None, list |-> list, todo |-> todo]

(* The requests there can be, by the call they are to make next. *)
Stage(ats, ids, rows) == [at : ats, id : ids, row : rows, list : {<<>>}, todo : {<<>>}]
Sync(ats, lists) ==
  [at : ats, id : Providers, row : {None}, list : lists, todo : Seq(Names) \ {<<>>}]
Requests ==
  {Idle}
  \cup Stage({"create provider", "check new name"}, {None}, ProviderRow)
  \cup Stage({"check name", "update provider"}, Providers, ProviderRow)
  \cup Stage({"delete configs", "delete models", "delete provider"}, Providers, {None})
  \cup Stage({"add model"}, {None}, ModelRow)
  \cup Stage({"check model", "save model", "delete binding", "delete model"}, Models, ModelRow)
  \cup Sync({"list models"}, {<<>>})
  \cup Sync({"sync"}, [Models -> ModelRow \cup {NoModel}])
  \cup Stage({"create config", "save config"}, Purposes, ConfigRow)

ModelsOf(p) == {i \in Models : model[i].provider = p}

Begin(c, r) == req[c] = Idle /\ req' = [req EXCEPT ![c] = r]
Goto(c, at) == req' = [req EXCEPT ![c] = Request(at, req[c].id, req[c].row)]
Done(c) == req' = [req EXCEPT ![c] = Idle]

(* p is being deleted, past the first of its clean-up calls, or is gone. *)
Leaving(p) ==
  \/ p \in born /\ provider[p] = NoProvider
  \/ \E c \in Clients : req[c].id = p /\ req[c].at \in {"delete models", "delete provider"}

(* A row that names p is written. *)
WriteFor(p) == late' = IF Leaving(p) THEN late \cup {p} ELSE late

Holders(n) == {q \in Providers : provider[q].name = n}

(* ensureProviderModelUnique would refuse row for the model with id i. *)
Clashes(row, i) ==
  \E j \in ModelsOf(row.provider) \ {i} :
    \/ Fold[model[j].name] = Fold[row.name]
    \/ Fold[model[j].model] = Fold[row.model]
-----------------------------------------------------------------------------
Init ==
  /\ provider = [p \in Providers |-> NoProvider]
  /\ model = [i \in Models |-> NoModel]
  /\ config = [u \in Purposes |-> NoConfig]
  /\ req = [c \in Clients |-> Idle]
  /\ born = {} /\ late = {} /\ faults = 0

(* The row c is about to insert finds no id left in the model's pool. *)
OutOfIds(c) ==
  \/ req[c].at = "create provider" /\ Providers \subseteq born
  \/ req[c].at \in {"add model", "sync"} /\ Models \subseteq born

(* Any database call fails; the request returns the error and what it has  *)
(* done so far stays.                                                      *)
CallFails(c) ==
  /\ req[c] # Idle
  /\ \/ faults < MaxFaults /\ faults' = faults + 1
     \/ OutOfIds(c) /\ faults' = faults
  /\ Done(c)
  /\ UNCHANGED <<provider, model, config, born, late>>

(* ProviderCreate: Add begins with the check for the name. *)
ProviderCreate(c, n, preset) ==
  /\ Holders(n) = {}
  /\ Begin(c, Request("create provider", None, [name |-> n, preset |-> preset]))
  /\ UNCHANGED <<provider, model, config, born, late, faults>>

(* Add inserts the row, under a new id, and commits. *)
ProviderInsert(c, p) ==
  /\ req[c].at = "create provider"
  /\ p \notin born
  /\ provider' = [provider EXCEPT ![p] = req[c].row]
  /\ born' = born \cup {p}
  /\ Done(c)
  /\ UNCHANGED <<model, config, late, faults>>

(* ProviderUpdate: Get, and the fields of the request merged into it. *)
ProviderUpdateGet(c, p, n) ==
  /\ provider[p] # NoProvider
  /\ Begin(c, Request("check name", p, [provider[p] EXCEPT !.name = n]))
  /\ UNCHANGED <<provider, model, config, born, late, faults>>

(* ProviderPresetInstall: the list of providers is searched for the        *)
(* preset.  A provider that has it is updated to the preset's name; else   *)
(* one is added.                                                           *)
PresetInstall(c) ==
  LET installed == {q \in Providers : provider[q].preset}
      row == [name |-> PresetName, preset |-> TRUE]
  IN
  /\ \/ \E p \in installed : Begin(c, Request("check name", p, row))
     \/ installed = {} /\ Begin(c, Request("check new name", None, row))
  /\ UNCHANGED <<provider, model, config, born, late, faults>>

(* The check of Add, for an installed preset. *)
PresetAddCheck(c) ==
  /\ req[c].at = "check new name"
  /\ IF Holders(req[c].row.name) = {} THEN Goto(c, "create provider") ELSE Done(c)
  /\ UNCHANGED <<provider, model, config, born, late, faults>>

(* Update fetches a provider of that name; finding none, or the one it is  *)
(* to update, it goes on ...                                               *)
ProviderUpdateCheck(c) ==
  LET found == Holders(req[c].row.name) IN
  /\ req[c].at = "check name"
  /\ \/ found = {} /\ Goto(c, "update provider")
     \/ \E q \in found :
          IF q = req[c].id THEN Goto(c, "update provider") ELSE Done(c)
  /\ UNCHANGED <<provider, model, config, born, late, faults>>

(* Fault seeded for the checks: the row is saved, inserted if need be. *)
ProviderUpdateSaves(c) ==
  /\ req[c].at = "update provider"
  /\ provider' = [provider EXCEPT ![req[c].id] = req[c].row]
  /\ Done(c)
  /\ UNCHANGED <<model, config, born, late, faults>>

(* ... and writes every column of the row with that id, if there is one. *)
ProviderUpdateWrite(c) ==
  /\ req[c].at = "update provider"
  /\ provider' = IF provider[req[c].id] = NoProvider THEN provider
                 ELSE [provider EXCEPT ![req[c].id] = req[c].row]
  /\ Done(c)
  /\ UNCHANGED <<model, config, born, late, faults>>

(* Fault seeded for the checks: the provider goes first. *)
ProviderDeleteFirst(c, p) ==
  /\ provider[p] # NoProvider
  /\ Begin(c, Request("delete configs", p, None))
  /\ provider' = [provider EXCEPT ![p] = NoProvider]
  /\ UNCHANGED <<model, config, born, late, faults>>

(* ProviderDelete: Get; then bindings, models and provider go, in turn. *)
ProviderDelete(c, p) ==
  /\ provider[p] # NoProvider
  /\ Begin(c, Request("delete configs", p, None))
  /\ UNCHANGED <<provider, model, config, born, late, faults>>

DeleteConfigs(c) ==
  /\ req[c].at = "delete configs"
  /\ config' = [u \in Purposes |->
       IF config[u].provider = req[c].id THEN NoConfig ELSE config[u]]
  /\ Goto(c, "delete models")
  /\ UNCHANGED <<provider, model, born, late, faults>>

DeleteModels(c) ==
  /\ req[c].at = "delete models"
  /\ model' = [i \in Models |-> IF model[i].provider = req[c].id THEN NoModel ELSE model[i]]
  /\ Goto(c, "delete provider")
  /\ UNCHANGED <<provider, config, born, late, faults>>

DeleteProvider(c) ==
  /\ req[c].at = "delete provider"
  /\ provider' = [provider EXCEPT ![req[c].id] = NoProvider]
  /\ Done(c)
  /\ UNCHANGED <<model, config, born, late, faults>>
-----------------------------------------------------------------------------
(* ProviderModelCreate: the list of the provider's models is checked.      *)
(* Whether the provider exists is not.                                     *)
ModelCreate(c, p, n, v) ==
  LET row == [provider |-> p, name |-> n, model |-> v] IN
  /\ p \in born
  /\ ~Clashes(row, None)
  /\ Begin(c, Request("add model", None, row))
  /\ UNCHANGED <<provider, model, config, born, late, faults>>

ModelAdd(c, i) ==
  /\ req[c].at = "add model"
  /\ i \notin born
  /\ model' = [model EXCEPT ![i] = req[c].row]
  /\ born' = born \cup {i}
  /\ WriteFor(req[c].row.provider)
  /\ Done(c)
  /\ UNCHANGED <<provider, config, faults>>

(* Fault seeded for the checks: the row is put together from the request,  *)
(* without a look at the table.                                            *)
ModelUpdateUnread(c, i, n, v) ==
  /\ i \in born
  /\ \E p \in Providers \cap born :
       Begin(c, Request("check model", i, [provider |-> p, name |-> n, model |-> v]))
  /\ UNCHANGED <<provider, model, config, born, late, faults>>

(* ProviderModelUpdate: Get, with the requested names. *)
ModelUpdateGet(c, i, n, v) ==
  /\ model[i] # NoModel
  /\ Begin(c, Request("check model", i, [model[i] EXCEPT !.name = n, !.model = v]))
  /\ UNCHANGED <<provider, model, config, born, late, faults>>

ModelUpdateCheck(c) ==
  /\ req[c].at = "check model"
  /\ IF Clashes(req[c].row, req[c].id) THEN Done(c) ELSE Goto(c, "save model")
  /\ UNCHANGED <<provider, model, config, born, late, faults>>

(* gorm's Save: the row is written, and inserted if it is no longer there. *)
ModelSave(c) ==
  /\ req[c].at = "save model"
  /\ model' = [model EXCEPT ![req[c].id] = req[c].row]
  /\ WriteFor(req[c].row.provider)
  /\ Done(c)
  /\ UNCHANGED <<provider, config, born, faults>>

(* ProviderModelDelete: Get, and the check that the model is p's; then its *)
(* bindings and the row go.                                                *)
ModelDelete(c, i) ==
  /\ model[i] # NoModel
  /\ Begin(c, Request("delete binding", i, model[i]))
  /\ UNCHANGED <<provider, model, config, born, late, faults>>

DeleteBindings(c) ==
  /\ req[c].at = "delete binding"
  /\ config' = [u \in Purposes |->
       IF config[u] = [provider |-> req[c].row.provider, model |-> req[c].id]
       THEN NoConfig ELSE config[u]]
  /\ Goto(c, "delete model")
  /\ UNCHANGED <<provider, model, born, late, faults>>

DeleteModel(c) ==
  /\ req[c].at = "delete model"
  /\ model' = [model EXCEPT ![req[c].id] =
       IF @.provider = req[c].row.provider THEN NoModel ELSE @]
  /\ Done(c)
  /\ UNCHANGED <<provider, config, born, late, faults>>

(* ProviderModelSync: Get the provider, ask the remote (for up to 15       *)
(* seconds) ...                                                            *)
SyncGet(c, p, remote) ==
  /\ provider[p] # NoProvider
  /\ Begin(c, Import("list models", p, <<>>, remote))
  /\ UNCHANGED <<provider, model, config, born, late, faults>>

(* ... and list the models it has, once. *)
SyncList(c) ==
  /\ req[c].at = "list models"
  /\ LET list == [i \in Models |-> IF i \in ModelsOf(req[c].id) THEN model[i] ELSE NoModel]
     IN  req' = [req EXCEPT ![c] = Import("sync", req[c].id, list, req[c].todo)]
  /\ UNCHANGED <<provider, model, config, born, late, faults>>

(* The loop over the remote names.  A name the list has is saved over the  *)
(* row as it was listed, or skipped when nothing changed; one it has not   *)
(* is added, and not put on the list.                                      *)
Listed(c, v) == {i \in Models : req[c].list[i].model = v}

SyncNext(c, list) ==
  req' = [req EXCEPT ![c] = IF Len(req[c].todo) = 1 THEN Idle
                            ELSE Import("sync", req[c].id, list, Tail(req[c].todo))]

SyncUpdate(c) ==
  LET v == Head(req[c].todo) IN
  /\ req[c].at = "sync"
  /\ \E i \in Listed(c, v) :
       LET row == [req[c].list[i] EXCEPT !.name = v] IN
       \/ /\ model' = [model EXCEPT ![i] = row]
          /\ WriteFor(req[c].id)
          /\ SyncNext(c, [req[c].list EXCEPT ![i] = row])
       \/ /\ req[c].list[i].name = v
          /\ UNCHANGED <<model, late>>
          /\ SyncNext(c, req[c].list)
  /\ UNCHANGED <<provider, config, born, faults>>

SyncAdd(c, i) ==
  LET v == Head(req[c].todo) IN
  /\ req[c].at = "sync"
  /\ Listed(c, v) = {}
  /\ i \notin born
  /\ model' = [model EXCEPT ![i] = [provider |-> req[c].id, name |-> v, model |-> v]]
  /\ born' = born \cup {i}
  /\ WriteFor(req[c].id)
  /\ SyncNext(c, req[c].list)
  /\ UNCHANGED <<provider, config, faults>>
-----------------------------------------------------------------------------
(* SystemLLMConfigUpsert, one purpose of it: First by purpose.  Neither    *)
(* the provider nor the model is looked up.                                *)
UpsertFirst(c, u, p, i) ==
  /\ p \in born
  /\ i \in born \cup {None}
  /\ Begin(c, Request(IF config[u] = NoConfig THEN "create config" ELSE "save config",
                      u, [provider |-> p, model |-> i]))
  /\ UNCHANGED <<provider, model, config, born, late, faults>>

(* Create fails on the unique purpose if another request was first. *)
ConfigCreate(c) ==
  /\ req[c].at = "create config"
  /\ IF config[req[c].id] = NoConfig
     THEN /\ config' = [config EXCEPT ![req[c].id] = req[c].row]
          /\ WriteFor(req[c].row.provider)
     ELSE UNCHANGED <<config, late>>
  /\ Done(c)
  /\ UNCHANGED <<provider, model, born, faults>>

(* Save writes the row read, inserting it again if it was deleted.  If the *)
(* purpose has got a new row meanwhile the insert fails on the unique      *)
(* purpose; row ids are not kept here, so either may happen to a row that  *)
(* is there.                                                               *)
ConfigSave(c) ==
  /\ req[c].at = "save config"
  /\ \/ /\ config' = [config EXCEPT ![req[c].id] = req[c].row]
        /\ WriteFor(req[c].row.provider)
     \/ config[req[c].id] # NoConfig /\ UNCHANGED <<config, late>>
  /\ Done(c)
  /\ UNCHANGED <<provider, model, born, faults>>

ProviderStep(c) ==
  \/ \E p \in Providers, n \in ProviderNames :
       ProviderUpdateGet(c, p, n)
  \/ \E n \in ProviderNames, b \in BOOLEAN : ProviderCreate(c, n, b)
  \/ \E p \in Providers : ProviderInsert(c, p) \/ ProviderDelete(c, p)
  \/ PresetInstall(c) \/ PresetAddCheck(c) \/ ProviderUpdateCheck(c) \/ ProviderUpdateWrite(c)
  \/ DeleteConfigs(c) \/ DeleteModels(c) \/ DeleteProvider(c)

ModelStep(c) ==
  \/ \E i \in Models, n, v \in Names :
       ModelUpdateGet(c, i, n, v)
  \/ \E p \in Providers, n, v \in Names : ModelCreate(c, p, n, v)
  \/ \E i \in Models : ModelAdd(c, i) \/ ModelDelete(c, i) \/ SyncAdd(c, i)
  \/ \E p \in Providers, remote \in RemoteLists : SyncGet(c, p, remote)
  \/ ModelUpdateCheck(c) \/ ModelSave(c)
  \/ DeleteBindings(c) \/ DeleteModel(c) \/ SyncList(c) \/ SyncUpdate(c)

ConfigStep(c) ==
  \/ \E u \in Purposes, p \in Providers, i \in Models \cup {None} : UpsertFirst(c, u, p, i)
  \/ ConfigCreate(c) \/ ConfigSave(c)

Next == \E c \in Clients : ProviderStep(c) \/ ModelStep(c) \/ ConfigStep(c) \/ CallFails(c)

Spec == Init /\ [][Next]_vars
-----------------------------------------------------------------------------
(* Rows, copies of rows and bindings keep their types. *)
TypeOK ==
  /\ provider \in [Providers -> ProviderRow \cup {NoProvider}]
  /\ model \in [Models -> ModelRow \cup {NoModel}]
  /\ config \in [Purposes -> ConfigRow \cup {NoConfig}]
  /\ req \in [Clients -> Requests]
  /\ born \subseteq Providers \cup Models
  /\ late \subseteq Providers
  /\ faults \in 0..MaxFaults

(* A deleted provider leaves no model and no binding behind, whichever of  *)
(* the clean-up calls of whichever deletion failed, unless something was   *)
(* written for it while it was being deleted or later.  ProviderDelete has *)
(* no transaction: it relies on the order of its three deletes.            *)
DeletedLeavesNothing ==
  \A p \in born \cap Providers : provider[p] = NoProvider /\ p \notin late =>
    /\ ModelsOf(p) = {}
    /\ \A u \in Purposes : config[u].provider # p

(* A deleted provider never comes back: the row a request read before the  *)
(* deletion is written back by an UPDATE that then matches nothing.        *)
ProviderGoneForGood ==
  [][\A p \in born \cap Providers : provider[p] = NoProvider => provider'[p] = NoProvider]_vars

(* No request still has a copy of model i that it may save. *)
Uncopied(i) ==
  \A c \in Clients :
    /\ req[c].id = i => req[c].at \notin {"check model", "save model"}
    /\ req[c].at = "sync" => req[c].list[i] = NoModel

(* A deleted model comes back only through the Save of a request that read *)
(* it before the deletion; once those are over it is gone for good.        *)
ModelDeletionSticks ==
  [][\A i \in born \cap Models :
       model[i] = NoModel /\ Uncopied(i) => model'[i] = NoModel /\ Uncopied(i)']_vars

(* service_test.go, TestProviderModelCreateRejectsDuplicateNameAndModel-   *)
(* WithinProvider: within a provider neither a name nor a model name       *)
(* occurs twice, case and blanks aside.                                    *)
ModelsUnique ==
  \A i, j \in Models : i # j /\ model[i] # NoModel /\ model[i].provider = model[j].provider =>
    /\ Fold[model[i].name] # Fold[model[j].name]
    /\ Fold[model[i].model] # Fold[model[j].model]
=============================================================================
