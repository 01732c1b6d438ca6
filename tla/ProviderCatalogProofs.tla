------------------------ MODULE ProviderCatalogProofs ------------------------
(***************************************************************************)
(* The catalogue's types, and what a deleted provider leaves behind, for   *)
(* any number of providers, models, purposes, clients and failing calls;   *)
(* and what imports by ProviderPresets make of models, for any models,     *)
(* titles and presets installed.                                           *)
(***************************************************************************)
EXTENDS ProviderCatalog, ProviderPresets, SequenceTheorems, WellFoundedInduction, TLAPS

(* The rows that stand for none are not rows. *)
LEMMA NoRows ==
  /\ NoProvider \notin ProviderRow
  /\ NoModel \notin ModelRow
  /\ NoConfig \notin ConfigRow
  /\ NoModel.provider \notin Providers
  /\ NoModel.model \notin Names
  /\ NoConfig.provider \notin Providers
BY CatalogAssumption
DEF CatalogAssumption, NoProvider, NoModel, NoConfig, ProviderRow, ModelRow, ConfigRow

(* What a request holds at each of its calls. *)
Holds(r) ==
  /\ r.at \in {"create provider", "check new name"} => r.id = None /\ r.row \in ProviderRow
  /\ r.at \in {"check name", "update provider"} => r.id \in Providers /\ r.row \in ProviderRow
  /\ r.at \in {"delete configs", "delete models", "delete provider"} =>
       r.id \in Providers /\ r.row = None
  /\ r.at = "add model" => r.row \in ModelRow
  /\ r.at \in {"check model", "save model", "delete binding", "delete model"} =>
       r.id \in Models /\ r.row \in ModelRow
  /\ r.at = "list models" => r.id \in Providers /\ r.row = None
  /\ r.at = "sync" => r.id \in Providers /\ r.row = None
  /\ r.at = "sync" => r.list \in [Models -> ModelRow \cup {NoModel}]
  /\ r.at \in {"create config", "save config"} => r.id \in Purposes /\ r.row \in ConfigRow
  /\ IF r.at \in {"list models", "sync"} THEN r.todo \in Seq(Names) \ {<<>>}
     ELSE r.list = <<>> /\ r.todo = <<>>

(* A request has its five fields, and holds a list only while it imports. *)
LEMMA RequestAt ==
  ASSUME NEW r \in Requests
  PROVE  Holds(r) /\ r = [at |-> r.at, id |-> r.id, row |-> r.row, list |-> r.list, todo |-> r.todo]
<1>1. CASE r = Idle
  BY <1>1 DEF Idle, Request, Holds
<1>2. CASE r \in Stage({"create provider", "check new name"}, {None}, ProviderRow)
  BY <1>2 DEF Stage, Holds
<1>3. CASE r \in Stage({"check name", "update provider"}, Providers, ProviderRow)
  BY <1>3 DEF Stage, Holds
<1>4. CASE r \in Stage({"delete configs", "delete models", "delete provider"}, Providers, {None})
  BY <1>4 DEF Stage, Holds
<1>5. CASE r \in Stage({"add model"}, {None}, ModelRow)
  BY <1>5 DEF Stage, Holds
<1>6. CASE r \in Stage({"check model", "save model", "delete binding", "delete model"}, Models, ModelRow)
  BY <1>6 DEF Stage, Holds
<1>7. CASE r \in Sync({"list models"}, {<<>>})
  BY <1>7 DEF Sync, Holds
<1>8. CASE r \in Sync({"sync"}, [Models -> ModelRow \cup {NoModel}])
  BY <1>8 DEF Sync, Holds
<1>9. CASE r \in Stage({"create config", "save config"}, Purposes, ConfigRow)
  BY <1>9 DEF Stage, Holds
<1> QED
  BY <1>1, <1>2, <1>3, <1>4, <1>5, <1>6, <1>7, <1>8, <1>9 DEF Requests

(* The requests the actions make. *)
LEMMA RequestMade ==
  /\ Idle \in Requests
  /\ \A row \in ProviderRow :
       /\ Request("create provider", None, row) \in Requests
       /\ Request("check new name", None, row) \in Requests
  /\ \A p \in Providers, row \in ProviderRow :
       /\ Request("check name", p, row) \in Requests
       /\ Request("update provider", p, row) \in Requests
  /\ \A p \in Providers :
       /\ Request("delete configs", p, None) \in Requests
       /\ Request("delete models", p, None) \in Requests
       /\ Request("delete provider", p, None) \in Requests
  /\ \A row \in ModelRow : Request("add model", None, row) \in Requests
  /\ \A i \in Models, row \in ModelRow :
       /\ Request("check model", i, row) \in Requests
       /\ Request("save model", i, row) \in Requests
       /\ Request("delete binding", i, row) \in Requests
       /\ Request("delete model", i, row) \in Requests
  /\ \A u \in Purposes, row \in ConfigRow :
       /\ Request("create config", u, row) \in Requests
       /\ Request("save config", u, row) \in Requests
BY DEF Requests, Stage, Idle, Request

(* The requests of an import are requests. *)
LEMMA ImportMade ==
  ASSUME NEW p \in Providers, NEW todo \in Seq(Names) \ {<<>>}
  PROVE  /\ Import("list models", p, <<>>, todo) \in Requests
         /\ \A list \in [Models -> ModelRow \cup {NoModel}] : Import("sync", p, list, todo) \in Requests
BY DEF Requests, Sync, Import
-----------------------------------------------------------------------------
(* How an action moves the request of its client. *)
MovesTo(c, r) ==
  /\ r \in Requests
  /\ req' \in [Clients -> Requests]
  /\ req'[c] = r
  /\ \A d \in Clients \ {c} : req'[d] = req[d]

(* A request that begins, *)
LEMMA BeginMoves ==
  ASSUME TypeOK, NEW c \in Clients, NEW r \in Requests, Begin(c, r)
  PROVE  MovesTo(c, r)
BY DEF TypeOK, Begin, MovesTo

(* one that is answered, *)
LEMMA DoneMoves ==
  ASSUME TypeOK, NEW c \in Clients, Done(c)
  PROVE  MovesTo(c, Idle)
BY RequestMade DEF TypeOK, Done, MovesTo

(* and one that goes on, keeping what it holds. *)
LEMMA GotoMoves ==
  ASSUME TypeOK, NEW c \in Clients, NEW at, Goto(c, at),
         Request(at, req[c].id, req[c].row) \in Requests
  PROVE  MovesTo(c, Request(at, req[c].id, req[c].row))
BY DEF TypeOK, Goto, MovesTo

(* The loop of an import goes on or ends. *)
LEMMA SyncMoves ==
  ASSUME TypeOK, NEW c \in Clients, req[c].at = "sync",
         NEW list \in [Models -> ModelRow \cup {NoModel}], SyncNext(c, list)
  PROVE  \/ MovesTo(c, Idle)
         \/ MovesTo(c, Import("sync", req[c].id, list, Tail(req[c].todo)))
<1> DEFINE todo == req[c].todo
<1>1. req[c].id \in Providers /\ todo \in Seq(Names) \ {<<>>}
  BY RequestAt DEF Holds, TypeOK
<1>2. CASE Len(todo) = 1
  BY <1>2, RequestMade DEF SyncNext, MovesTo, TypeOK
<1>3. CASE Len(todo) # 1
  <2>1. Tail(todo) \in Seq(Names) \ {<<>>}
    <3> HIDE DEF todo
    <3>1. Len(todo) \in Nat /\ Len(todo) # 0
      BY <1>1, EmptySeq, LenProperties
    <3>2. Tail(todo) \in Seq(Names) /\ Len(Tail(todo)) = Len(todo) - 1
      BY <1>1, HeadTailProperties
    <3>3. Len(Tail(todo)) # 0
      BY <1>3, <3>1, <3>2
    <3> QED
      BY <3>2, <3>3, EmptySeq
  <2>2. Import("sync", req[c].id, list, Tail(todo)) \in Requests
    BY <1>1, <2>1, ImportMade
  <2> QED
    BY <1>3, <2>2 DEF SyncNext, MovesTo, TypeOK
<1> QED
  BY <1>2, <1>3
-----------------------------------------------------------------------------
NoModelsOf(p) == \A i \in Models : model[i].provider # p
NoConfigsOf(p) == \A u \in Purposes : config[u].provider # p

(* What the three deletes have achieved for p at each of their stages. *)
Cleared(p) ==
  /\ p \in born /\ provider[p] = NoProvider => NoConfigsOf(p) /\ NoModelsOf(p)
  /\ \A c \in Clients : req[c].id = p =>
       /\ req[c].at = "delete models" => NoConfigsOf(p)
       /\ req[c].at = "delete provider" => NoConfigsOf(p) /\ NoModelsOf(p)

(* An import only ever writes rows of its own provider. *)
OwnRows(r) == r.at = "sync" => \A i \in Models : r.list[i] # NoModel => r.list[i].provider = r.id

(* The inductive invariant. *)
CatalogInv ==
  /\ TypeOK
  /\ \A c \in Clients : OwnRows(req[c])
  /\ \A p \in Providers \ late : Cleared(p)

(* p has not come to be deleted, and no row of it was written. *)
Undisturbed(p) ==
  /\ p \in born' /\ provider'[p] = NoProvider => p \in born /\ provider[p] = NoProvider
  /\ NoModelsOf(p) => NoModelsOf(p)'
  /\ NoConfigsOf(p) => NoConfigsOf(p)'

(* A step that begins no clean-up and disturbs no provider other than by a *)
(* late write keeps the invariant.                                         *)
LEMMA Harmless ==
  ASSUME CatalogInv, TypeOK', NEW c \in Clients, NEW r, MovesTo(c, r), OwnRows(r),
         r.at \notin {"delete models", "delete provider"}, late \subseteq late',
         \A p \in Providers \ late' :
           Undisturbed(p) \/ (~Leaving(p) /\ born' \cap Providers = born \cap Providers /\ provider' = provider)
  PROVE  CatalogInv'
<1>1. \A d \in Clients : OwnRows(req'[d])
  BY DEF CatalogInv, MovesTo, OwnRows
<1>2. ASSUME NEW p \in Providers, p \notin late' PROVE Cleared(p)'
  <2>1. Cleared(p)
    BY <1>2 DEF CatalogInv
  <2>2. \A d \in Clients : req'[d].at \in {"delete models", "delete provider"} => req'[d] = req[d]
    BY DEF MovesTo
  <2>3. CASE Undisturbed(p)
    BY <2>1, <2>2, <2>3 DEF Cleared, Undisturbed
  <2>4. CASE ~Leaving(p) /\ born' \cap Providers = born \cap Providers /\ provider' = provider
    BY <2>2, <2>4 DEF Cleared, Leaving
  <2> QED
    BY <1>2, <2>3, <2>4
<1> QED
  BY <1>1, <1>2 DEF CatalogInv, OwnRows

(* A call that only reads, or fails. *)
LEMMA Reads ==
  ASSUME CatalogInv, NEW c \in Clients, NEW r, MovesTo(c, r), OwnRows(r),
         r.at \notin {"delete models", "delete provider"},
         UNCHANGED <<provider, model, config, born, late>>, faults' \in 0..MaxFaults
  PROVE  CatalogInv'
<1>1. TypeOK'
  BY DEF CatalogInv, TypeOK, MovesTo
<1>2. \A p \in Providers : Undisturbed(p)
  BY DEF Undisturbed, NoModelsOf, NoConfigsOf
<1> QED
  BY <1>1, <1>2, Harmless

(* Requests other than an import have no list of rows. *)
LEMMA NoList ==
  ASSUME NEW at, at # "sync", NEW id, NEW row
  PROVE  OwnRows(Request(at, id, row)) /\ Request(at, id, row).at = at
BY DEF OwnRows, Request

(* A client without a request owes nothing. *)
LEMMA IdleIsDone ==
  OwnRows(Idle) /\ Idle.at \notin {"delete models", "delete provider"}
BY DEF OwnRows, Idle, Request
-----------------------------------------------------------------------------
(* The steps on providers that only read or give up. *)
LEMMA ReadsOfProviders ==
  ASSUME CatalogInv, NEW c \in Clients,
         \/ \E n \in ProviderNames, b \in BOOLEAN : ProviderCreate(c, n, b)
         \/ \E p \in Providers, n \in ProviderNames : ProviderUpdateGet(c, p, n)
         \/ PresetInstall(c) \/ PresetAddCheck(c) \/ ProviderUpdateCheck(c)
         \/ \E p \in Providers : ProviderDelete(c, p)
         \/ CallFails(c)
  PROVE  CatalogInv'
<1> USE DEF CatalogInv
<1>0. faults \in 0..MaxFaults /\ MaxFaults \in Nat /\ req[c] \in Requests
  BY CatalogAssumption DEF TypeOK, CatalogAssumption
<1>1. ASSUME NEW n \in ProviderNames, NEW b \in BOOLEAN, ProviderCreate(c, n, b) PROVE CatalogInv'
  <2>1. [name |-> n, preset |-> b] \in ProviderRow
    BY DEF ProviderRow
  <2>2. MovesTo(c, Request("create provider", None, [name |-> n, preset |-> b]))
    BY <1>1, <2>1, RequestMade, BeginMoves DEF ProviderCreate
  <2> QED
    BY <1>0, <1>1, <2>2, NoList, Reads DEF ProviderCreate
<1>2. ASSUME NEW p \in Providers, NEW n \in ProviderNames, ProviderUpdateGet(c, p, n) PROVE CatalogInv'
  <2>1. provider[p] \in ProviderRow
    BY <1>2 DEF ProviderUpdateGet, TypeOK
  <2>2. [provider[p] EXCEPT !.name = n] \in ProviderRow
    BY <2>1 DEF ProviderRow
  <2>3. MovesTo(c, Request("check name", p, [provider[p] EXCEPT !.name = n]))
    BY <1>2, <2>2, RequestMade, BeginMoves DEF ProviderUpdateGet
  <2> QED
    BY <1>0, <1>2, <2>3, NoList, Reads DEF ProviderUpdateGet
<1>3. CASE PresetInstall(c)
  <2> DEFINE row == [name |-> PresetName, preset |-> TRUE]
  <2>1. row \in ProviderRow
    BY CatalogAssumption DEF CatalogAssumption, ProviderRow
  <2>2. \/ \E p \in Providers : MovesTo(c, Request("check name", p, row))
        \/ MovesTo(c, Request("check new name", None, row))
    BY <1>3, <2>1, RequestMade, BeginMoves DEF PresetInstall
  <2> QED
    BY <1>0, <1>3, <2>2, NoList, Reads DEF PresetInstall
<1>4. CASE PresetAddCheck(c)
  <2>1. req[c].id = None /\ req[c].row \in ProviderRow
    BY <1>0, <1>4, RequestAt DEF PresetAddCheck, Holds
  <2>2. Request("create provider", req[c].id, req[c].row) \in Requests
    BY <2>1, RequestMade
  <2>3. \/ MovesTo(c, Request("create provider", req[c].id, req[c].row))
        \/ MovesTo(c, Idle)
    BY <1>4, <2>2, GotoMoves, DoneMoves DEF PresetAddCheck
  <2> QED
    BY <1>0, <1>4, <2>3, NoList, IdleIsDone, Reads DEF PresetAddCheck
<1>5. CASE ProviderUpdateCheck(c)
  <2>1. req[c].id \in Providers /\ req[c].row \in ProviderRow
    BY <1>0, <1>5, RequestAt DEF ProviderUpdateCheck, Holds
  <2>2. Request("update provider", req[c].id, req[c].row) \in Requests
    BY <2>1, RequestMade
  <2>3. \/ MovesTo(c, Request("update provider", req[c].id, req[c].row))
        \/ MovesTo(c, Idle)
    BY <1>5, <2>2, GotoMoves, DoneMoves DEF ProviderUpdateCheck
  <2> QED
    BY <1>0, <1>5, <2>3, NoList, IdleIsDone, Reads DEF ProviderUpdateCheck
<1>6. ASSUME NEW p \in Providers, ProviderDelete(c, p) PROVE CatalogInv'
  <2>1. MovesTo(c, Request("delete configs", p, None))
    BY <1>6, RequestMade, BeginMoves DEF ProviderDelete
  <2> QED
    BY <1>0, <1>6, <2>1, NoList, Reads DEF ProviderDelete
<1>7. CASE CallFails(c)
  <2>1. MovesTo(c, Idle)
    BY <1>7, DoneMoves DEF CallFails
  <2>2. faults' \in 0..MaxFaults
    BY <1>0, <1>7 DEF CallFails
  <2> QED
    BY <1>7, <2>1, <2>2, IdleIsDone, Reads DEF CallFails
<1> QED
  BY <1>1, <1>2, <1>3, <1>4, <1>5, <1>6, <1>7

(* The insert and the update of a provider. *)
LEMMA WritesOfProviders ==
  ASSUME CatalogInv, NEW c \in Clients,
         ProviderUpdateWrite(c) \/ \E p \in Providers : ProviderInsert(c, p)
  PROVE  CatalogInv'
<1>0. TypeOK /\ req[c] \in Requests /\ Providers \cap Models = {}
  BY CatalogAssumption DEF CatalogInv, TypeOK, CatalogAssumption
<1>1. ASSUME NEW p \in Providers, ProviderInsert(c, p) PROVE CatalogInv'
  <2>1. MovesTo(c, Idle)
    BY <1>0, <1>1, DoneMoves DEF ProviderInsert
  <2>2. req[c].row \in ProviderRow
    BY <1>0, <1>1, RequestAt DEF ProviderInsert, Holds
  <2>3. TypeOK'
    BY <1>0, <1>1, <2>1, <2>2 DEF ProviderInsert, TypeOK, MovesTo
  <2>4. \A q \in Providers : Undisturbed(q)
    BY <1>0, <1>1, <2>2, NoRows DEF ProviderInsert, TypeOK, Undisturbed, NoModelsOf, NoConfigsOf
  <2> QED
    BY <1>1, <2>1, <2>3, <2>4, IdleIsDone, Harmless DEF ProviderInsert
<1>2. CASE ProviderUpdateWrite(c)
  <2>1. MovesTo(c, Idle)
    BY <1>0, <1>2, DoneMoves DEF ProviderUpdateWrite
  <2>2. req[c].id \in Providers /\ req[c].row \in ProviderRow
    BY <1>0, <1>2, RequestAt DEF ProviderUpdateWrite, Holds
  <2>3. TypeOK'
    BY <1>0, <1>2, <2>1, <2>2 DEF ProviderUpdateWrite, TypeOK, MovesTo
  <2>4. \A q \in Providers : Undisturbed(q)
    BY <1>0, <1>2, <2>2, NoRows DEF ProviderUpdateWrite, TypeOK, Undisturbed, NoModelsOf, NoConfigsOf
  <2> QED
    BY <1>2, <2>1, <2>3, <2>4, IdleIsDone, Harmless DEF ProviderUpdateWrite
<1> QED
  BY <1>1, <1>2

(* A request that moves to a stage is there. *)
LEMMA Arrives ==
  ASSUME NEW c, NEW at, at # "sync", NEW p, MovesTo(c, Request(at, p, None))
  PROVE  req'[c].at = at /\ req'[c].id = p /\ OwnRows(req'[c])
BY DEF MovesTo, Request, OwnRows

(* The three deletes of ProviderDelete: each leaves what its stage says. *)
LEMMA Deletes ==
  ASSUME CatalogInv, NEW c \in Clients,
         DeleteConfigs(c) \/ DeleteModels(c) \/ DeleteProvider(c)
  PROVE  CatalogInv'
<1> req[c].id \in Providers /\ req[c].row = None
  BY RequestAt DEF CatalogInv, TypeOK, Holds, DeleteConfigs, DeleteModels, DeleteProvider
<1> PICK p \in Providers : p = req[c].id
  OBVIOUS
<1>0. TypeOK
  BY DEF CatalogInv
<1>1. NoConfig.provider # p /\ NoModel.provider # p
      /\ \A q \in Providers : NoConfig.provider # q /\ NoModel.provider # q
  BY <1>0, NoRows
<1>2. CASE DeleteConfigs(c)
  <2>1. MovesTo(c, Request("delete models", p, None))
    BY <1>0, <1>2, RequestMade, GotoMoves DEF DeleteConfigs
  <2>2. TypeOK'
    BY <1>0, <1>2, <2>1 DEF DeleteConfigs, TypeOK, MovesTo
  <2>3. \A q \in Providers : NoConfigsOf(q) => NoConfigsOf(q)'
    BY <1>1, <1>2 DEF DeleteConfigs, NoConfigsOf
  <2>4. NoConfigsOf(p)'
    BY <1>1, <1>2 DEF DeleteConfigs, NoConfigsOf
  <2>5. \A q \in Providers : NoModelsOf(q) => NoModelsOf(q)'
    BY <1>2 DEF DeleteConfigs, NoModelsOf
  <2>6. req'[c].at = "delete models" /\ req'[c].id = p /\ OwnRows(req'[c])
    BY <2>1, Arrives
  <2>7. ASSUME NEW q \in Providers, q \notin late' PROVE Cleared(q)'
    <3>1. Cleared(q)
      BY <1>2, <2>7 DEF CatalogInv, DeleteConfigs
    <3> QED
      BY <1>2, <2>1, <2>3, <2>4, <2>5, <2>6, <2>7, <3>1 DEF Cleared, DeleteConfigs, MovesTo
  <2> QED
    BY <2>1, <2>2, <2>6, <2>7 DEF CatalogInv, MovesTo, OwnRows
<1>3. CASE DeleteModels(c)
  <2>1. MovesTo(c, Request("delete provider", p, None))
    BY <1>0, <1>3, RequestMade, GotoMoves DEF DeleteModels
  <2>2. TypeOK'
    BY <1>0, <1>3, <2>1 DEF DeleteModels, TypeOK, MovesTo
  <2>3. \A q \in Providers : NoModelsOf(q) => NoModelsOf(q)'
    BY <1>1, <1>3 DEF DeleteModels, NoModelsOf
  <2>4. NoModelsOf(p)'
    BY <1>1, <1>3 DEF DeleteModels, NoModelsOf
  <2>5. \A q \in Providers : NoConfigsOf(q) => NoConfigsOf(q)'
    BY <1>3 DEF DeleteModels, NoConfigsOf
  <2>6. req'[c].at = "delete provider" /\ req'[c].id = p /\ OwnRows(req'[c])
    BY <2>1, Arrives
  <2>7. ASSUME NEW q \in Providers, q \notin late' PROVE Cleared(q)'
    <3>1. Cleared(q) /\ req[c].at = "delete models"
      BY <1>3, <2>7 DEF CatalogInv, DeleteModels
    <3> QED
      BY <1>3, <2>1, <2>3, <2>4, <2>5, <2>6, <2>7, <3>1 DEF Cleared, DeleteModels, MovesTo
  <2> QED
    BY <2>1, <2>2, <2>6, <2>7 DEF CatalogInv, MovesTo, OwnRows
<1>4. CASE DeleteProvider(c)
  <2>1. MovesTo(c, Idle)
    BY <1>0, <1>4, DoneMoves DEF DeleteProvider
  <2>2. TypeOK'
    BY <1>0, <1>4, <2>1 DEF DeleteProvider, TypeOK, MovesTo
  <2>3. \A q \in Providers : provider'[q] = IF q = p THEN NoProvider ELSE provider[q]
    BY <1>0, <1>4 DEF DeleteProvider, TypeOK
  <2>4. \A q \in Providers : (NoModelsOf(q) => NoModelsOf(q)') /\ (NoConfigsOf(q) => NoConfigsOf(q)')
    BY <1>4 DEF DeleteProvider, NoModelsOf, NoConfigsOf
  <2>5. ASSUME NEW q \in Providers, q \notin late' PROVE Cleared(q)'
    <3>1. Cleared(q) /\ req[c].at = "delete provider"
      BY <1>4, <2>5 DEF CatalogInv, DeleteProvider
    <3> QED
      BY <1>4, <2>1, <2>3, <2>4, <2>5, <3>1, IdleIsDone DEF Cleared, DeleteProvider, MovesTo
  <2> QED
    BY <2>1, <2>2, <2>5, IdleIsDone DEF CatalogInv, MovesTo, OwnRows
<1> QED
  BY <1>2, <1>3, <1>4
-----------------------------------------------------------------------------
(* The steps on models that only read. *)
LEMMA ReadsOfModels ==
  ASSUME CatalogInv, NEW c \in Clients,
         \/ \E p \in Providers, n, v \in Names : ModelCreate(c, p, n, v)
         \/ \E i \in Models, n, v \in Names : ModelUpdateGet(c, i, n, v)
         \/ ModelUpdateCheck(c)
         \/ \E i \in Models : ModelDelete(c, i)
         \/ \E p \in Providers, remote \in RemoteLists : SyncGet(c, p, remote)
         \/ SyncList(c)
         \/ \E u \in Purposes, p \in Providers, i \in Models \cup {None} : UpsertFirst(c, u, p, i)
  PROVE  CatalogInv'
<1>0. TypeOK /\ faults \in 0..MaxFaults /\ req[c] \in Requests
  BY DEF CatalogInv, TypeOK
<1>1. ASSUME NEW p \in Providers, NEW n \in Names, NEW v \in Names, ModelCreate(c, p, n, v)
      PROVE  CatalogInv'
  <2>1. [provider |-> p, name |-> n, model |-> v] \in ModelRow
    BY DEF ModelRow
  <2>2. MovesTo(c, Request("add model", None, [provider |-> p, name |-> n, model |-> v]))
    BY <1>0, <1>1, <2>1, RequestMade, BeginMoves DEF ModelCreate
  <2> QED
    BY <1>0, <1>1, <2>2, NoList, Reads DEF ModelCreate
<1>2. ASSUME NEW i \in Models, NEW n \in Names, NEW v \in Names, ModelUpdateGet(c, i, n, v)
      PROVE  CatalogInv'
  <2>1. model[i] \in ModelRow
    BY <1>0, <1>2 DEF ModelUpdateGet, TypeOK
  <2>2. [model[i] EXCEPT !.name = n, !.model = v] \in ModelRow
    BY <2>1 DEF ModelRow
  <2>3. MovesTo(c, Request("check model", i, [model[i] EXCEPT !.name = n, !.model = v]))
    BY <1>0, <1>2, <2>2, RequestMade, BeginMoves DEF ModelUpdateGet
  <2> QED
    BY <1>0, <1>2, <2>3, NoList, Reads DEF ModelUpdateGet
<1>3. CASE ModelUpdateCheck(c)
  <2>1. req[c].id \in Models /\ req[c].row \in ModelRow
    BY <1>0, <1>3, RequestAt DEF ModelUpdateCheck, Holds
  <2>2. Request("save model", req[c].id, req[c].row) \in Requests
    BY <2>1, RequestMade
  <2>3. MovesTo(c, Request("save model", req[c].id, req[c].row)) \/ MovesTo(c, Idle)
    BY <1>0, <1>3, <2>2, GotoMoves, DoneMoves DEF ModelUpdateCheck
  <2> QED
    BY <1>0, <1>3, <2>3, NoList, IdleIsDone, Reads DEF ModelUpdateCheck
<1>4. ASSUME NEW i \in Models, ModelDelete(c, i) PROVE CatalogInv'
  <2>1. model[i] \in ModelRow
    BY <1>0, <1>4 DEF ModelDelete, TypeOK
  <2>2. MovesTo(c, Request("delete binding", i, model[i]))
    BY <1>0, <1>4, <2>1, RequestMade, BeginMoves DEF ModelDelete
  <2> QED
    BY <1>0, <1>4, <2>2, NoList, Reads DEF ModelDelete
<1>5. ASSUME NEW p \in Providers, NEW remote \in RemoteLists, SyncGet(c, p, remote) PROVE CatalogInv'
  <2> DEFINE r == Import("list models", p, <<>>, remote)
  <2>1. r \in Requests
    BY CatalogAssumption, ImportMade DEF CatalogAssumption
  <2>2. r.at = "list models" /\ OwnRows(r)
    BY DEF Import, OwnRows
  <2>3. MovesTo(c, r)
    BY <1>0, <1>5, <2>1, BeginMoves DEF SyncGet
  <2> HIDE DEF r
  <2> QED
    BY <1>0, <1>5, <2>2, <2>3, Reads DEF SyncGet
<1>6. CASE SyncList(c)
  <2> DEFINE list == [i \in Models |-> IF i \in ModelsOf(req[c].id) THEN model[i] ELSE NoModel]
             r == Import("sync", req[c].id, list, req[c].todo)
  <2>1. req[c].id \in Providers /\ req[c].todo \in Seq(Names) \ {<<>>}
    BY <1>0, <1>6, RequestAt DEF SyncList, Holds
  <2>2. list \in [Models -> ModelRow \cup {NoModel}]
    BY <1>0 DEF TypeOK
  <2>3. r \in Requests
    BY <2>1, <2>2, ImportMade
  <2>4. \A i \in Models : list[i] # NoModel => list[i].provider = req[c].id
    BY DEF ModelsOf
  <2>5. r.at = "sync" /\ OwnRows(r)
    <3> HIDE DEF list
    <3> QED
      BY <2>4 DEF Import, OwnRows
  <2>6. MovesTo(c, r)
    BY <1>0, <1>6, <2>3 DEF SyncList, MovesTo, TypeOK
  <2> HIDE DEF r
  <2> QED
    BY <1>0, <1>6, <2>5, <2>6, Reads DEF SyncList
<1>7. ASSUME NEW u \in Purposes, NEW p \in Providers, NEW i \in Models \cup {None},
             UpsertFirst(c, u, p, i)
      PROVE  CatalogInv'
  <2> DEFINE row == [provider |-> p, model |-> i]
  <2>1. row \in ConfigRow
    BY DEF ConfigRow
  <2>2. MovesTo(c, Request("create config", u, row)) \/ MovesTo(c, Request("save config", u, row))
    BY <1>0, <1>7, <2>1, RequestMade, BeginMoves DEF UpsertFirst
  <2> QED
    BY <1>0, <1>7, <2>2, NoList, Reads DEF UpsertFirst
<1> QED
  BY <1>1, <1>2, <1>3, <1>4, <1>5, <1>6, <1>7

(* One row that names q is written: q was not being deleted, or is late. *)
LEMMA RowWritten ==
  ASSUME CatalogInv, TypeOK', NEW c \in Clients, NEW r, MovesTo(c, r), OwnRows(r),
         r.at \notin {"delete models", "delete provider"}, NEW q \in Providers, WriteFor(q),
         provider' = provider, born' \cap Providers = born \cap Providers,
         \A i \in Models : model'[i] = model[i] \/ model'[i].provider = q,
         \A u \in Purposes : config'[u] = config[u] \/ config'[u].provider = q
  PROVE  CatalogInv'
<1>1. late \subseteq late' /\ (q \notin late' => ~Leaving(q))
  BY DEF WriteFor
<1>2. \A p \in Providers \ {q} : Undisturbed(p)
  BY DEF Undisturbed, NoModelsOf, NoConfigsOf
<1> QED
  BY <1>1, <1>2, Harmless

(* The writes of a model, by a request or an import. *)
LEMMA WritesOfModels ==
  ASSUME CatalogInv, NEW c \in Clients,
         \/ ModelSave(c) \/ SyncUpdate(c)
         \/ \E i \in Models : ModelAdd(c, i) \/ SyncAdd(c, i)
  PROVE  CatalogInv'
<1>0. TypeOK /\ req[c] \in Requests /\ OwnRows(req[c]) /\ Providers \cap Models = {}
  BY CatalogAssumption DEF CatalogInv, TypeOK, CatalogAssumption
<1>1. \A row \in ModelRow : row.provider \in Providers
  BY DEF ModelRow
<1>2. ASSUME NEW i \in Models, ModelAdd(c, i) PROVE CatalogInv'
  <2>1. MovesTo(c, Idle)
    BY <1>0, <1>2, DoneMoves DEF ModelAdd
  <2>2. req[c].row \in ModelRow /\ req[c].row.provider \in Providers
    BY <1>0, <1>1, <1>2, RequestAt DEF ModelAdd, Holds
  <2>3. TypeOK'
    BY <1>0, <1>2, <2>1, <2>2 DEF ModelAdd, TypeOK, MovesTo, WriteFor
  <2>4. \A j \in Models : model'[j] = model[j] \/ model'[j].provider = req[c].row.provider
    BY <1>0, <1>2 DEF ModelAdd, TypeOK
  <2>5. WriteFor(req[c].row.provider) /\ provider' = provider /\ config' = config
        /\ born' \cap Providers = born \cap Providers
    BY <1>0, <1>2 DEF ModelAdd
  <2> QED
    BY <2>1, <2>2, <2>3, <2>4, <2>5, IdleIsDone, RowWritten
<1>3. CASE ModelSave(c)
  <2>1. MovesTo(c, Idle)
    BY <1>0, <1>3, DoneMoves DEF ModelSave
  <2>2. req[c].id \in Models /\ req[c].row \in ModelRow /\ req[c].row.provider \in Providers
    BY <1>0, <1>1, <1>3, RequestAt DEF ModelSave, Holds
  <2>3. TypeOK'
    BY <1>0, <1>3, <2>1, <2>2 DEF ModelSave, TypeOK, MovesTo, WriteFor
  <2>4. \A j \in Models : model'[j] = model[j] \/ model'[j].provider = req[c].row.provider
    BY <1>0, <1>3, <2>2 DEF ModelSave, TypeOK
  <2>5. WriteFor(req[c].row.provider) /\ provider' = provider /\ config' = config /\ born' = born
    BY <1>3 DEF ModelSave
  <2> QED
    BY <2>1, <2>2, <2>3, <2>4, <2>5, IdleIsDone, RowWritten
<1>4. ASSUME NEW i \in Models, SyncAdd(c, i) PROVE CatalogInv'
  <2> DEFINE v == Head(req[c].todo)
             row == [provider |-> req[c].id, name |-> v, model |-> v]
             next == Import("sync", req[c].id, req[c].list, Tail(req[c].todo))
  <2>0. req[c].at = "sync"
    BY <1>4 DEF SyncAdd
  <2>1. /\ req[c].id \in Providers /\ req[c].todo \in Seq(Names) \ {<<>>}
        /\ req[c].list \in [Models -> ModelRow \cup {NoModel}]
    BY <1>0, <2>0, RequestAt DEF Holds
  <2>2. row \in ModelRow /\ row.provider = req[c].id
    <3>1. v \in Names
      BY <2>1, HeadTailProperties
    <3> HIDE DEF v
    <3> QED
      BY <2>1, <3>1 DEF ModelRow
  <2>3. MovesTo(c, Idle) \/ MovesTo(c, next)
    BY <1>0, <1>4, <2>0, <2>1, SyncMoves DEF SyncAdd
  <2>4. OwnRows(next) /\ next.at = "sync"
    BY <1>0, <2>0 DEF OwnRows, Import
  <2> HIDE DEF next, row
  <2>5. model' = [model EXCEPT ![i] = row]
    BY <1>4 DEF SyncAdd, row
  <2>6. WriteFor(req[c].id) /\ provider' = provider /\ config' = config /\ faults' = faults
        /\ born' = born \cup {i} /\ born' \cap Providers = born \cap Providers
    BY <1>0, <1>4 DEF SyncAdd
  <2>7. TypeOK'
    BY <1>0, <2>1, <2>2, <2>3, <2>5, <2>6 DEF TypeOK, MovesTo, WriteFor
  <2>8. \A j \in Models : model'[j] = model[j] \/ model'[j].provider = req[c].id
    BY <1>0, <2>2, <2>5 DEF TypeOK
  <2>9. PICK r : MovesTo(c, r) /\ OwnRows(r) /\ r.at \notin {"delete models", "delete provider"}
    BY <2>3, <2>4, IdleIsDone
  <2> QED
    BY <2>1, <2>6, <2>7, <2>8, <2>9, RowWritten
<1>5. CASE SyncUpdate(c)
  <2> DEFINE v == Head(req[c].todo)
  <2>0. req[c].at = "sync"
    BY <1>5 DEF SyncUpdate
  <2>1. /\ req[c].id \in Providers /\ req[c].todo \in Seq(Names) \ {<<>>}
        /\ req[c].list \in [Models -> ModelRow \cup {NoModel}]
    BY <1>0, <2>0, RequestAt DEF Holds
  <2>2. v \in Names
    BY <2>1, HeadTailProperties
  <2>3. provider' = provider /\ config' = config /\ born' = born /\ faults' = faults
    BY <1>5 DEF SyncUpdate
  <2>4. PICK i \in Listed(c, v) :
          LET row == [req[c].list[i] EXCEPT !.name = v] IN
          \/ /\ model' = [model EXCEPT ![i] = row]
             /\ WriteFor(req[c].id)
             /\ SyncNext(c, [req[c].list EXCEPT ![i] = row])
          \/ /\ model' = model /\ late' = late
             /\ SyncNext(c, req[c].list)
    BY <1>5 DEF SyncUpdate
  <2> HIDE DEF v
  <2>5. i \in Models /\ req[c].list[i] \in ModelRow /\ req[c].list[i].provider = req[c].id
    BY <1>0, <2>0, <2>1, <2>2, NoRows DEF Listed, OwnRows
  <2>6. CASE model' = model /\ late' = late /\ SyncNext(c, req[c].list)
    <3> DEFINE next == Import("sync", req[c].id, req[c].list, Tail(req[c].todo))
    <3>1. MovesTo(c, Idle) \/ MovesTo(c, next)
      BY <1>0, <2>0, <2>1, <2>6, SyncMoves
    <3>2. OwnRows(next) /\ next.at = "sync"
      BY <1>0, <2>0 DEF OwnRows, Import
    <3> HIDE DEF next
    <3>3. PICK r : MovesTo(c, r) /\ OwnRows(r) /\ r.at \notin {"delete models", "delete provider"}
      BY <3>1, <3>2, IdleIsDone
    <3> QED
      BY <1>0, <2>3, <2>6, <3>3, Reads DEF TypeOK
  <2>7. CASE /\ model' = [model EXCEPT ![i] = [req[c].list[i] EXCEPT !.name = v]]
             /\ WriteFor(req[c].id)
             /\ SyncNext(c, [req[c].list EXCEPT ![i] = [req[c].list[i] EXCEPT !.name = v]])
    <3> DEFINE row == [req[c].list[i] EXCEPT !.name = v]
               list == [req[c].list EXCEPT ![i] = row]
               next == Import("sync", req[c].id, list, Tail(req[c].todo))
    <3>1. row \in ModelRow /\ row.provider = req[c].id
      BY <2>2, <2>5 DEF ModelRow
    <3> HIDE DEF row
    <3>2. list \in [Models -> ModelRow \cup {NoModel}]
      BY <2>1, <3>1
    <3>3. \A j \in Models : list[j] # NoModel => list[j].provider = req[c].id
      BY <1>0, <2>0, <2>1, <3>1 DEF OwnRows
    <3>4. SyncNext(c, list) /\ model' = [model EXCEPT ![i] = row]
      BY <2>7 DEF row
    <3> HIDE DEF list
    <3>5. MovesTo(c, Idle) \/ MovesTo(c, next)
      BY <1>0, <2>0, <3>2, <3>4, SyncMoves
    <3>6. OwnRows(next) /\ next.at = "sync"
      BY <3>3 DEF OwnRows, Import
    <3> HIDE DEF next
    <3>7. TypeOK'
      BY <1>0, <2>1, <2>3, <2>5, <2>7, <3>1, <3>4, <3>5 DEF TypeOK, MovesTo, WriteFor
    <3>8. \A j \in Models : model'[j] = model[j] \/ model'[j].provider = req[c].id
      BY <1>0, <3>1, <3>4 DEF TypeOK
    <3>9. PICK r : MovesTo(c, r) /\ OwnRows(r) /\ r.at \notin {"delete models", "delete provider"}
      BY <3>5, <3>6, IdleIsDone
    <3> QED
      BY <2>1, <2>3, <2>7, <3>7, <3>8, <3>9, RowWritten
  <2> QED
    BY <2>4, <2>6, <2>7
<1> QED
  BY <1>2, <1>3, <1>4, <1>5

(* Deleting a model, and binding one to a purpose. *)
LEMMA OtherWrites ==
  ASSUME CatalogInv, NEW c \in Clients,
         DeleteBindings(c) \/ DeleteModel(c) \/ ConfigCreate(c) \/ ConfigSave(c)
  PROVE  CatalogInv'
<1>0. TypeOK /\ req[c] \in Requests
  BY DEF CatalogInv, TypeOK
<1>1. \A p \in Providers : NoConfig.provider # p /\ NoModel.provider # p
  BY NoRows
<1>2. CASE DeleteBindings(c)
  <2>1. req[c].id \in Models /\ req[c].row \in ModelRow
    BY <1>0, <1>2, RequestAt DEF DeleteBindings, Holds
  <2>2. MovesTo(c, Request("delete model", req[c].id, req[c].row))
    BY <1>0, <1>2, <2>1, RequestMade, GotoMoves DEF DeleteBindings
  <2>3. TypeOK'
    BY <1>0, <1>2, <2>2 DEF DeleteBindings, TypeOK, MovesTo
  <2>4. \A p \in Providers : Undisturbed(p)
    BY <1>1, <1>2 DEF DeleteBindings, Undisturbed, NoModelsOf, NoConfigsOf
  <2> QED
    BY <1>2, <2>2, <2>3, <2>4, NoList, Harmless DEF DeleteBindings
<1>3. CASE DeleteModel(c)
  <2>1. req[c].id \in Models /\ req[c].row \in ModelRow
    BY <1>0, <1>3, RequestAt DEF DeleteModel, Holds
  <2>2. MovesTo(c, Idle)
    BY <1>0, <1>3, DoneMoves DEF DeleteModel
  <2>3. \A i \in Models : model'[i] = model[i] \/ model'[i] = NoModel
    BY <1>0, <1>3 DEF DeleteModel, TypeOK
  <2>4. TypeOK'
    BY <1>0, <1>3, <2>1, <2>2 DEF DeleteModel, TypeOK, MovesTo
  <2>5. \A p \in Providers : Undisturbed(p)
    BY <1>1, <1>3, <2>3 DEF DeleteModel, Undisturbed, NoModelsOf, NoConfigsOf
  <2> QED
    BY <1>3, <2>2, <2>4, <2>5, IdleIsDone, Harmless DEF DeleteModel
<1>4. CASE ConfigCreate(c) \/ ConfigSave(c)
  <2>1. req[c].id \in Purposes /\ req[c].row \in ConfigRow
    BY <1>0, <1>4, RequestAt DEF ConfigCreate, ConfigSave, Holds
  <2>2. req[c].row.provider \in Providers
    BY <2>1 DEF ConfigRow
  <2>3. MovesTo(c, Idle)
    BY <1>0, <1>4, DoneMoves DEF ConfigCreate, ConfigSave
  <2>4. /\ provider' = provider /\ model' = model /\ born' = born /\ faults' = faults
        /\ \/ config' = config /\ late' = late
           \/ config' = [config EXCEPT ![req[c].id] = req[c].row] /\ WriteFor(req[c].row.provider)
    BY <1>4 DEF ConfigCreate, ConfigSave
  <2>5. CASE config' = config /\ late' = late
    BY <1>0, <2>3, <2>4, <2>5, IdleIsDone, Reads DEF TypeOK
  <2>6. CASE config' = [config EXCEPT ![req[c].id] = req[c].row] /\ WriteFor(req[c].row.provider)
    <3>1. TypeOK'
      BY <1>0, <2>1, <2>2, <2>3, <2>4, <2>6 DEF TypeOK, MovesTo, WriteFor
    <3>2. \A u \in Purposes : config'[u] = config[u] \/ config'[u].provider = req[c].row.provider
      BY <1>0, <2>1, <2>6 DEF TypeOK
    <3> QED
      BY <2>2, <2>3, <2>4, <2>6, <3>1, <3>2, IdleIsDone, RowWritten
  <2> QED
    BY <2>4, <2>5, <2>6
<1> QED
  BY <1>2, <1>3, <1>4
-----------------------------------------------------------------------------
(* The invariant holds initially, *)
LEMMA CatalogInit == Init => CatalogInv
<1> SUFFICES ASSUME Init PROVE CatalogInv
  OBVIOUS
<1>1. TypeOK
  <2>1. Idle \in Requests
    BY RequestMade
  <2>2. faults \in 0..MaxFaults
    BY CatalogAssumption DEF CatalogAssumption, Init
  <2> QED
    BY <2>1, <2>2 DEF Init, TypeOK
<1>2. \A c \in Clients : OwnRows(req[c])
  BY IdleIsDone DEF Init
<1>3. \A p \in Providers : Cleared(p)
  BY NoRows DEF Init, Cleared, NoModelsOf, NoConfigsOf
<1> QED
  BY <1>1, <1>2, <1>3 DEF CatalogInv

(* and every step keeps it. *)
LEMMA CatalogStep == CatalogInv /\ [Next]_vars => CatalogInv'
<1> SUFFICES ASSUME CatalogInv, [Next]_vars PROVE CatalogInv'
  OBVIOUS
<1>1. ASSUME NEW c \in Clients, ProviderStep(c) PROVE CatalogInv'
  BY <1>1, ReadsOfProviders, WritesOfProviders, Deletes DEF ProviderStep
<1>2. ASSUME NEW c \in Clients, ModelStep(c) PROVE CatalogInv'
  BY <1>2, ReadsOfModels, WritesOfModels, OtherWrites DEF ModelStep
<1>3. ASSUME NEW c \in Clients, ConfigStep(c) PROVE CatalogInv'
  BY <1>3, ReadsOfModels, OtherWrites DEF ConfigStep
<1>4. ASSUME NEW c \in Clients, CallFails(c) PROVE CatalogInv'
  BY <1>4, ReadsOfProviders
<1>5. CASE UNCHANGED vars
  BY <1>5 DEF CatalogInv, TypeOK, OwnRows, Cleared, NoModelsOf, NoConfigsOf, vars
<1> QED
  BY <1>1, <1>2, <1>3, <1>4, <1>5 DEF Next

(* The invariant holds in every behaviour. *)
THEOREM CatalogInvariant == Spec => []CatalogInv
BY CatalogInit, CatalogStep, PTL DEF Spec

(* Tables, requests in progress and their copies of rows keep their types. *)
THEOREM CatalogTypeCorrect == Spec => []TypeOK
<1>1. CatalogInv => TypeOK
  BY DEF CatalogInv
<1> QED
  BY <1>1, CatalogInvariant, PTL

(* ProviderDelete, at any number of clients and with any of its calls      *)
(* failing: a provider that is gone has neither models nor bindings,       *)
(* unless a row was written for it during or after its deletion.           *)
THEOREM DeletedProviderLeavesNothing == Spec => []DeletedLeavesNothing
<1>1. CatalogInv => DeletedLeavesNothing
  BY DEF CatalogInv, Cleared, NoModelsOf, NoConfigsOf, DeletedLeavesNothing, ModelsOf
<1> QED
  BY <1>1, CatalogInvariant, PTL

(* The UPDATE of ProviderUpdate and ProviderPresetInstall never brings a   *)
(* deleted provider back, and ids are not used again.                      *)
THEOREM ProvidersStayDeleted == Spec => ProviderGoneForGood
<1> DEFINE Gone == \A p \in born \cap Providers : provider[p] = NoProvider => provider'[p] = NoProvider
<1>1. CatalogInv /\ [Next]_vars => [Gone]_vars
  <2> SUFFICES ASSUME CatalogInv, Next PROVE Gone
    OBVIOUS
  <2>1. provider \in [Providers -> ProviderRow \cup {NoProvider}]
    BY DEF CatalogInv, TypeOK
  <2>2. PICK c \in Clients : ProviderStep(c) \/ ModelStep(c) \/ ConfigStep(c) \/ CallFails(c)
    BY DEF Next
  <2>3. CASE ModelStep(c) \/ ConfigStep(c) \/ CallFails(c)
    <3>1. provider' = provider
      BY <2>3 DEF ModelStep, ConfigStep, CallFails, ModelUpdateGet, ModelCreate, ModelAdd, ModelDelete,
        SyncAdd, SyncGet, ModelUpdateCheck, ModelSave, DeleteBindings, DeleteModel, SyncList,
        SyncUpdate, UpsertFirst, ConfigCreate, ConfigSave
    <3> QED
      BY <3>1
  <2>4. ASSUME NEW p \in Providers, ProviderInsert(c, p) PROVE Gone
    BY <2>1, <2>4 DEF ProviderInsert
  <2>5. CASE ProviderUpdateWrite(c)
    BY <2>1, <2>5 DEF ProviderUpdateWrite
  <2>6. CASE DeleteProvider(c)
    BY <2>1, <2>6 DEF DeleteProvider
  <2>7. CASE provider' = provider
    BY <2>7
  <2>8. ProviderStep(c) =>
          \/ \E p \in Providers : ProviderInsert(c, p)
          \/ ProviderUpdateWrite(c) \/ DeleteProvider(c) \/ provider' = provider
    BY DEF ProviderStep, ProviderUpdateGet, ProviderCreate, ProviderDelete, PresetInstall,
      PresetAddCheck, ProviderUpdateCheck, DeleteConfigs, DeleteModels
  <2> QED
    BY <2>2, <2>3, <2>4, <2>5, <2>6, <2>7, <2>8
<1> QED
  BY <1>1, CatalogInvariant, PTL DEF Spec, ProviderGoneForGood
-----------------------------------------------------------------------------
(* Request r holds no copy of model i that it may save: Uncopied, for one  *)
(* request.                                                                *)
CopyFree(r, i) ==
  /\ r.id = i => r.at \notin {"check model", "save model"}
  /\ r.at = "sync" => r.list[i] = NoModel

(* Client c's step leaves model i deleted and takes no copy of it. *)
LeavesGone(c, i) ==
  /\ model'[i] = NoModel
  /\ \E r : req' = [req EXCEPT ![c] = r] /\ CopyFree(r, i)

(* The requests that never hold a copy. *)
LEMMA CopyFreeRequests ==
  ASSUME NEW i
  PROVE  /\ CopyFree(Idle, i)
         /\ \A at, id, row : at \notin {"check model", "save model", "sync"} =>
              CopyFree(Request(at, id, row), i)
         /\ \A p, list, todo : CopyFree(Import("list models", p, list, todo), i)
BY DEF CopyFree, Idle, Request, Import

(* The steps that write no model and begin or continue such a request. *)
LEMMA StepsWithoutModels ==
  ASSUME CatalogInv, NEW c \in Clients, NEW i \in born \cap Models,
         model[i] = NoModel, Uncopied(i), ProviderStep(c) \/ ConfigStep(c) \/ CallFails(c)
  PROVE  LeavesGone(c, i)
<1>0. model \in [Models -> ModelRow \cup {NoModel}]
  BY DEF CatalogInv, TypeOK
<1>1. ASSUME NEW p \in Providers, NEW n \in ProviderNames, ProviderUpdateGet(c, p, n) PROVE LeavesGone(c, i)
  BY <1>1, CopyFreeRequests DEF ProviderUpdateGet, Begin, LeavesGone
<1>2. ASSUME NEW n \in ProviderNames, NEW b \in BOOLEAN, ProviderCreate(c, n, b) PROVE LeavesGone(c, i)
  BY <1>2, CopyFreeRequests DEF ProviderCreate, Begin, LeavesGone
<1>3. ASSUME NEW p \in Providers, ProviderInsert(c, p) PROVE LeavesGone(c, i)
  BY <1>3, CopyFreeRequests DEF ProviderInsert, Done, LeavesGone
<1>4. ASSUME NEW p \in Providers, ProviderDelete(c, p) PROVE LeavesGone(c, i)
  BY <1>4, CopyFreeRequests DEF ProviderDelete, Begin, LeavesGone
<1>5. CASE PresetInstall(c)
  BY <1>5, CopyFreeRequests DEF PresetInstall, Begin, LeavesGone
<1>6. CASE PresetAddCheck(c)
  BY <1>6, CopyFreeRequests DEF PresetAddCheck, Goto, Done, LeavesGone
<1>7. CASE ProviderUpdateCheck(c)
  BY <1>7, CopyFreeRequests DEF ProviderUpdateCheck, Goto, Done, LeavesGone
<1>8. CASE ProviderUpdateWrite(c) \/ DeleteProvider(c)
  BY <1>8, CopyFreeRequests DEF ProviderUpdateWrite, DeleteProvider, Done, LeavesGone
<1>9. CASE DeleteConfigs(c)
  BY <1>9, CopyFreeRequests DEF DeleteConfigs, Goto, LeavesGone
<1>10. CASE DeleteModels(c)
  BY <1>0, <1>10, CopyFreeRequests DEF DeleteModels, Goto, LeavesGone
<1>11. ASSUME NEW u \in Purposes, NEW p \in Providers, NEW j \in Models \cup {None}, UpsertFirst(c, u, p, j)
       PROVE  LeavesGone(c, i)
  BY <1>11, CopyFreeRequests DEF UpsertFirst, Begin, LeavesGone
<1>12. CASE ConfigCreate(c)
  BY <1>12, CopyFreeRequests DEF ConfigCreate, Done, LeavesGone
<1>13. CASE ConfigSave(c)
  BY <1>13, CopyFreeRequests DEF ConfigSave, Done, LeavesGone
<1>14. CASE CallFails(c)
  BY <1>14, CopyFreeRequests DEF CallFails, Done, LeavesGone
<1>15. CASE ProviderStep(c)
  BY <1>1, <1>2, <1>3, <1>4, <1>5, <1>6, <1>7, <1>8, <1>9, <1>10, <1>15 DEF ProviderStep
<1>16. CASE ConfigStep(c)
  BY <1>11, <1>12, <1>13, <1>16 DEF ConfigStep
<1> QED
  BY <1>14, <1>15, <1>16

(* The steps on models: an insertion takes a new id, a Save writes the row *)
(* its request copied, and a copy is only taken of a row that is there.    *)
LEMMA StepsOnModels ==
  ASSUME CatalogInv, NEW c \in Clients, NEW i \in born \cap Models,
         model[i] = NoModel, Uncopied(i), ModelStep(c)
  PROVE  LeavesGone(c, i)
<1>0. /\ model \in [Models -> ModelRow \cup {NoModel}]
      /\ i \in born /\ i \in Models /\ req[c] \in Requests /\ Holds(req[c])
      /\ CopyFree(req[c], i)
  BY RequestAt DEF CatalogInv, TypeOK, Uncopied, CopyFree
<1>1. ASSUME NEW j \in Models, NEW n \in Names, NEW v \in Names, ModelUpdateGet(c, j, n, v)
      PROVE  LeavesGone(c, i)
  <2>1. \A row : CopyFree(Request("check model", j, row), i)
    BY <1>0, <1>1 DEF ModelUpdateGet, CopyFree, Request
  <2> QED
    BY <1>1, <2>1 DEF ModelUpdateGet, Begin, LeavesGone
<1>2. ASSUME NEW p \in Providers, NEW n \in Names, NEW v \in Names, ModelCreate(c, p, n, v)
      PROVE  LeavesGone(c, i)
  BY <1>2, CopyFreeRequests DEF ModelCreate, Begin, LeavesGone
<1>3. ASSUME NEW j \in Models, ModelAdd(c, j) PROVE LeavesGone(c, i)
  BY <1>0, <1>3, CopyFreeRequests DEF ModelAdd, Done, LeavesGone
<1>4. ASSUME NEW j \in Models, ModelDelete(c, j) PROVE LeavesGone(c, i)
  BY <1>4, CopyFreeRequests DEF ModelDelete, Begin, LeavesGone
<1>5. ASSUME NEW p \in Providers, NEW remote \in RemoteLists, SyncGet(c, p, remote)
      PROVE  LeavesGone(c, i)
  BY <1>5, CopyFreeRequests DEF SyncGet, Begin, LeavesGone
<1>6. CASE ModelUpdateCheck(c)
  <2>1. \A row : CopyFree(Request("save model", req[c].id, row), i)
    BY <1>0, <1>6 DEF ModelUpdateCheck, CopyFree, Request
  <2> QED
    BY <1>6, <2>1, CopyFreeRequests DEF ModelUpdateCheck, Goto, Done, LeavesGone
<1>7. CASE ModelSave(c)
  <2>1. req[c].id # i
    BY <1>0, <1>7 DEF ModelSave, CopyFree
  <2> QED
    BY <1>0, <1>7, <2>1, CopyFreeRequests DEF ModelSave, Done, LeavesGone
<1>8. CASE DeleteBindings(c)
  BY <1>8, CopyFreeRequests DEF DeleteBindings, Goto, LeavesGone
<1>9. CASE DeleteModel(c)
  BY <1>0, <1>9, CopyFreeRequests DEF DeleteModel, Done, LeavesGone
<1>10. CASE SyncList(c)
  <2> DEFINE list == [j \in Models |-> IF j \in ModelsOf(req[c].id) THEN model[j] ELSE NoModel]
  <2>1. list[i] = NoModel
    BY <1>0
  <2> HIDE DEF list
  <2>2. \A p, todo : CopyFree(Import("sync", p, list, todo), i)
    BY <2>1 DEF CopyFree, Import
  <2>3. req' = [req EXCEPT ![c] = Import("sync", req[c].id, list, req[c].todo)] /\ model' = model
    BY <1>10 DEF SyncList, list
  <2> QED
    BY <2>2, <2>3 DEF LeavesGone
<1>11. ASSUME NEW list, list[i] = NoModel, SyncNext(c, list)
       PROVE  \E r : req' = [req EXCEPT ![c] = r] /\ CopyFree(r, i)
  <2>1. \A p, todo : CopyFree(Import("sync", p, list, todo), i)
    BY <1>11 DEF CopyFree, Import
  <2> QED
    BY <1>11, <2>1, CopyFreeRequests DEF SyncNext
<1>12. ASSUME NEW j \in Models, SyncAdd(c, j) PROVE LeavesGone(c, i)
  <2>1. req[c].list[i] = NoModel /\ model'[i] = NoModel /\ SyncNext(c, req[c].list)
    BY <1>0, <1>12 DEF SyncAdd, CopyFree
  <2> QED
    BY <1>11, <2>1 DEF LeavesGone
<1>13. CASE SyncUpdate(c)
  <2> DEFINE v == Head(req[c].todo)
  <2>1. /\ req[c].list \in [Models -> ModelRow \cup {NoModel}] /\ req[c].list[i] = NoModel
        /\ v \in Names
    BY <1>0, <1>13, HeadTailProperties DEF SyncUpdate, CopyFree, Holds
  <2>2. PICK j \in Listed(c, v) :
          LET row == [req[c].list[j] EXCEPT !.name = v] IN
          \/ model' = [model EXCEPT ![j] = row] /\ SyncNext(c, [req[c].list EXCEPT ![j] = row])
          \/ model' = model /\ SyncNext(c, req[c].list)
    BY <1>13 DEF SyncUpdate
  <2>3. j \in Models /\ j # i
    BY <2>1, NoRows DEF Listed
  <2> HIDE DEF v
  <2>4. CASE model' = model /\ SyncNext(c, req[c].list)
    BY <1>11, <2>1, <2>4 DEF LeavesGone
  <2>5. ASSUME NEW row, model' = [model EXCEPT ![j] = row], SyncNext(c, [req[c].list EXCEPT ![j] = row])
        PROVE  LeavesGone(c, i)
    <3>1. model'[i] = NoModel /\ [req[c].list EXCEPT ![j] = row][i] = NoModel
      BY <1>0, <2>1, <2>3, <2>5
    <3> QED
      BY <1>11, <2>5, <3>1 DEF LeavesGone
  <2> QED
    BY <2>2, <2>4, <2>5
<1> QED
  BY <1>1, <1>2, <1>3, <1>4, <1>5, <1>6, <1>7, <1>8, <1>9, <1>10, <1>12, <1>13 DEF ModelStep

(* ProviderModelUpdate and ProviderModelSync save rows they read earlier,  *)
(* and gorm's Save inserts a row that is gone: a deleted model comes back  *)
(* only that way, and once no request holds such a copy it never does.     *)
THEOREM ModelsStayDeleted == Spec => ModelDeletionSticks
<1> DEFINE Sticks == \A i \in born \cap Models :
             model[i] = NoModel /\ Uncopied(i) => model'[i] = NoModel /\ Uncopied(i)'
<1>1. CatalogInv /\ [Next]_vars => [Sticks]_vars
  <2> SUFFICES ASSUME CatalogInv, Next, NEW i \in born \cap Models, model[i] = NoModel, Uncopied(i)
               PROVE  model'[i] = NoModel /\ Uncopied(i)'
    OBVIOUS
  <2>1. PICK c \in Clients : LeavesGone(c, i)
    BY StepsWithoutModels, StepsOnModels DEF Next
  <2>2. PICK r : req' = [req EXCEPT ![c] = r] /\ CopyFree(r, i)
    BY <2>1 DEF LeavesGone
  <2>3. \A d \in Clients : CopyFree(req'[d], i)
    BY <2>2 DEF Uncopied, CopyFree, CatalogInv, TypeOK
  <2> QED
    BY <2>1, <2>3 DEF LeavesGone, Uncopied, CopyFree
<1> QED
  BY <1>1, CatalogInvariant, PTL DEF Spec, ModelDeletionSticks
-----------------------------------------------------------------------------
(***************************************************************************)
(* ProviderPresets.  The loops of applyPresetModelDefaults are sequences   *)
(* of values, one after each rule and each type; what holds at the end is  *)
(* shown by counting up to it.                                             *)
(***************************************************************************)
(* A set of numbers that holds 0 and with a number the next one holds all. *)
LEMMA Counting ==
  ASSUME NEW N \in Nat, NEW S \in SUBSET (0..N), 0 \in S, \A n \in 0..(N - 1) : n \in S => n + 1 \in S
  PROVE  S = 0..N
<1> DEFINE M == (0..N) \ S
<1>1. M \subseteq Nat
  OBVIOUS
<1>2. ASSUME M # {} PROVE FALSE
  <2> HIDE DEF M
  <2>1. PICK k \in M : \A n \in M : <<n, k>> \notin OpToRel(<, Nat)
    BY <1>1, <1>2, NatLessThanWellFounded, WFMin
  <2>2. \A n \in M : ~(n < k)
    BY <1>1, <2>1 DEF OpToRel
  <2>3. k \in 1..N /\ k - 1 \in 0..(N - 1) /\ k \notin S
    BY DEF M
  <2>4. k - 1 \notin M
    BY <1>1, <2>2, <2>3
  <2> QED BY <2>3, <2>4 DEF M
<1> QED
  BY <1>2

(* A loop's values, one after each member, when its step is a function.    *)
Loops(f, k, R, x, step) ==
  f \in [0..k -> R] /\ f[0] = x /\ \A n \in 1..k : f[n] = step[n][f[n - 1]]
GoAlike(f, g, N) == f[0] = g[0] /\ \A n \in 1..N : f[n - 1] = g[n - 1] => f[n] = g[n]

(* There is such a sequence of values.                                     *)
LEMMA LoopExists ==
  ASSUME NEW R, NEW x \in R, NEW N \in Nat, NEW step \in [1..N -> [R -> R]]
  PROVE  \E f : Loops(f, N, R, x, step)
<1> USE DEF Loops
<1> DEFINE Goes(f, k) == Loops(f, k, R, x, step)
           S == {k \in 0..N : \E f : Goes(f, k)}
<1>1. 0 \in S
  <2>1. Goes([n \in 0..0 |-> x], 0)
    OBVIOUS
  <2> HIDE DEF Goes
  <2> QED BY <2>1
<1>2. ASSUME NEW k \in 0..(N - 1), k \in S PROVE k + 1 \in S
  <2>1. PICK f : Goes(f, k)
    BY <1>2
  <2> DEFINE y == step[k + 1][f[k]]
             g == [n \in 0..(k + 1) |-> IF n = k + 1 THEN y ELSE f[n]]
  <2>2. f[k] \in R /\ step[k + 1] \in [R -> R]
    BY <2>1
  <2>3. y \in R
    BY <2>2
  <2> HIDE DEF y
  <2>4. g \in [0..(k + 1) -> R] /\ g[0] = x
    BY <2>1, <2>3
  <2>5. ASSUME NEW n \in 1..(k + 1) PROVE g[n] = step[n][g[n - 1]]
    <3>1. CASE n = k + 1
      <4>1. g[n] = y /\ g[n - 1] = f[k]
        BY <3>1
      <4> QED BY <3>1, <4>1 DEF y
    <3>2. CASE n # k + 1
      <4>1. n \in 1..k /\ g[n] = f[n] /\ g[n - 1] = f[n - 1]
        BY <3>2
      <4> QED BY <2>1, <4>1
    <3> QED BY <3>1, <3>2
  <2> HIDE DEF g
  <2>6. Goes(g, k + 1)
    BY <2>4, <2>5
  <2>7. k + 1 \in 0..N
    OBVIOUS
  <2> QED BY <2>6, <2>7
<1>3. S = 0..N
  <2>1. S \in SUBSET (0..N)
    OBVIOUS
  <2> HIDE DEF S
  <2> QED BY <1>1, <1>2, <2>1, Counting
<1>4. N \in S
  BY <1>3
<1> QED
  BY <1>4

(* Two loops that start alike and go on alike are alike.                   *)
LEMMA SameLoop ==
  ASSUME NEW N \in Nat, NEW f, NEW g, GoAlike(f, g, N)
  PROVE  \A n \in 0..N : f[n] = g[n]
<1> USE DEF GoAlike
<1> DEFINE S == {n \in 0..N : f[n] = g[n]}
<1>1. S \in SUBSET (0..N) /\ 0 \in S
  OBVIOUS
<1>2. ASSUME NEW n \in 0..(N - 1), n \in S PROVE n + 1 \in S
  <2>1. n + 1 \in 1..N /\ (n + 1) - 1 = n
    OBVIOUS
  <2>2. f[(n + 1) - 1] = g[(n + 1) - 1] => f[n + 1] = g[n + 1]
    BY <2>1
  <2> QED BY <1>2, <2>1, <2>2
<1> HIDE DEF S
<1>3. S = 0..N
  BY <1>1, <1>2, Counting
<1> QED
  BY <1>3 DEF S

TypesLoop(f, types, more, T) ==
  /\ f \in [0..Len(more) -> Seq(T)] /\ f[0] = types
  /\ \A n \in 1..Len(more) : f[n] = WithType(f[n - 1], more[n])
  /\ WithTypes(types, more) = f[Len(more)]
TypeAdded(new, t, type, T) ==
  new \in Seq(T) /\ StartsWith(t, new) /\ Has(new, type) /\ (Has(t, type) => new = t)

(* What the loop over types makes of the types a row has.                  *)
LEMMA TypeLoop ==
  ASSUME NEW T, NEW types \in Seq(T), NEW more \in Seq(T)
  PROVE  \E f : TypesLoop(f, types, more, T)
<1> DEFINE N == Len(more)
           step == [n \in 1..N |-> [t \in Seq(T) |-> WithType(t, more[n])]]
<1>1. N \in Nat /\ \A n \in 1..N : more[n] \in T
  OBVIOUS
<1>2. step \in [1..N -> [Seq(T) -> Seq(T)]]
  <2>1. ASSUME NEW n \in 1..N, NEW t \in Seq(T) PROVE WithType(t, more[n]) \in Seq(T)
    <3>1. Append(t, more[n]) \in Seq(T)
      BY <1>1
    <3> QED BY <3>1 DEF WithType
  <2> QED BY <2>1
<1>3. PICK f : Loops(f, N, Seq(T), types, step)
  <2> DEFINE R == Seq(T)
  <2> HIDE DEF step, N, R
  <2>1. types \in R /\ step \in [1..N -> [R -> R]]
    BY <1>2 DEF R
  <2>2. \E f : Loops(f, N, R, types, step)
    BY <1>1, <2>1, LoopExists
  <2> QED BY <2>2 DEF R
<1>4. /\ f \in [0..N -> Seq(T)] /\ f[0] = types
      /\ \A n \in 1..N : f[n] = step[n][f[n - 1]]
  <2> HIDE DEF step, N
  <2> QED BY <1>3 DEF Loops
<1>5. \A n \in 1..N : f[n] = WithType(f[n - 1], more[n])
  <2>1. \A n \in 1..N : f[n - 1] \in Seq(T)
    BY <1>4, <1>1
  <2> QED BY <1>4, <2>1
<1> HIDE DEF step
<1>6. f = [n \in 0..N |-> IF n = 0 THEN types ELSE WithType(f[n - 1], more[n])]
  <2>1. \A n \in 0..N : n # 0 => n \in 1..N
    BY <1>1
  <2> QED BY <1>1, <1>4, <1>5, <2>1
<1> DEFINE g == CHOOSE h : h = [n \in 0..N |-> IF n = 0 THEN types ELSE WithType(h[n - 1], more[n])]
<1>7. g = [n \in 0..N |-> IF n = 0 THEN types ELSE WithType(g[n - 1], more[n])]
  <2> HIDE DEF N
  <2> QED BY <1>6, Zenon
<1>8. WithTypes(types, more) = g[Len(more)]
  BY DEF WithTypes, Looped
<1> HIDE DEF g
<1>9. GoAlike(f, g, N)
  BY <1>1, <1>4, <1>5, <1>7 DEF GoAlike
<1>10. \A n \in 0..N : f[n] = g[n]
  <2> HIDE DEF N
  <2> QED BY <1>1, <1>9, SameLoop
<1>11. f[Len(more)] = g[Len(more)]
  BY <1>1, <1>10
<1> QED
  BY <1>4, <1>5, <1>8, <1>11 DEF TypesLoop

(* WithType adds a type at the end, once.                                  *)
LEMMA WithTypeFacts ==
  ASSUME NEW T, NEW t \in Seq(T), NEW type \in T
  PROVE  TypeAdded(WithType(t, type), t, type, T)
<1> USE DEF TypeAdded
<1>1. CASE Has(t, type)
  BY <1>1 DEF WithType, StartsWith
<1>2. CASE ~Has(t, type)
  <2>1. WithType(t, type) = Append(t, type)
    BY <1>2 DEF WithType
  <2> DEFINE a == Append(t, type)
  <2>2. a \in Seq(T) /\ Len(a) = Len(t) + 1 /\ a[Len(t) + 1] = type /\ \A i \in 1..Len(t) : a[i] = t[i]
    BY AppendProperties
  <2> HIDE DEF a
  <2>3. Len(t) \in Nat /\ DOMAIN t = 1..Len(t) /\ DOMAIN a = 1..Len(a)
    BY <2>2
  <2>4. StartsWith(t, a)
    BY <2>2, <2>3 DEF StartsWith
  <2>5. Has(a, type)
    BY <2>2, <2>3 DEF Has
  <2>6. WithType(t, type) = a
    BY <2>1 DEF a
  <2> QED BY <1>2, <2>2, <2>4, <2>5, <2>6
<1> QED
  BY <1>1, <1>2

(* A sequence that starts with another one has its members, and starts    *)
(* with what the other one starts with.                                    *)
LEMMA StartsFacts ==
  ASSUME NEW T, NEW r \in Seq(T), NEW s \in Seq(T), StartsWith(r, s)
  PROVE  /\ \A type : Has(r, type) => Has(s, type)
         /\ \A t \in Seq(T) : StartsWith(s, t) => StartsWith(r, t)
<1>1. DOMAIN r \subseteq DOMAIN s /\ \A i \in DOMAIN r : s[i] = r[i]
  BY DEF StartsWith
<1>2. \A t \in Seq(T) : StartsWith(s, t) => StartsWith(r, t)
  BY <1>1 DEF StartsWith
<1> QED
  BY <1>1, <1>2 DEF Has

(* The loop over types keeps those there are, in their order, and adds     *)
(* those it is given; if it is given no other, it leaves them as they are. *)
LEMMA TypesAdded ==
  ASSUME NEW T, NEW types \in Seq(T), NEW more \in Seq(T)
  PROVE  /\ WithTypes(types, more) \in Seq(T)
         /\ StartsWith(types, WithTypes(types, more))
         /\ \A j \in DOMAIN more : Has(WithTypes(types, more), more[j])
         /\ (\A j \in DOMAIN more : Has(types, more[j])) => WithTypes(types, more) = types
<1> DEFINE N == Len(more)
<1>1. N \in Nat /\ DOMAIN more = 1..N /\ \A n \in 1..N : more[n] \in T
  OBVIOUS
<1>0. PICK f : TypesLoop(f, types, more, T)
  BY TypeLoop
<1>2. /\ f \in [0..N -> Seq(T)] /\ f[0] = types
      /\ \A n \in 1..N : f[n] = WithType(f[n - 1], more[n])
      /\ WithTypes(types, more) = f[N]
  BY <1>0 DEF TypesLoop
<1> DEFINE S == {n \in 0..N : StartsWith(types, f[n]) /\ \A j \in 1..n : Has(f[n], more[j])}
           U == {n \in 0..N : (\A j \in 1..N : Has(types, more[j])) => f[n] = types}
<1> HIDE DEF N
<1>3. 0 \in S /\ 0 \in U
  BY <1>1, <1>2 DEF StartsWith
<1>4. ASSUME NEW n \in 0..(N - 1) PROVE (n \in S => n + 1 \in S) /\ (n \in U => n + 1 \in U)
  <2>1. n + 1 \in 1..N /\ n + 1 \in 0..N /\ (n + 1) - 1 = n /\ n \in 0..N /\ 1..(n + 1) = (1..n) \cup {n + 1}
    BY <1>1
  <2>2. f[n + 1] = WithType(f[n], more[n + 1]) /\ f[n] \in Seq(T) /\ more[n + 1] \in T
    BY <1>1, <1>2, <2>1
  <2>3. /\ f[n + 1] \in Seq(T) /\ StartsWith(f[n], f[n + 1]) /\ Has(f[n + 1], more[n + 1])
        /\ Has(f[n], more[n + 1]) => f[n + 1] = f[n]
    <3>1. TypeAdded(WithType(f[n], more[n + 1]), f[n], more[n + 1], T)
      BY <2>2, WithTypeFacts
    <3> QED BY <2>2, <3>1 DEF TypeAdded
  <2>4. \A type : Has(f[n], type) => Has(f[n + 1], type)
    BY <2>2, <2>3, StartsFacts
  <2>5. StartsWith(types, f[n]) => StartsWith(types, f[n + 1])
    BY <2>2, <2>3, StartsFacts
  <2> QED BY <2>1, <2>3, <2>4, <2>5
<1>5. S = 0..N /\ U = 0..N
  <2>1. S \in SUBSET (0..N) /\ U \in SUBSET (0..N)
    OBVIOUS
  <2> HIDE DEF S, U
  <2>2. \A n \in 0..(N - 1) : n \in S => n + 1 \in S
    BY <1>4
  <2>3. \A n \in 0..(N - 1) : n \in U => n + 1 \in U
    BY <1>4
  <2>4. S = 0..N
    BY <1>1, <1>3, <2>1, <2>2, Counting
  <2>5. U = 0..N
    BY <1>1, <1>3, <2>1, <2>3, Counting
  <2> QED BY <2>4, <2>5
<1>6. f[N] \in Seq(T)
  BY <1>1, <1>2
<1>7. N \in S /\ N \in U
  <2> HIDE DEF S, U
  <2> QED BY <1>1, <1>5
<1> QED
  BY <1>1, <1>2, <1>6, <1>7

(* Rows, rules and the provider as the presets see them, and the texts     *)
(* that they hold.                                                         *)
Texts ==
  Titles \cup
  {"", "absent", "mine", "own", "custom", "openai_compatible", "chat", "embeddings", "DeepSeek", "Tongyi",
   "OpenRouter", "SiliconFlow", "deepseek", "qwen", "openrouter", "siliconflow", "reasoner", "r1", "reasoning",
   "vl", "vision", "qwq", "reason", "thinking", "embedding", "embed", "web", "search", "tool", "rerank"}
PresetRow == [endpoint : Texts, group : Texts, types : Seq(Texts)]
RuleRow == [contains : SUBSET Texts, types : Seq(Texts), group : Texts, endpoint : Texts]
ProviderOf == [key : Keys \cup {""}, name : Texts, type : Texts]

(* The tables of rules have rules in them.                                 *)
LEMMA RulesTyped ==
  ASSUME NEW prov
  PROVE  RulesOf(prov) \in Seq(RuleRow)
<1>1. \A c \in SUBSET Texts, t, g, e \in Texts : Rule(c, <<t>>, g, e) \in RuleRow
  <2> QED BY DEF Rule, RuleRow
<1>2. \A r \in RuleRow : <<r>> \in Seq(RuleRow)
  OBVIOUS
<1>3. \A r, s, t \in RuleRow : <<r, s, t>> \in Seq(RuleRow)
  OBVIOUS
<1>4. CASE prov.key \notin DOMAIN providerPresets
  BY <1>4 DEF RulesOf
<1>5. CASE prov.key \in DOMAIN providerPresets
  <2>1. RulesOf(prov) = providerPresets[prov.key].rules
    BY <1>5 DEF RulesOf
  <2>2. prov.key \in {"deepseek", "qwen", "openrouter", "siliconflow"}
    BY <1>5 DEF providerPresets
  <2>3. CASE prov.key = "deepseek"
    <3> DEFINE rule == Rule({"reasoner", "r1"}, <<"reasoning">>, "deepseek", "chat")
           rules == <<rule>>
    <3>0. providerPresets[prov.key] = Preset("DeepSeek", "", rules)
      BY <2>3 DEF providerPresets
    <3> HIDE DEF rules
    <3>1. RulesOf(prov) = rules
      <4>1. \A n, t : Preset(n, t, rules).rules = rules
        BY DEF Preset
      <4> QED BY <2>1, <3>0, <4>1
    <3>2. rule \in RuleRow
      BY <1>1 DEF Texts
    <3> HIDE DEF rule
    <3> QED BY <1>2, <3>1, <3>2 DEF rules
  <2>4. CASE prov.key = "qwen"
    <3>1. RulesOf(prov) =
            <<Rule({"vl", "vision"}, <<"vision">>, "qwen", "chat"),
              Rule({"qwq", "reason", "thinking"}, <<"reasoning">>, "qwen", "chat"),
              Rule({"embedding", "embed"}, <<"embedding">>, "qwen", "embeddings")>>
      BY <2>1, <2>4 DEF providerPresets, Preset
    <3>2. /\ Rule({"vl", "vision"}, <<"vision">>, "qwen", "chat") \in RuleRow
          /\ Rule({"qwq", "reason", "thinking"}, <<"reasoning">>, "qwen", "chat") \in RuleRow
          /\ Rule({"embedding", "embed"}, <<"embedding">>, "qwen", "embeddings") \in RuleRow
      BY <1>1 DEF Texts
    <3> QED BY <1>3, <3>1, <3>2
  <2>5. CASE prov.key = "openrouter"
    <3>1. RulesOf(prov) =
            <<Rule({"vision", "vl"}, <<"vision">>, "openrouter", "chat"),
              Rule({"web", "search"}, <<"web">>, "openrouter", "chat"),
              Rule({"tool"}, <<"tool">>, "openrouter", "chat")>>
      BY <2>1, <2>5 DEF providerPresets, Preset
    <3>2. /\ Rule({"vision", "vl"}, <<"vision">>, "openrouter", "chat") \in RuleRow
          /\ Rule({"web", "search"}, <<"web">>, "openrouter", "chat") \in RuleRow
          /\ Rule({"tool"}, <<"tool">>, "openrouter", "chat") \in RuleRow
      BY <1>1 DEF Texts
    <3> QED BY <1>3, <3>1, <3>2
  <2>6. CASE prov.key = "siliconflow"
    <3>1. RulesOf(prov) =
            <<Rule({"vl", "vision"}, <<"vision">>, "siliconflow", "chat"),
              Rule({"rerank"}, <<"rerank">>, "siliconflow", "rerank"),
              Rule({"embedding", "embed"}, <<"embedding">>, "siliconflow", "embeddings")>>
      BY <2>1, <2>6 DEF providerPresets, Preset
    <3>2. /\ Rule({"vl", "vision"}, <<"vision">>, "siliconflow", "chat") \in RuleRow
          /\ Rule({"rerank"}, <<"rerank">>, "siliconflow", "rerank") \in RuleRow
          /\ Rule({"embedding", "embed"}, <<"embedding">>, "siliconflow", "embeddings") \in RuleRow
      BY <1>1 DEF Texts
    <3> QED BY <1>3, <3>1, <3>2
  <2> QED BY <2>2, <2>3, <2>4, <2>5, <2>6
<1> QED
  BY <1>4, <1>5

(* A rule that applies has been followed: it would change nothing.         *)
Followed(prov, row, rule) ==
  /\ row.endpoint = "chat" => rule.endpoint \in {"", "chat"}
  /\ row.group = prov.name => rule.group \in {"", prov.name}
  /\ \A j \in DOMAIN rule.types : Has(row.types, rule.types[j])

(* What one step keeps of a row. *)
Kept(prov, old, new) ==
  /\ old.endpoint # "chat" => new.endpoint = old.endpoint
  /\ old.group # prov.name => new.group = old.group
  /\ old.endpoint # "" => new.endpoint # ""
  /\ new.endpoint = "chat" => old.endpoint = "chat"
  /\ old.group # "" => new.group # ""
  /\ new.group = prov.name => old.group = prov.name
  /\ StartsWith(old.types, new.types)

(* What two steps keep, both together keep, and what was followed stays    *)
(* followed.                                                               *)
LEMMA KeptFacts ==
  ASSUME NEW prov, NEW old \in PresetRow, NEW mid \in PresetRow, NEW new \in PresetRow
  PROVE  /\ Kept(prov, old, old)
         /\ Kept(prov, old, mid) /\ Kept(prov, mid, new) => Kept(prov, old, new)
         /\ \A rule : Kept(prov, old, new) /\ Followed(prov, old, rule) => Followed(prov, new, rule)
<1>1. old.types \in Seq(Texts) /\ mid.types \in Seq(Texts) /\ new.types \in Seq(Texts)
  BY DEF PresetRow
<1>2. StartsWith(old.types, old.types)
  BY <1>1 DEF StartsWith
<1>3. StartsWith(old.types, mid.types) /\ StartsWith(mid.types, new.types) => StartsWith(old.types, new.types)
  BY <1>1, StartsFacts
<1>4. StartsWith(old.types, new.types) => \A type : Has(old.types, type) => Has(new.types, type)
  BY <1>1, StartsFacts
<1> QED
  BY <1>2, <1>3, <1>4 DEF Kept, Followed

(* A step of the loop over rules. *)
RuleDone(new, prov, m, row, rule) ==
  /\ new \in PresetRow /\ Kept(prov, row, new)
  /\ ruleMatchesModel(rule, m) => Followed(prov, new, rule)
  /\ (ruleMatchesModel(rule, m) => Followed(prov, row, rule)) => new = row

(* ApplyRule is such a step. *)
LEMMA RuleStep ==
  ASSUME NEW prov, NEW m, NEW row \in PresetRow, NEW rule \in RuleRow
  PROVE  RuleDone(ApplyRule(prov, m, row, rule), prov, m, row, rule)
<1> DEFINE new == ApplyRule(prov, m, row, rule)
           types == WithTypes(row.types, rule.types)
<1>1. /\ row.endpoint \in Texts /\ row.group \in Texts /\ row.types \in Seq(Texts)
      /\ row = Model(row.endpoint, row.group, row.types)
  <2> HIDE DEF Texts
  <2> QED BY DEF PresetRow, Model
<1>2. rule.endpoint \in Texts /\ rule.group \in Texts /\ rule.types \in Seq(Texts)
  <2> HIDE DEF Texts
  <2> QED BY DEF RuleRow
<1>3. CASE ~ruleMatchesModel(rule, m)
  BY <1>3, KeptFacts DEF ApplyRule, RuleDone
<1>4. CASE ruleMatchesModel(rule, m)
  <2>1. /\ types \in Seq(Texts) /\ StartsWith(row.types, types)
        /\ \A j \in DOMAIN rule.types : Has(types, rule.types[j])
        /\ (\A j \in DOMAIN rule.types : Has(row.types, rule.types[j])) => types = row.types
    BY <1>1, <1>2, TypesAdded
  <2> DEFINE group == IF rule.group # "" /\ row.group = prov.name THEN rule.group ELSE row.group
  <2>2. new = Model(EndpointFor(row, rule), group, types)
    BY <1>4 DEF ApplyRule
  <2> HIDE DEF new, types
  <2>3. EndpointFor(row, rule) \in Texts /\ group \in Texts
    BY <1>1, <1>2 DEF EndpointFor
  <2>4. new.endpoint = EndpointFor(row, rule) /\ new.group = group /\ new.types = types
    BY <2>2 DEF Model
  <2>5. new \in PresetRow
    BY <2>1, <2>2, <2>3 DEF Model, PresetRow
  <2>6. Kept(prov, row, new)
    BY <2>1, <2>4 DEF Kept, EndpointFor
  <2>7. Followed(prov, new, rule)
    <3>1. new.endpoint = "chat" => rule.endpoint \in {"", "chat"}
      BY <2>4 DEF EndpointFor
    <3>2. new.group = prov.name => rule.group \in {"", prov.name}
      BY <2>4
    <3> QED BY <2>1, <2>4, <3>1, <3>2 DEF Followed
  <2>8. Followed(prov, row, rule) => new = row
    <3> SUFFICES ASSUME Followed(prov, row, rule) PROVE new = row
      OBVIOUS
    <3>1. EndpointFor(row, rule) = row.endpoint
      BY DEF Followed, EndpointFor
    <3>2. group = row.group
      BY DEF Followed
    <3>3. types = row.types
      BY <2>1 DEF Followed
    <3> HIDE DEF group
    <3> QED BY <1>1, <2>2, <3>1, <3>2, <3>3
  <2> QED BY <1>4, <2>5, <2>6, <2>7, <2>8 DEF RuleDone, new
<1> QED
  BY <1>3, <1>4

(* What the loop over rules makes of a row. *)
RulesLoop(f, prov, m, row) ==
  /\ f \in [0..Len(RulesOf(prov)) -> PresetRow] /\ f[0] = Filled(prov, row)
  /\ \A n \in 1..Len(RulesOf(prov)) : f[n] = ApplyRule(prov, m, f[n - 1], RulesOf(prov)[n])
  /\ applyPresetModelDefaults(prov, m, row) = f[Len(RulesOf(prov))]

(* The loop over rules has a value after every rule. *)
LEMMA RulesLoopExists ==
  ASSUME NEW prov, NEW m, NEW row, Filled(prov, row) \in PresetRow
  PROVE  \E f : RulesLoop(f, prov, m, row)
<1> DEFINE rules == RulesOf(prov)
           x == Filled(prov, row)
           N == Len(rules)
           step == [n \in 1..N |-> [r \in PresetRow |-> ApplyRule(prov, m, r, rules[n])]]
<1>1. rules \in Seq(RuleRow)
  BY RulesTyped
<1> HIDE DEF rules, x
<1>2. N \in Nat /\ \A n \in 1..N : rules[n] \in RuleRow
  BY <1>1
<1>3. step \in [1..N -> [PresetRow -> PresetRow]]
  <2>1. ASSUME NEW n \in 1..N, NEW r \in PresetRow PROVE ApplyRule(prov, m, r, rules[n]) \in PresetRow
    <3>1. RuleDone(ApplyRule(prov, m, r, rules[n]), prov, m, r, rules[n])
      BY <1>2, RuleStep
    <3> QED BY <3>1 DEF RuleDone
  <2> QED BY <2>1
<1>4. PICK f : Loops(f, N, PresetRow, x, step)
  <2>1. x \in PresetRow
    BY DEF x
  <2> HIDE DEF step, N
  <2> QED BY <1>2, <1>3, <2>1, LoopExists
<1>5. /\ f \in [0..N -> PresetRow] /\ f[0] = x
      /\ \A n \in 1..N : f[n] = step[n][f[n - 1]]
  <2> HIDE DEF step, N
  <2> QED BY <1>4 DEF Loops
<1>6. \A n \in 1..N : f[n] = ApplyRule(prov, m, f[n - 1], rules[n])
  <2>1. \A n \in 1..N : f[n - 1] \in PresetRow
    BY <1>2, <1>5
  <2> QED BY <1>5, <2>1
<1> HIDE DEF step
<1>7. f = [n \in 0..N |-> IF n = 0 THEN x ELSE ApplyRule(prov, m, f[n - 1], rules[n])]
  <2>1. \A n \in 0..N : n # 0 => n \in 1..N
    BY <1>2
  <2> QED BY <1>2, <1>5, <1>6, <2>1
<1> DEFINE g == CHOOSE h : h = [n \in 0..N |-> IF n = 0 THEN x ELSE ApplyRule(prov, m, h[n - 1], rules[n])]
<1>8. g = [n \in 0..N |-> IF n = 0 THEN x ELSE ApplyRule(prov, m, g[n - 1], rules[n])]
  <2> HIDE DEF N
  <2> QED BY <1>7, Zenon
<1>9. applyPresetModelDefaults(prov, m, row) = g[N]
  BY DEF applyPresetModelDefaults, Looped, rules, x
<1> HIDE DEF g
<1>10. GoAlike(f, g, N)
  BY <1>2, <1>5, <1>6, <1>8 DEF GoAlike
<1>11. \A n \in 0..N : f[n] = g[n]
  <2> HIDE DEF N
  <2> QED BY <1>2, <1>10, SameLoop
<1>12. f[N] = g[N]
  BY <1>2, <1>11
<1> QED
  BY <1>5, <1>6, <1>9, <1>12 DEF RulesLoop, rules, x

(* The loop is through with a row: it would change nothing any more.       *)
Complete(prov, m, row) ==
  /\ row.endpoint # "" /\ (row.group # "" \/ prov.name = "")
  /\ \A i \in DOMAIN RulesOf(prov) :
       ruleMatchesModel(RulesOf(prov)[i], m) => Followed(prov, row, RulesOf(prov)[i])

(* Before the loop an empty endpoint and an empty group are filled in.     *)
LEMMA FilledFacts ==
  ASSUME NEW prov, prov.name \in Texts, NEW row \in PresetRow
  PROVE  /\ Filled(prov, row) \in PresetRow /\ Filled(prov, row).types = row.types
         /\ Filled(prov, row).endpoint = IF row.endpoint = "" THEN "chat" ELSE row.endpoint
         /\ Filled(prov, row).group = IF row.group = "" THEN prov.name ELSE row.group
         /\ row.endpoint # "" /\ (row.group # "" \/ prov.name = "") => Filled(prov, row) = row
<1>1. /\ row.endpoint \in Texts /\ row.group \in Texts /\ row.types \in Seq(Texts)
      /\ row = [endpoint |-> row.endpoint, group |-> row.group, types |-> row.types]
  <2> HIDE DEF Texts
  <2> QED BY DEF PresetRow
<1>2. "chat" \in Texts
  BY DEF Texts
<1> DEFINE e == IF row.endpoint = "" THEN "chat" ELSE row.endpoint
           g == IF row.group = "" THEN prov.name ELSE row.group
<1>3. Filled(prov, row) = [endpoint |-> e, group |-> g, types |-> row.types]
  BY DEF Filled, Model
<1>4. e \in Texts /\ g \in Texts
  BY <1>1, <1>2
<1>5. row.endpoint # "" /\ (row.group # "" \/ prov.name = "") => e = row.endpoint /\ g = row.group
  OBVIOUS
<1> HIDE DEF e, g
<1>6. Filled(prov, row).types = row.types /\ Filled(prov, row).endpoint = e /\ Filled(prov, row).group = g
  BY <1>3
<1>7. Filled(prov, row) \in PresetRow
  BY <1>1, <1>3, <1>4 DEF PresetRow
<1>8. row.endpoint # "" /\ (row.group # "" \/ prov.name = "") => Filled(prov, row) = row
  BY <1>1, <1>3, <1>5
<1> QED
  BY <1>6, <1>7, <1>8 DEF e, g

(* After the loop a row is complete, and nothing chosen was taken back.    *)
LEMMA Completed ==
  ASSUME NEW prov, prov.name \in Texts, NEW m, NEW row \in PresetRow
  PROVE  /\ applyPresetModelDefaults(prov, m, row) \in PresetRow
         /\ Complete(prov, m, applyPresetModelDefaults(prov, m, row))
         /\ Kept(prov, Filled(prov, row), applyPresetModelDefaults(prov, m, row))
<1> DEFINE rules == RulesOf(prov)
           N == Len(rules)
           x == Filled(prov, row)
           Matches(i) == ruleMatchesModel(rules[i], m)
<1>1. x \in PresetRow
  BY FilledFacts
<1>2. PICK f : RulesLoop(f, prov, m, row)
  BY <1>1, RulesLoopExists
<1>3. /\ f \in [0..N -> PresetRow] /\ f[0] = x
      /\ \A n \in 1..N : f[n] = ApplyRule(prov, m, f[n - 1], rules[n])
      /\ applyPresetModelDefaults(prov, m, row) = f[N]
  BY <1>2 DEF RulesLoop
<1>4. rules \in Seq(RuleRow)
  BY RulesTyped
<1> DEFINE S == {n \in 0..N : Kept(prov, x, f[n]) /\ \A i \in 1..n : Matches(i) => Followed(prov, f[n], rules[i])}
<1>5. x.endpoint # "" /\ (x.group # "" \/ prov.name = "")
  BY FilledFacts
<1> HIDE DEF rules, x
<1>6. N \in Nat /\ DOMAIN rules = 1..N /\ \A n \in 1..N : rules[n] \in RuleRow
  BY <1>4
<1> HIDE DEF N, Matches
<1>7. 0 \in S
  <2>1. Kept(prov, x, x)
    BY <1>1, KeptFacts
  <2> QED BY <1>3, <1>6, <2>1
<1>8. ASSUME NEW n \in 0..(N - 1), n \in S PROVE n + 1 \in S
  <2>1. n + 1 \in 1..N /\ n + 1 \in 0..N /\ (n + 1) - 1 = n /\ n \in 0..N /\ 1..(n + 1) = (1..n) \cup {n + 1}
    BY <1>6
  <2> DEFINE new == f[n + 1]
  <2>2. new = ApplyRule(prov, m, f[n], rules[n + 1]) /\ f[n] \in PresetRow /\ rules[n + 1] \in RuleRow
    BY <1>3, <1>6, <2>1
  <2> HIDE DEF new
  <2>3. RuleDone(new, prov, m, f[n], rules[n + 1])
    BY <2>2, RuleStep
  <2>4. new \in PresetRow /\ Kept(prov, f[n], new) /\ (Matches(n + 1) => Followed(prov, new, rules[n + 1]))
    BY <2>3 DEF RuleDone, Matches
  <2>5. Kept(prov, x, new)
    BY <1>1, <1>8, <2>2, <2>4, KeptFacts
  <2>6. \A i \in 1..n : Matches(i) => Followed(prov, new, rules[i])
    <3>1. \A rule : Followed(prov, f[n], rule) => Followed(prov, new, rule)
      BY <2>2, <2>4, KeptFacts
    <3> QED BY <1>8, <3>1
  <2> QED BY <2>1, <2>4, <2>5, <2>6 DEF new
<1>9. N \in S
  <2>1. S \in SUBSET (0..N)
    OBVIOUS
  <2> HIDE DEF S
  <2>2. S = 0..N
    BY <1>6, <1>7, <1>8, <2>1, Counting
  <2> QED BY <1>6, <2>2
<1>10. Kept(prov, x, f[N]) /\ \A i \in 1..N : Matches(i) => Followed(prov, f[N], rules[i])
  BY <1>9
<1>11. f[N] \in PresetRow
  BY <1>3, <1>6
<1>12. f[N].endpoint # "" /\ (f[N].group # "" \/ prov.name = "")
  BY <1>5, <1>10 DEF Kept
<1>13. Complete(prov, m, f[N])
  BY <1>6, <1>10, <1>12 DEF Complete, Matches, rules
<1> QED
  BY <1>3, <1>10, <1>11, <1>13 DEF x

(* A complete row stays as it is. *)
LEMMA Fixed ==
  ASSUME NEW prov, prov.name \in Texts, NEW m, NEW row \in PresetRow, Complete(prov, m, row)
  PROVE  applyPresetModelDefaults(prov, m, row) = row
<1> DEFINE rules == RulesOf(prov)
           N == Len(rules)
<1>1. Filled(prov, row) = row
  BY FilledFacts DEF Complete
<1>2. PICK f : RulesLoop(f, prov, m, row)
  BY <1>1, RulesLoopExists
<1>3. /\ f[0] = row
      /\ \A n \in 1..N : f[n] = ApplyRule(prov, m, f[n - 1], rules[n])
      /\ applyPresetModelDefaults(prov, m, row) = f[N]
  BY <1>1, <1>2 DEF RulesLoop
<1>4. rules \in Seq(RuleRow)
  BY RulesTyped
<1>5. \A i \in DOMAIN rules : ruleMatchesModel(rules[i], m) => Followed(prov, row, rules[i])
  BY DEF Complete
<1> HIDE DEF rules
<1>6. N \in Nat /\ DOMAIN rules = 1..N /\ \A n \in 1..N : rules[n] \in RuleRow
  BY <1>4
<1> HIDE DEF N
<1> DEFINE S == {n \in 0..N : f[n] = row}
<1>7. 0 \in S
  BY <1>3, <1>6
<1>8. ASSUME NEW n \in 0..(N - 1), n \in S PROVE n + 1 \in S
  <2>1. n + 1 \in 1..N /\ n + 1 \in 0..N /\ (n + 1) - 1 = n
    BY <1>6
  <2>2. f[n + 1] = ApplyRule(prov, m, row, rules[n + 1]) /\ rules[n + 1] \in RuleRow
    BY <1>3, <1>6, <1>8, <2>1
  <2>3. RuleDone(f[n + 1], prov, m, row, rules[n + 1])
    BY <2>2, RuleStep
  <2>4. f[n + 1] = row
    BY <1>5, <1>6, <2>1, <2>3 DEF RuleDone
  <2> QED BY <2>1, <2>4
<1>9. N \in S
  <2>1. S \in SUBSET (0..N)
    OBVIOUS
  <2> HIDE DEF S
  <2>2. S = 0..N
    BY <1>6, <1>7, <1>8, <2>1, Counting
  <2> QED BY <1>6, <2>2
<1> QED
  BY <1>3, <1>9

PresetInv ==
  /\ presetProvider \in ProviderOf /\ offers \in [PresetModels -> PresetRow]
  /\ settled => presetProvider # NoPreset /\ \A m \in PresetModels : Complete(presetProvider, m, offers[m])

(* Rows made of texts, and the two that stand for none and a new one.      *)
LEMMA ModelRows ==
  /\ \A e, g \in Texts, t \in Seq(Texts) : Model(e, g, t) \in PresetRow
  /\ NoRow \in PresetRow /\ NoRow.endpoint = "absent" /\ NoRow.types = <<>>
  /\ Blank \in PresetRow /\ Blank.types = <<>>
<1>1. "" \in Texts /\ "absent" \in Texts
  BY DEF Texts
<1>2. <<>> \in Seq(Texts)
  OBVIOUS
<1> HIDE DEF Texts
<1>3. \A e, g \in Texts, t \in Seq(Texts) : Model(e, g, t) \in PresetRow
  BY DEF Model, PresetRow
<1>4. \A e, g, t : Model(e, g, t).endpoint = e /\ Model(e, g, t).types = t
  BY DEF Model
<1> QED
  BY <1>1, <1>2, <1>3, <1>4 DEF NoRow, Blank

(* The names of providers are texts. *)
LEMMA ProviderTexts ==
  /\ \A k \in Keys \cup {""}, n, t \in Texts : Provider(k, n, t) \in ProviderOf
  /\ \A prov \in ProviderOf :
       /\ prov.key \in Keys \cup {""} /\ prov.name \in Texts /\ prov.type \in Texts
       /\ \A n \in Texts : [prov EXCEPT !.name = n] \in ProviderOf
  /\ \A k \in DOMAIN providerPresets : providerPresets[k].name \in Texts /\ providerPresets[k].type \in Texts
<1>1. ASSUME NEW k \in DOMAIN providerPresets
      PROVE  providerPresets[k].name \in Texts /\ providerPresets[k].type \in Texts
  <2>1. k \in {"deepseek", "qwen", "openrouter", "siliconflow"}
    BY DEF providerPresets
  <2>2. \A n, t, r : Preset(n, t, r).name = n /\ Preset(n, t, r).type = t
    BY DEF Preset
  <2>3. CASE k = "deepseek"
    <3> DEFINE none == ""
    <3>1. \E r : providerPresets[k] = Preset("DeepSeek", none, r)
      BY <2>3 DEF providerPresets
    <3>2. "DeepSeek" \in Texts /\ none \in Texts
      BY DEF Texts
    <3> HIDE DEF none
    <3>3. providerPresets[k].name = "DeepSeek" /\ providerPresets[k].type = none
      BY <2>2, <3>1
    <3> QED BY <3>2, <3>3
  <2>4. CASE k = "qwen"
    <3>1. \E r : providerPresets[k] = Preset("Tongyi", "openai_compatible", r)
      BY <2>4 DEF providerPresets
    <3>2. providerPresets[k].name = "Tongyi" /\ providerPresets[k].type = "openai_compatible"
      BY <2>2, <3>1
    <3>3. "Tongyi" \in Texts /\ "openai_compatible" \in Texts
      BY DEF Texts
    <3> QED BY <3>2, <3>3
  <2>5. CASE k = "openrouter"
    <3>1. \E r : providerPresets[k] = Preset("OpenRouter", "openai_compatible", r)
      BY <2>5 DEF providerPresets
    <3>2. providerPresets[k].name = "OpenRouter" /\ providerPresets[k].type = "openai_compatible"
      BY <2>2, <3>1
    <3>3. "OpenRouter" \in Texts /\ "openai_compatible" \in Texts
      BY DEF Texts
    <3> QED BY <3>2, <3>3
  <2>6. CASE k = "siliconflow"
    <3>1. \E r : providerPresets[k] = Preset("SiliconFlow", "openai_compatible", r)
      BY <2>6 DEF providerPresets
    <3>2. providerPresets[k].name = "SiliconFlow" /\ providerPresets[k].type = "openai_compatible"
      BY <2>2, <3>1
    <3>3. "SiliconFlow" \in Texts /\ "openai_compatible" \in Texts
      BY DEF Texts
    <3> QED BY <3>2, <3>3
  <2> QED BY <2>1, <2>3, <2>4, <2>5, <2>6
<1> HIDE DEF Texts
<1>2. \A k \in Keys \cup {""}, n, t \in Texts : Provider(k, n, t) \in ProviderOf
  BY DEF Provider, ProviderOf
<1>3. ASSUME NEW prov \in ProviderOf
      PROVE  /\ prov.key \in Keys \cup {""} /\ prov.name \in Texts /\ prov.type \in Texts
             /\ \A n \in Texts : [prov EXCEPT !.name = n] \in ProviderOf
  BY DEF ProviderOf
<1> QED
  BY <1>1, <1>2, <1>3

(* Without a provider nothing is settled. *)
LEMMA PresetInitial == PresetInit => PresetInv
<1>1. NoPreset \in ProviderOf
  <2>1. "" \in Texts
    BY DEF Texts
  <2> QED BY <2>1, ProviderTexts DEF NoPreset
<1> QED
  BY <1>1, ModelRows DEF PresetInit, PresetInv

(* What an import finds in a row, or puts into a new one.                  *)
LEMMA Imported ==
  ASSUME PresetInv, NEW m \in PresetModels
  PROVE  /\ presetProvider.name \in Texts
         /\ offers[m] \in PresetRow /\ (IF offers[m] = NoRow THEN Blank ELSE offers[m]) \in PresetRow
BY ModelRows, ProviderTexts DEF PresetInv

(* Only an import of all models settles them, and anything else ends it.   *)
LEMMA PresetStep == PresetInv /\ [PresetNext]_presetVars => PresetInv'
<1> SUFFICES ASSUME PresetInv, [PresetNext]_presetVars PROVE PresetInv'
  OBVIOUS
<1>1. ASSUME NEW k \in Keys, InstallPreset(k) PROVE PresetInv'
  <2>1. presetProvider' \in ProviderOf
    BY <1>1, ProviderTexts DEF InstallPreset
  <2> QED BY <1>1, <2>1 DEF InstallPreset, PresetInv
<1>2. ASSUME NEW k \in Keys \cup {""}, NEW t \in Titles, CreateProvider(k, t) PROVE PresetInv'
  <2> DEFINE prov == Provider(k, t, "custom")
  <2>1. /\ t \in Texts /\ "custom" \in Texts
        /\ prov.key = k /\ prov.name = t /\ prov.type = "custom"
    BY DEF Texts, Provider
  <2>2. prov \in ProviderOf
    BY <2>1, ProviderTexts
  <2> HIDE DEF prov
  <2>3. applyProviderPresetDefaults(prov) \in ProviderOf
    <3>1. CASE k \notin DOMAIN providerPresets
      BY <2>1, <2>2, <3>1 DEF applyProviderPresetDefaults
    <3>2. CASE k \in DOMAIN providerPresets
      <4> DEFINE n == IF t = "" THEN providerPresets[k].name ELSE t
      <4>1. applyProviderPresetDefaults(prov) = Provider(k, n, "custom")
        BY <2>1, <3>2 DEF applyProviderPresetDefaults
      <4>2. n \in Texts
        BY <2>1, <3>2, ProviderTexts
      <4> QED BY <2>1, <4>1, <4>2, ProviderTexts
    <3> QED BY <3>1, <3>2
  <2>4. presetProvider = NoPreset /\ presetProvider' = applyProviderPresetDefaults(prov) /\ UNCHANGED <<offers, settled>>
    BY <1>2 DEF CreateProvider, prov
  <2> QED BY <2>3, <2>4 DEF PresetInv
<1>3. ASSUME NEW t \in Titles, RenameProvider(t) PROVE PresetInv'
  <2>1. t \in Texts
    BY DEF Texts
  <2>2. presetProvider' \in ProviderOf
    BY <1>3, <2>1, ProviderTexts DEF RenameProvider, PresetInv
  <2> QED BY <1>3, <2>2 DEF RenameProvider, PresetInv
<1>4. ASSUME NEW m \in PresetModels, NEW row \in Edited, EditModel(m, row) PROVE PresetInv'
  <2>1. row \in PresetRow
    <3>1. {"", "chat", "rerank"} \subseteq Texts /\ {"mine"} \cup Titles \subseteq Texts
      BY DEF Texts
    <3>2. "vision" \in Texts /\ "own" \in Texts
      BY DEF Texts
    <3>3. <<"vision">> \in Seq(Texts)
      BY <3>2
    <3>4. <<"own">> \in Seq(Texts)
      BY <3>2
    <3>5. <<>> \in Seq(Texts)
      OBVIOUS
    <3> DEFINE kinds == {<<>>, <<"vision">>, <<"own">>}
    <3>6. kinds \subseteq Seq(Texts)
      BY <3>3, <3>4, <3>5
    <3>7. row \in [endpoint : {"", "chat", "rerank"}, group : {"mine"} \cup Titles, types : kinds]
      BY DEF Edited
    <3> HIDE DEF kinds
    <3> QED BY <3>1, <3>6, <3>7 DEF PresetRow
  <2> QED BY <1>4, <2>1 DEF EditModel, PresetInv
<1>5. ASSUME NEW remote \in SUBSET PresetModels, ImportModels(remote) PROVE PresetInv'
  <2> DEFINE row(m) == IF offers[m] = NoRow THEN Blank ELSE offers[m]
  <2>1. /\ presetProvider # NoPreset /\ presetProvider' = presetProvider /\ settled' = (remote = PresetModels)
        /\ offers' = [m \in PresetModels |->
             IF m \in remote THEN applyPresetModelDefaults(presetProvider, m, row(m)) ELSE offers[m]]
    BY <1>5 DEF ImportModels
  <2>2. ASSUME NEW m \in PresetModels
        PROVE  /\ applyPresetModelDefaults(presetProvider, m, row(m)) \in PresetRow /\ offers[m] \in PresetRow
               /\ Complete(presetProvider, m, applyPresetModelDefaults(presetProvider, m, row(m)))
    <3>1. presetProvider.name \in Texts /\ offers[m] \in PresetRow /\ row(m) \in PresetRow
      BY Imported
    <3> HIDE DEF row
    <3> QED BY <3>1, Completed
  <2> HIDE DEF row
  <2>3. offers' \in [PresetModels -> PresetRow]
    BY <2>1, <2>2
  <2>4. ASSUME settled', NEW m \in PresetModels PROVE Complete(presetProvider, m, offers'[m])
    BY <2>1, <2>2, <2>4
  <2> QED BY <2>1, <2>3, <2>4 DEF PresetInv
<1>6. CASE UNCHANGED presetVars
  BY <1>6 DEF presetVars, PresetInv
<1> QED
  BY <1>1, <1>2, <1>3, <1>4, <1>5, <1>6 DEF PresetNext

(* Whatever is installed, created, renamed and edited, for any models and  *)
(* titles, an import leaves nothing for another one to do.                 *)
THEOREM ImportsSettle == PresetSpec => []ImportSettles
<1>1. PresetInv => ImportSettles
  <2> SUFFICES ASSUME PresetInv, settled, NEW m \in PresetModels
               PROVE  /\ applyPresetModelDefaults(presetProvider, m, offers[m]) = offers[m]
                      /\ \A i \in DOMAIN RulesOf(presetProvider) :
                           ruleMatchesModel(RulesOf(presetProvider)[i], m) =>
                             \A j \in DOMAIN RulesOf(presetProvider)[i].types :
                               Has(offers[m].types, RulesOf(presetProvider)[i].types[j])
    BY DEF ImportSettles
  <2>1. Complete(presetProvider, m, offers[m])
    BY DEF PresetInv
  <2>2. presetProvider.name \in Texts /\ offers[m] \in PresetRow
    BY Imported
  <2>3. applyPresetModelDefaults(presetProvider, m, offers[m]) = offers[m]
    BY <2>1, <2>2, Fixed
  <2> QED BY <2>1, <2>3 DEF Complete, Followed
<1> QED
  BY <1>1, PresetInitial, PresetStep, PTL DEF PresetSpec

(* No import takes back an endpoint, a group or a type chosen by hand.     *)
THEOREM ImportsKeepChoices == PresetSpec => ChoicesKept
<1> DEFINE Keeps ==
      \A remote \in SUBSET PresetModels : ImportModels(remote) =>
        \A m \in PresetModels :
          /\ offers[m].endpoint \notin {"absent", "", "chat"} => offers'[m].endpoint = offers[m].endpoint
          /\ offers[m] # NoRow /\ offers[m].group \notin {"", presetProvider.name} => offers'[m].group = offers[m].group
          /\ StartsWith(offers[m].types, offers'[m].types)
<1>1. PresetInv => Keeps
  <2> SUFFICES ASSUME PresetInv, NEW remote \in SUBSET PresetModels, ImportModels(remote), NEW m \in PresetModels
               PROVE  /\ offers[m].endpoint \notin {"absent", "", "chat"} => offers'[m].endpoint = offers[m].endpoint
                      /\ offers[m] # NoRow /\ offers[m].group \notin {"", presetProvider.name} =>
                           offers'[m].group = offers[m].group
                      /\ StartsWith(offers[m].types, offers'[m].types)
    OBVIOUS
  <2> DEFINE row == IF offers[m] = NoRow THEN Blank ELSE offers[m]
             new == applyPresetModelDefaults(presetProvider, m, row)
  <2>1. presetProvider.name \in Texts /\ offers[m] \in PresetRow /\ row \in PresetRow
    BY Imported
  <2>2. offers'[m] = IF m \in remote THEN new ELSE offers[m]
    BY DEF ImportModels
  <2>3. /\ row.types = offers[m].types
        /\ offers[m].endpoint # "absent" => row = offers[m]
        /\ offers[m] # NoRow => row = offers[m]
    BY ModelRows
  <2> HIDE DEF row
  <2>4. new \in PresetRow /\ Kept(presetProvider, Filled(presetProvider, row), new)
    BY <2>1, Completed
  <2>5. /\ Filled(presetProvider, row).types = row.types
        /\ row.endpoint # "" => Filled(presetProvider, row).endpoint = row.endpoint
        /\ row.group # "" => Filled(presetProvider, row).group = row.group
    BY <2>1, FilledFacts
  <2> HIDE DEF new
  <2>6. CASE m \in remote
    BY <2>2, <2>3, <2>4, <2>5, <2>6 DEF Kept
  <2>7. CASE m \notin remote
    <3>1. offers[m].types \in Seq(Texts)
      BY <2>1 DEF PresetRow
    <3>2. StartsWith(offers[m].types, offers[m].types)
      BY <3>1 DEF StartsWith
    <3> QED BY <2>2, <2>7, <3>2
  <2> QED BY <2>6, <2>7
<1>2. PresetInv /\ [PresetNext]_presetVars => [Keeps]_presetVars
  BY <1>1
<1> QED
  BY <1>2, PresetInitial, PresetStep, PTL DEF PresetSpec, ChoicesKept
=============================================================================
