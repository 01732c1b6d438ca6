# OmniMAM: TLA+ models, checks and proofs

OmniMAM is a multi-media asset manager: an HTTP API server and a task worker,
both in Go, over one PostgreSQL database and a local object store. This
directory holds TLA+ specifications of its core, the TLC configurations that
check them on small instances, and proofs that TLAPS checks for every
instance. `PROJECT.json` lists the runs, the source lines behind every
definition, the seeded faults, the findings and the theorems.

## 1. The system

| Part | State | Operations | Hard behaviour |
|---|---|---|---|
| Task queue and worker (`store/postgresql/platform.go` 644-743, `worker/processor.go`) | table `tasks`: status, attempts, owner, lease | create, claim a batch, run, save the result, cancel | several workers, leases that expire under a slow one, whole-row saves of old copies, crashes, retries |
| Resumable upload (`service/v1/platform/service.go` 1069-1228, 1704-1804) | files in `upload-parts/<checksum>` | init, part, complete, cancel, hourly clean-up | requests meet only through file names, no locking |
| Assets (`service.go` 945-1067, 1230-1360, `processor.go` 123-250) | tables `assets`, `asset_thumbnails`, `tags`; object files | upload, update, delete, probe, thumbnail | uploads in five unprotected writes, background tasks that write the same rows as requests |
| Canvases and projects (`service/v1/canvas/project.go`) | tables `canvases`, `projects` | save with a conflict check, metadata, import, trash, project deletion | check-then-write, stale copies, several sessions |
| Providers and models (`service.go` 228-760) | `providers`, `provider_models`, `system_llm_configs` | create, update, delete with dependants, synchronise, presets | uniqueness by list-then-add, cascades in several statements |
| Prompt library, asset library (`service/v1/prompt`, `service/v1/asset`) | libraries, categories, items | create, move, delete, activate | one active library, last library stays, fallback category, names by check-then-insert |
| Storage backends, tags, groups (`service.go` 865-990, 1370-1400, 1520-1700) | `storage_backends`, `tags`, `asset_tags`, `asset_groups` | create, update, place an upload, replace tags | lost updates, a default backend by look-up-or-add, roots that outlive a restart |
| Search and delivery (`service.go` 1230-1266, 1461-1501, 1854-1945, `imachinery/list.go`, `processor.go` 314-362) | - | list by pages, search by a sentence, archives, thumbnails | pages over a list that changes, names that collide, integer division |
| Provider presets (`service.go` 556-716) | - | install, import, edit by hand | repeated defaults over choices |
| Single sign-on (`service/v1/setting`, `store/postgresql/setting.go`) | `settings`; `identity_provider` and `service_provider`, which stay empty | upsert; SAML request and answer | upserts without a unique index, clocks of two parties |
| HTTP layer (`route.go`, `controller/v1`, `pkg/core`, `apis/iapiserver/request_*.go`) | - | route, bind, validate, call, answer | ids in path and body, three binders with different rules |
| Server lifecycle (`server.go`, `pkg/httpsvr`, `pkg/app`) | process, listeners, schema | start, serve, shut down | goroutines of main, listeners and signals; two processes that create tables |
| Identity, shared packages, generators, web application | users, one-time passwords | - | thin, or no state of their own |

The parts meet in the database. An upload inserts an asset row, a thumbnail row
and two tasks; the worker claims the tasks and writes the asset and thumbnail
rows while users edit and delete them. A complete request of the resumable
upload goes through the same `createAssetFromReader`. Nothing holds a lock
across two statements except the claim transaction of the queue.

What makes the parts correct:

* queue: a row never mixes two writers; one worker per task as long as leases
  are long enough; retries end; what is final stays final;
* resumable upload: the asset is the file whose checksum was asked for; a
  chunk reported as uploaded is whole;
* assets: a thumbnail that says ready can be served; tasks find their rows; a
  deletion is permanent;
* canvases: no acknowledged save is lost without a conflict; no canvas in a
  project that does not exist;
* providers and libraries: names stay unique, nothing refers to a deleted row,
  a library is active and one stays;
* presets: imports settle, infer what the rules say and keep choices;
* search: a walk through the pages meets every asset once;
* backends and tags: content stays reachable, updates are not lost, an asset
  shows the tags last asked for;
* sign-on: a setting is the one last stored; only a request that can be
  answered passes, and the assertion about it is valid;
* HTTP: a message reaches the resource it names, checked, and is answered once;
* lifecycle: nobody is served before the schema is there, and a signal ends
  the process.

## 2. Modules

| Module | Models | Extends / uses |
|---|---|---|
| `TaskQueue` | the task table, workers, cancel requests, time | - |
| `LeasedWork` | what the queue promises: one holder per task | abstract |
| `TaskQueueRefinement` | the mapping from `TaskQueue` to `LeasedWork` | `TaskQueue`, `INSTANCE LeasedWork` |
| `TaskQueueProofs` | theorems about the queue and its refinement | `TaskQueueRefinement`, TLAPS |
| `ChunkUpload` | the upload directory of one checksum, system call by system call | - |
| `ChunkUploadProofs` | theorems | `ChunkUpload`, TLAPS |
| `AssetPipeline` | upload, probe, thumbnail, update, delete | `INSTANCE LeasedWork` as its queue |
| `AssetPipelineProofs` | theorems | `AssetPipeline`, `AssetDelivery`, `AssetSearch`, TLAPS |
| `ProviderCatalog` | providers, their models, default-model bindings | - |
| `ProviderCatalogProofs` | theorems | `ProviderCatalog`, `ProviderPresets`, TLAPS |
| `CanvasStore` | canvases, projects, the trash, editors and their saves | - |
| `CanvasStoreProofs` | theorems | `CanvasStore`, TLAPS |
| `AssetLibrary`, `PromptLibrary` | the two libraries, statement by statement | `Tables` |
| `LibraryProofs` | theorems | the two libraries, TLAPS |
| `StorageBackends`, `AssetGrouping`, `SsoSettings` | backends and uploads; tags and groups; sign-on settings | `Tables` |
| `PlatformProofs` | theorems | these three, `SamlSignOn`, `HttpApi`, TLAPS |
| `Tables` | rows by id: put and remove | - |
| `AssetSearch` | search, order and pages under uploads and deletions | - |
| `AssetDelivery` | archives, the names in them, thumbnail sizes | - |
| `ProviderPresets` | what presets put into providers and models | - |
| `HttpApi` | routes, handlers and request types as tables; one message at a time | - |
| `SamlSignOn` | a SAML request, its checks and the assertion about it | - |
| `ServerLifecycle` | the process from options to exit, a worker beside it | - |
| `ServerLifecycleProofs` | theorems | `ServerLifecycle`, TLAPS |
| `MCTaskQueue`, `MCChunkUpload`, `MCAssetPipeline`, `MCProviderCatalog`, `MCCanvasStore` | instances of one module | |
| `MCLifecycle`, `MCAssets`, `MCProviders`, `MCPlatform` | instances of several: the variable `side` picks the module a behaviour is about, and the others' variables do not change | |

### TaskQueue

`row` is the table. `ClaimSelect` and `ClaimCommit` are the two halves of the
claim transaction (`FOR UPDATE SKIP LOCKED`, then one Save per row), between
which the rows are locked; `held` and `seen` are the worker's in-memory batch.
`SaveSuccess` and `SaveFailure` write a copy back as `runOnce` does, over
whatever the row has become. `CancelGet`/`CancelSave` are the two statements
of `taskStore.Cancel`. `Crash`, `ClaimAbort` and `LoseSave` are the failures,
bounded by `MaxFaults`. Time is what is left of each lease; `Tick` lets it
pass. `SlowWork = FALSE` is the deployment's promise that a batch (up to four
tasks, run one after the other under one five-minute lease) ends in time.
The task types do nothing to the queue, so outcomes are a free choice.

### ChunkUpload

Files are modelled as names, inodes and open files, because the interesting
cases are a name removed, renamed or truncated under an open file. A file is a
sequence of blocks, copied block by block; a write past the end leaves a
`Hole`. `sum` is what a hash has been fed; SHA-256 is taken to be injective,
so comparing digests is comparing contents. `os.RemoveAll` lists the names
once, unlinks them one by one and then removes the directory, which fails if
something new has appeared. The modification time of the directory is the bit
`fresh` (younger than the clean-up TTL). The file system operations are marked
external in the map. Errors such as a full disk are the failing steps
`PartBreak`, `CompleteBreak` and `CompleteFail`; power failures (unsynced
data) are not modelled.

### AssetPipeline

`upload` is the progress of `createAssetFromReader`, which may fail after each
write. The queue is `LeasedWork`, so the results hold for the real queue when
batches end within their leases; that is exactly what
`QueueImplementsLeasedWork` proves. Between `Take` and `Report` the probe and
the thumbnail task take one step per statement or file operation. `copy` and
`image` are the rows they have read; `edit` those of update requests. Client
requests that enqueue further thumbnail tasks for the same asset by hand
(`POST /tasks`) are left out: with them two tasks could write one thumbnail
file at the same time. Asset and thumbnail row are read in one step, since
nothing changes whether an asset is an image or a video.

### ProviderCatalog

Every database call of a request is a step; `req` holds what the request
remembers between two calls: the row it read, the list it checked, the names
an import still has to go through. The calls differ in what they do to a row
that is gone: the UPDATE of a provider matches nothing (`ProviderUpdateWrite`),
gorm's Save of a model or a binding inserts it again (`ModelSave`,
`SyncUpdate`, `ConfigSave`). Names are elements of a small set and `Fold` is
`strings.EqualFold` after trimming; `ensureProviderModelUnique` folds, the
import does not. The remote model list is any of `RemoteLists`; a remote that
does not answer is a request that does not begin. `late` records the providers
for which a row was written while or after they were deleted: neither
`ProviderModelCreate` nor `SystemLLMConfigUpsert` looks the provider up. The
row ids of bindings are left out, so a Save over a newer row of the same
purpose may either succeed or fail.

### CanvasStore

A drawing is the set of edits it contains. `view` is what a session's editor
shows and the `BaseUpdatedAt` it would send; `CanvasSave` with
`checked = FALSE` is a save without it, which is what the web application
sends. `Update` writes every column except `deleted_at` by id alone and
answers with the update time that was read, so the session's next checked save
is refused until it reloads. `acked` collects the edits whose save succeeded.
`exposed` records the three ways round the conflict check: a save without a
base over a newer row, a write of a row that changed after it was read, and
two updates at the same clock value. Time is the server's clock in
milliseconds; days of retention are ticks of the same clock.

### Libraries, backends, tags, settings

`AssetLibrary`, `PromptLibrary`, `StorageBackends`, `AssetGrouping` and
`SsoSettings` have one form: tables are functions from ids to rows, a session
has one request, each statement (or transaction that only writes) is a step,
and any call may fail. READ COMMITTED is modelled by splitting a transaction
where it reads: a lookup and the insert after it are two steps, `SELECT ... FOR
UPDATE` locks the row it finds and nothing when it finds none. A deletion of a
library or a category is one step for each of its DELETE statements and one for
the commit: rows that another request commits in between were not looked for
and stay behind, rows that a statement has taken are locked. Names and defaults
are looked up and then written without unique indexes, so the properties do not
claim uniqueness: they say which request, overtaken by which other or legal by
itself, a clash comes of, and that there is no other way. What they need of the
past is recorded in the rows and requests: `raced`, `renamed`, `stray` and
`late` in `AssetLibrary`, `unowned`, `blind` and `late` in `PromptLibrary`,
`over` and `excused` in `StorageBackends`, `over`, `unseen` and `blended` in
`AssetGrouping`, `new` and `rivals` in `SsoSettings`. None of them guards a step.

### AssetSearch, AssetDelivery, ProviderPresets

`AssetSearch` walks through the pages of one query while assets are uploaded
and deleted. A name or a sentence is a sequence of words. `Orders` are all the
orders that `created_at DESC` allows; `came` and `left` are the assets that
began and ceased to match during the walk. Conditions that compare one more
column are left out.

`AssetDelivery` writes one archive entry per step, or begins it and breaks off
in the copy, which leaves a torn entry and ends the archive; a name is a stem,
whether it has slashes at its ends, and the numbers appended. Numbered copies can
still meet a name that ends in such a number, which `ArchiveComplete` names as
the only case. `ThumbnailFits` is checked over all sides up to the bound.

`ProviderPresets` holds the preset table and the three functions that apply
it. A model's name is the set of the rules' words in it. `Looped` is the value
of a variable after a loop over a list; `applyPresetModelDefaults` is one over
the rules with one over each rule's types in it. `settled` is true from a full
import until the next change.

### HttpApi

Three tables follow `route.go`, the controllers and the request types: which
handler, what it decodes and where the id comes from, which fields are
demanded and by which binder. A message is abstracted to its encoding, the one
field it lacks, an id of its own, and whether values parse. The tables are in
parts, one for each group of handlers or types, and `Entry` finds a name in
them. The services are a step that succeeds or fails.

### SamlSignOn

One request, made by this software or another, of any age. `Validate` and
`getACSEndpoint` have value receivers, so what they find is lost to the
handler: `frame` is what the handler has, `Validated(frame)` the copy. In the
code as it is nobody calls `MakeAssertion`, so a request that passes makes the
handler dereference nil ("panicked"); the properties of the assertion are
about what `MakeAssertion` would build of the validated copy. Its attributes
are a set of pairs of a name and a value: their order and how often one is
repeated are left out.

### ServerLifecycle

The main goroutine, one goroutine per listener, the one that waits for signals
and each request take steps of their own. `Options` are those the start tells
apart. `LookForTable` and `CreateTable` are the two halves of gorm's
migration, which the worker runs as well. `DeadlinePasses` is the end of the
ten seconds a shutdown may take.

## 3. Runs

| Run | Instance | Shows |
|---|---|---|
| `queue_slow` | 2 tasks, 2 workers, leases that expire at once, one fault, one cancellation | `RowsCoherent`, `RunningIsAttended`, `SettledIsFinal` |
| `queue_prompt` | 3 tasks, batches of 2, two priorities, one fault | `ExclusiveWhenPrompt`, `ImplementsLeasedWork` |
| `lifecycle` | 1 task, 2 queues of which one is polled, 3 faults, any `max_attempts`; or any options, 2 tables, 2 requests | liveness `Converges`, `FinishesWithoutFaults`, `SignalEnds`; `StartsReady`, `ShutdownOrderly` |
| `upload` | 2-block file, chunk sizes 1 and 2, 2 part requests; either different indices, cancellations, a crash, 4 requests; or any index, a complete request, 4 requests | `PartsWhole`, `VerifiedWhenAlone`, types |
| `assets` | 1 asset, 2 workers, 1 update, 1 lost Save; or 3 assets and pages of 1 and 2; or archives of 3 items and images up to 12 pixels; or 2 sessions on 2 libraries, none or one at the start | pipeline: `ReadyIsServable`, `TasksAndRowsAgree`, `DeletionSticks`; search: `ListedExactlyOnce`; delivery: `ArchiveComplete`, `ThumbnailFits`; library: `LibraryExplained`, `LastLibraryStays` |
| `providers` | 1 provider, 2 models, 2 overlapping requests, one failing call; or a preset with three rules on 2 models; or 2 sessions on 2 prompt libraries | catalogue: `DeletedLeavesNothing`, `ProviderGoneForGood`, `ModelDeletionSticks`; presets: `ImportSettles`, `ChoicesKept`; prompts: `PromptLossExplained`, `ActiveIsOurs` |
| `platform` | 2 sessions on 2 backends and 2 files; or 3 tags; or 2 settings with 2 rows, 3 contents and 4 upserts; or any message; or one SAML request | backends: `ContentReachable`, `BackendsExplained`; tags and groups: `GroupingExplained`; settings: `SettingsExplained`; HTTP: `ServedAsSent`, `AnsweredOnce`; SAML: `RequestsJudged`, `AssertionFits` |
| `canvas` | 1 canvas, the default project and another, 2 sessions, 2 edits, clock up to 3 | `NoSilentLoss`, `DeletedProjectIsEmpty`, `TrashKept`, types |

The type invariants that no run lists are proved (section 4). A property named `...Explained` lists what
would surprise a user (a row twice, an update lost) and says which overlap of
requests it takes; its parts are defined just before it.

Four runs end in a counterexample, each for a sentence of the repository:

* `queue_canceled`, `CanceledIsTerminal`: a canceled task comes back when the
  worker that had claimed it saves its copy.
* `upload_twice`, `CompletedAssetsHaveChecksum`: a second complete request
  truncates `merged` between the verification and the second read of the
  first one, and an asset with other content than was verified is created.
* `pipeline_deleted`, `DeletedStaysDeleted`: a probe that read the row before
  the deletion saves it afterwards, and the asset is back.
* `catalog_sync`, `ModelsUnique`: an import looks a remote model up by its
  exact name and adds it without the uniqueness check, so a provider has a
  model twice, in different case or under a display name that is taken. One
  request at a time is enough.

Bounds. Two workers are enough for every race between a holder and a
successor; the third task of `queue_prompt` makes batches compete under the
limit. The priorities and `max_attempts` of a request range over the values
the code tells apart (0 for the default, negative, one, more). A two-block
file with chunk sizes 1 and 2 has chunks that overlap, parts that are
prefixes of others, and torn parts; more blocks add longer copies only.
The `MC` modules that count requests bound how many begin, not how they
overlap; a bound that is used up, a message that is answered or a process that
has ended are the only ways a behaviour can stop, so deadlock is checked where
none of these occurs (the queue, the server, the catalogue alone, canvases).
In `AssetPipeline` assets do not interact, so one is enough; every upload can
end, so deadlock is not checked either. In `ProviderCatalog` two requests meet
on one provider, whose own life (created, renamed, installed again, deleted)
is complete; two models are needed for a clash and for a list that is out of
date. In `CanvasStore` canvases meet only through their project, so one is
enough; three clock values give an update, a later one and one within the same
millisecond, and let the trash expire. In the libraries and the platform
modules two sessions with three or more requests give every overlap of two
requests after any one before them. Three assets and pages of one and two make
walks of several pages that lose and gain rows; a page size of 3 is above the
limit. In `SamlSignOn` the clock goes past the issue delay on both sides.

Fairness. In `TaskQueue`: workers poll in a loop (`Run`'s ticker), the
clock runs, a request that has read a row saves it, and the process supervisor
restarts a dead worker. No fault, cancellation or creation is fair. The claim
and save of a worker need weak fairness only, because nobody else can disable
them for ever. In `ServerLifecycle`: the goroutine that shuts down runs, and
the ten seconds pass; requests need never end and a signal need not come.

### Where code and documents differ

Besides the four findings, the modules record these differences (they are
what the code does, and the properties are stated accordingly):

* Shutdown: "it has 10 seconds to finish the request" (`httpsvr/server.go`
  240-241) holds for HTTPS only while the HTTP listener is still open; `Run`
  returns and the process exits as soon as the listeners are closed.
* A certificate directory overrides certificate files, although the help of
  the flag (`secure_server.go` 93-96) says it is ignored then; `mysql` passes
  the validation of options and is refused when the database is opened.
* SAML: the identity provider's answer panics; its metadata lists
  HTTP-Redirect first, for which there is no route, so requests of the same
  software by redirect find none; the assertion consumer
  (`docs/modules/auth-sso-settings.md` 28) refuses every message because
  nothing sets `RelayState`; service and identity providers can never be
  added, since `Validate` ends in an error for either protocol; rows in the
  layout the hooks write are not found by key, and `ssoIdp.GetByName` looks in
  the table of service providers.
* `PATCH /asset-library/libraries/:id` (`docs/modules/asset-library.md` 27)
  and the other requests that embed `ObjectMeta` make the validator panic.
* A search by a sentence keeps the sentence as the keyword, so it finds only
  names that contain all of it; the total of a list is 0 from page two on,
  because the count runs with the page's offset.

## 4. Proofs

TLAPS checks the theorems for every value of the constants: any number of
workers, sessions, rows, faults and retries, any limit. They rest on the named
assumptions of the modules, which TLC evaluates in the runs, and on nothing
else. One assumption is there for a proof only: `Completers` of `ChunkUpload`
is finite, because `VerifiedWhenAlone` counts them. The modules that a run
composes with others have a specification of their own to prove about
(`LifecycleSpec`, `DeliverySpec`, `SearchSpec`, `PresetSpec`, `StoreSpec`,
`SsoSpec`, `TagSpec`, `SamlSpec`, `HttpSpec`, `AssetSpec`, `PromptSpec`): its
initial states and next-state relation are the ones the run uses, without the
run's bound on requests. Every safety property that a passing run checks is
the statement of a theorem.

Hardly any of the properties is inductive, and for one reason: a step acts on
what its process read some steps before. The strengthening says, for every
stage of a request, what still holds of what it has read, or that it knows it
was overtaken. TLC checked each of the new ones as an invariant before it was
proved (up to 11 million states).

Task queue (`TaskQueueProofs`):

* `TypeCorrect`.
* `RowsAlwaysCoherent`. A Save writes a copy, so the copies must be coherent
  too. `CoherenceInv` adds that every canceled image is coherent, that a
  worker's remembered `Attempts` lies between 1 and `max`, and that a row
  inside an open claim transaction can be claimed.
* `RunningAlwaysAttended`, from the same invariant and who may own a row.
* `ClaimsAreExclusive`. `PromptInv` says that a row in the batch of a worker
  is either still locked by its transaction or is running with an owner and a
  lease at least as long as the batch's (or was canceled); so no second claim
  can select it before the lease is over.
* `SettledRowsAreFinal`, an action property.
* `QueueImplementsLeasedWork`: initial states map to initial states and every
  step of the queue to a step of `LeasedWork` or to a stutter.

Resumable upload (`ChunkUploadProofs`), from `UploadInv`:

* `UploadTypes`. A request has a file open exactly while it copies.
* `NoTornPart`. As long as requests for one index do not overlap, the file a
  request writes has its temporary name or none, nobody else has it open, and
  it holds what has been received of the chunk (`PartsInv`); so a rename gives
  its final name to a whole chunk, although names are removed, created again
  and truncated under open files.
* `StoresWhatItVerified`. With one completion at a time its hash has been fed
  what `merged` holds, and `merged` keeps what was verified until it has been
  read again (`MergedInv`): the only other requests that create files never
  have the inode of `merged` open (`Disk`).

Assets and their delivery (`AssetPipelineProofs`):

* `PipelineTypeCorrect`.
* `ReadyThumbnailsAreServable`. The inductive `ServableInv` adds what the
  order of writes in `processAssetThumbnail` establishes: while the file is
  being written the row does not say ready, and before the final Save the
  file is whole.
* `TasksAgreeWithRows`. `AgreeInv` adds that the rows are there before their
  tasks are queued, that what an edit or a probe saves is a copy of a row, and
  that a task in work is running or was canceled; a row is final before its
  task reports.
* `DeletionsStick`, an action property.
* `ArchivesComplete`. `ZipInv` numbers the uses of a name: the n-th item of a
  name has an entry with the number n. Entries are whole, but for the last one
  of an archive that broke off.
* `ThumbnailsFit`, for pictures of any size: integer division, from four
  lemmas on products and quotients.
* `WalksAreExact`, for tables, pages and walks of any length. Ids grow with the
  time of creation, so unless two rows are tied the place of a row in the list
  is the number of matches with a greater id (`Places`), whichever of the
  `Orders` the database picks. `SearchInv`: what was listed has a place before
  the offset of the next page while nothing has come to match, what was not
  has one at or behind it while nothing has ceased to. A row that comes moves
  the others down, one that goes moves them up (`PlaceGrows`), which is all
  that can spoil either.

Canvases (`CanvasStoreProofs`):

* `TypeCorrect`.
* `NoEditLost`. The conflict check compares times, so `LossInv` has to say
  why times are enough: an editor or a request whose version is still that of
  the row holds every acknowledged edit, and nobody knows a newer version.
* `NothingLeftBehind`. A project is empty from the move of its canvases on,
  before its row goes, and the default project, which they are moved to, is
  never deleted (`EmptyInv`).
* `TrashIsKept`, an action property.

Providers (`ProviderCatalogProofs`), from `CatalogInv`, which says what each
stage of `ProviderDelete` has achieved for providers nothing was written for
and that an import only holds rows of its own provider:

* `CatalogTypeCorrect`.
* `DeletedProviderLeavesNothing`. The argument rests on the order of the three
  deletes, not on all of them succeeding.
* `ProvidersStayDeleted` and `ModelsStayDeleted`, action properties.

Presets (the same module), from `PresetInv`: a row is complete after an import
until something is changed, complete meaning that it has an endpoint and a
group and has followed every rule that matches.

* `ImportsSettle`. A loop is a recursive function. The proof shows that the
  sequence of its values exists and is unique (`LoopExists`, `SameLoop`), then
  counts along it: what one rule has done no later one undoes (`RuleStep`,
  `Completed`), and a complete row is what the loop leaves as it is (`Fixed`).
  The counting is by the least number that is left out (`Counting`).
* `ImportsKeepChoices`, an action property, from what a rule keeps of a row.

Libraries (`LibraryProofs`):

* `LibrarySurprisesExplained`, `OneLibraryIsKept`. `LibraryInv`: a name that
  was found free is free and a library that was found not to be the last is not,
  unless the request was overtaken; and once a statement of a deletion has
  taken the categories or items it found, those that refer to what is being
  deleted are marked as stray or late, so its commit leaves no other behind.
* `PromptLossesExplained`, `ActiveLibraryIsOurs`. `PromptInv`: once
  a deletion has looked for the items of its library or category only items
  marked as unowned, blind or late come to it, and a SetActive has read, or
  knows of, every library that is marked.

Backends, settings, tags, groups, SAML and HTTP (`PlatformProofs`):

* `ContentStays`, `PlacementsExplained`. `StoreInv`: the roots in the table are
  absolute, so they mean the same after a restart elsewhere; a row about to be
  saved is the patched row of the table unless its request was overtaken, and
  it moves the backend only if a client asked for that.
* `SettingsAreExplained`. `SsoInv`: rows that an upsert does not know of, and
  rows before the one it has found, were inserted by others since it looked,
  and so is what they hold. An upsert that no insertion overtook therefore
  writes the row that is read.
* `GroupingIsExplained`. `TagInv`: a replacement has found a tag of the right
  name for each name it is through with, and what its delete has seen is all
  there is for its asset and source unless another one committed since; so the
  links after a commit are the new ones, plus those of a commit it did not see.
* `RequestsAreJudged`, `AssertionsLast`. `SamlInv`: the frame of the handler
  has a time and nothing else, a request of our own has the form the service
  provider gives it, and a request that is being answered or was refused after
  `Validate` is one for which the checks have that outcome, although nothing
  keeps it. The endpoint of the answer is the first of the first selection
  that is not empty (`EndpointFits`), which is where a fall-through would show.
* `AssertionsFit` adds the attributes and the key. What `MakeAssertion` answers
  is what the service it takes asks for in a known format (`AttributesAsked`),
  that service is a default one if there is one (`ServiceTaken`), and the key
  is none for signatures (`KeyTaken`). These lemmas are about lists of any
  length; the property is about one or two services and up to two keys.
* `MessagesServedAsSent`, `MessagesAnsweredOnce`. `RoutesCoherent` goes through
  all routes, handlers and types: a route with an id has a handler that is
  given it, a handler that decodes goes through `core.Run` or is the download,
  whose type has no hook that would be skipped, and a type whose `Validate`
  always fails is only reached by messages that make the validator panic
  before. A new route or type that breaks one of these breaks the proof.
  `StageInv` then says what is known of a message at each stage.

Server (`ServerLifecycleProofs`), from `LifecycleInv`:

* `OnlyReadyServes`. What has been done at every stage of `main`; no process
  is ahead of the tables, and one that lost a race for a table stays behind.
* `OrderlyEnds`. What has been closed and drained at every stage of the
  shutdown callback. It speaks of a signal at any moment: `Close` of a server
  that does not exist yet crashes the process, which the theorem bounds to the
  stages of `main` before both servers are made; no request over HTTPS is cut
  off by it.

Only model-checked, and why:

* `Converges`, `FinishesWithoutFaults`, `SignalEnds`: liveness under fairness
  is out of the prover's reach.
* The counterexamples of the four runs that end in one are TLC's.

## 5. Plan

1. A client of `ChunkUpload` that resumes after failures, with the liveness of
   an upload; the merge of canvas graphs.
2. Services and keys of any number in `AssertionFits`, whose lemmas have them
   already.

## 6. Not modelled

* Identity: users and one-time passwords are reads and writes of single rows;
  their routes are in `HttpApi`.
* Middlewares, logging, configuration files, gRPC stubs, string and crypto
  helpers: no state of their own, or input and output only.
* XML, signatures, encryption, ffmpeg, the SQL engine below READ COMMITTED:
  libraries, represented by what the code relies on.
* The tables of identity and service providers (`sso_idp.go`, `sso_sp.go`):
  nothing can be written to them, see section 3. `SamlSignOn` takes what a
  lookup answers as an input, `HttpApi` has the requests and their refusal.
* Code generators under `tools/` run at build time.
* The web application, except for how it cuts a file into chunks.
