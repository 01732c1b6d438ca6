---------------------------- MODULE AssetPipeline ----------------------------
(***************************************************************************)
(* From an uploaded file to a probed asset with a thumbnail: the requests  *)
(* that upload, edit and delete an asset, and the two tasks every upload   *)
(* enqueues, as the task worker processes them.                            *)
(*                                                                         *)
(* The task queue is used through what it promises, LeasedWork, which      *)
(* TaskQueueRefinement shows the queue to implement when batches end       *)
(* within their leases: Queue!Take, Queue!Report, Queue!Drop and           *)
(* Queue!Cancel are its actions, and what a worker does with a task in     *)
(* between is modelled here, one step per database statement or file       *)
(* operation that another actor can come in between.                       *)
(*                                                                         *)
(* An asset row is reduced to what somebody changes after the upload: its  *)
(* deletion mark and whether it has been probed; the columns an edit       *)
(* changes are left out.  Every Update of a row saves all its columns from *)
(* a copy read earlier.                                                    *)
(***************************************************************************)
EXTENDS Integers

CONSTANTS
  Assets,    \* assets that may be uploaded
  Editors,   \* concurrent update requests
  Workers,   \* task workers
  NoWorker,
  MaxLost    \* bound on thumbnail Saves that fail with their error ignored

ASSUME PipelineAssumption ==
  MaxLost \in Nat /\ NoWorker \notin Workers

Media == {"image", "video", "pdf", "other"}
Jobs == Assets \X {"probe", "thumb"}
Probe(a) == <<a, "probe">>
Thumb(a) == <<a, "thumb">>

VARIABLES
  upload,   \* how far createAssetFromReader has got
  media,    \* media type of the uploaded file
  asset,    \* table assets
  thumb,    \* table asset_thumbnails
  object,   \* the thumbnail file thumbnails/<asset>/thumb.png
  status, holder,  \* the task queue
  run,      \* what the holder of a task is doing with it
  copy,     \* the asset row a probe has read
  image,    \* the thumbnail row a thumbnail task has read
  edit,     \* update requests: the asset and the row to be saved
  lost      \* thumbnail Saves lost so far

queue == <<status, holder>>
rows == <<upload, media, asset, thumb, object>>
local == <<run, copy, image>>
vars == <<rows, queue, local, edit, lost>>

Queue == INSTANCE LeasedWork WITH Tasks <- Jobs
-----------------------------------------------------------------------------
AssetRow == [there : BOOLEAN, deleted : BOOLEAN, probed : BOOLEAN]
NoAsset == [there |-> FALSE, deleted |-> FALSE, probed |-> FALSE]

ThumbStatuses == {"none", "pending", "processing", "ready", "failed", "unsupported"}
ThumbRow == [status : ThumbStatuses, key : BOOLEAN]
NoThumb == [status |-> "none", key |-> FALSE]

NoEdit == [there |-> FALSE]
Edit == {NoEdit} \cup [there : {TRUE}, of : Assets, row : AssetRow]

(* thumbnailInitialStatus *)
InitialStatus(m) == IF m = "other" THEN "unsupported" ELSE "pending"

Init ==
  /\ upload = [a \in Assets |-> "none"]
  /\ media = [a \in Assets |-> "other"]
  /\ asset = [a \in Assets |-> NoAsset]
  /\ thumb = [a \in Assets |-> NoThumb]
  /\ object = [a \in Assets |-> "none"]
  /\ Queue!Init
  /\ run = [j \in Jobs |-> "off"]
  /\ copy = [a \in Assets |-> NoAsset]
  /\ image = [a \in Assets |-> NoThumb]
  /\ edit = [e \in Editors |-> NoEdit]
  /\ lost = 0
-----------------------------------------------------------------------------
(* createAssetFromReader: the file is in place and AssetsV2().Add inserts  *)
(* the row ...                                                             *)
UploadAsset(a, m) ==
  /\ upload[a] = "none"
  /\ upload' = [upload EXCEPT ![a] = "asset"]
  /\ media' = [media EXCEPT ![a] = m]
  /\ asset' = [asset EXCEPT ![a].there = TRUE]
  /\ UNCHANGED <<thumb, object, queue, local, edit, lost>>

(* ... then AssetThumbnails().Add ...                                      *)
UploadThumbnail(a) ==
  /\ upload[a] = "asset"
  /\ upload' = [upload EXCEPT ![a] = "thumbnail"]
  /\ thumb' = [thumb EXCEPT ![a] = [status |-> InitialStatus(media[a]), key |-> FALSE]]
  /\ UNCHANGED <<media, asset, object, queue, local, edit, lost>>

(* ... and the two tasks, which a worker may take at once.                 *)
EnqueueProbe(a) ==
  /\ upload[a] = "thumbnail"
  /\ upload' = [upload EXCEPT ![a] = "probe"]
  /\ Queue!Submit(Probe(a))
  /\ UNCHANGED <<media, asset, thumb, object, local, edit, lost>>

EnqueueThumbnail(a) ==
  /\ upload[a] = "probe"
  /\ upload' = [upload EXCEPT ![a] = "answered"]
  /\ Queue!Submit(Thumb(a))
  /\ UNCHANGED <<media, asset, thumb, object, local, edit, lost>>

(* A step fails: the request is answered with an error and what has been   *)
(* written stays.                                                          *)
UploadFails(a) ==
  /\ upload[a] \in {"asset", "thumbnail", "probe"}
  /\ upload' = [upload EXCEPT ![a] = "failed"]
  /\ UNCHANGED <<media, asset, thumb, object, queue, local, edit, lost>>
-----------------------------------------------------------------------------
(* AssetUpdate: Get ... *)
UpdateGet(e, a) ==
  /\ edit[e] = NoEdit
  /\ asset[a].there
  /\ edit' = [edit EXCEPT ![e] = [there |-> TRUE, of |-> a, row |-> asset[a]]]
  /\ UNCHANGED <<rows, queue, local, lost>>

(* ... and Save of the whole row. *)
UpdateSave(e) ==
  /\ edit[e] # NoEdit
  /\ asset' = [asset EXCEPT ![edit[e].of] = edit[e].row]
  /\ edit' = [edit EXCEPT ![e] = NoEdit]
  /\ UNCHANGED <<upload, media, thumb, object, queue, local, lost>>

(* AssetDelete: one conditional statement. *)
AssetDelete(a) ==
  /\ asset[a].there /\ ~asset[a].deleted
  /\ asset' = [asset EXCEPT ![a].deleted = TRUE]
  /\ UNCHANGED <<upload, media, thumb, object, queue, local, edit, lost>>
-----------------------------------------------------------------------------
(* Nobody processes task j any more; what was read for it is gone. *)
Forget(j) ==
  /\ run' = [run EXCEPT ![j] = "off"]
  /\ copy' = [a \in Assets |-> IF j = Probe(a) THEN NoAsset ELSE copy[a]]
  /\ image' = [a \in Assets |-> IF j = Thumb(a) THEN NoThumb ELSE image[a]]

(* The queue hands a task to a worker, which starts to process it. *)
Take(w, j) ==
  /\ Queue!Take(w, {j})
  /\ run' = [run EXCEPT ![j] = "start"]
  /\ UNCHANGED <<rows, copy, image, edit, lost>>

(* process() has returned: nil is reported as success, an error as         *)
(* another try or the end of the tries.                                    *)
Report(j) ==
  /\ run[j] \in {"ok", "error"}
  /\ Queue!Report(j)
  /\ status'[j] \in IF run[j] = "ok" THEN {"succeeded"} ELSE {"pending", "failed"}
  /\ Forget(j)
  /\ UNCHANGED <<rows, edit, lost>>

(* The worker dies, or its report is lost. *)
Drop(j) ==
  /\ holder[j] # NoWorker
  /\ Queue!Drop({j})
  /\ Forget(j)
  /\ UNCHANGED <<rows, edit, lost>>

CancelTask(j) ==
  /\ Queue!Cancel(j)
  /\ status[j] # "canceled"
  /\ UNCHANGED <<rows, local, edit, lost>>

(* A step of process() that leaves the tables alone. *)
Goto(j, pc) ==
  /\ run' = [run EXCEPT ![j] = pc]
  /\ UNCHANGED <<queue, edit>>

(* processAssetProbe: the asset row is read, the file is probed ...        *)
ProbeGet(a) ==
  /\ run[Probe(a)] = "start"
  /\ copy' = [copy EXCEPT ![a] = asset[a]]
  /\ Goto(Probe(a), "probed")
  /\ UNCHANGED <<rows, image, lost>>

(* Fault seeded for the checks: a new row is built from the file alone. *)
ProbeSaveNewRow(a) ==
  /\ run[Probe(a)] = "probed"
  /\ asset' = [asset EXCEPT ![a] = [copy[a] EXCEPT !.probed = TRUE, !.deleted = FALSE]]
  /\ Goto(Probe(a), "ok")
  /\ UNCHANGED <<upload, media, thumb, object, copy, image, lost>>

(* ... and the copy is saved with the facts found. *)
ProbeSave(a) ==
  /\ run[Probe(a)] = "probed"
  /\ asset' = [asset EXCEPT ![a] = [copy[a] EXCEPT !.probed = TRUE]]
  /\ Goto(Probe(a), "ok")
  /\ UNCHANGED <<upload, media, thumb, object, copy, image, lost>>

(* Backend, path, file or database error. *)
ProbeError(a) ==
  /\ run[Probe(a)] \in {"start", "probed"}
  /\ Goto(Probe(a), "error")
  /\ UNCHANGED <<rows, copy, image, lost>>

(* processAssetThumbnail: both rows are read; only images and videos get a *)
(* thumbnail.                                                              *)
ThumbGet(a) ==
  /\ run[Thumb(a)] = "start"
  /\ image' = [image EXCEPT ![a] = thumb[a]]
  /\ Goto(Thumb(a), IF media[a] \in {"image", "video"} THEN "begin" ELSE "unsupported")
  /\ UNCHANGED <<rows, copy, lost>>

(* The copy of the thumbnail row, with a new status, is saved. *)
SaveThumb(a, s) ==
  /\ image' = [image EXCEPT ![a].status = s]
  /\ thumb' = [thumb EXCEPT ![a] = image'[a]]
  /\ UNCHANGED <<upload, media, asset, object, copy, lost>>

(* A Save whose error is ignored is lost. *)
LoseThumb ==
  /\ lost < MaxLost
  /\ lost' = lost + 1
  /\ UNCHANGED <<rows, copy, image>>

ThumbUnsupported(a) ==
  /\ run[Thumb(a)] = "unsupported"
  /\ Goto(Thumb(a), "ok")
  /\ SaveThumb(a, "unsupported") \/ LoseThumb

(* Fault seeded for the checks: the row is not marked before the work. *)
ThumbProcessingUnsaved(a) ==
  /\ run[Thumb(a)] = "begin"
  /\ Goto(Thumb(a), "processing")
  /\ UNCHANGED <<rows, copy, image, lost>>

(* The row says processing before the file is touched. *)
ThumbProcessing(a) ==
  /\ run[Thumb(a)] = "begin"
  /\ Goto(Thumb(a), "processing")
  /\ SaveThumb(a, "processing")

(* Fault seeded for the checks: an error is answered as a success. *)
ThumbErrorIgnored(a) ==
  /\ run[Thumb(a)] \in {"start", "begin", "processing", "written"}
  /\ Goto(Thumb(a), "ok")
  /\ UNCHANGED <<rows, copy, image, lost>>

(* Database, backend, path or directory error: the row stays as it is. *)
ThumbError(a) ==
  /\ run[Thumb(a)] \in {"start", "begin", "processing", "written"}
  /\ Goto(Thumb(a), "error")
  /\ UNCHANGED <<rows, copy, image, lost>>

(* The thumbnail file is created or truncated. *)
ThumbCreate(a) ==
  /\ run[Thumb(a)] = "processing"
  /\ object' = [object EXCEPT ![a] = "torn"]
  /\ Goto(Thumb(a), "writing")
  /\ UNCHANGED <<upload, media, asset, thumb, copy, image, lost>>

(* All of it is written. *)
ThumbWrite(a) ==
  /\ run[Thumb(a)] = "writing"
  /\ object' = [object EXCEPT ![a] = "whole"]
  /\ Goto(Thumb(a), "written")
  /\ UNCHANGED <<upload, media, asset, thumb, copy, image, lost>>

(* The source cannot be read, or writing fails. *)
ThumbFailed(a) ==
  /\ run[Thumb(a)] \in {"processing", "writing"}
  /\ Goto(Thumb(a), "error")
  /\ SaveThumb(a, "failed") \/ LoseThumb

(* ffmpeg is not installed. *)
ThumbNoFfmpeg(a) ==
  /\ run[Thumb(a)] = "processing" /\ media[a] = "video"
  /\ Goto(Thumb(a), "ok")
  /\ SaveThumb(a, "unsupported") \/ LoseThumb

ThumbReady(a) ==
  /\ run[Thumb(a)] = "written"
  /\ image' = [image EXCEPT ![a] = [status |-> "ready", key |-> TRUE]]
  /\ thumb' = [thumb EXCEPT ![a] = image'[a]]
  /\ Goto(Thumb(a), "ok")
  /\ UNCHANGED <<upload, media, asset, object, copy, lost>>
-----------------------------------------------------------------------------
Uploading(a) ==
  \/ \E m \in Media : UploadAsset(a, m)
  \/ UploadThumbnail(a) \/ EnqueueProbe(a) \/ EnqueueThumbnail(a) \/ UploadFails(a)

Processing(a) ==
  \/ ProbeGet(a) \/ ProbeSave(a) \/ ProbeError(a)
  \/ ThumbGet(a) \/ ThumbUnsupported(a) \/ ThumbProcessing(a) \/ ThumbError(a)
  \/ ThumbCreate(a) \/ ThumbWrite(a) \/ ThumbFailed(a) \/ ThumbNoFfmpeg(a) \/ ThumbReady(a)

Next ==
  \/ \E a \in Assets :
        Uploading(a) \/ Processing(a) \/ AssetDelete(a) \/ \E e \in Editors : UpdateGet(e, a)
  \/ \E e \in Editors : UpdateSave(e)
  \/ \E j \in Jobs :
        Report(j) \/ Drop(j) \/ CancelTask(j) \/ \E w \in Workers : Take(w, j)

Spec == Init /\ [][Next]_vars
-----------------------------------------------------------------------------
(* Every variable keeps its type, and a task is being processed exactly    *)
(* while a worker holds it.                                                *)
TypeOK ==
  /\ upload \in [Assets -> {"none", "asset", "thumbnail", "probe", "answered", "failed"}]
  /\ media \in [Assets -> Media]
  /\ asset \in [Assets -> AssetRow] /\ copy \in [Assets -> AssetRow]
  /\ thumb \in [Assets -> ThumbRow] /\ image \in [Assets -> ThumbRow]
  /\ object \in [Assets -> {"none", "torn", "whole"}]
  /\ status \in [Jobs -> {"absent", "pending", "running", "succeeded", "failed", "canceled"}]
  /\ holder \in [Jobs -> Workers \cup {NoWorker}]
  /\ run \in [Jobs -> {"off", "start", "probed", "begin", "unsupported", "processing",
                        "writing", "written", "ok", "error"}]
  /\ \A j \in Jobs : run[j] = "off" <=> holder[j] = NoWorker
  /\ edit \in [Editors -> Edit]
  /\ lost \in 0..MaxLost

(* What AssetThumbnailPath serves: a row that says ready has an object key *)
(* and a complete file behind it, also while the task is run a second time *)
(* after its report was lost and the file is written anew.                 *)
ReadyIsServable ==
  \A a \in Assets : thumb[a].status = "ready" => thumb[a].key /\ object[a] = "whole"

(* A task never finds its rows missing: a worker may take it as soon as it *)
(* is enqueued, long before the upload request is answered, or after it    *)
(* failed half-way.                                                        *)
TasksFindTheirRows ==
  \A j \in Jobs : status[j] # "absent" => asset[j[1]].there /\ thumb[j[1]].status # "none"

(* When the thumbnail task has succeeded, the row has a final status,      *)
(* unless a Save whose error is ignored was lost: whatever earlier tries   *)
(* that crashed or failed half-way have left in the row.                   *)
SucceededIsFinal ==
  lost = 0 =>
    \A a \in Assets :
      status[Thumb(a)] = "succeeded" => thumb[a].status \in {"ready", "unsupported"}

(* Tasks and the rows they are about agree, from the enqueueing in         *)
(* createAssetFromReader to the end of processThumbnail.                   *)
TasksAndRowsAgree == TasksFindTheirRows /\ SucceededIsFinal

(* The copies of the row of a that somebody is still going to save. *)
InFlight(a) ==
  {edit[e].row : e \in {e \in Editors : edit[e].there /\ edit[e].of = a}}
    \cup {copy[b] : b \in {b \in {a} : run[Probe(b)] = "probed"}}

(* Once a deletion has reached every copy in flight it is never undone.    *)
DeletionSticks ==
  [][\A a \in Assets :
       asset[a].deleted /\ (\A r \in InFlight(a) : r.deleted)
         => asset'[a].deleted /\ (\A r \in InFlight(a)' : r.deleted)]_vars

(* platform.go: DeleteAsset "marks one asset as deleted ... the asset is   *)
(* hidden from default list/search results"; nothing restores an asset.    *)
DeletedStaysDeleted ==
  [][\A a \in Assets : asset[a].deleted => asset'[a].deleted]_vars
=============================================================================
