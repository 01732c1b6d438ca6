------------------------- MODULE AssetPipelineProofs -------------------------
(* Theorems about AssetPipeline, for any number of assets, workers, update *)
(* requests and lost Saves, and about AssetDelivery, for downloads of any  *)
(* number of items and images and thumbnails of any size, and about        *)
(* AssetSearch, for tables, pages and walks of any length.                 *)
EXTENDS AssetPipeline, AssetDelivery, AssetSearch, SequenceTheorems, FunctionTheorems,
  FiniteSetTheorems, TLAPS

(* The tasks of one asset, and of different assets, are different.         *)
LEMMA JobsDiffer ==
  ASSUME NEW a \in Assets
  PROVE  /\ Probe(a) \in Jobs /\ Thumb(a) \in Jobs
         /\ \A b \in Assets : Probe(b) # Thumb(a)
         /\ \A b \in Assets : Thumb(b) = Thumb(a) <=> b = a
         /\ \A b \in Assets : Probe(b) = Probe(a) <=> b = a
  BY DEF Probe, Thumb, Jobs

(* The queue's actions keep the types of its variables and say how the     *)
(* holder of a task changes.                                               *)
QueueTypes ==
  /\ status \in [Jobs -> {"absent", "pending", "running", "succeeded", "failed", "canceled"}]
  /\ holder \in [Jobs -> Workers \cup {NoWorker}]

(* The queue's steps keep its types, and say who holds a task after them. *)
LEMMA QueueSteps ==
  ASSUME QueueTypes, NEW j \in Jobs
  PROVE  /\ Queue!Submit(j) => QueueTypes' /\ holder' = holder
         /\ Queue!Cancel(j) => QueueTypes' /\ holder' = holder
         /\ Queue!Drop({j}) => QueueTypes' /\ holder' = [holder EXCEPT ![j] = NoWorker]
         /\ Queue!Report(j) => QueueTypes' /\ holder' = [holder EXCEPT ![j] = NoWorker]
         /\ \A w \in Workers : Queue!Take(w, {j}) =>
              QueueTypes' /\ holder' = [holder EXCEPT ![j] = w] /\ holder[j] = NoWorker
<1>1. Queue!Submit(j) => QueueTypes' /\ holder' = holder
  BY DEF QueueTypes, Queue!Submit
<1>2. Queue!Cancel(j) => QueueTypes' /\ holder' = holder
  BY DEF QueueTypes, Queue!Cancel
<1>3. Queue!Drop({j}) => QueueTypes' /\ holder' = [holder EXCEPT ![j] = NoWorker]
  BY DEF QueueTypes, Queue!Drop
<1>4. Queue!Report(j) => QueueTypes' /\ holder' = [holder EXCEPT ![j] = NoWorker]
  BY DEF QueueTypes, Queue!Report
<1>5. ASSUME NEW w \in Workers, Queue!Take(w, {j})
      PROVE  QueueTypes' /\ holder' = [holder EXCEPT ![j] = w] /\ holder[j] = NoWorker
  BY <1>5 DEF QueueTypes, Queue!Take
<1> QED BY <1>1, <1>2, <1>3, <1>4, <1>5

Runs == {"off", "start", "probed", "begin", "unsupported", "processing",
         "writing", "written", "ok", "error"}

(* The parts of TypeOK, by who writes them.                                *)
RowTypes ==
  /\ upload \in [Assets -> {"none", "asset", "thumbnail", "probe", "answered", "failed"}]
  /\ media \in [Assets -> Media]
  /\ asset \in [Assets -> AssetRow] /\ copy \in [Assets -> AssetRow]
  /\ thumb \in [Assets -> ThumbRow] /\ image \in [Assets -> ThumbRow]
  /\ object \in [Assets -> {"none", "torn", "whole"}]
RunTypes ==
  /\ run \in [Jobs -> Runs]
  /\ \A j \in Jobs : run[j] = "off" <=> holder[j] = NoWorker
EditTypes == edit \in [Editors -> Edit]

(* The types, one group of variables at a time. *)
LEMMA TypeParts ==
  /\ TypeOK <=> RowTypes /\ QueueTypes /\ RunTypes /\ EditTypes /\ lost \in 0..MaxLost
  /\ TypeOK' <=> RowTypes' /\ QueueTypes' /\ RunTypes' /\ EditTypes' /\ lost' \in 0..MaxLost
  BY DEF TypeOK, RowTypes, QueueTypes, RunTypes, EditTypes, Runs

(* Setting a mark of a row gives a row. *)
LEMMA MarkedRows ==
  ASSUME NEW r \in AssetRow
  PROVE  /\ [r EXCEPT !.there = TRUE] \in AssetRow
         /\ [r EXCEPT !.deleted = TRUE] \in AssetRow
         /\ [r EXCEPT !.probed = TRUE] \in AssetRow
  BY DEF AssetRow

(* A step of process() keeps the types of run. *)
LEMMA GotoTypes ==
  ASSUME QueueTypes, RunTypes, NEW j \in Jobs, run[j] # "off",
         NEW pc \in Runs \ {"off"}, Goto(j, pc)
  PROVE  QueueTypes' /\ RunTypes' /\ edit' = edit
<1>1. QueueTypes' /\ holder' = holder /\ edit' = edit
  BY DEF Goto, QueueTypes, queue
<1>2. run' \in [Jobs -> Runs]
  BY DEF Goto, RunTypes
<1>3. \A i \in Jobs : run'[i] = "off" <=> holder'[i] = NoWorker
  BY <1>1 DEF Goto, RunTypes
<1> QED BY <1>1, <1>2, <1>3 DEF RunTypes

(* So do the Saves of a thumbnail row. *)
LEMMA SaveTypes ==
  ASSUME RowTypes, lost \in 0..MaxLost, NEW a \in Assets, NEW s \in ThumbStatuses,
         SaveThumb(a, s) \/ LoseThumb
  PROVE  RowTypes' /\ lost' \in 0..MaxLost
<1>1. CASE SaveThumb(a, s)
  <2>1. [image[a] EXCEPT !.status = s] \in ThumbRow
    BY DEF RowTypes, ThumbRow
  <2>2. image' \in [Assets -> ThumbRow] /\ thumb' \in [Assets -> ThumbRow]
    BY <1>1, <2>1 DEF SaveThumb, RowTypes
  <2> QED BY <1>1, <2>2 DEF SaveThumb, RowTypes
<1>2. CASE LoseThumb
  BY <1>2, PipelineAssumption DEF LoseThumb, RowTypes, rows
<1> QED BY <1>1, <1>2

(* The types hold initially. *)
LEMMA TypeInit == Init => TypeOK
<1> SUFFICES ASSUME Init PROVE TypeOK
  OBVIOUS
<1>1. RowTypes
  BY DEF Init, RowTypes, Media, AssetRow, NoAsset, ThumbRow, NoThumb, ThumbStatuses
<1>2. QueueTypes /\ RunTypes
  BY DEF Init, Queue!Init, QueueTypes, RunTypes, Runs
<1>3. EditTypes /\ lost \in 0..MaxLost
  BY PipelineAssumption DEF Init, EditTypes, Edit
<1> QED BY <1>1, <1>2, <1>3, TypeParts

(* An upload and the two tasks it queues keep the types. *)
LEMMA TypeUploading ==
  ASSUME TypeOK, NEW a \in Assets, Uploading(a)
  PROVE  TypeOK'
<1> USE TypeParts
<1>1. CASE \E m \in Media : UploadAsset(a, m)
  <2> PICK m \in Media : UploadAsset(a, m)
    BY <1>1
  <2>1. [asset[a] EXCEPT !.there = TRUE] \in AssetRow
    <3>1. asset[a] \in AssetRow BY DEF RowTypes
    <3> QED BY <3>1, MarkedRows
  <2>2. RowTypes'
    BY <2>1 DEF UploadAsset, RowTypes, local
  <2> QED BY <2>2 DEF UploadAsset, QueueTypes, RunTypes, EditTypes, queue, local
<1>2. CASE UploadThumbnail(a)
  <2>1. [status |-> InitialStatus(media[a]), key |-> FALSE] \in ThumbRow
    BY DEF InitialStatus, ThumbRow, ThumbStatuses
  <2>2. RowTypes'
    BY <1>2, <2>1 DEF UploadThumbnail, RowTypes, local
  <2> QED BY <1>2, <2>2 DEF UploadThumbnail, QueueTypes, RunTypes, EditTypes, queue, local
<1>3. CASE EnqueueProbe(a)
  BY <1>3, JobsDiffer, QueueSteps DEF EnqueueProbe, RowTypes, RunTypes, EditTypes, local
<1>4. CASE EnqueueThumbnail(a)
  BY <1>4, JobsDiffer, QueueSteps DEF EnqueueThumbnail, RowTypes, RunTypes, EditTypes, local
<1>5. CASE UploadFails(a)
  BY <1>5 DEF UploadFails, RowTypes, QueueTypes, RunTypes, EditTypes, queue, local
<1> QED BY <1>1, <1>2, <1>3, <1>4, <1>5 DEF Uploading

(* An update and a delete of an asset keep the types. *)
LEMMA TypeRequests ==
  ASSUME TypeOK
  PROVE  /\ \A a \in Assets, e \in Editors : UpdateGet(e, a) => TypeOK'
         /\ \A e \in Editors : UpdateSave(e) => TypeOK'
         /\ \A a \in Assets : AssetDelete(a) => TypeOK'
<1> USE TypeParts
<1>1. ASSUME NEW a \in Assets, NEW e \in Editors, UpdateGet(e, a) PROVE TypeOK'
  <2>1. asset[a] \in AssetRow
    BY DEF RowTypes
  <2>2. EditTypes'
    BY <1>1, <2>1 DEF UpdateGet, EditTypes, Edit
  <2> QED BY <1>1, <2>2 DEF UpdateGet, RowTypes, QueueTypes, RunTypes, rows, queue, local
<1>2. ASSUME NEW e \in Editors, UpdateSave(e) PROVE TypeOK'
  <2>1. edit[e].of \in Assets /\ edit[e].row \in AssetRow
    BY <1>2 DEF UpdateSave, EditTypes, Edit
  <2>2. RowTypes'
    BY <1>2, <2>1 DEF UpdateSave, RowTypes, local
  <2>3. EditTypes'
    BY <1>2 DEF UpdateSave, EditTypes, Edit
  <2> QED BY <1>2, <2>2, <2>3 DEF UpdateSave, QueueTypes, RunTypes, queue, local
<1>3. ASSUME NEW a \in Assets, AssetDelete(a) PROVE TypeOK'
  <2>1. [asset[a] EXCEPT !.deleted = TRUE] \in AssetRow
    <3>1. asset[a] \in AssetRow BY DEF RowTypes
    <3> QED BY <3>1, MarkedRows
  <2>2. RowTypes'
    BY <1>3, <2>1 DEF AssetDelete, RowTypes, local
  <2> QED BY <1>3, <2>2 DEF AssetDelete, QueueTypes, RunTypes, EditTypes, queue, local
<1> QED BY <1>1, <1>2, <1>3

(* A task taken, reported, dropped or canceled keeps the types. *)
LEMMA TypeQueue ==
  ASSUME TypeOK, NEW j \in Jobs,
         Report(j) \/ Drop(j) \/ CancelTask(j) \/ \E w \in Workers : Take(w, j)
  PROVE  TypeOK'
<1> USE TypeParts
<1>1. ASSUME Forget(j), UNCHANGED rows
      PROVE  RowTypes' /\ run' = [run EXCEPT ![j] = "off"]
  <2>1. NoAsset \in AssetRow /\ NoThumb \in ThumbRow
    BY DEF NoAsset, AssetRow, NoThumb, ThumbRow, ThumbStatuses
  <2> QED BY <1>1, <2>1 DEF Forget, RowTypes, rows
<1>f. ASSUME run' = [run EXCEPT ![j] = "off"], holder' = [holder EXCEPT ![j] = NoWorker]
      PROVE  RunTypes'
  BY <1>f DEF RunTypes, QueueTypes, Runs
<1>2. CASE Report(j)
  <2>1. QueueTypes' /\ holder' = [holder EXCEPT ![j] = NoWorker]
    BY <1>2, QueueSteps DEF Report
  <2>2. RowTypes' /\ run' = [run EXCEPT ![j] = "off"]
    BY <1>2, <1>1 DEF Report
  <2> QED BY <1>2, <1>f, <2>1, <2>2 DEF Report, EditTypes
<1>3. CASE Drop(j)
  <2>1. QueueTypes' /\ holder' = [holder EXCEPT ![j] = NoWorker]
    BY <1>3, QueueSteps DEF Drop
  <2>2. RowTypes' /\ run' = [run EXCEPT ![j] = "off"]
    BY <1>3, <1>1 DEF Drop
  <2> QED BY <1>3, <1>f, <2>1, <2>2 DEF Drop, EditTypes
<1>4. CASE CancelTask(j)
  BY <1>4, QueueSteps DEF CancelTask, RowTypes, RunTypes, EditTypes, rows, local
<1>5. CASE \E w \in Workers : Take(w, j)
  <2> PICK w \in Workers : Take(w, j)
    BY <1>5
  <2>1. QueueTypes' /\ holder' = [holder EXCEPT ![j] = w] /\ run' = [run EXCEPT ![j] = "start"]
    BY QueueSteps DEF Take
  <2>2. RunTypes'
    BY <2>1, PipelineAssumption DEF RunTypes, QueueTypes, Runs
  <2> QED BY <2>1, <2>2 DEF Take, RowTypes, EditTypes, rows
<1> QED BY <1>2, <1>3, <1>4, <1>5

(* The steps of the probe and the thumbnail task keep the types. *)
LEMMA TypeProcessing ==
  ASSUME TypeOK, NEW a \in Assets, Processing(a)
  PROVE  TypeOK'
<1> USE TypeParts
<1>g. ASSUME NEW j \in Jobs, run[j] # "off", NEW pc \in Runs \ {"off"}, Goto(j, pc)
      PROVE  QueueTypes' /\ RunTypes' /\ EditTypes'
  BY <1>g, GotoTypes DEF EditTypes
<1>j. Probe(a) \in Jobs /\ Thumb(a) \in Jobs
  BY JobsDiffer
<1>1. CASE ProbeGet(a)
  <2>1. RowTypes' /\ lost' = lost
    BY <1>1 DEF ProbeGet, RowTypes, rows
  <2> QED BY <1>1, <1>g, <1>j, <2>1 DEF ProbeGet, Runs
<1>2. CASE ProbeSave(a)
  <2>1. copy[a] \in AssetRow
    BY DEF RowTypes
  <2>2. [copy[a] EXCEPT !.probed = TRUE] \in AssetRow
    BY <2>1, MarkedRows
  <2>3. RowTypes' /\ lost' = lost
    BY <1>2, <2>2 DEF ProbeSave, RowTypes
  <2> QED BY <1>2, <1>g, <1>j, <2>3 DEF ProbeSave, Runs
<1>3. CASE ProbeError(a)
  <2>1. RowTypes' /\ lost' = lost
    BY <1>3 DEF ProbeError, RowTypes, rows
  <2> QED BY <1>3, <1>g, <1>j, <2>1 DEF ProbeError, Runs
<1>4. CASE ThumbGet(a)
  <2>1. RowTypes' /\ lost' = lost
    BY <1>4 DEF ThumbGet, RowTypes, rows
  <2> QED BY <1>4, <1>g, <1>j, <2>1 DEF ThumbGet, Runs
<1>5. CASE ThumbUnsupported(a)
  BY <1>5, <1>g, <1>j, SaveTypes DEF ThumbUnsupported, Runs, ThumbStatuses
<1>6. CASE ThumbProcessing(a)
  BY <1>6, <1>g, <1>j, SaveTypes DEF ThumbProcessing, Runs, ThumbStatuses
<1>7. CASE ThumbError(a)
  <2>1. RowTypes' /\ lost' = lost
    BY <1>7 DEF ThumbError, RowTypes, rows
  <2> QED BY <1>7, <1>g, <1>j, <2>1 DEF ThumbError, Runs
<1>8. CASE ThumbCreate(a)
  <2>1. RowTypes' /\ lost' = lost
    BY <1>8 DEF ThumbCreate, RowTypes
  <2> QED BY <1>8, <1>g, <1>j, <2>1 DEF ThumbCreate, Runs
<1>9. CASE ThumbWrite(a)
  <2>1. RowTypes' /\ lost' = lost
    BY <1>9 DEF ThumbWrite, RowTypes
  <2> QED BY <1>9, <1>g, <1>j, <2>1 DEF ThumbWrite, Runs
<1>10. CASE ThumbFailed(a)
  BY <1>10, <1>g, <1>j, SaveTypes DEF ThumbFailed, Runs, ThumbStatuses
<1>11. CASE ThumbNoFfmpeg(a)
  BY <1>11, <1>g, <1>j, SaveTypes DEF ThumbNoFfmpeg, Runs, ThumbStatuses
<1>12. CASE ThumbReady(a)
  <2>1. [status |-> "ready", key |-> TRUE] \in ThumbRow
    BY DEF ThumbRow, ThumbStatuses
  <2>2. image' \in [Assets -> ThumbRow]
    BY <1>12, <2>1 DEF ThumbReady, RowTypes
  <2>3. RowTypes' /\ lost' = lost
    BY <1>12, <2>2 DEF ThumbReady, RowTypes
  <2> QED BY <1>12, <1>g, <1>j, <2>3 DEF ThumbReady, Runs
<1> QED BY <1>1, <1>2, <1>3, <1>4, <1>5, <1>6, <1>7, <1>8, <1>9, <1>10, <1>11, <1>12
        DEF Processing

(* Every step keeps the types. *)
LEMMA TypeNext == TypeOK /\ [Next]_vars => TypeOK'
<1> SUFFICES ASSUME TypeOK, [Next]_vars PROVE TypeOK'
  OBVIOUS
<1>1. ASSUME NEW a \in Assets,
             Uploading(a) \/ Processing(a) \/ AssetDelete(a) \/ \E e \in Editors : UpdateGet(e, a)
      PROVE  TypeOK'
  BY <1>1, TypeUploading, TypeProcessing, TypeRequests
<1>2. ASSUME NEW e \in Editors, UpdateSave(e) PROVE TypeOK'
  BY <1>2, TypeRequests
<1>3. ASSUME NEW j \in Jobs,
             Report(j) \/ Drop(j) \/ CancelTask(j) \/ \E w \in Workers : Take(w, j)
      PROVE  TypeOK'
  BY <1>3, TypeQueue
<1>4. CASE UNCHANGED vars
  BY <1>4 DEF vars, rows, queue, local, TypeOK
<1> QED BY <1>1, <1>2, <1>3, <1>4 DEF Next

(* The types of the rows, of the copies in flight and of the tasks, and    *)
(* that a task is processed exactly while a worker holds it, for every     *)
(* instance of the pipeline.                                               *)
THEOREM PipelineTypeCorrect == Spec => []TypeOK
  BY TypeInit, TypeNext, PTL DEF Spec
-----------------------------------------------------------------------------
(* What processAssetThumbnail keeps true of one asset: a row that says     *)
(* ready has its key and a whole file, the row does not say ready while    *)
(* the file may be touched, and the file is whole before the final Save.   *)
ServableInv ==
  \A a \in Assets :
    /\ thumb[a].status = "ready" => thumb[a].key /\ object[a] = "whole"
    /\ run[Thumb(a)] \in {"processing", "writing"} => thumb[a].status # "ready"
    /\ run[Thumb(a)] = "written" => object[a] = "whole"

(* A step that touches neither thumbnail rows nor files, and moves no task *)
(* into the stages that write them, keeps it.                              *)
LEMMA ServableElsewhere ==
  ASSUME TypeOK, ServableInv, thumb' = thumb, object' = object,
         \A a \in Assets : \/ run'[Thumb(a)] = run[Thumb(a)]
                           \/ run'[Thumb(a)] \notin {"processing", "writing", "written"}
  PROVE  ServableInv'
  BY DEF ServableInv

(* Moving one task leaves the others where they are. *)
LEMMA GotoElsewhere ==
  ASSUME TypeOK, NEW j \in Jobs, NEW pc, Goto(j, pc)
  PROVE  run' = [run EXCEPT ![j] = pc] /\ \A i \in Jobs : run'[i] = IF i = j THEN pc ELSE run[i]
  BY DEF Goto, TypeOK

(* A Save of the thumbnail row of a with a status other than ready. *)
LEMMA ServableSave ==
  ASSUME TypeOK, ServableInv, NEW a \in Assets, NEW pc \in {"ok", "error", "processing"},
         Goto(Thumb(a), pc), NEW s \in {"unsupported", "failed", "processing"},
         \/ SaveThumb(a, s)
         \/ LoseThumb /\ pc # "processing"
  PROVE  ServableInv'
<1>1. \A b \in Assets : run'[Thumb(b)] = IF b = a THEN pc ELSE run[Thumb(b)]
  BY GotoElsewhere, JobsDiffer
<1>2. CASE LoseThumb /\ pc # "processing"
  BY <1>1, <1>2, ServableElsewhere DEF LoseThumb, rows
<1>3. CASE SaveThumb(a, s)
  <2>1. object' = object /\ thumb'[a].status = s /\ \A b \in Assets \ {a} : thumb'[b] = thumb[b]
    <3>1. image'[a] = [image[a] EXCEPT !.status = s] /\ image[a] \in ThumbRow
      BY <1>3 DEF SaveThumb, TypeOK
    <3> QED BY <1>3, <3>1 DEF SaveThumb, TypeOK, ThumbRow
  <2> QED BY <1>1, <2>1 DEF ServableInv
<1> QED BY <1>2, <1>3

(* Every step keeps what is servable. *)
LEMMA ServableNext == TypeOK /\ ServableInv /\ [Next]_vars => ServableInv'
<1> SUFFICES ASSUME TypeOK, ServableInv, [Next]_vars PROVE ServableInv'
  OBVIOUS
<1>g. ASSUME NEW a \in Assets, NEW k \in {"probe", "thumb"}, NEW pc, Goto(<<a, k>>, pc),
             thumb' = thumb, object' = object,
             k = "probe" \/ pc \notin {"processing", "writing", "written"}
      PROVE  ServableInv'
  <2>1. <<a, k>> \in Jobs /\ \A b \in Assets : Thumb(b) = <<a, k>> <=> b = a /\ k = "thumb"
    BY DEF Jobs, Thumb
  <2>2. \A b \in Assets : Thumb(b) \in Jobs
    BY JobsDiffer
  <2>3. \A b \in Assets : run'[Thumb(b)] = IF b = a /\ k = "thumb" THEN pc ELSE run[Thumb(b)]
    BY <1>g, <2>1, <2>2, GotoElsewhere
  <2> QED BY <1>g, <2>3, ServableElsewhere
<1>1. ASSUME NEW a \in Assets, Uploading(a) PROVE ServableInv'
  <2>1. CASE UploadThumbnail(a)
    <3>1. InitialStatus(media[a]) # "ready"
      BY DEF InitialStatus
    <3>2. thumb'[a].status = InitialStatus(media[a]) /\ \A b \in Assets \ {a} : thumb'[b] = thumb[b]
      BY <2>1 DEF UploadThumbnail, TypeOK
    <3> QED BY <2>1, <3>1, <3>2 DEF UploadThumbnail, ServableInv, local
  <2>2. CASE ~UploadThumbnail(a)
    BY <1>1, <2>2, ServableElsewhere
       DEF Uploading, UploadAsset, EnqueueProbe, EnqueueThumbnail, UploadFails, local
  <2> QED BY <2>1, <2>2
<1>2. ASSUME NEW a \in Assets, ProbeGet(a) \/ ProbeSave(a) \/ ProbeError(a) PROVE ServableInv'
  BY <1>2, <1>g DEF ProbeGet, ProbeSave, ProbeError, Probe, rows
<1>3. ASSUME NEW a \in Assets, ThumbGet(a) \/ ThumbError(a) PROVE ServableInv'
  <2>1. thumb' = thumb /\ object' = object
    BY <1>3 DEF ThumbGet, ThumbError, rows
  <2>2. \E pc \in {"begin", "unsupported", "error"} : Goto(<<a, "thumb">>, pc)
    BY <1>3 DEF ThumbGet, ThumbError, Thumb
  <2> QED BY <1>g, <2>1, <2>2
<1>4. ASSUME NEW a \in Assets,
             ThumbUnsupported(a) \/ ThumbProcessing(a) \/ ThumbFailed(a) \/ ThumbNoFfmpeg(a)
      PROVE  ServableInv'
  BY <1>4, ServableSave DEF ThumbUnsupported, ThumbProcessing, ThumbFailed, ThumbNoFfmpeg
<1>5. ASSUME NEW a \in Assets, ThumbCreate(a) PROVE ServableInv'
  <2>1. \A b \in Assets : run'[Thumb(b)] = IF b = a THEN "writing" ELSE run[Thumb(b)]
    BY <1>5, GotoElsewhere, JobsDiffer DEF ThumbCreate
  <2>2. thumb' = thumb /\ \A b \in Assets \ {a} : object'[b] = object[b]
    BY <1>5 DEF ThumbCreate, TypeOK
  <2> QED BY <1>5, <2>1, <2>2 DEF ThumbCreate, ServableInv
<1>6. ASSUME NEW a \in Assets, ThumbWrite(a) PROVE ServableInv'
  <2>1. \A b \in Assets : run'[Thumb(b)] = IF b = a THEN "written" ELSE run[Thumb(b)]
    BY <1>6, GotoElsewhere, JobsDiffer DEF ThumbWrite
  <2>2. thumb' = thumb /\ object'[a] = "whole" /\ \A b \in Assets \ {a} : object'[b] = object[b]
    BY <1>6 DEF ThumbWrite, TypeOK
  <2> QED BY <1>6, <2>1, <2>2 DEF ThumbWrite, ServableInv
<1>7. ASSUME NEW a \in Assets, ThumbReady(a) PROVE ServableInv'
  <2>1. \A b \in Assets : run'[Thumb(b)] = IF b = a THEN "ok" ELSE run[Thumb(b)]
    BY <1>7, GotoElsewhere, JobsDiffer DEF ThumbReady
  <2>2. /\ object' = object /\ object[a] = "whole"
        /\ thumb'[a] = [status |-> "ready", key |-> TRUE]
        /\ \A b \in Assets \ {a} : thumb'[b] = thumb[b]
    BY <1>7 DEF ThumbReady, TypeOK, ServableInv
  <2> QED BY <2>1, <2>2 DEF ServableInv
<1>8. ASSUME NEW a \in Assets, AssetDelete(a) \/ \E e \in Editors : UpdateGet(e, a)
      PROVE  ServableInv'
  BY <1>8, ServableElsewhere DEF AssetDelete, UpdateGet, rows, local
<1>9. ASSUME NEW e \in Editors, UpdateSave(e) PROVE ServableInv'
  BY <1>9, ServableElsewhere DEF UpdateSave, local
<1>10. ASSUME NEW j \in Jobs,
              Report(j) \/ Drop(j) \/ CancelTask(j) \/ \E w \in Workers : Take(w, j)
       PROVE  ServableInv'
  <2>1. thumb' = thumb /\ object' = object
    BY <1>10 DEF Report, Drop, CancelTask, Take, rows
  <2>2. run' = run \/ \E pc \in {"off", "start"} : run' = [run EXCEPT ![j] = pc]
    BY <1>10 DEF Report, Drop, CancelTask, Take, Forget, local
  <2>3. \A b \in Assets : \/ run'[Thumb(b)] = run[Thumb(b)]
                          \/ run'[Thumb(b)] \in {"off", "start"}
    BY <2>2, JobsDiffer DEF TypeOK
  <2> QED BY <2>1, <2>3, ServableElsewhere
<1>11. CASE UNCHANGED vars
  BY <1>11 DEF vars, rows, local, ServableInv
<1> QED
  BY <1>1, <1>2, <1>3, <1>4, <1>5, <1>6, <1>7, <1>8, <1>9, <1>10, <1>11 DEF Next, Processing

(* Whatever is retried, dropped, canceled, edited or deleted, and whatever *)
(* Saves are lost, a thumbnail row that says ready has an object key and a *)
(* completely written file: processAssetThumbnail marks the row before it  *)
(* touches the file and sets ready after it.                               *)
THEOREM ReadyThumbnailsAreServable == Spec => []ReadyIsServable
<1>1. Init => ServableInv
  <2> SUFFICES ASSUME Init PROVE ServableInv
    OBVIOUS
  <2>1. \A a \in Assets : Thumb(a) \in Jobs
    BY JobsDiffer
  <2> QED BY <2>1 DEF Init, ServableInv, NoThumb
<1>2. ServableInv => ReadyIsServable
  BY DEF ServableInv, ReadyIsServable
<1> QED BY <1>1, <1>2, PipelineTypeCorrect, ServableNext, PTL DEF Spec
-----------------------------------------------------------------------------
(* createAssetFromReader writes the rows before it enqueues the tasks.     *)
RowsFirst ==
  \A a \in Assets :
    /\ upload[a] # "none" => asset[a].there
    /\ upload[a] \in {"thumbnail", "probe", "answered"} => thumb[a].status # "none"
    /\ upload[a] \in {"none", "asset", "thumbnail", "probe"} => status[Thumb(a)] = "absent"

(* What an edit or a probe saves is a copy of a row that was there.        *)
CopiesAreRows ==
  /\ \A e \in Editors : edit[e] # NoEdit => edit[e].row.there
  /\ \A a \in Assets : run[Probe(a)] = "probed" => copy[a].there

(* A task somebody processes is running, or was canceled meanwhile.        *)
HeldIsRunning ==
  \A j \in Jobs : run[j] # "off" => status[j] \in {"running", "canceled"}

Final(a) == thumb[a].status \in {"ready", "unsupported"}

(* The row is final before process() returns nil, and stays so after the   *)
(* report.                                                                 *)
DoneIsFinal ==
  lost = 0 => \A a \in Assets :
    run[Thumb(a)] = "ok" \/ status[Thumb(a)] = "succeeded" => Final(a)

AgreeInv == RowsFirst /\ CopiesAreRows /\ HeldIsRunning /\ TasksFindTheirRows /\ DoneIsFinal

(* No row disappears.                                                      *)
RowsKept ==
  \A a \in Assets :
    /\ asset[a].there => asset'[a].there
    /\ thumb[a].status # "none" => thumb'[a].status # "none"

(* The asset a task is about.                                              *)
LEMMA JobOf ==
  /\ \A j \in Jobs : j[1] \in Assets /\ (j = Probe(j[1]) \/ j = Thumb(j[1]))
  /\ \A a \in Assets : Probe(a)[1] = a /\ Thumb(a)[1] = a
  BY DEF Jobs, Probe, Thumb

(* A step that neither uploads nor changes the queue has only its own      *)
(* copies and results to answer for.                                       *)
LEMMA AgreeElsewhere ==
  ASSUME AgreeInv, RowsKept, UNCHANGED <<upload, queue>>,
         CopiesAreRows', DoneIsFinal', \A j \in Jobs : run'[j] # "off" => run[j] # "off"
  PROVE  AgreeInv'
<1>1. upload' = upload /\ status' = status
  BY DEF queue
<1>2. RowsFirst'
  BY <1>1 DEF AgreeInv, RowsFirst, RowsKept
<1>3. HeldIsRunning'
  BY <1>1 DEF AgreeInv, HeldIsRunning
<1>4. TasksFindTheirRows'
  BY <1>1, JobOf DEF AgreeInv, TasksFindTheirRows, RowsKept
<1> QED BY <1>2, <1>3, <1>4 DEF AgreeInv

(* An upload writes rows before it queues their tasks. *)
LEMMA AgreeUploading ==
  ASSUME TypeOK, AgreeInv, NEW a \in Assets, Uploading(a)
  PROVE  AgreeInv'
<1>0. /\ Probe(a) \in Jobs /\ Thumb(a) \in Jobs
      /\ \A b \in Assets : Probe(b) # Thumb(a) /\ Probe(b) \in Jobs /\ Thumb(b) \in Jobs
      /\ \A b \in Assets : Thumb(b) = Thumb(a) <=> b = a
  BY JobsDiffer
<1>u. UNCHANGED <<local, edit, lost, object>>
  BY DEF Uploading, UploadAsset, UploadThumbnail, EnqueueProbe, EnqueueThumbnail, UploadFails
<1>l. run' = run /\ copy' = copy /\ edit' = edit /\ lost' = lost
  BY <1>u DEF local
<1>c. CopiesAreRows'
  BY <1>l DEF AgreeInv, CopiesAreRows
<1>1. CASE \E m \in Media : UploadAsset(a, m)
  <2>1. /\ thumb' = thumb /\ status' = status
        /\ upload[a] = "none" /\ upload' = [upload EXCEPT ![a] = "asset"]
        /\ asset' = [asset EXCEPT ![a].there = TRUE]
    BY <1>1 DEF UploadAsset, queue
  <2>2. asset'[a].there /\ \A b \in Assets \ {a} : asset'[b] = asset[b]
    BY <2>1 DEF TypeOK, AssetRow
  <2>3. RowsFirst'
    BY <2>1, <2>2 DEF AgreeInv, RowsFirst, TypeOK
  <2>4. HeldIsRunning' /\ DoneIsFinal'
    BY <1>l, <2>1 DEF AgreeInv, HeldIsRunning, DoneIsFinal, Final
  <2>5. TasksFindTheirRows'
    BY <2>1, <2>2 DEF AgreeInv, TasksFindTheirRows, Jobs
  <2> QED BY <1>c, <2>3, <2>4, <2>5 DEF AgreeInv
<1>2. CASE UploadThumbnail(a)
  <2>1. /\ asset' = asset /\ status' = status
        /\ upload[a] = "asset" /\ upload' = [upload EXCEPT ![a] = "thumbnail"]
        /\ \A b \in Assets \ {a} : thumb'[b] = thumb[b]
        /\ thumb'[a].status # "none"
    BY <1>2 DEF UploadThumbnail, InitialStatus, TypeOK, queue
  <2>2. status[Thumb(a)] = "absent" /\ run[Thumb(a)] = "off"
    BY <1>0, <2>1 DEF AgreeInv, RowsFirst, HeldIsRunning
  <2>3. RowsFirst'
    BY <2>1 DEF AgreeInv, RowsFirst, TypeOK
  <2>4. HeldIsRunning'
    BY <1>l, <2>1 DEF AgreeInv, HeldIsRunning
  <2>5. DoneIsFinal'
    BY <1>l, <2>1, <2>2 DEF AgreeInv, DoneIsFinal, Final
  <2>6. TasksFindTheirRows'
    BY <2>1 DEF AgreeInv, TasksFindTheirRows, Jobs
  <2> QED BY <1>c, <2>3, <2>4, <2>5, <2>6 DEF AgreeInv
<1>3. CASE EnqueueProbe(a) \/ EnqueueThumbnail(a)
  <2>1. PICK j \in {Probe(a), Thumb(a)}, u \in {"probe", "answered"} :
           /\ upload[a] \in {"thumbnail", "probe"}
           /\ upload' = [upload EXCEPT ![a] = u]
           /\ u = "probe" => j = Probe(a)
           /\ status[j] = "absent" /\ status' = [status EXCEPT ![j] = "pending"]
           /\ asset' = asset /\ thumb' = thumb
    BY <1>3 DEF EnqueueProbe, EnqueueThumbnail, Queue!Submit
  <2>2. j \in Jobs /\ j[1] = a
    BY <1>0, JobOf
  <2>3. asset[a].there /\ thumb[a].status # "none"
    BY <2>1 DEF AgreeInv, RowsFirst
  <2>4. RowsFirst'
    <3>1. \A b \in Assets : Thumb(b) = j => b = a /\ u = "answered"
      BY <1>0, <2>1, JobsDiffer
    <3>2. \A b \in Assets : status'[Thumb(b)] # status[Thumb(b)] => b = a /\ u = "answered"
      BY <1>0, <2>1, <3>1 DEF TypeOK
    <3> QED BY <2>1, <2>3, <3>2 DEF AgreeInv, RowsFirst, TypeOK
  <2>5. run[j] = "off"
    BY <2>1, <2>2 DEF AgreeInv, HeldIsRunning
  <2>6. HeldIsRunning'
    BY <1>l, <2>1, <2>2, <2>5 DEF AgreeInv, HeldIsRunning, TypeOK
  <2>7. DoneIsFinal'
    BY <1>0, <1>l, <2>1, <2>2 DEF AgreeInv, DoneIsFinal, Final, TypeOK
  <2>8. TasksFindTheirRows'
    BY <2>1, <2>2, <2>3 DEF AgreeInv, TasksFindTheirRows, TypeOK
  <2> QED BY <1>c, <2>4, <2>6, <2>7, <2>8 DEF AgreeInv
<1>4. CASE UploadFails(a)
  <2>1. /\ asset' = asset /\ thumb' = thumb /\ status' = status
        /\ upload[a] # "none" /\ upload' = [upload EXCEPT ![a] = "failed"]
    BY <1>4 DEF UploadFails, queue
  <2>2. RowsFirst'
    BY <2>1 DEF AgreeInv, RowsFirst, TypeOK
  <2>3. HeldIsRunning' /\ DoneIsFinal' /\ TasksFindTheirRows'
    BY <1>l, <2>1 DEF AgreeInv, HeldIsRunning, DoneIsFinal, Final, TasksFindTheirRows
  <2> QED BY <1>c, <2>2, <2>3 DEF AgreeInv
<1> QED BY <1>1, <1>2, <1>3, <1>4 DEF Uploading

(* Updates and deletes of an asset do not touch its tasks. *)
LEMMA AgreeRequests ==
  ASSUME TypeOK, AgreeInv
  PROVE  /\ \A a \in Assets, e \in Editors : UpdateGet(e, a) => AgreeInv'
         /\ \A e \in Editors : UpdateSave(e) => AgreeInv'
         /\ \A a \in Assets : AssetDelete(a) => AgreeInv'
<1>d. ASSUME thumb' = thumb, UNCHANGED <<queue, local, lost>>
      PROVE  DoneIsFinal'
  BY <1>d DEF AgreeInv, DoneIsFinal, Final, queue, local
<1>1. ASSUME NEW a \in Assets, NEW e \in Editors, UpdateGet(e, a) PROVE AgreeInv'
  <2>0. /\ edit'[e].row.there /\ \A f \in Editors \ {e} : edit'[f] = edit[f]
        /\ run' = run /\ copy' = copy
    BY <1>1 DEF UpdateGet, TypeOK, local
  <2>1. CopiesAreRows'
    BY <2>0 DEF AgreeInv, CopiesAreRows
  <2> QED BY <1>1, <1>d, <2>1, AgreeElsewhere DEF UpdateGet, RowsKept, rows, local
<1>2. ASSUME NEW e \in Editors, UpdateSave(e) PROVE AgreeInv'
  <2>0. edit[e] # NoEdit /\ edit[e].row.there
    BY <1>2 DEF UpdateSave, AgreeInv, CopiesAreRows
  <2>1. edit[e].of \in Assets /\ edit[e].row \in AssetRow /\ edit[e].row.there
    BY <2>0 DEF TypeOK, Edit
  <2>2. RowsKept
    BY <1>2, <2>1 DEF UpdateSave, RowsKept, TypeOK
  <2>3. CopiesAreRows'
    BY <1>2 DEF UpdateSave, AgreeInv, CopiesAreRows, TypeOK, local
  <2> QED BY <1>2, <1>d, <2>2, <2>3, AgreeElsewhere DEF UpdateSave, local
<1>3. ASSUME NEW a \in Assets, AssetDelete(a) PROVE AgreeInv'
  <2>1. RowsKept
    BY <1>3 DEF AssetDelete, RowsKept, TypeOK, AssetRow
  <2>2. CopiesAreRows'
    BY <1>3 DEF AssetDelete, AgreeInv, CopiesAreRows, local
  <2> QED BY <1>3, <1>d, <2>1, <2>2, AgreeElsewhere DEF AssetDelete, local
<1> QED BY <1>1, <1>2, <1>3

(* A step of processAssetThumbnail leaves a status in the row, and a final *)
(* one before it ends well, unless the Save was lost.                      *)
LEMMA AgreeThumb ==
  ASSUME TypeOK, AgreeInv, NEW a \in Assets, run[Thumb(a)] # "off",
         NEW pc, pc # "off", Goto(Thumb(a), pc), UNCHANGED <<upload, asset, copy>>,
         \A b \in Assets \ {a} : thumb'[b] = thumb[b],
         thumb'[a] = thumb[a] \/ thumb'[a].status # "none",
         lost' = 0 => lost = 0 /\ (pc = "ok" => Final(a)')
  PROVE  AgreeInv'
<1>1. \A b \in Assets : Probe(b) \in Jobs /\ Thumb(b) \in Jobs /\ Probe(b) # Thumb(a)
  BY JobsDiffer
<1>2. /\ \A j \in Jobs : run'[j] = IF j = Thumb(a) THEN pc ELSE run[j]
      /\ \A b \in Assets : run'[Thumb(b)] = IF b = a THEN pc ELSE run[Thumb(b)]
  BY <1>1, GotoElsewhere, JobsDiffer
<1>3. UNCHANGED <<queue, edit>> /\ status' = status
  BY DEF Goto, queue
<1>4. RowsKept
  BY DEF RowsKept
<1>5. CopiesAreRows'
  BY <1>1, <1>2, <1>3 DEF AgreeInv, CopiesAreRows
<1>6. status[Thumb(a)] # "succeeded"
  BY <1>1 DEF AgreeInv, HeldIsRunning
<1>7. DoneIsFinal'
  BY <1>2, <1>3, <1>6 DEF AgreeInv, DoneIsFinal, Final
<1> QED BY <1>1, <1>2, <1>3, <1>4, <1>5, <1>7, AgreeElsewhere

(* What a Save of the thumbnail row, lost or not, does to the row.         *)
LEMMA SavedStatus ==
  ASSUME TypeOK, NEW a \in Assets, NEW s
  PROVE  /\ SaveThumb(a, s) =>
              /\ thumb'[a].status = s /\ \A b \in Assets \ {a} : thumb'[b] = thumb[b]
              /\ UNCHANGED <<upload, asset, copy, lost>>
         /\ LoseThumb => lost' # 0 /\ UNCHANGED <<upload, asset, copy, thumb>>
<1>1. ASSUME SaveThumb(a, s)
      PROVE  thumb'[a].status = s /\ \A b \in Assets \ {a} : thumb'[b] = thumb[b]
  <2>1. image'[a] = [image[a] EXCEPT !.status = s] /\ image[a] \in ThumbRow
    BY <1>1 DEF SaveThumb, TypeOK
  <2> QED BY <1>1, <2>1 DEF SaveThumb, TypeOK, ThumbRow
<1>2. ASSUME LoseThumb PROVE lost' # 0 /\ UNCHANGED <<upload, asset, copy, thumb>>
  BY <1>2, PipelineAssumption DEF LoseThumb, rows, TypeOK
<1> QED BY <1>1, <1>2 DEF SaveThumb

(* A task saves what its row says before it reports. *)
LEMMA AgreeProcessing ==
  ASSUME TypeOK, AgreeInv, NEW a \in Assets, Processing(a)
  PROVE  AgreeInv'
<1>0. \A b \in Assets : Probe(b) \in Jobs /\ Thumb(b) \in Jobs /\ Thumb(b) # Probe(a)
  BY JobsDiffer
<1>p. ASSUME NEW pc, pc # "off", run[Probe(a)] # "off", Goto(Probe(a), pc), UNCHANGED <<thumb, lost>>
      PROVE  /\ DoneIsFinal' /\ UNCHANGED <<queue, edit>>
             /\ \A j \in Jobs : run'[j] = IF j = Probe(a) THEN pc ELSE run[j]
             /\ \A b \in Assets : run'[Probe(b)] = IF b = a THEN pc ELSE run[Probe(b)]
  <2>1. /\ \A j \in Jobs : run'[j] = IF j = Probe(a) THEN pc ELSE run[j]
        /\ \A b \in Assets : run'[Probe(b)] = IF b = a THEN pc ELSE run[Probe(b)]
    BY <1>0, <1>p, GotoElsewhere, JobsDiffer
  <2>2. UNCHANGED <<queue, edit>> /\ status' = status
    BY <1>p DEF Goto, queue
  <2> QED BY <1>0, <1>p, <2>1, <2>2 DEF AgreeInv, DoneIsFinal, Final
<1>1. CASE ProbeGet(a)
  <2>1. asset[a].there
    BY <1>0, <1>1, JobOf DEF ProbeGet, AgreeInv, HeldIsRunning, TasksFindTheirRows
  <2>2. /\ run[Probe(a)] = "start" /\ Goto(Probe(a), "probed")
        /\ UNCHANGED <<upload, asset, thumb, lost>>
        /\ copy'[a] = asset[a] /\ \A b \in Assets \ {a} : copy'[b] = copy[b]
    BY <1>1 DEF ProbeGet, rows, TypeOK
  <2>3. /\ DoneIsFinal' /\ UNCHANGED <<queue, edit>>
        /\ \A j \in Jobs : run'[j] = IF j = Probe(a) THEN "probed" ELSE run[j]
        /\ \A b \in Assets : run'[Probe(b)] = IF b = a THEN "probed" ELSE run[Probe(b)]
    BY <1>p, <2>2
  <2>4. CopiesAreRows'
    BY <2>1, <2>2, <2>3 DEF AgreeInv, CopiesAreRows
  <2> QED BY <2>2, <2>3, <2>4, AgreeElsewhere DEF RowsKept
<1>2. CASE ProbeSave(a)
  <2>1. copy[a].there /\ copy[a] \in AssetRow
    BY <1>2 DEF ProbeSave, AgreeInv, CopiesAreRows, TypeOK
  <2>2. /\ run[Probe(a)] = "probed" /\ Goto(Probe(a), "ok")
        /\ UNCHANGED <<upload, copy, thumb, lost>>
        /\ asset'[a] = [copy[a] EXCEPT !.probed = TRUE]
        /\ \A b \in Assets \ {a} : asset'[b] = asset[b]
    BY <1>2 DEF ProbeSave, TypeOK
  <2>3. /\ DoneIsFinal' /\ UNCHANGED <<queue, edit>>
        /\ \A j \in Jobs : run'[j] = IF j = Probe(a) THEN "ok" ELSE run[j]
        /\ \A b \in Assets : run'[Probe(b)] = IF b = a THEN "ok" ELSE run[Probe(b)]
    BY <1>p, <2>2
  <2>4. CopiesAreRows'
    BY <2>2, <2>3 DEF AgreeInv, CopiesAreRows
  <2>5. asset'[a].there
    BY <2>1, <2>2 DEF AssetRow
  <2>6. RowsKept
    BY <2>2, <2>5 DEF RowsKept
  <2> QED BY <2>2, <2>3, <2>4, <2>6, AgreeElsewhere
<1>3. CASE ProbeError(a)
  <2>1. /\ run[Probe(a)] # "off" /\ Goto(Probe(a), "error")
        /\ UNCHANGED <<upload, asset, copy, thumb, lost>>
    BY <1>3 DEF ProbeError, rows
  <2>2. /\ DoneIsFinal' /\ UNCHANGED <<queue, edit>>
        /\ \A j \in Jobs : run'[j] = IF j = Probe(a) THEN "error" ELSE run[j]
        /\ \A b \in Assets : run'[Probe(b)] = IF b = a THEN "error" ELSE run[Probe(b)]
    BY <1>p, <2>1
  <2>3. CopiesAreRows'
    BY <2>1, <2>2 DEF AgreeInv, CopiesAreRows
  <2> QED BY <2>1, <2>2, <2>3, AgreeElsewhere DEF RowsKept
<1>4. CASE ThumbGet(a)
  <2>1. PICK pc \in {"begin", "unsupported"} : Goto(Thumb(a), pc)
    BY <1>4 DEF ThumbGet
  <2> QED BY <1>4, <2>1, AgreeThumb DEF ThumbGet, rows
<1>5. CASE ThumbUnsupported(a)
  BY <1>5, SavedStatus, AgreeThumb DEF ThumbUnsupported, Final
<1>6. CASE ThumbProcessing(a)
  BY <1>6, SavedStatus, AgreeThumb DEF ThumbProcessing
<1>7. CASE ThumbError(a)
  BY <1>7, AgreeThumb DEF ThumbError, rows
<1>8. CASE ThumbCreate(a)
  BY <1>8, AgreeThumb DEF ThumbCreate
<1>9. CASE ThumbWrite(a)
  BY <1>9, AgreeThumb DEF ThumbWrite
<1>10. CASE ThumbFailed(a)
  BY <1>10, SavedStatus, AgreeThumb DEF ThumbFailed
<1>11. CASE ThumbNoFfmpeg(a)
  BY <1>11, SavedStatus, AgreeThumb DEF ThumbNoFfmpeg, Final
<1>12. CASE ThumbReady(a)
  <2>1. /\ thumb'[a] = [status |-> "ready", key |-> TRUE]
        /\ \A b \in Assets \ {a} : thumb'[b] = thumb[b]
        /\ UNCHANGED <<upload, asset, copy, lost>>
    BY <1>12 DEF ThumbReady, TypeOK
  <2> QED BY <1>12, <2>1, AgreeThumb DEF ThumbReady, Final
<1> QED BY <1>1, <1>2, <1>3, <1>4, <1>5, <1>6, <1>7, <1>8, <1>9, <1>10, <1>11, <1>12
        DEF Processing

(* A step of the queue on task j, which is there: it only has to see to it *)
(* that what is processed is running, and that success was reported by     *)
(* process().                                                              *)
LEMMA AgreeQueueStep ==
  ASSUME TypeOK, AgreeInv, NEW j \in Jobs, status[j] # "absent", status'[j] # "absent",
         \A i \in Jobs \ {j} : status'[i] = status[i],
         \A i \in Jobs \ {j} : run'[i] = run[i],
         run'[j] \in {run[j], "off", "start"},
         run'[j] # "off" => status'[j] \in {"running", "canceled"},
         status'[j] = "succeeded" => run[j] = "ok" \/ status[j] = "succeeded",
         \A a \in Assets : run'[Probe(a)] = "probed" => copy'[a] = copy[a],
         UNCHANGED <<rows, edit, lost>>
  PROVE  AgreeInv'
<1>0. \A a \in Assets : Probe(a) \in Jobs /\ Thumb(a) \in Jobs
  BY JobsDiffer
<1>1. upload' = upload /\ asset' = asset /\ thumb' = thumb /\ edit' = edit /\ lost' = lost
  BY DEF rows
<1>2. RowsFirst'
  BY <1>0, <1>1 DEF AgreeInv, RowsFirst
<1>3. CopiesAreRows'
  BY <1>0, <1>1 DEF AgreeInv, CopiesAreRows
<1>4. HeldIsRunning'
  BY DEF AgreeInv, HeldIsRunning
<1>5. TasksFindTheirRows'
  BY <1>1 DEF AgreeInv, TasksFindTheirRows
<1>6. DoneIsFinal'
  BY <1>0, <1>1 DEF AgreeInv, DoneIsFinal, Final
<1> QED BY <1>2, <1>3, <1>4, <1>5, <1>6 DEF AgreeInv

(* A task that is taken, reported, dropped or canceled agrees with its *)
(* rows.                                                               *)
LEMMA AgreeQueue ==
  ASSUME TypeOK, AgreeInv, NEW j \in Jobs,
         Report(j) \/ Drop(j) \/ CancelTask(j) \/ \E w \in Workers : Take(w, j)
  PROVE  AgreeInv'
<1>f. ASSUME Forget(j)
      PROVE  /\ run'[j] = "off" /\ \A i \in Jobs \ {j} : run'[i] = run[i]
             /\ \A a \in Assets : run'[Probe(a)] = "probed" => copy'[a] = copy[a]
  BY <1>f DEF Forget, TypeOK
<1>1. CASE Report(j)
  <2>1. /\ status[j] \in {"running", "canceled"} /\ \A i \in Jobs \ {j} : status'[i] = status[i]
        /\ status'[j] \in IF run[j] = "ok" THEN {"succeeded"} ELSE {"pending", "failed"}
    BY <1>1 DEF Report, Queue!Report, TypeOK
  <2>2. Forget(j) /\ UNCHANGED <<rows, edit, lost>>
    BY <1>1 DEF Report
  <2> QED BY <1>f, <2>1, <2>2, AgreeQueueStep
<1>2. CASE Drop(j)
  <2>1. status' = status /\ Forget(j) /\ UNCHANGED <<rows, edit, lost>> /\ run[j] # "off"
    BY <1>2 DEF Drop, Queue!Drop, TypeOK
  <2>2. status[j] \in {"running", "canceled"}
    BY <2>1 DEF AgreeInv, HeldIsRunning
  <2> QED BY <1>f, <2>1, <2>2, AgreeQueueStep
<1>3. CASE CancelTask(j)
  <2>1. /\ status[j] # "absent" /\ status'[j] = "canceled"
        /\ \A i \in Jobs \ {j} : status'[i] = status[i]
        /\ run' = run /\ copy' = copy /\ UNCHANGED <<rows, edit, lost>>
    BY <1>3 DEF CancelTask, Queue!Cancel, TypeOK, local
  <2> QED BY <2>1, AgreeQueueStep
<1>4. CASE \E w \in Workers : Take(w, j)
  <2>1. /\ status[j] \in {"pending", "running"} /\ status'[j] = "running"
        /\ \A i \in Jobs \ {j} : status'[i] = status[i]
        /\ run'[j] = "start" /\ \A i \in Jobs \ {j} : run'[i] = run[i]
        /\ copy' = copy /\ UNCHANGED <<rows, edit, lost>>
    BY <1>4 DEF Take, Queue!Take, TypeOK
  <2> QED BY <2>1, AgreeQueueStep
<1> QED BY <1>1, <1>2, <1>3, <1>4

(* Every step keeps tasks and rows in agreement. *)
LEMMA AgreeNext == TypeOK /\ AgreeInv /\ [Next]_vars => AgreeInv'
<1> SUFFICES ASSUME TypeOK, AgreeInv, [Next]_vars PROVE AgreeInv'
  OBVIOUS
<1>1. CASE UNCHANGED vars
  <2>1. /\ upload' = upload /\ asset' = asset /\ thumb' = thumb /\ status' = status
        /\ run' = run /\ copy' = copy /\ edit' = edit /\ lost' = lost
    BY <1>1 DEF vars, rows, queue, local
  <2>2. RowsFirst' /\ CopiesAreRows' /\ HeldIsRunning'
    BY <2>1 DEF AgreeInv, RowsFirst, CopiesAreRows, HeldIsRunning
  <2>3. TasksFindTheirRows' /\ DoneIsFinal'
    BY <2>1 DEF AgreeInv, TasksFindTheirRows, DoneIsFinal, Final
  <2> QED BY <2>2, <2>3 DEF AgreeInv
<1> QED BY <1>1, AgreeUploading, AgreeProcessing, AgreeRequests, AgreeQueue DEF Next

(* A task finds its rows however early it is taken, and one that has       *)
(* succeeded has left a final status, unless a Save was lost: whatever was *)
(* retried, dropped, canceled or reported by a worker that did not know of *)
(* the cancellation.                                                       *)
THEOREM TasksAgreeWithRows == Spec => []TasksAndRowsAgree
<1>1. Init => AgreeInv
  <2> SUFFICES ASSUME Init PROVE AgreeInv
    OBVIOUS
  <2>0. \A a \in Assets : Probe(a) \in Jobs /\ Thumb(a) \in Jobs
    BY JobsDiffer
  <2>1. \A j \in Jobs : status[j] = "absent" /\ run[j] = "off"
    BY DEF Init, Queue!Init
  <2>2. RowsFirst /\ CopiesAreRows
    BY <2>0, <2>1 DEF Init, RowsFirst, CopiesAreRows
  <2>3. HeldIsRunning /\ TasksFindTheirRows /\ DoneIsFinal
    BY <2>0, <2>1 DEF HeldIsRunning, TasksFindTheirRows, DoneIsFinal
  <2> QED BY <2>2, <2>3 DEF AgreeInv
<1>2. AgreeInv => TasksAndRowsAgree
  BY JobsDiffer DEF AgreeInv, DoneIsFinal, Final, TasksAndRowsAgree, SucceededIsFinal
<1> QED BY <1>1, <1>2, PipelineTypeCorrect, AgreeNext, PTL DEF Spec
-----------------------------------------------------------------------------
(* Every copy of the row of a that is going to be saved says deleted.      *)
Reached(a) ==
  /\ \A e \in Editors : edit[e].there /\ edit[e].of = a => edit[e].row.deleted
  /\ run[Probe(a)] = "probed" => copy[a].deleted

(* A deletion has reached every copy in flight: said twice. *)
LEMMA InFlightReached ==
  ASSUME NEW a \in Assets
  PROVE  /\ (\A r \in InFlight(a) : r.deleted) <=> Reached(a)
         /\ (\A r \in InFlight(a)' : r.deleted) <=> Reached(a)'
  BY DEF InFlight, Reached

(* No step undoes a deletion that has reached every copy.                  *)
LEMMA DeletionStep ==
  ASSUME TypeOK, [Next]_vars, NEW a \in Assets, asset[a].deleted, Reached(a)
  PROVE  asset'[a].deleted /\ Reached(a)'
<1> DEFINE Goal == asset'[a].deleted /\ Reached(a)'
<1>0. \A b \in Assets : /\ Probe(b) \in Jobs /\ Thumb(b) \in Jobs
                        /\ Thumb(b) # Probe(a) /\ (Probe(b) = Probe(a) <=> b = a)
  BY JobsDiffer
<1>k. ASSUME asset'[a].deleted, edit' = edit,
             run'[Probe(a)] = "probed" => run[Probe(a)] = "probed" /\ copy'[a] = copy[a]
      PROVE  Goal
  BY <1>k DEF Reached
<1>1. ASSUME NEW b \in Assets, Uploading(b) PROVE Goal
  <2>1. edit' = edit /\ run' = run /\ copy' = copy
    BY <1>1 DEF Uploading, UploadAsset, UploadThumbnail, EnqueueProbe, EnqueueThumbnail, UploadFails, local
  <2>2. asset' = asset \/ asset' = [asset EXCEPT ![b].there = TRUE]
    BY <1>1 DEF Uploading, UploadAsset, UploadThumbnail, EnqueueProbe, EnqueueThumbnail, UploadFails
  <2>3. asset'[a].deleted
    BY <2>2 DEF TypeOK, AssetRow
  <2> QED BY <1>k, <2>1, <2>3
<1>2. ASSUME NEW b \in Assets, ProbeGet(b) \/ ProbeSave(b) \/ ProbeError(b) PROVE Goal
  <2>0. PICK pc : Goto(Probe(b), pc)
    BY <1>2 DEF ProbeGet, ProbeSave, ProbeError
  <2>1. edit' = edit /\ (b # a => run'[Probe(a)] = run[Probe(a)])
    BY <1>0, <2>0 DEF Goto, TypeOK
  <2>2. b # a => asset'[a] = asset[a] /\ copy'[a] = copy[a]
    BY <1>2 DEF ProbeGet, ProbeSave, ProbeError, rows, TypeOK
  <2>3. CASE b # a
    BY <1>k, <2>1, <2>2, <2>3
  <2>4. CASE ProbeGet(a)
    <3>1. asset'[a].deleted /\ copy'[a].deleted
      BY <2>4 DEF ProbeGet, rows, TypeOK
    <3> QED BY <2>1, <2>4, <3>1 DEF ProbeGet, Goto, Reached
  <2>5. CASE ProbeSave(a)
    <3>1. asset'[a] = [copy[a] EXCEPT !.probed = TRUE] /\ copy[a] \in AssetRow /\ copy[a].deleted
      BY <2>5 DEF ProbeSave, TypeOK, Reached
    <3>2. asset'[a].deleted
      BY <3>1 DEF AssetRow
    <3>3. run'[Probe(a)] = "ok" /\ edit' = edit
      BY <1>0, <2>5 DEF ProbeSave, Goto, TypeOK
    <3> QED BY <1>k, <3>2, <3>3
  <2>6. CASE ProbeError(a)
    <3>1. run'[Probe(a)] = "error" /\ edit' = edit /\ asset' = asset
      BY <1>0, <2>6 DEF ProbeError, Goto, TypeOK, rows
    <3> QED BY <1>k, <3>1
  <2> QED BY <1>2, <2>3, <2>4, <2>5, <2>6
<1>3. ASSUME NEW b \in Assets,
             \/ ThumbGet(b) \/ ThumbUnsupported(b) \/ ThumbProcessing(b) \/ ThumbError(b)
             \/ ThumbCreate(b) \/ ThumbWrite(b) \/ ThumbFailed(b) \/ ThumbNoFfmpeg(b) \/ ThumbReady(b)
      PROVE  Goal
  <2>1. PICK pc : Goto(Thumb(b), pc)
    BY <1>3 DEF ThumbGet, ThumbUnsupported, ThumbProcessing, ThumbError, ThumbCreate, ThumbWrite,
                ThumbFailed, ThumbNoFfmpeg, ThumbReady
  <2>2. edit' = edit /\ run'[Probe(a)] = run[Probe(a)]
    BY <1>0, <2>1 DEF Goto, TypeOK
  <2>3. asset' = asset /\ copy' = copy
    BY <1>3 DEF ThumbGet, ThumbUnsupported, ThumbProcessing, ThumbError, ThumbCreate, ThumbWrite,
                ThumbFailed, ThumbNoFfmpeg, ThumbReady, SaveThumb, LoseThumb, rows
  <2> QED BY <1>k, <2>2, <2>3
<1>4. ASSUME NEW b \in Assets, AssetDelete(b) PROVE Goal
  <2>1. asset'[a].deleted
    BY <1>4 DEF AssetDelete, TypeOK, AssetRow
  <2> QED BY <1>4, <1>k, <2>1 DEF AssetDelete, local
<1>5. ASSUME NEW b \in Assets, NEW e \in Editors, UpdateGet(e, b) PROVE Goal
  <2>1. asset' = asset /\ run' = run /\ copy' = copy /\ \A f \in Editors \ {e} : edit'[f] = edit[f]
    BY <1>5 DEF UpdateGet, TypeOK, rows, local
  <2>2. edit'[e].of = b /\ edit'[e].row = asset[b]
    BY <1>5 DEF UpdateGet, TypeOK
  <2> QED BY <2>1, <2>2 DEF Reached
<1>6. ASSUME NEW e \in Editors, UpdateSave(e) PROVE Goal
  <2>1. edit[e].there /\ edit[e].of \in Assets
    BY <1>6 DEF UpdateSave, TypeOK, Edit
  <2>2. asset'[a].deleted
    BY <1>6, <2>1 DEF UpdateSave, TypeOK, Reached
  <2>3. run' = run /\ copy' = copy /\ ~edit'[e].there /\ \A f \in Editors \ {e} : edit'[f] = edit[f]
    BY <1>6 DEF UpdateSave, TypeOK, NoEdit, local
  <2> QED BY <2>2, <2>3 DEF Reached
<1>7. ASSUME NEW j \in Jobs,
             Report(j) \/ Drop(j) \/ CancelTask(j) \/ \E w \in Workers : Take(w, j)
      PROVE  Goal
  <2>1. asset' = asset /\ edit' = edit
    BY <1>7 DEF Report, Drop, CancelTask, Take, rows
  <2>2. CASE Report(j) \/ Drop(j)
    <3>1. run'[Probe(a)] = "probed" => run[Probe(a)] = "probed" /\ copy'[a] = copy[a]
      BY <1>0, <2>2 DEF Report, Drop, Forget, TypeOK
    <3> QED BY <1>k, <2>1, <3>1
  <2>3. CASE CancelTask(j) \/ \E w \in Workers : Take(w, j)
    <3>1. run'[Probe(a)] = "probed" => run[Probe(a)] = "probed" /\ copy'[a] = copy[a]
      BY <1>0, <2>3 DEF CancelTask, Take, local, TypeOK
    <3> QED BY <1>k, <2>1, <3>1
  <2> QED BY <1>7, <2>2, <2>3
<1>8. CASE UNCHANGED vars
  BY <1>8, <1>k DEF vars, rows, local
<1> QED BY <1>1, <1>2, <1>3, <1>4, <1>5, <1>6, <1>7, <1>8 DEF Next, Processing

(* Once a deletion has reached every copy of the row that an edit or a     *)
(* probe is still going to save, it is never undone.                       *)
THEOREM DeletionsStick == Spec => DeletionSticks
<1>1. TypeOK /\ [Next]_vars =>
        [\A a \in Assets :
           asset[a].deleted /\ (\A r \in InFlight(a) : r.deleted)
             => asset'[a].deleted /\ (\A r \in InFlight(a)' : r.deleted)]_vars
  BY DeletionStep, InFlightReached
<1> QED BY <1>1, PipelineTypeCorrect, PTL DEF Spec, DeletionSticks
-----------------------------------------------------------------------------
(* What the whole part of a quotient is. *)
LEMMA Quotient ==
  ASSUME NEW a \in Nat, NEW b \in Nat \ {0}
  PROVE  /\ a \div b \in Nat
         /\ (a \div b) * b <= a
         /\ a < (a \div b) * b + b
OBVIOUS

(* A product of naturals grows with its factors. *)
LEMMA Products ==
  ASSUME NEW a \in Nat, NEW b \in Nat, NEW c \in Nat
  PROVE  /\ a * c \in Nat
         /\ a <= b => a * c <= b * c
         /\ a < b /\ c # 0 => a * c < b * c
OBVIOUS

(* Pixel x of d pixels is taken from inside a side. *)
LEMMA SourceInside ==
  ASSUME NEW side \in Nat \ {0}, NEW d \in Nat \ {0}
  PROVE  \A x \in 0..(d - 1) : SourcePixel(x, side, d) < side
<1> SUFFICES ASSUME NEW x \in 0..(d - 1) PROVE (x * side) \div d < side
  BY DEF SourcePixel
<1> DEFINE q == (x * side) \div d
<1>1. x \in Nat /\ x < d /\ x * side \in Nat /\ x * side < d * side
  BY Products
<1>2. q \in Nat /\ q * d <= x * side
  BY <1>1, Quotient
<1> HIDE DEF q
<1>3. side <= q => side * d <= q * d
  BY <1>2, Products
<1>4. side * d = d * side /\ q * d \in Nat /\ side * d \in Nat
  BY <1>2, Products
<1> QED
  BY <1>1, <1>2, <1>3, <1>4 DEF q

(* The shorter side of a thumbnail, s of l pixels shrunk to max. *)
Shrunk(s, l, max) == IF (max * s) \div l = 0 THEN 1 ELSE (max * s) \div l

(* A side that is shrunk fits, and keeps its proportion but for rounding. *)
LEMMA ShrunkFits ==
  ASSUME NEW s \in Nat \ {0}, NEW l \in Nat \ {0}, NEW max \in Nat \ {0}, s <= l, max < l
  PROVE  /\ Shrunk(s, l, max) \in 1..s /\ Shrunk(s, l, max) <= max
         /\ max * s \in ((Shrunk(s, l, max) - 1) * l + 1)..((Shrunk(s, l, max) + 1) * l - 1)
<1> DEFINE q == (max * s) \div l
<1>1. max * s \in Nat /\ 1 <= max * s
  BY Products
<1>2. q \in Nat /\ q * l <= max * s /\ max * s < q * l + l
  BY <1>1, Quotient
<1> HIDE DEF q
<1>3. q <= s
  <2>1. max * s <= l * s /\ l * s = s * l
    BY Products
  <2>2. s < q => s * l < q * l
    BY <1>2, Products
  <2> QED
    BY <1>1, <1>2, <2>1, <2>2, Products
<1>4. q <= max
  <2>1. s * max <= l * max /\ s * max = max * s /\ l * max = max * l
    BY Products
  <2>2. max < q => max * l < q * l
    BY <1>2, Products
  <2> QED
    BY <1>1, <1>2, <2>1, <2>2, Products
<1>5. CASE q = 0
  <2>1. Shrunk(s, l, max) = 1 /\ (1 - 1) * l + 1 = 1 /\ (1 + 1) * l - 1 = l + l - 1
    BY <1>5 DEF Shrunk, q
  <2>2. max * s < l
    BY <1>2, <1>5
  <2> QED
    BY <1>1, <2>1, <2>2
<1>6. CASE q # 0
  <2>1. Shrunk(s, l, max) = q
    BY <1>6 DEF Shrunk, q
  <2>2. (q - 1) * l = q * l - l /\ (q + 1) * l = q * l + l /\ q * l \in Nat
    BY <1>2
  <2> QED
    BY <1>1, <1>2, <1>3, <1>4, <1>6, <2>1, <2>2
<1> QED
  BY <1>5, <1>6

(* A thumbnail of side lengths that fit is one that fits. *)
LEMMA MadeThumbnail ==
  ASSUME NEW w \in Nat \ {0}, NEW h \in Nat \ {0}, NEW max \in Nat, writeImageThumbnail(w, h, max)
  PROVE  ThumbnailFits'
<1> DEFINE large == max > 0 /\ (w > max \/ h > max)
<1>1. shot'.w = w /\ shot'.h = h /\ shot'.max = max
  BY DEF writeImageThumbnail, Shot
<1>2. CASE ~large
  <2>1. shot'.dw = w /\ shot'.dh = h
    BY <1>2 DEF writeImageThumbnail, Shot
  <2>2. max > 0 => w <= max /\ h <= max
    BY <1>2
  <2>3. w * h \in ((h - 1) * w + 1)..((h + 1) * w - 1) /\ h * w \in ((w - 1) * h + 1)..((w + 1) * h - 1)
    <3>1. /\ w * h \in Nat /\ h * w = w * h
          /\ (h - 1) * w = w * h - w /\ (h + 1) * w = w * h + w
          /\ (w - 1) * h = w * h - h /\ (w + 1) * h = w * h + h
      OBVIOUS
    <3> QED
      BY <3>1
  <2> QED
    BY <1>1, <2>1, <2>2, <2>3, SourceInside DEF ThumbnailFits
<1>3. CASE large /\ w >= h
  <2>1. h <= w /\ max < w /\ max \in Nat \ {0}
    BY <1>3
  <2>2. shot'.dw = max /\ shot'.dh = Shrunk(h, w, max)
    BY <1>3 DEF writeImageThumbnail, Shot, Shrunk
  <2> DEFINE d == Shrunk(h, w, max)
  <2>3. d \in 1..h /\ d <= max /\ max * h \in ((d - 1) * w + 1)..((d + 1) * w - 1)
    BY <2>1, ShrunkFits
  <2>4. /\ \A x \in 0..(max - 1) : SourcePixel(x, w, max) < w
        /\ \A y \in 0..(d - 1) : SourcePixel(y, h, d) < h
    <3> HIDE DEF d
    <3> QED
      BY <2>1, <2>3, SourceInside
  <2> HIDE DEF d
  <2>5. shot'.dh = d
    BY <2>2 DEF d
  <2> QED
    BY <1>1, <1>3, <2>1, <2>2, <2>3, <2>4, <2>5 DEF ThumbnailFits
<1>4. CASE large /\ ~(w >= h)
  <2>1. w <= h /\ max < h /\ max \in Nat \ {0} /\ ~(w >= h)
    BY <1>4
  <2>2. shot'.dh = max /\ shot'.dw = Shrunk(w, h, max)
    BY <1>4 DEF writeImageThumbnail, Shot, Shrunk
  <2> DEFINE d == Shrunk(w, h, max)
  <2>3. d \in 1..w /\ d <= max /\ max * w \in ((d - 1) * h + 1)..((d + 1) * h - 1)
    BY <2>1, ShrunkFits
  <2>4. /\ \A y \in 0..(max - 1) : SourcePixel(y, h, max) < h
        /\ \A x \in 0..(d - 1) : SourcePixel(x, w, d) < w
    <3> HIDE DEF d
    <3> QED
      BY <2>1, <2>3, SourceInside
  <2> HIDE DEF d
  <2>5. shot'.dw = d
    BY <2>2 DEF d
  <2> QED
    BY <1>1, <2>1, <2>2, <2>3, <2>4, <2>5 DEF ThumbnailFits
<1> QED
  BY <1>2, <1>3, <1>4

(* writeImageThumbnail computes with whole numbers: whatever the image and *)
(* the limit are, the thumbnail has a pixel each way, keeps to the limit   *)
(* and to the shape of the image, and reads inside it.                     *)
THEOREM ThumbnailsFit == DeliverySpec => []ThumbnailFits
<1>1. DeliveryInit => ThumbnailFits
  BY DEF DeliveryInit, Shot, ThumbnailFits
<1>2. ThumbnailFits /\ [DeliveryNext]_deliveryVars => ThumbnailFits'
  <2> SUFFICES ASSUME ThumbnailFits, [DeliveryNext]_deliveryVars PROVE ThumbnailFits'
    OBVIOUS
  <2>1. CASE shot' = shot
    BY <2>1 DEF ThumbnailFits
  <2>2. ASSUME NEW w \in 1..MaxSource, NEW h \in 1..MaxSource, NEW max \in MaxSides,
               writeImageThumbnail(w, h, max)
        PROVE  ThumbnailFits'
    BY <2>2, DeliveryAssumption, MadeThumbnail DEF DeliveryAssumption
  <2> QED
    BY <2>1, <2>2 DEF DeliveryNext, deliveryVars, CanvasAssetDownloadZip, ZipAdd, ZipClose
<1> QED
  BY <1>1, <1>2, PTL DEF DeliverySpec
-----------------------------------------------------------------------------
(* How often the name of entry i was asked for up to it, and the name of a *)
(* k-th copy.                                                              *)
Rank(used, i) == Cardinality({m \in 1..i : used[m] = used[i]})
Numbered(name, k) == IF k = 1 THEN name ELSE Name(name.stem, FALSE, Append(name.numbers, k))

Stems == {"", "a", "asset"}
Named == [stem : Stems, slashed : BOOLEAN, numbers : Seq(Nat)]
Entry == [item : Nat, name : Named, whole : BOOLEAN]

(* The archive so far: entry by entry the items, each under its name with  *)
(* the number of the copy it is, and whole but for the last one of an      *)
(* archive that is broken off.                                             *)
ZipInv ==
  /\ zip \in [items : Seq(Items), used : Seq(Named), entries : Seq(Entry), at : {"idle", "refused", "writing", "failed", "done"}]
  /\ Len(zip.entries) = Len(zip.used) /\ Len(zip.used) <= Len(zip.items)
  /\ zip.at = "done" => Len(zip.used) = Len(zip.items)
  /\ \A i \in 1..Len(zip.used) :
       /\ zip.used[i] = Trimmed(ItemName(zip.items[i], i))
       /\ zip.entries[i].item = i
       /\ zip.entries[i].name = Numbered(zip.used[i], Rank(zip.used, i))
       /\ zip.entries[i].whole \/ (zip.at = "failed" /\ i = Len(zip.used))

(* Names of items are names. *)
LEMMA NamesOfItems ==
  ASSUME NEW item \in Items, NEW index \in Nat
  PROVE  ItemName(item, index) \in Named /\ Trimmed(ItemName(item, index)) \in Named
<1>1. \A stem \in Stems, numbers \in Seq(Nat) :
        Name(stem, TRUE, numbers) \in Named /\ Name(stem, FALSE, numbers) \in Named
  BY DEF Name, Named
<1>2. <<>> \in Seq(Nat) /\ <<2>> \in Seq(Nat) /\ <<index>> \in Seq(Nat)
  OBVIOUS
<1>3. "" \in Stems /\ "a" \in Stems /\ "asset" \in Stems
  BY DEF Stems
<1>4. Nameless \in Named /\ Fallback(index) \in Named /\ Name("a", FALSE, <<>>) \in Named
  BY <1>1, <1>2, <1>3, Zenon DEF Nameless, Fallback
<1>5. Name("a", TRUE, <<>>) \in Named /\ Name("a", FALSE, <<2>>) \in Named
  BY <1>1, <1>2, <1>3, Zenon
<1>6. ItemNames \subseteq Named
  BY <1>4, <1>5, Zenon DEF ItemNames
<1> HIDE DEF Nameless
<1>7. item.name \in ItemNames /\ item.asset \in {Nameless, Name("a", FALSE, <<>>)}
  BY DEF Items
<1>8. ItemName(item, index) \in Named
  BY <1>6, <1>7, <1>4, Zenon DEF ItemName
<1> QED
  BY <1>1, <1>8 DEF Trimmed, Named

(* The count of a name is finite, and one more after it is asked for.      *)
LEMMA OneMore ==
  ASSUME NEW used \in Seq(Named), NEW n
  PROVE  LET more == Append(used, n) IN
         /\ Cardinality({i \in DOMAIN used : used[i] = n}) \in Nat
         /\ Rank(more, Len(used) + 1) = Cardinality({i \in DOMAIN used : used[i] = n}) + 1
         /\ \A i \in 1..Len(used) : Rank(more, i) = Rank(used, i)
<1> DEFINE more == Append(used, n)
           S == {i \in DOMAIN used : used[i] = n}
<1>0. Len(used) \in Nat /\ DOMAIN used = 1..Len(used)
  BY LenProperties
<1>1. more[Len(used) + 1] = n /\ \A i \in 1..Len(used) : more[i] = used[i]
  BY <1>0, AppendProperties
<1> HIDE DEF more
<1>2. IsFiniteSet(S)
  <2>1. S \in SUBSET (1..Len(used)) /\ IsFiniteSet(1..Len(used))
    BY <1>0, FS_Interval
  <2> QED
    BY <2>1, FS_Subset
<1>3. {m \in 1..(Len(used) + 1) : more[m] = more[Len(used) + 1]} = S \cup {Len(used) + 1}
  BY <1>0, <1>1
<1>4. Len(used) + 1 \notin S
  BY <1>0
<1>5. Cardinality(S) \in Nat /\ Cardinality(S \cup {Len(used) + 1}) = Cardinality(S) + 1
  BY <1>2, <1>4, FS_CardinalityType, FS_AddElement
<1>6. ASSUME NEW i \in 1..Len(used) PROVE Rank(more, i) = Rank(used, i)
  <2>1. {m \in 1..i : more[m] = more[i]} = {m \in 1..i : used[m] = used[i]}
    BY <1>0, <1>1
  <2> QED
    BY <2>1 DEF Rank
<1> QED
  BY <1>3, <1>5, <1>6 DEF Rank, more

(* Ranks are numbers. *)
LEMMA RankIsNumber ==
  ASSUME NEW used, NEW i \in Nat
  PROVE  Rank(used, i) \in Nat
<1>1. {m \in 1..i : used[m] = used[i]} \in SUBSET (1..i) /\ IsFiniteSet(1..i)
  BY FS_Interval
<1>2. IsFiniteSet({m \in 1..i : used[m] = used[i]})
  BY <1>1, FS_Subset
<1> QED
  BY <1>2, FS_CardinalityType DEF Rank

(* Later copies of a name have higher ranks, from 1 on. *)
LEMMA RanksGrow ==
  ASSUME NEW used, NEW i \in Nat \ {0}, NEW j \in Nat, i < j, used[i] = used[j]
  PROVE  Rank(used, i) < Rank(used, j) /\ Rank(used, i) \in Nat \ {0}
<1> DEFINE S == {m \in 1..i : used[m] = used[i]}
           T == {m \in 1..j : used[m] = used[j]}
<1>1. S \in SUBSET T /\ i \in S /\ j \in T /\ j \notin S
  OBVIOUS
<1>0. IsFiniteSet(T)
  <2>1. T \in SUBSET (1..j) /\ IsFiniteSet(1..j)
    BY FS_Interval
  <2> QED
    BY <2>1, FS_Subset
<1> HIDE DEF S, T
<1>2. Cardinality(S) <= Cardinality(T) /\ Cardinality(S) # Cardinality(T) /\ IsFiniteSet(S)
  BY <1>0, <1>1, FS_Subset
<1>3. Cardinality(S) \in Nat /\ Cardinality(T) \in Nat /\ Cardinality(S) # 0
  BY <1>0, <1>1, <1>2, FS_CardinalityType, FS_EmptySet
<1> QED
  BY <1>2, <1>3 DEF Rank, S, T

(* The steps of a download keep its invariant. *)
LEMMA ZipStep == ZipInv /\ [DeliveryNext]_deliveryVars => ZipInv'
<1> SUFFICES ASSUME ZipInv, [DeliveryNext]_deliveryVars PROVE ZipInv'
  OBVIOUS
<1> DEFINE Ats == {"idle", "refused", "writing", "failed", "done"}
<1>1. /\ zip.items \in Seq(Items) /\ zip.used \in Seq(Named) /\ zip.entries \in Seq(Entry)
      /\ Len(zip.used) \in Nat /\ Len(zip.items) \in Nat
  BY LenProperties DEF ZipInv
<1>2. ASSUME NEW asked \in Seq(Items), CanvasAssetDownloadZip(asked) PROVE ZipInv'
  <2>1. PICK at \in {"refused", "writing"} : zip' = Zip(asked, <<>>, <<>>, at)
    BY <1>2 DEF CanvasAssetDownloadZip
  <2>2. Len(asked) \in Nat /\ <<>> \in Seq(Named) /\ <<>> \in Seq(Entry) /\ Len(<<>>) = 0
    BY LenProperties
  <2>3. zip'.items = asked /\ zip'.used = <<>> /\ zip'.entries = <<>> /\ zip'.at = at
    BY <2>1 DEF Zip
  <2>4. zip' \in [items : Seq(Items), used : Seq(Named), entries : Seq(Entry), at : Ats]
    BY <2>1, <2>2 DEF Zip
  <2> QED
    BY <2>2, <2>3, <2>4 DEF ZipInv
<1>3. ASSUME NEW at \in {"failed", "done"}, zip' = [zip EXCEPT !.at = at], zip.at = "writing",
             at = "done" => Len(zip.used) = Len(zip.items)
      PROVE  ZipInv'
  BY <1>3 DEF ZipInv
<1>4. CASE ZipAdd
  <2> DEFINE index == Len(zip.used) + 1
             name == ItemName(zip.items[index], index)
             n == Trimmed(name)
             unique == uniqueZipName(zip.used, name)
  <2>1. CASE zip' = [zip EXCEPT !.at = "failed"]
    BY <1>3, <1>4, <2>1 DEF ZipAdd
  <2>2. ASSUME NEW whole \in BOOLEAN,
               zip' = Zip(zip.items, Append(zip.used, n),
                          Append(zip.entries, [item |-> index, name |-> unique, whole |-> whole]),
                          IF whole THEN "writing" ELSE "failed")
        PROVE  ZipInv'
    <3>1. index \in Nat /\ index <= Len(zip.items) /\ zip.items[index] \in Items
      BY <1>1, <1>4, ElementOfSeq DEF ZipAdd
    <3>2. name \in Named /\ n \in Named
      BY <3>1, NamesOfItems
    <3> DEFINE times == Cardinality({i \in DOMAIN zip.used : zip.used[i] = n})
               more == Append(zip.used, n)
    <3>3. /\ times \in Nat /\ Rank(more, index) = times + 1
          /\ \A i \in 1..Len(zip.used) : Rank(more, i) = Rank(zip.used, i)
      BY <1>1, OneMore
    <3>4. unique = Numbered(n, times + 1) /\ unique \in Named
      <4>1. n.stem = name.stem /\ n.numbers = name.numbers /\ name.numbers \in Seq(Nat) /\ name.stem \in Stems
        BY <3>2 DEF Trimmed, Name, Named
      <4>2. unique = IF times = 0 THEN n ELSE Name(name.stem, FALSE, Append(name.numbers, times + 1))
        BY DEF uniqueZipName, Times
      <4> HIDE DEF times, n, name, unique
      <4>3. unique = Numbered(n, times + 1)
        <5>1. times + 1 = 1 <=> times = 0
          BY <3>3
        <5> HIDE DEF Name
        <5> QED
          BY <4>1, <4>2, <5>1, Zenon DEF Numbered
      <4>4. Append(name.numbers, times + 1) \in Seq(Nat)
        BY <3>3, <4>1, AppendProperties
      <4>5. Name(name.stem, FALSE, Append(name.numbers, times + 1)) \in Named
        BY <4>1, <4>4 DEF Name, Named
      <4> QED
        BY <3>2, <4>2, <4>3, <4>5
    <3> DEFINE entry == [item |-> index, name |-> unique, whole |-> whole]
    <3>5. entry \in Entry /\ entry.item = index /\ entry.name = unique
      BY <3>1, <3>4 DEF Entry
    <3>6. /\ zip'.items = zip.items /\ zip'.used = more /\ zip'.entries = Append(zip.entries, entry)
          /\ zip'.at \in {"writing", "failed"}
      BY <2>2 DEF Zip
    <3>11. entry.whole \/ zip'.at = "failed"
      BY <2>2 DEF Zip
    <3> HIDE DEF entry, unique, n, name, times
    <3>7. /\ more \in Seq(Named) /\ Len(more) = index /\ more[index] = n
          /\ \A i \in 1..Len(zip.used) : more[i] = zip.used[i]
      BY <1>1, <3>2, AppendProperties
    <3>8. /\ Append(zip.entries, entry) \in Seq(Entry) /\ Len(Append(zip.entries, entry)) = index
          /\ Append(zip.entries, entry)[index] = entry
          /\ \A i \in 1..Len(zip.used) : Append(zip.entries, entry)[i] = zip.entries[i]
      BY <1>1, <3>5, AppendProperties DEF ZipInv
    <3> HIDE DEF more
    <3>9. zip' \in [items : Seq(Items), used : Seq(Named), entries : Seq(Entry), at : Ats]
      BY <1>1, <2>2, <3>7, <3>8 DEF Zip, more, entry
    <3>10. ASSUME NEW i \in 1..index
           PROVE  /\ more[i] = Trimmed(ItemName(zip.items[i], i))
                  /\ Append(zip.entries, entry)[i].item = i
                  /\ Append(zip.entries, entry)[i].name = Numbered(more[i], Rank(more, i))
                  /\ Append(zip.entries, entry)[i].whole \/ (zip'.at = "failed" /\ i = index)
      <4>1. CASE i = index
        BY <3>3, <3>4, <3>5, <3>7, <3>8, <3>11, <4>1 DEF n, name
      <4>2. CASE i # index
        <5>1. i \in 1..Len(zip.used)
          BY <1>1, <4>2
        <5> QED
          BY <1>4, <3>3, <3>7, <3>8, <5>1 DEF ZipInv, ZipAdd
      <4> QED
        BY <4>1, <4>2
    <3> QED
      BY <1>1, <3>1, <3>6, <3>7, <3>8, <3>9, <3>10 DEF ZipInv
  <2> QED
    BY <1>4, <2>1, <2>2 DEF ZipAdd
<1>5. CASE ZipClose
  BY <1>3, <1>5 DEF ZipClose
<1>6. CASE zip' = zip
  BY <1>6 DEF ZipInv
<1>7. ASSUME NEW n \in 0..MaxArchived, NEW asked \in [1..n -> Items], CanvasAssetDownloadZip(asked)
      PROVE  ZipInv'
  <2>1. asked \in Seq(Items)
    BY DeliveryAssumption DEF DeliveryAssumption
  <2> QED
    BY <1>2, <1>7, <2>1
<1> QED
  BY <1>4, <1>5, <1>6, <1>7 DEF DeliveryNext, deliveryVars, writeImageThumbnail

(* Two entries of one name: one of the names asked for is a numbered unique  *)
(* of another.                                                             *)
LEMMA ZipDistinct == ZipInv => EntriesDistinct
<1> SUFFICES ASSUME ZipInv PROVE EntriesDistinct
  OBVIOUS
<1>0. zip.entries \in Seq(Entry) /\ zip.used \in Seq(Named) /\ Len(zip.entries) = Len(zip.used)
  BY DEF ZipInv
<1>14. DOMAIN zip.entries = 1..Len(zip.used) /\ Len(zip.used) \in Nat
  BY <1>0, LenProperties
<1> SUFFICES ASSUME NEW i \in 1..Len(zip.used), NEW j \in 1..Len(zip.used), i < j,
                    zip.entries[i].name = zip.entries[j].name
             PROVE  \E n, o \in {Trimmed(ItemName(zip.items[m], m)) : m \in DOMAIN zip.items} :
                      n.stem = o.stem /\ Len(n.numbers) = Len(o.numbers) + 1
  BY <1>14 DEF EntriesDistinct
<1> DEFINE u == zip.used
           names == {Trimmed(ItemName(zip.items[m], m)) : m \in DOMAIN zip.items}
<1>1. u \in Seq(Named) /\ Len(u) \in Nat /\ Len(zip.items) \in Nat /\ DOMAIN zip.items = 1..Len(zip.items)
  BY LenProperties DEF ZipInv
<1>2. u[i] \in names /\ u[j] \in names
  <2>1. /\ u[i] = Trimmed(ItemName(zip.items[i], i)) /\ u[j] = Trimmed(ItemName(zip.items[j], j))
        /\ Len(u) <= Len(zip.items)
    BY DEF ZipInv
  <2> QED
    BY <1>1, <2>1
<1>3. u[i] \in Named /\ u[j] \in Named
  BY <1>1, ElementOfSeq
<1>4. u[i] = Name(u[i].stem, FALSE, u[i].numbers) /\ u[j] = Name(u[j].stem, FALSE, u[j].numbers)
  <2>1. \A x : Trimmed(x) = Name(Trimmed(x).stem, FALSE, Trimmed(x).numbers)
    BY DEF Trimmed, Name
  <2>2. (\E x : u[i] = Trimmed(x)) /\ (\E x : u[j] = Trimmed(x))
    BY DEF ZipInv
  <2> HIDE DEF u
  <2> QED
    BY <2>1, <2>2, Zenon
<1> DEFINE ki == Rank(u, i)
           kj == Rank(u, j)
<1>5. u[i] = u[j] => ki # kj
  BY <1>1, RanksGrow
<1>6. Numbered(u[i], ki) = Numbered(u[j], kj)
  BY DEF ZipInv
<1>7. u[i].numbers \in Seq(Nat) /\ u[j].numbers \in Seq(Nat)
  BY <1>3 DEF Named
<1>12. ki \in Nat /\ kj \in Nat
  BY <1>1, RankIsNumber
<1> HIDE DEF u, names, ki, kj
<1>8. CASE ki = 1 /\ kj = 1
  BY <1>5, <1>6, <1>8 DEF Numbered
<1>9. CASE ki = 1 /\ kj # 1
  <2>1. u[i].stem = u[j].stem /\ u[i].numbers = Append(u[j].numbers, kj)
    BY <1>6, <1>9 DEF Numbered, Name
  <2>2. Len(u[i].numbers) = Len(u[j].numbers) + 1
    BY <1>7, <2>1
  <2> QED
    BY <1>2, <2>1, <2>2 DEF names
<1>10. CASE ki # 1 /\ kj = 1
  <2>1. u[i].stem = u[j].stem /\ u[j].numbers = Append(u[i].numbers, ki)
    BY <1>6, <1>10 DEF Numbered, Name
  <2>2. Len(u[j].numbers) = Len(u[i].numbers) + 1
    BY <1>7, <2>1
  <2> QED
    BY <1>2, <2>1, <2>2 DEF names
<1>11. CASE ki # 1 /\ kj # 1
  <2>1. u[i].stem = u[j].stem /\ Append(u[i].numbers, ki) = Append(u[j].numbers, kj)
    BY <1>6, <1>11 DEF Numbered, Name
  <2>2. u[i].numbers = u[j].numbers /\ ki = kj
    <3>2. ASSUME NEW a \in Seq(Nat), NEW b \in Seq(Nat), NEW e \in Nat, NEW f \in Nat,
                 Append(a, e) = Append(b, f)
          PROVE  a = b /\ e = f
      BY <3>2, AppendInjective
    <3>3. Append(u[i].numbers, ki) = Append(u[j].numbers, kj)
      BY <2>1
    <3>4. u[i].numbers \in Seq(Nat) /\ u[j].numbers \in Seq(Nat) /\ ki \in Nat /\ kj \in Nat
      BY <1>7, <1>12
    <3>5. u[i].numbers = u[j].numbers
      BY <3>2, <3>3, <3>4
    <3>6. ki = kj
      BY <3>2, <3>3, <3>4
    <3> QED
      BY <3>5, <3>6
  <2> QED
    BY <1>4, <1>5, <2>1, <2>2
<1> QED
  BY <1>8, <1>9, <1>10, <1>11

(* An archive that CanvasAssetDownloadZip finishes has every item in its   *)
(* place and none over another, though uniqueZipName only counts requests  *)
(* for a name: a clash needs a name that is itself a numbered copy.        *)
THEOREM ArchivesComplete == DeliverySpec => []ArchiveComplete
<1>1. DeliveryInit => ZipInv
  BY DEF DeliveryInit, Zip, ZipInv
<1>2. ZipInv => ArchiveWhole
  BY LenProperties DEF ZipInv, ArchiveWhole
<1>3. ZipInv => ArchiveComplete
  BY <1>2, ZipDistinct DEF ArchiveComplete
<1> QED
  BY <1>1, <1>3, ZipStep, PTL DEF DeliverySpec
-----------------------------------------------------------------------------
(***************************************************************************)
(* AssetSearch.  The place of a row in the list is the number of matches   *)
(* that are newer; ids grow with the time of creation, so unless two rows  *)
(* are tied these are the greater ids.                                     *)
(***************************************************************************)
AssetRows ==
  [name : {f.name : f \in Files}, media : {mediaTypeFromFile(f.mime, f.ext) : f \in Files},
   width : {f.width : f \in Files}, height : {f.height : f \in Files}, created : Nat, deleted : BOOLEAN]

Newer(i, ids) == {j \in ids : j > i}
Place(i, ids) == Cardinality(Newer(i, ids))
Limit(size) == Smaller(size, MaxPageSize)
Offset(page, size) == (page - 1) * Limit(size)
Seen(seen, i) == \E n \in DOMAIN seen : seen[n] = i
Distinct(seen) == \A m, n \in DOMAIN seen : m # n => seen[m] # seen[n]

(* What was listed comes before the next page; what was not, is to come.   *)
ListedAbove(seen, ids, offset) ==
  \A n \in DOMAIN seen : seen[n] \in ids => Place(seen[n], ids) < offset
RestBelow(seen, ids, new, offset) ==
  \A i \in ids \ new : Seen(seen, i) \/ Place(i, ids) >= offset

Matches == Matching(Query, assets)
WalkTypes ==
  /\ walk.at \in {"idle", "walking", "over"}
  /\ walk.size \in Nat \ {0} /\ walk.page \in Nat \ {0} /\ walk.seen \in Seq(Nat)
  /\ walk.at = "idle" => walk.seen = <<>>
Grown == \A i, j \in DOMAIN assets : i < j => assets[i].created <= assets[j].created

SearchInv ==
  /\ assets \in Seq(AssetRows) /\ Grown /\ WalkTypes
  /\ ~Tied /\ came = {} =>
       Distinct(walk.seen) /\ ListedAbove(walk.seen, Matches, Offset(walk.page, walk.size))
  /\ ~Tied /\ left = {} /\ walk.at = "walking" =>
       RestBelow(walk.seen, Matches, came, Offset(walk.page, walk.size))
  /\ ~Tied /\ left = {} /\ walk.at = "over" => \A i \in Matches \ came : Seen(walk.seen, i)

(* More matches, later places. *)
LEMMA PlaceGrows ==
  ASSUME NEW A, NEW B, A \subseteq B, IsFiniteSet(B), NEW i
  PROVE  Place(i, A) \in Nat /\ Place(i, B) \in Nat /\ Place(i, A) <= Place(i, B)
<1>1. Newer(i, B) \in SUBSET B /\ Newer(i, A) \in SUBSET Newer(i, B)
  BY DEF Newer
<1>2. IsFiniteSet(Newer(i, B))
  BY <1>1, FS_Subset
<1>3. IsFiniteSet(Newer(i, A)) /\ Cardinality(Newer(i, A)) <= Cardinality(Newer(i, B))
  BY <1>1, <1>2, FS_Subset
<1> QED
  BY <1>2, <1>3, FS_CardinalityType DEF Place

(* In a list by falling ids a row is at its place, and every id is in it.  *)
LEMMA Places ==
  ASSUME NEW ids \in SUBSET Nat, IsFiniteSet(ids), NEW s \in [1..Cardinality(ids) -> ids],
         \A i, j \in DOMAIN s : i < j => s[i] > s[j]
  PROVE  /\ \A k \in DOMAIN s : Place(s[k], ids) = k - 1
         /\ \A i \in ids : \E k \in DOMAIN s : s[k] = i
<1> DEFINE n == Cardinality(ids)
<1>1. n \in Nat
  BY FS_CardinalityType
<1> HIDE DEF n
<1>2. DOMAIN s = 1..n /\ s \in [1..n -> ids]
  BY DEF n
<1>3. \A i, j \in 1..n : i # j => s[i] # s[j]
  <2> SUFFICES ASSUME NEW i \in 1..n, NEW j \in 1..n, i < j PROVE s[i] # s[j]
    BY <1>1
  <2>1. s[i] \in Nat /\ s[j] \in Nat /\ s[i] > s[j]
    BY <1>2
  <2> QED BY <2>1
<1>4. s \in Injection(1..n, ids)
  BY <1>2, <1>3 DEF Injection, IsInjective
<1>5. Cardinality(1..n) = n
  BY <1>1, FS_Interval
<1>6. s \in Surjection(1..n, ids)
  <2>1. Cardinality(1..n) = Cardinality(ids)
    BY <1>5 DEF n
  <2> QED BY <1>4, <2>1, FS_Injection
<1>7. \A i \in ids : \E k \in DOMAIN s : s[k] = i
  BY <1>2, <1>6 DEF Surjection
<1>8. ASSUME NEW k \in 1..n PROVE Place(s[k], ids) = k - 1
  <2> DEFINE f == [j \in 1..(k - 1) |-> s[j]]
  <2>1. \A j \in 1..n : s[j] > s[k] <=> j < k
    <3> TAKE j \in 1..n
    <3>1. s[j] \in Nat /\ s[k] \in Nat /\ (j < k => s[j] > s[k]) /\ (k < j => s[k] > s[j])
      BY <1>2
    <3> QED BY <3>1, <1>1
  <2>2. \A j \in 1..(k - 1) : j \in 1..n /\ j < k
    BY <1>1
  <2>3. f \in [1..(k - 1) -> Newer(s[k], ids)]
    BY <1>2, <2>1, <2>2 DEF Newer
  <2>4. \A i, j \in 1..(k - 1) : i # j => f[i] # f[j]
    BY <1>3, <2>2
  <2>5. \A i \in Newer(s[k], ids) : \E j \in 1..(k - 1) : f[j] = i
    <3> TAKE i \in Newer(s[k], ids)
    <3>1. i \in ids /\ i > s[k]
      BY DEF Newer
    <3>2. PICK j \in 1..n : s[j] = i
      BY <1>2, <1>7, <3>1
    <3>3. j < k
      BY <2>1, <3>1, <3>2
    <3>4. j \in 1..(k - 1)
      BY <3>2, <3>3, <1>1
    <3> QED BY <3>2, <3>4
  <2> HIDE DEF f
  <2>6. f \in Bijection(1..(k - 1), Newer(s[k], ids))
    BY <2>3, <2>4, <2>5 DEF Bijection, Injection, Surjection, IsInjective
  <2>7. ExistsBijection(1..(k - 1), Newer(s[k], ids))
    BY <2>6 DEF ExistsBijection
  <2>8. IsFiniteSet(1..(k - 1)) /\ Cardinality(1..(k - 1)) = k - 1
    BY <1>1, FS_Interval
  <2>9. Cardinality(Newer(s[k], ids)) = Cardinality(1..(k - 1))
    BY <2>7, <2>8, FS_Bijection
  <2> QED BY <2>8, <2>9 DEF Place
<1> QED
  BY <1>2, <1>7, <1>8

OnPage(page, s, off, lim) ==
  \A m \in DOMAIN page : off + m \in DOMAIN s /\ m <= lim /\ page[m] = s[off + m]

(* What is on a page: the rows behind the offset, as many as fit.          *)
LEMMA PageIs ==
  ASSUME NEW ids, NEW n \in Nat, NEW s \in [1..n -> ids], NEW off \in Nat, NEW lim \in Nat \ {0}
  PROVE  /\ Rows(s, off, lim) \in Seq(ids)
         /\ Rows(s, off, lim) = <<>> => n <= off
         /\ OnPage(Rows(s, off, lim), s, off, lim)
         /\ \A k \in 1..n : off < k /\ k <= off + lim => k - off \in DOMAIN Rows(s, off, lim)
<1> DEFINE e == Smaller(off + lim, n)
           page == Rows(s, off, lim)
<1>1. s \in Seq(ids) /\ Len(s) = n
  OBVIOUS
<1>2. e \in Nat /\ e <= n /\ e <= off + lim /\ (e = n \/ e = off + lim)
  BY DEF Smaller
<1>3. page = SubSeq(s, off + 1, e)
  BY <1>1 DEF Rows
<1> HIDE DEF e, page
<1>4. CASE off + 1 <= e
  <2>1. /\ page \in Seq(ids) /\ DOMAIN page = 1..(e - off)
        /\ \A m \in 1..(e - off) : page[m] = s[off + m]
    BY <1>1, <1>2, <1>3, <1>4
  <2>2. page # <<>>
    BY <2>1, <1>2, <1>4
  <2>3. \A m \in 1..(e - off) : off + m \in 1..n /\ m <= lim
    BY <1>2
  <2>4. \A k \in 1..n : off < k /\ k <= off + lim => k - off \in 1..(e - off)
    BY <1>2
  <2> QED BY <2>1, <2>2, <2>3, <2>4 DEF page, OnPage
<1>5. CASE ~(off + 1 <= e)
  <2>1. page = <<>>
    BY <1>1, <1>2, <1>3, <1>5
  <2>2. n <= off
    BY <1>2, <1>5
  <2>3. \A k \in 1..n : ~(off < k)
    BY <2>2
  <2> QED BY <2>1, <2>2, <2>3 DEF page, OnPage
<1> QED
  BY <1>4, <1>5

(* A page lists what is at the places it is for, and nothing again.        *)
LEMMA PageStep ==
  ASSUME NEW ids \in SUBSET Nat, IsFiniteSet(ids), NEW s \in [1..Cardinality(ids) -> ids],
         \A i, j \in DOMAIN s : i < j => s[i] > s[j],
         NEW seen \in Seq(Nat), NEW off \in Nat, NEW lim \in Nat \ {0}, NEW new,
         NEW page, page = Rows(s, off, lim)
  PROVE  /\ Distinct(seen) /\ ListedAbove(seen, ids, off) =>
              Distinct(seen \o page) /\ ListedAbove(seen \o page, ids, off + lim)
         /\ RestBelow(seen, ids, new, off) => RestBelow(seen \o page, ids, new, off + lim)
         /\ page = <<>> /\ RestBelow(seen, ids, new, off) => \A i \in ids \ new : Seen(seen, i)
         /\ page \in Seq(Nat)
<1> DEFINE n == Cardinality(ids)
<1>1. n \in Nat /\ s \in [1..n -> ids] /\ DOMAIN s = 1..n
  BY FS_CardinalityType
<1>2. /\ \A k \in 1..n : Place(s[k], ids) = k - 1
      /\ \A i \in ids : \E k \in 1..n : s[k] = i
  BY <1>1, Places
<1> HIDE DEF n
<1>3. /\ page \in Seq(ids)
      /\ page = <<>> => n <= off
      /\ \A m \in DOMAIN page : off + m \in 1..n /\ m <= lim /\ page[m] = s[off + m]
      /\ \A k \in 1..n : off < k /\ k <= off + lim => k - off \in DOMAIN page
  <2> HIDE DEF n
  <2>1. /\ Rows(s, off, lim) \in Seq(ids)
        /\ Rows(s, off, lim) = <<>> => n <= off
    BY <1>1, PageIs
  <2>2. \A m \in DOMAIN Rows(s, off, lim) :
          off + m \in 1..n /\ m <= lim /\ Rows(s, off, lim)[m] = s[off + m]
    <3>1. OnPage(Rows(s, off, lim), s, off, lim)
      BY <1>1, PageIs
    <3> QED BY <1>1, <3>1 DEF OnPage
  <2>3. \A k \in 1..n : off < k /\ k <= off + lim => k - off \in DOMAIN Rows(s, off, lim)
    BY <1>1, PageIs
  <2> QED BY <2>1, <2>2, <2>3
<1>4. page \in Seq(Nat) /\ DOMAIN page = 1..Len(page) /\ Len(page) \in Nat
  <2>1. Len(page) \in Nat /\ DOMAIN page = 1..Len(page) /\ page \in [1..Len(page) -> ids]
    BY <1>3
  <2>2. page \in [1..Len(page) -> Nat]
    BY <2>1
  <2> QED BY <2>1, <2>2
<1>5. DOMAIN seen = 1..Len(seen) /\ Len(seen) \in Nat
  OBVIOUS
<1> DEFINE all == seen \o page
<1>6. /\ all \in Seq(Nat) /\ DOMAIN all = 1..(Len(seen) + Len(page))
      /\ \A m \in 1..Len(seen) : all[m] = seen[m]
      /\ \A m \in 1..Len(page) : all[Len(seen) + m] = page[m]
  BY <1>4, <1>5
<1>7. \A m \in DOMAIN all : m \in DOMAIN seen \/ m - Len(seen) \in DOMAIN page
  BY <1>4, <1>5, <1>6
<1>8. \A m \in DOMAIN all : m - Len(seen) \in DOMAIN page => all[m] = page[m - Len(seen)]
  BY <1>4, <1>5, <1>6
<1>9. \A m \in DOMAIN seen : m \in DOMAIN all /\ all[m] = seen[m]
  BY <1>4, <1>5, <1>6
<1>10. \A m \in DOMAIN page : Len(seen) + m \in DOMAIN all /\ all[Len(seen) + m] = page[m]
  BY <1>4, <1>5, <1>6
<1> HIDE DEF all
<1>11. \A m \in DOMAIN page : page[m] \in ids /\ Place(page[m], ids) = off + m - 1
  <2> TAKE m \in DOMAIN page
  <2>1. off + m \in 1..n /\ page[m] = s[off + m] /\ m \in Nat
    BY <1>3, <1>4
  <2>2. s[off + m] \in ids /\ Place(s[off + m], ids) = (off + m) - 1
    BY <1>1, <1>2, <2>1
  <2> QED BY <2>1, <2>2
<1>12. ASSUME Distinct(seen), ListedAbove(seen, ids, off) PROVE Distinct(all)
  <2> SUFFICES ASSUME NEW m \in DOMAIN all, NEW k \in DOMAIN all, m < k, all[m] = all[k] PROVE FALSE
    <3>1. DOMAIN all \subseteq Nat
      BY <1>4, <1>5, <1>6
    <3> QED BY <3>1 DEF Distinct
  <2>1. CASE m \in DOMAIN seen /\ k \in DOMAIN seen
    BY <1>9, <1>12, <1>5, <2>1 DEF Distinct
  <2>2. CASE m \in DOMAIN seen /\ k - Len(seen) \in DOMAIN page
    <3>1. seen[m] = page[k - Len(seen)] /\ k - Len(seen) \in Nat \ {0}
      BY <1>4, <1>8, <1>9, <2>2
    <3>2. seen[m] \in ids /\ Place(seen[m], ids) = off + (k - Len(seen)) - 1
      BY <1>11, <2>2, <3>1
    <3>3. Place(seen[m], ids) < off
      BY <1>12, <2>2, <3>2 DEF ListedAbove
    <3> QED BY <3>1, <3>2, <3>3
  <2>3. CASE m - Len(seen) \in DOMAIN page /\ k - Len(seen) \in DOMAIN page
    <3>1. page[m - Len(seen)] = page[k - Len(seen)]
      BY <1>8, <2>3
    <3>2. off + (m - Len(seen)) - 1 = off + (k - Len(seen)) - 1
      BY <1>11, <2>3, <3>1
    <3>3. m \in Nat /\ k \in Nat
      BY <1>4, <1>5, <1>6
    <3> QED BY <3>2, <3>3, <1>5
  <2>4. CASE k \in DOMAIN seen /\ m - Len(seen) \in DOMAIN page
    <3>1. m \in Nat /\ k \in Nat /\ k <= Len(seen) /\ m - Len(seen) >= 1
      BY <1>4, <1>5, <1>6, <2>4
    <3> QED BY <3>1, <1>5
  <2> QED BY <1>7, <2>1, <2>2, <2>3, <2>4
<1>13. ASSUME ListedAbove(seen, ids, off) PROVE ListedAbove(all, ids, off + lim)
  <2> SUFFICES ASSUME NEW m \in DOMAIN all, all[m] \in ids PROVE Place(all[m], ids) < off + lim
    BY DEF ListedAbove
  <2>1. CASE m \in DOMAIN seen
    <3>1. Place(all[m], ids) < off
      BY <1>9, <1>13, <2>1 DEF ListedAbove
    <3>2. Place(all[m], ids) \in Nat
      BY PlaceGrows
    <3> QED BY <3>1, <3>2
  <2>2. CASE m - Len(seen) \in DOMAIN page
    <3>1. Place(all[m], ids) = off + (m - Len(seen)) - 1 /\ m - Len(seen) \in Nat /\ m - Len(seen) <= lim
      BY <1>3, <1>4, <1>8, <1>11, <2>2
    <3> DEFINE q == m - Len(seen)
    <3> HIDE DEF q
    <3>2. Place(all[m], ids) = off + q - 1 /\ q \in Nat /\ q <= lim
      BY <3>1 DEF q
    <3> QED BY <3>2
  <2> QED BY <1>7, <2>1, <2>2
<1>14. ASSUME RestBelow(seen, ids, new, off) PROVE RestBelow(all, ids, new, off + lim)
  <2> SUFFICES ASSUME NEW i \in ids \ new, Place(i, ids) < off + lim PROVE Seen(all, i)
    <3>1. \A i \in ids \ new : Place(i, ids) \in Nat
      BY PlaceGrows
    <3> QED BY <3>1 DEF RestBelow
  <2>1. CASE Seen(seen, i)
    BY <1>9, <2>1 DEF Seen
  <2>2. CASE Place(i, ids) >= off
    <3>1. PICK k \in 1..n : s[k] = i
      BY <1>2
    <3>2. Place(i, ids) = k - 1
      BY <1>2, <3>1
    <3>3. off < k /\ k <= off + lim
      BY <2>2, <3>2, <1>1
    <3>4. k - off \in DOMAIN page
      BY <1>3, <3>3
    <3>5. page[k - off] = s[off + (k - off)]
      BY <1>3, <3>4
    <3>6. off + (k - off) = k
      BY <1>1
    <3> QED BY <1>10, <3>1, <3>4, <3>5, <3>6 DEF Seen
  <2> QED BY <1>14, <2>1, <2>2 DEF RestBelow
<1>15. ASSUME page = <<>>, RestBelow(seen, ids, new, off), NEW i \in ids \ new PROVE Seen(seen, i)
  <2>1. PICK k \in 1..n : s[k] = i
    BY <1>2
  <2>2. Place(i, ids) = k - 1 /\ n <= off
    BY <1>2, <1>3, <1>15, <2>1
  <2>3. ~(Place(i, ids) >= off)
    BY <2>2, <1>1
  <2> QED BY <1>15, <2>3 DEF RestBelow
<1> QED
  BY <1>4, <1>12, <1>13, <1>14, <1>15 DEF all

(* Unless two rows are tied, the list is by falling ids.                   *)
LEMMA Falling ==
  ASSUME assets \in Seq(AssetRows), Grown, ~Tied, NEW ids \in SUBSET DOMAIN assets, NEW s \in Orders(ids)
  PROVE  s \in [1..Cardinality(ids) -> ids] /\ \A i, j \in DOMAIN s : i < j => s[i] > s[j]
<1>1. s \in [1..Cardinality(ids) -> ids]
  BY DEF Orders
<1>2. ASSUME NEW i \in DOMAIN s, NEW j \in DOMAIN s, i < j PROVE s[i] > s[j]
  <2>1. s[i] # s[j] /\ assets[s[i]].created >= assets[s[j]].created
    BY <1>2 DEF Orders
  <2>2. s[i] \in DOMAIN assets /\ s[j] \in DOMAIN assets
    BY <1>1
  <2>3. DOMAIN assets \subseteq Nat /\ assets[s[i]].created \in Nat /\ assets[s[j]].created \in Nat
    <3>1. assets[s[i]] \in AssetRows /\ assets[s[j]] \in AssetRows
      BY <2>2
    <3> QED BY <3>1 DEF AssetRows
  <2>4. assets[s[i]].created # assets[s[j]].created
    BY <2>1, <2>2 DEF Tied
  <2>5. s[i] < s[j] => assets[s[i]].created <= assets[s[j]].created
    BY <2>2 DEF Grown
  <2> QED BY <2>1, <2>2, <2>3, <2>4, <2>5
<1> QED
  BY <1>1, <1>2

(* Pages are as many rows apart as one of them holds.                      *)
LEMMA LimitFacts ==
  ASSUME NEW page \in Nat \ {0}, NEW size \in Nat \ {0}
  PROVE  /\ Limit(size) \in Nat \ {0} /\ Offset(page, size) \in Nat
         /\ Offset(page + 1, size) = Offset(page, size) + Limit(size)
<1>1. Limit(size) \in Nat \ {0}
  BY SearchAssumption DEF SearchAssumption, Limit, Smaller
<1> DEFINE l == Limit(size)
<1> HIDE DEF l
<1>2. \A l0 \in Nat : (page - 1) * l0 \in Nat /\ (page + 1 - 1) * l0 = (page - 1) * l0 + l0
  OBVIOUS
<1> QED
  BY <1>1, <1>2 DEF Offset

(* Matches are rows of the table, so they are finitely many.               *)
LEMMA FewMatch ==
  ASSUME NEW q, NEW table \in Seq(AssetRows)
  PROVE  /\ Matching(q, table) \in SUBSET DOMAIN table /\ Matching(q, table) \in SUBSET Nat
         /\ IsFiniteSet(Matching(q, table))
<1>1. Matching(q, table) \in SUBSET DOMAIN table
  BY DEF Matching
<1>2. DOMAIN table = 1..Len(table) /\ Len(table) \in Nat
  OBVIOUS
<1>3. IsFiniteSet(1..Len(table))
  BY <1>2, FS_Interval
<1>4. IsFiniteSet(Matching(q, table))
  BY <1>1, <1>2, <1>3, FS_Subset
<1> QED
  BY <1>1, <1>2, <1>4

(* An upload or a deletion under a walk moves rows only in the direction   *)
(* that came and left tell of.                                             *)
LEMMA ChangeKeeps ==
  ASSUME SearchInv, NEW table \in Seq(AssetRows), Change(table), walk' = walk,
         \A i \in DOMAIN assets : i \in DOMAIN table /\ table[i].created = assets[i].created,
         \A i, j \in DOMAIN table : i < j => table[i].created <= table[j].created
  PROVE  SearchInv'
<1> DEFINE A == Matching(Query, assets)
           B == Matching(Query, table)
           off == Offset(walk.page, walk.size)
<1>1. /\ assets' = table /\ assets \in Seq(AssetRows)
      /\ walk.page \in Nat \ {0} /\ walk.size \in Nat \ {0} /\ walk.seen \in Seq(Nat)
  BY DEF SearchInv, WalkTypes, Change
<1>2. Matches = A /\ Matches' = B
  BY <1>1 DEF Matches, Query
<1>3. IsFiniteSet(A) /\ IsFiniteSet(B)
  BY <1>1, FewMatch
<1>4. ~Tied' => ~Tied
  BY <1>1 DEF Tied
<1>5. assets' \in Seq(AssetRows) /\ Grown' /\ WalkTypes'
  BY <1>1 DEF SearchInv, Grown, WalkTypes
<1>6. off \in Nat /\ Offset(walk.page, walk.size)' = off
  BY <1>1, LimitFacts DEF Offset, Limit
<1> HIDE DEF A, B, off
<1>7. CASE walk.at = "idle"
  <2>1. walk.seen = <<>>
    BY <1>7 DEF SearchInv, WalkTypes
  <2>2. Distinct(walk.seen) /\ ListedAbove(walk.seen, B, off)
    BY <2>1 DEF Distinct, ListedAbove
  <2> QED BY <1>2, <1>5, <1>6, <1>7, <2>2 DEF SearchInv
<1>8. CASE walk.at # "idle"
  <2>1. came' = came \cup (B \ A) /\ left' = left \cup (A \ B)
    BY <1>8 DEF Change, A, B
  <2>2. ASSUME ~Tied', came' = {} PROVE Distinct(walk.seen) /\ ListedAbove(walk.seen, B, off)
    <3>1. came = {} /\ B \subseteq A
      BY <2>1, <2>2
    <3>2. Distinct(walk.seen) /\ ListedAbove(walk.seen, A, off)
      BY <1>2, <1>4, <2>2, <3>1 DEF SearchInv, off
    <3>3. ASSUME NEW n \in DOMAIN walk.seen, walk.seen[n] \in B PROVE Place(walk.seen[n], B) < off
      <4>1. Place(walk.seen[n], A) < off
        BY <3>1, <3>2, <3>3 DEF ListedAbove
      <4>2. /\ Place(walk.seen[n], B) \in Nat /\ Place(walk.seen[n], A) \in Nat
            /\ Place(walk.seen[n], B) <= Place(walk.seen[n], A)
        BY <1>3, <3>1, PlaceGrows
      <4> QED BY <1>6, <4>1, <4>2
    <3> QED BY <3>2, <3>3 DEF ListedAbove
  <2>3. ASSUME ~Tied', left' = {}, walk.at = "walking" PROVE RestBelow(walk.seen, B, came', off)
    <3>1. left = {} /\ A \subseteq B
      BY <2>1, <2>3
    <3>2. RestBelow(walk.seen, A, came, off)
      BY <1>2, <1>4, <2>3, <3>1 DEF SearchInv, off
    <3>3. ASSUME NEW i \in B \ came', ~Seen(walk.seen, i) PROVE Place(i, B) >= off
      <4>1. i \in A \ came
        BY <2>1, <3>3
      <4>2. Place(i, A) >= off
        BY <3>2, <3>3, <4>1 DEF RestBelow
      <4>3. Place(i, A) \in Nat /\ Place(i, B) \in Nat /\ Place(i, A) <= Place(i, B)
        BY <1>3, <3>1, PlaceGrows
      <4> QED BY <1>6, <4>2, <4>3
    <3> QED BY <3>3 DEF RestBelow
  <2>4. ASSUME ~Tied', left' = {}, walk.at = "over" PROVE \A i \in B \ came' : Seen(walk.seen, i)
    <3>1. left = {} /\ A \subseteq B
      BY <2>1, <2>4
    <3>2. \A i \in A \ came : Seen(walk.seen, i)
      BY <1>2, <1>4, <2>4, <3>1 DEF SearchInv
    <3>3. B \ came' \subseteq A \ came
      BY <2>1
    <3> QED BY <3>2, <3>3
  <2> QED BY <1>2, <1>5, <1>6, <2>2, <2>3, <2>4 DEF SearchInv
<1> QED
  BY <1>7, <1>8

(* Uploads and deletions only append rows or mark them.                    *)
LEMMA TableChanges ==
  ASSUME SearchInv,
         \/ \E file \in Files, created \in {Latest, Latest + 1} : UploadFile(file, created)
         \/ \E i \in DOMAIN assets : DeleteFile(i)
  PROVE  SearchInv'
<1>1. assets \in Seq(AssetRows) /\ DOMAIN assets = 1..Len(assets) /\ Len(assets) \in Nat
  BY DEF SearchInv
<1>2. ASSUME NEW file \in Files, NEW created \in {Latest, Latest + 1}, UploadFile(file, created)
      PROVE  SearchInv'
  <2> DEFINE row == [name |-> file.name, media |-> mediaTypeFromFile(file.mime, file.ext),
                     width |-> file.width, height |-> file.height, created |-> created, deleted |-> FALSE]
             table == Append(assets, row)
  <2>1. /\ Latest \in Nat
        /\ \A i \in DOMAIN assets : assets[i].created \in Nat /\ assets[i].created <= Latest
    <3>1. \A i \in DOMAIN assets : assets[i].created \in Nat
      <4>1. \A i \in DOMAIN assets : assets[i] \in AssetRows
        BY <1>1
      <4> QED BY <4>1 DEF AssetRows
    <3>2. CASE assets = <<>>
      BY <1>1, <3>2 DEF Latest
    <3>3. CASE assets # <<>>
      <4>1. Len(assets) \in DOMAIN assets /\ Latest = assets[Len(assets)].created
        BY <1>1, <3>3 DEF Latest
      <4>2. ASSUME NEW i \in DOMAIN assets PROVE assets[i].created <= Latest
        <5>1. i = Len(assets) \/ i < Len(assets)
          BY <1>1
        <5> QED BY <3>1, <4>1, <5>1 DEF SearchInv, Grown
      <4> QED BY <3>1, <4>1, <4>2
    <3> QED BY <3>2, <3>3
  <2>2. created \in Nat /\ \A i \in DOMAIN assets : assets[i].created <= created
    BY <2>1
  <2>3. row \in AssetRows /\ row.created = created
    BY <2>2 DEF AssetRows
  <2> HIDE DEF row
  <2>4. /\ table \in Seq(AssetRows) /\ DOMAIN table = 1..(Len(assets) + 1)
        /\ \A i \in 1..Len(assets) : table[i] = assets[i]
        /\ table[Len(assets) + 1] = row
    BY <1>1, <2>3
  <2>5. Change(table) /\ walk' = walk
    BY <1>2 DEF UploadFile, row
  <2> HIDE DEF table
  <2>6. \A i \in DOMAIN assets : i \in DOMAIN table /\ table[i].created = assets[i].created
    BY <1>1, <2>4
  <2>7. ASSUME NEW i \in DOMAIN table, NEW j \in DOMAIN table, i < j PROVE table[i].created <= table[j].created
    <3>1. i \in DOMAIN assets /\ (j \in DOMAIN assets \/ j = Len(assets) + 1)
      BY <1>1, <2>4, <2>7
    <3>2. CASE j \in DOMAIN assets
      BY <1>1, <2>4, <2>7, <3>1, <3>2 DEF SearchInv, Grown
    <3>3. CASE j = Len(assets) + 1
      BY <1>1, <2>2, <2>3, <2>4, <3>1, <3>3
    <3> QED BY <3>1, <3>2, <3>3
  <2> QED BY <2>4, <2>5, <2>6, <2>7, ChangeKeeps
<1>3. ASSUME NEW i \in DOMAIN assets, DeleteFile(i) PROVE SearchInv'
  <2> DEFINE row == [assets[i] EXCEPT !.deleted = TRUE]
             table == [assets EXCEPT ![i] = row]
  <2>1. assets[i] \in AssetRows
    BY <1>1
  <2>2. row \in AssetRows /\ row.created = assets[i].created
    BY <2>1 DEF AssetRows
  <2>3. Change(table) /\ walk' = walk
    BY <1>3 DEF DeleteFile
  <2> HIDE DEF row
  <2>4. /\ table \in Seq(AssetRows) /\ DOMAIN table = DOMAIN assets
        /\ \A j \in DOMAIN assets : table[j] = IF j = i THEN row ELSE assets[j]
    BY <1>1, <2>2
  <2> HIDE DEF table
  <2>5. \A j \in DOMAIN assets : j \in DOMAIN table /\ table[j].created = assets[j].created
    BY <2>2, <2>4
  <2>6. \A j, k \in DOMAIN table : j < k => table[j].created <= table[k].created
    BY <2>4, <2>5 DEF SearchInv, Grown
  <2> QED BY <2>3, <2>4, <2>5, <2>6, ChangeKeeps
<1> QED
  BY <1>2, <1>3

(* A walk begins with nothing listed, and nothing above its first page.    *)
LEMMA WalkBegins ==
  ASSUME SearchInv, NEW text \in Sentences, NEW size \in PageSizes, AssetSearch(text, size)
  PROVE  SearchInv'
<1>1. /\ walk' = [at |-> "walking", text |-> text, size |-> size, page |-> 1, seen |-> <<>>]
      /\ assets' = assets /\ came' = {}
  BY DEF AssetSearch
<1>2. size \in Nat \ {0}
  BY SearchAssumption DEF SearchAssumption
<1>3. /\ walk'.at = "walking" /\ walk'.size = size /\ walk'.page = 1 /\ walk'.seen = <<>>
  BY <1>1
<1>4. assets' \in Seq(AssetRows) /\ Grown' /\ WalkTypes'
  BY <1>1, <1>2, <1>3 DEF SearchInv, Grown, WalkTypes
<1>5. Offset(walk.page, walk.size)' = 0
  <2>1. Limit(size) \in Nat
    BY <1>2, LimitFacts
  <2>2. Offset(1, size) = 0
    BY <2>1 DEF Offset
  <2> QED BY <1>3, <2>2 DEF Offset, Limit
<1>6. IsFiniteSet(Matches')
  BY <1>1, FewMatch DEF Matches, SearchInv
<1>7. \A i : Place(i, Matches') \in Nat
  BY <1>6, PlaceGrows
<1>8. Distinct(walk'.seen) /\ ListedAbove(walk'.seen, Matches', 0)
  BY <1>3 DEF Distinct, ListedAbove
<1>9. RestBelow(walk'.seen, Matches', came', 0)
  <2>1. \A i : Place(i, Matches') >= 0
    BY <1>7
  <2> QED BY <2>1 DEF RestBelow
<1> QED
  BY <1>3, <1>4, <1>5, <1>8, <1>9 DEF SearchInv

(* A page continues the list; an empty one ends it. *)
LEMMA WalkGoesOn ==
  ASSUME SearchInv, AssetList
  PROVE  SearchInv'
<1> DEFINE ids == Matching(Query, assets)
           off == Offset(walk.page, walk.size)
           lim == Limit(walk.size)
<1>1. /\ assets \in Seq(AssetRows) /\ Grown /\ walk.at = "walking"
      /\ walk.page \in Nat \ {0} /\ walk.size \in Nat \ {0} /\ walk.seen \in Seq(Nat)
      /\ assets' = assets /\ came' = came /\ left' = left
  BY DEF SearchInv, WalkTypes, AssetList
<1>2. ids \in SUBSET DOMAIN assets /\ ids \in SUBSET Nat /\ IsFiniteSet(ids)
  BY <1>1, FewMatch
<1>3. off \in Nat /\ lim \in Nat \ {0} /\ Offset(walk.page + 1, walk.size) = off + lim
  BY <1>1, LimitFacts
<1>4. PICK s \in Orders(ids) :
        walk' = IF ToQuery(s, walk.page, walk.size) = <<>> THEN [walk EXCEPT !.at = "over"]
                ELSE [walk EXCEPT !.page = @ + 1, !.seen = @ \o ToQuery(s, walk.page, walk.size)]
  BY DEF AssetList
<1> DEFINE page == Rows(s, off, lim)
<1>5. ToQuery(s, walk.page, walk.size) = page
  BY DEF ToQuery, Limit, Offset
<1>6. Tied' <=> Tied
  BY <1>1 DEF Tied
<1>7. s \in [1..Cardinality(ids) -> ids]
  BY DEF Orders
<1>8. page \in Seq(Nat)
  <2>1. Cardinality(ids) \in Nat
    BY <1>2, FS_CardinalityType
  <2>2. page \in Seq(ids)
    BY <1>3, <1>7, <2>1, PageIs
  <2>3. Len(page) \in Nat /\ page \in [1..Len(page) -> ids]
    BY <2>2
  <2>4. page \in [1..Len(page) -> Nat]
    BY <1>2, <2>3
  <2> QED BY <2>3, <2>4
<1>9. ASSUME ~Tied
      PROVE  /\ came = {} =>
                  Distinct(walk.seen \o page) /\ ListedAbove(walk.seen \o page, ids, off + lim)
             /\ left = {} => RestBelow(walk.seen \o page, ids, came, off + lim)
             /\ page = <<>> /\ left = {} => \A i \in ids \ came : Seen(walk.seen, i)
             /\ came = {} => Distinct(walk.seen) /\ ListedAbove(walk.seen, ids, off)
  <2>1. \A i, j \in DOMAIN s : i < j => s[i] > s[j]
    BY <1>1, <1>2, <1>9, Falling
  <2>2. came = {} => Distinct(walk.seen) /\ ListedAbove(walk.seen, ids, off)
    BY <1>9 DEF SearchInv, Matches
  <2>3. left = {} => RestBelow(walk.seen, ids, came, off)
    BY <1>1, <1>9 DEF SearchInv, Matches
  <2> HIDE DEF ids, off, lim
  <2>4. /\ Distinct(walk.seen) /\ ListedAbove(walk.seen, ids, off) =>
              Distinct(walk.seen \o page) /\ ListedAbove(walk.seen \o page, ids, off + lim)
        /\ RestBelow(walk.seen, ids, came, off) => RestBelow(walk.seen \o page, ids, came, off + lim)
        /\ page = <<>> /\ RestBelow(walk.seen, ids, came, off) => \A i \in ids \ came : Seen(walk.seen, i)
    BY <1>1, <1>2, <1>3, <1>7, <2>1, PageStep
  <2> QED BY <2>2, <2>3, <2>4
<1>10. CASE page = <<>>
  <2>1. walk' = [walk EXCEPT !.at = "over"]
    BY <1>4, <1>5, <1>10
  <2> HIDE DEF page, off, lim
  <2>2. /\ walk'.at = "over" /\ walk'.seen = walk.seen /\ walk'.page = walk.page
        /\ walk'.size = walk.size /\ walk'.text = walk.text
    BY <2>1 DEF SearchInv, WalkTypes
  <2>3. Matches' = ids /\ Offset(walk.page, walk.size)' = off
    BY <1>1, <2>2 DEF Matches, Query, off, Offset, Limit
  <2>4. assets' \in Seq(AssetRows) /\ Grown' /\ WalkTypes'
    BY <1>1, <2>2 DEF Grown, WalkTypes
  <2> QED BY <1>1, <1>6, <1>9, <1>10, <2>2, <2>3, <2>4 DEF SearchInv
<1>11. CASE page # <<>>
  <2>1. walk' = [walk EXCEPT !.page = @ + 1, !.seen = @ \o page]
    BY <1>4, <1>5, <1>11
  <2> HIDE DEF page, off, lim
  <2>2. /\ walk'.at = "walking" /\ walk'.seen = walk.seen \o page /\ walk'.page = walk.page + 1
        /\ walk'.size = walk.size /\ walk'.text = walk.text
    BY <1>1, <2>1
  <2>3. Matches' = ids /\ Offset(walk.page, walk.size)' = off + lim
    BY <1>1, <1>3, <2>2 DEF Matches, Query, Offset, Limit
  <2>4. assets' \in Seq(AssetRows) /\ Grown' /\ WalkTypes'
    BY <1>1, <1>8, <2>2 DEF Grown, WalkTypes
  <2> QED BY <1>1, <1>6, <1>9, <2>2, <2>3, <2>4 DEF SearchInv
<1> QED
  BY <1>10, <1>11

(* Nothing is listed of an empty table. *)
LEMMA SearchInitial == SearchInit => SearchInv
<1> SUFFICES ASSUME SearchInit PROVE SearchInv
  OBVIOUS
<1>1. assets = <<>> /\ walk.seen = <<>> /\ walk.at = "idle" /\ walk.size = 1 /\ walk.page = 1
  BY DEF SearchInit, NoWalk
<1>2. WalkTypes /\ Grown
  BY <1>1 DEF WalkTypes, Grown
<1>3. Distinct(walk.seen) /\ \A ids, off : ListedAbove(walk.seen, ids, off)
  BY <1>1 DEF Distinct, ListedAbove
<1> QED
  BY <1>1, <1>2, <1>3 DEF SearchInv

(* Every step of the client and of the others keeps the invariant.         *)
LEMMA SearchStep == SearchInv /\ [SearchNext]_searchVars => SearchInv'
<1> SUFFICES ASSUME SearchInv, [SearchNext]_searchVars PROVE SearchInv'
  OBVIOUS
<1>1. CASE UNCHANGED searchVars
  <2>1. Matches' = Matches /\ (Tied' <=> Tied) /\ (Grown' <=> Grown) /\ (WalkTypes' <=> WalkTypes)
    BY <1>1 DEF searchVars, Matches, Query, Tied, Grown, WalkTypes
  <2>2. Offset(walk.page, walk.size)' = Offset(walk.page, walk.size)
    BY <1>1 DEF searchVars, Offset, Limit
  <2> QED BY <1>1, <2>1, <2>2 DEF searchVars, SearchInv
<1>2. CASE \/ \E file \in Files, created \in {Latest, Latest + 1} : UploadFile(file, created)
           \/ \E i \in DOMAIN assets : DeleteFile(i)
  BY <1>2, TableChanges
<1>3. CASE \E text \in Sentences, size \in PageSizes : AssetSearch(text, size)
  BY <1>3, WalkBegins
<1>4. CASE AssetList
  BY <1>4, WalkGoesOn
<1> QED
  BY <1>1, <1>2, <1>3, <1>4 DEF SearchNext

(* However many assets come and go under it, a walk through the pages      *)
(* misses one that matches throughout only if one above it ceased to match *)
(* or two were created at one time, and repeats one only if one began to.  *)
THEOREM WalksAreExact == SearchSpec => []ListedExactlyOnce
<1>1. SearchInv => ListedExactlyOnce
  BY DEF SearchInv, ListedExactlyOnce, EveryAssetListed, ListedOnce, Distinct, Seen, Matches
<1> QED
  BY <1>1, SearchInitial, SearchStep, PTL DEF SearchSpec
=============================================================================
