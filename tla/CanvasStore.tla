----------------------------- MODULE CanvasStore -----------------------------
(***************************************************************************)
(* Canvases and projects: tables canvases and projects, and the requests   *)
(* of canvasService.  Every database call is a step of its own; a request  *)
(* that reads a canvas and writes it back keeps the row it read.           *)
(*                                                                         *)
(* A canvas is its project, its drawing, when it was last updated and when *)
(* it was put into the trash (0: it was not).  A drawing is the set of     *)
(* edits that it contains.  Title, icon, colour and place on the board     *)
(* travel with the row and decide nothing.                                 *)
(***************************************************************************)
EXTENDS Naturals

CONSTANTS
  Canvases,     \* ids of canvases; an id is used once (uuid)
  Projects,     \* ids of projects
  Default,      \* DefaultProjectID
  Sessions,     \* clients, each with one editor and one request at a time
  Edits,        \* edits to drawings
  None,
  Retention,    \* retentionDays, in ticks of the clock
  MaxTime       \* bound on the clock

ASSUME CanvasAssumption ==
  /\ Default \in Projects
  /\ Canvases \cap Projects = {}
  /\ None \notin Canvases \cup Projects \cup Edits
  /\ Retention \in Nat
  /\ MaxTime \in Nat \ {0}

VARIABLES
  canvas,     \* table canvases
  project,    \* table projects
  now,        \* the server's clock, in milliseconds
  view,       \* what each session's editor shows
  req,        \* the request each session is in
  born,       \* ids handed out so far
  acked,      \* edits of each canvas whose save was answered with success
  exposed,    \* canvases written where the conflict check could not see it
  late        \* projects a canvas was put into during or after their deletion

vars == <<canvas, project, now, view, req, born, acked, exposed, late>>
-----------------------------------------------------------------------------
Row(p, g, u, d) == [project |-> p, graph |-> g, updated |-> u, deleted |-> d]
NoCanvas == Row(None, {}, 0, 0)
CanvasRow == [project : Projects, graph : SUBSET Edits, updated : 0..MaxTime, deleted : 0..MaxTime]

(* A request: the call to make next, the one after it, the canvas or       *)
(* project it is for, the row to write, the row that was read and the edit *)
(* to be acknowledged.                                                     *)
Request(at, next, id, row, read, edit) ==
  [at |-> at, next |-> next, id |-> id, row |-> row, read |-> read, edit |-> edit]
Idle == Request("idle", "idle", None, NoCanvas, NoCanvas, None)
Adding(at, next, row) == Request(at, next, None, row, NoCanvas, None)
Deleting(at, p) == Request(at, "idle", p, NoCanvas, NoCanvas, None)
Updating(k, row, read, edit) == Request("update", "idle", k, row, read, edit)

(* The requests there can be. *)
Stage(ats, nexts, ids, rows, reads, edits) ==
  [at : ats, next : nexts, id : ids, row : rows, read : reads, edit : edits]
Requests ==
  Stage({"idle"}, {"idle"}, {None}, {NoCanvas}, {NoCanvas}, {None})
  \cup Stage({"add default"}, {"add canvas"}, {None}, CanvasRow, {NoCanvas}, {None})
  \cup Stage({"add default"}, {"add project", "idle"}, {None}, {NoCanvas}, {NoCanvas}, {None})
  \cup Stage({"add canvas"}, {"idle"}, {None}, CanvasRow, {NoCanvas}, {None})
  \cup Stage({"add project"}, {"idle"}, {None}, {NoCanvas}, {NoCanvas}, {None})
  \cup Stage({"reassign", "delete project"}, {"idle"}, Projects, {NoCanvas}, {NoCanvas}, {None})
  \cup Stage({"update"}, {"idle"}, Canvases, CanvasRow, CanvasRow, Edits \cup {None})

Begin(s, r) == req[s] = Idle /\ req' = [req EXCEPT ![s] = r]
Moves(s, r) == req' = [req EXCEPT ![s] = r]

(* Nobody has made edit e, or whoever made it has failed to save it. *)
Fresh(e) ==
  /\ \A s \in Sessions : e \notin view[s].graph \cup req[s].row.graph
  /\ \A k \in Canvases : e \notin canvas[k].graph \cup acked[k]

Live(k) == canvas[k] # NoCanvas /\ canvas[k].deleted = 0

(* p is deleted, or its canvases have already been moved out. *)
Leaving(p) ==
  \/ p \in born \ project
  \/ \E s \in Sessions : req[s].at = "delete project" /\ req[s].id = p

(* A canvas row that names p is written. *)
WriteFor(p) == late' = IF Leaving(p) THEN late \cup {p} ELSE late
-----------------------------------------------------------------------------
Init ==
  /\ canvas = [k \in Canvases |-> NoCanvas]
  /\ project = {} /\ born = {} /\ exposed = {} /\ late = {}
  /\ now = 1
  /\ view = [s \in Sessions |-> [id |-> None, graph |-> {}, base |-> 0]]
  /\ req = [s \in Sessions |-> Idle]
  /\ acked = [k \in Canvases |-> {}]

Tick ==
  /\ now < MaxTime
  /\ now' = now + 1
  /\ UNCHANGED <<canvas, project, view, req, born, acked, exposed, late>>

(* A database call fails and the request returns the error. *)
CallFails(s) ==
  /\ req[s] # Idle
  /\ Moves(s, Idle)
  /\ UNCHANGED <<canvas, project, now, view, born, acked, exposed, late>>

(* ensureDefaultProject: the default project is looked up and added if it  *)
(* is not there; then the request goes on.                                 *)
Ensure(s, next, row) ==
  /\ Begin(s, IF Default \in project THEN Adding(next, "idle", row)
              ELSE Adding("add default", next, row))
  /\ UNCHANGED <<canvas, project, now, view, born, acked, exposed, late>>

(* The insert fails on the primary key when another request was first. *)
AddDefault(s) ==
  /\ req[s].at = "add default"
  /\ project' = project \cup {Default}
  /\ born' = born \cup {Default}
  /\ Moves(s, IF Default \in project \/ req[s].next = "idle" THEN Idle
              ELSE Adding(req[s].next, "idle", req[s].row))
  /\ UNCHANGED <<canvas, now, view, acked, exposed, late>>

(* ProjectList *)
ProjectList(s) ==
  /\ Default \notin project
  /\ Ensure(s, "idle", NoCanvas)

(* CanvasCreate, with an empty drawing; nobody looks whether p exists. *)
CanvasCreate(s, p) ==
  /\ p \in born \cup {Default}
  /\ Ensure(s, "add canvas", Row(p, {}, 0, 0))

(* CanvasImport: the same with a drawing. *)
CanvasImport(s, p, e) ==
  /\ p \in born \cup {Default}
  /\ Fresh(e)
  /\ Ensure(s, "add canvas", Row(p, {e}, 0, 0))

AddCanvas(s, k) ==
  LET row == req[s].row IN
  /\ req[s].at = "add canvas"
  /\ k \notin born
  /\ born' = born \cup {k}
  /\ canvas' = [canvas EXCEPT ![k] = Row(row.project, row.graph, now, 0)]
  /\ acked' = [acked EXCEPT ![k] = row.graph]
  /\ WriteFor(row.project)
  /\ Moves(s, Idle)
  /\ UNCHANGED <<project, now, view, exposed>>

ProjectCreate(s) ==
  /\ Ensure(s, "add project", NoCanvas)

AddProject(s, p) ==
  /\ req[s].at = "add project"
  /\ p \notin born \cup {Default}
  /\ born' = born \cup {p}
  /\ project' = project \cup {p}
  /\ Moves(s, Idle)
  /\ UNCHANGED <<canvas, now, view, acked, exposed, late>>

(* ProjectDelete: Get, then its canvases move to the default project and   *)
(* the project goes.                                                       *)
ProjectDelete(s, p) ==
  /\ p \in project \ {Default}
  /\ Begin(s, Deleting("reassign", p))
  /\ UNCHANGED <<canvas, project, now, view, born, acked, exposed, late>>

(* Fault seeded for the checks: what is in the trash stays behind. *)
ReassignProjectLive(s) ==
  LET p == req[s].id IN
  /\ req[s].at = "reassign"
  /\ canvas' = [k \in Canvases |->
       IF canvas[k].project = p /\ canvas[k].deleted = 0
       THEN Row(Default, canvas[k].graph, now, canvas[k].deleted)
       ELSE canvas[k]]
  /\ Moves(s, Deleting("delete project", p))
  /\ UNCHANGED <<project, now, view, born, acked, exposed, late>>

(* Every canvas of the project, those in the trash too.  As any update of  *)
(* the table, it sets updated_at.                                          *)
ReassignProject(s) ==
  LET p == req[s].id IN
  /\ req[s].at = "reassign"
  /\ canvas' = [k \in Canvases |->
       IF canvas[k].project = p
       THEN Row(Default, canvas[k].graph, now, canvas[k].deleted)
       ELSE canvas[k]]
  /\ Moves(s, Deleting("delete project", p))
  /\ UNCHANGED <<project, now, view, born, acked, exposed, late>>

DeleteProject(s) ==
  /\ req[s].at = "delete project"
  /\ project' = project \ {req[s].id}
  /\ Moves(s, Idle)
  /\ UNCHANGED <<canvas, now, view, born, acked, exposed, late>>
-----------------------------------------------------------------------------
(* CanvasGet: the editor shows the canvas. *)
CanvasGet(s, k) ==
  /\ req[s] = Idle
  /\ Live(k)
  /\ view' = [view EXCEPT ![s] =
       [id |-> k, graph |-> canvas[k].graph, base |-> canvas[k].updated]]
  /\ UNCHANGED <<canvas, project, now, req, born, acked, exposed, late>>

(* Fault seeded for the checks: the conflict check has the operands the    *)
(* wrong way round.                                                        *)
CanvasSaveSwapped(s, e, checked) ==
  LET k == view[s].id
      row == canvas[k]
  IN
  /\ k # None /\ Live(k)
  /\ Fresh(e)
  /\ checked => view[s].base <= row.updated
  /\ Begin(s, Updating(k, Row(row.project, view[s].graph \cup {e}, row.updated, 0), row, e))
  /\ exposed' = IF ~checked /\ view[s].base < row.updated THEN exposed \cup {k} ELSE exposed
  /\ UNCHANGED <<canvas, project, now, view, born, acked, late>>

(* CanvasSave: Get, and the check for a conflict if the request has a      *)
(* BaseUpdatedAt; then the drawing of the editor replaces the row's.       *)
CanvasSave(s, e, checked) ==
  LET k == view[s].id
      row == canvas[k]
  IN
  /\ k # None /\ Live(k)
  /\ Fresh(e)
  /\ checked => view[s].base >= row.updated
  /\ Begin(s, Updating(k, Row(row.project, view[s].graph \cup {e}, row.updated, 0), row, e))
  /\ exposed' = IF ~checked /\ view[s].base < row.updated THEN exposed \cup {k} ELSE exposed
  /\ UNCHANGED <<canvas, project, now, view, born, acked, late>>

(* CanvasWorkflowImport: Get, and the fragment merged into the drawing. *)
CanvasWorkflowImport(s, k, e) ==
  LET row == canvas[k] IN
  /\ Live(k)
  /\ Fresh(e)
  /\ Begin(s, Updating(k, Row(row.project, row.graph \cup {e}, row.updated, 0), row, e))
  /\ UNCHANGED <<canvas, project, now, view, born, acked, exposed, late>>

(* CanvasUpdateMeta, which may move the canvas to project p, and           *)
(* CanvasTouch, which changes nothing: Get, and the whole row is to be     *)
(* written back.                                                           *)
CanvasUpdateMeta(s, k, p) ==
  LET row == canvas[k] IN
  /\ Live(k)
  /\ p \in born
  /\ Begin(s, Updating(k, Row(p, row.graph, row.updated, 0), row, None))
  /\ UNCHANGED <<canvas, project, now, view, born, acked, exposed, late>>

(* Fault seeded for the checks: an empty row is written back. *)
CanvasTouchBlank(s, k) ==
  /\ Live(k)
  /\ Begin(s, Updating(k, NoCanvas, canvas[k], None))
  /\ UNCHANGED <<canvas, project, now, view, born, acked, exposed, late>>

CanvasTouch(s, k) ==
  /\ Live(k)
  /\ Begin(s, Updating(k, canvas[k], canvas[k], None))
  /\ UNCHANGED <<canvas, project, now, view, born, acked, exposed, late>>

(* Fault seeded for the checks: the row is inserted if it is not there. *)
UpdateOrInsert(s) ==
  LET r == req[s] k == r.id IN
  /\ r.at = "update"
  /\ canvas' = [canvas EXCEPT ![k] = Row(r.row.project, r.row.graph, now, @.deleted)]
  /\ WriteFor(r.row.project)
  /\ Moves(s, Idle)
  /\ UNCHANGED <<project, now, view, born, acked, exposed>>

(* Update: every column but deleted_at of the row with that id, in the     *)
(* trash or not; the request fails if there is none.  The answer has the   *)
(* drawing written and the UpdatedAt that was read.                        *)
Update(s) ==
  LET r == req[s] k == r.id IN
  /\ r.at = "update"
  /\ \/ /\ canvas[k] # NoCanvas
        /\ canvas' = [canvas EXCEPT ![k] = Row(r.row.project, r.row.graph, now, @.deleted)]
        /\ WriteFor(r.row.project)
        /\ exposed' = IF canvas[k] # r.read \/ canvas[k].updated = now
                      THEN exposed \cup {k} ELSE exposed
        /\ acked' = [acked EXCEPT ![k] = @ \cup ({r.edit} \ {None})]
        /\ view' = IF r.edit = None THEN view ELSE
             [view EXCEPT ![s] = [id |-> k, graph |-> r.row.graph, base |-> r.read.updated]]
     \/ /\ canvas[k] = NoCanvas
        /\ UNCHANGED <<canvas, late, exposed, acked, view>>
  /\ Moves(s, Idle)
  /\ UNCHANGED <<project, now, born>>

CanvasSoftDelete(k) ==
  /\ Live(k)
  /\ canvas' = [canvas EXCEPT ![k] = Row(@.project, @.graph, now, now)]
  /\ UNCHANGED <<project, now, view, req, born, acked, exposed, late>>

CanvasRestore(k) ==
  /\ canvas[k].deleted > 0
  /\ canvas' = [canvas EXCEPT ![k] = Row(@.project, @.graph, now, 0)]
  /\ UNCHANGED <<project, now, view, req, born, acked, exposed, late>>

(* CanvasPurge removes the row, in the trash or not. *)
CanvasPurge(k) ==
  /\ canvas[k] # NoCanvas
  /\ canvas' = [canvas EXCEPT ![k] = NoCanvas]
  /\ acked' = [acked EXCEPT ![k] = {}]
  /\ exposed' = exposed \ {k}
  /\ UNCHANGED <<project, now, view, req, born, late>>

(* CanvasList begins with CleanupExpiredTrash. *)
CanvasList ==
  LET expired == {k \in Canvases : canvas[k].deleted > 0 /\ canvas[k].deleted + Retention < now} IN
  /\ canvas' = [k \in Canvases |-> IF k \in expired THEN NoCanvas ELSE canvas[k]]
  /\ acked' = [k \in Canvases |-> IF k \in expired THEN {} ELSE acked[k]]
  /\ exposed' = exposed \ expired
  /\ UNCHANGED <<project, now, view, req, born, late>>

ProjectStep(s) ==
  \/ ProjectList(s) \/ ProjectCreate(s) \/ AddDefault(s)
  \/ \E p \in Projects : AddProject(s, p) \/ ProjectDelete(s, p)
  \/ ReassignProject(s) \/ DeleteProject(s)

CanvasStep(s) ==
  \/ \E p \in Projects : CanvasCreate(s, p)
  \/ \E p \in Projects, e \in Edits : CanvasImport(s, p, e)
  \/ \E k \in Canvases : AddCanvas(s, k) \/ CanvasGet(s, k) \/ CanvasTouch(s, k)
  \/ \E e \in Edits, checked \in BOOLEAN : CanvasSave(s, e, checked)
  \/ \E k \in Canvases, e \in Edits : CanvasWorkflowImport(s, k, e)
  \/ \E k \in Canvases, p \in Projects : CanvasUpdateMeta(s, k, p)
  \/ Update(s)

Next ==
  \/ \E s \in Sessions : ProjectStep(s) \/ CanvasStep(s) \/ CallFails(s)
  \/ \E k \in Canvases : CanvasSoftDelete(k) \/ CanvasRestore(k) \/ CanvasPurge(k)
  \/ CanvasList \/ Tick

Spec == Init /\ [][Next]_vars
-----------------------------------------------------------------------------
(* Rows, copies of rows, editors and clocks keep their types. *)
TypeOK ==
  /\ canvas \in [Canvases -> CanvasRow \cup {NoCanvas}]
  /\ project \subseteq Projects
  /\ now \in 1..MaxTime
  /\ view \in [Sessions -> [id : Canvases \cup {None}, graph : SUBSET Edits, base : 0..MaxTime]]
  /\ req \in [Sessions -> Requests]
  /\ born \subseteq Canvases \cup Projects
  /\ acked \in [Canvases -> SUBSET Edits]
  /\ exposed \subseteq Canvases
  /\ late \subseteq Projects

(* The conflict check of CanvasSave is complete but for three gaps: an     *)
(* edit whose save was answered with success is in the drawing, whatever   *)
(* other sessions save, import, rename, move, delete and restore, unless   *)
(* somebody saved without a BaseUpdatedAt over a newer row, wrote back a   *)
(* row that had changed since it was read, or wrote twice within one       *)
(* millisecond.                                                            *)
NoSilentLoss ==
  \A k \in Canvases \ exposed : canvas[k] # NoCanvas => acked[k] \subseteq canvas[k].graph

(* ProjectDelete leaves no canvas in the project, not even in the trash    *)
(* from which it could be restored, whichever call of it failed, unless    *)
(* one was put there meanwhile or later.                                   *)
DeletedProjectIsEmpty ==
  \A p \in (born \cap Projects) \ (project \cup late) : \A k \in Canvases : canvas[k].project # p

(* A purged canvas never comes back, although requests hold copies of it. *)
PurgedIsGone ==
  \A k \in Canvases : k \in born /\ canvas[k] = NoCanvas => canvas'[k] = NoCanvas

(* No request is about to write to canvas k. *)
Uncopied(k) == \A s \in Sessions : ~(req[s].at = "update" /\ req[s].id = k)

(* Once the requests that had read a canvas before it went to the trash    *)
(* are over, its drawing stays as it is until it is restored or removed:   *)
(* Update does not look at deleted_at, only the Gets before it do.         *)
TrashIsFrozen ==
  \A k \in Canvases : canvas[k].deleted > 0 /\ Uncopied(k) =>
    canvas'[k].deleted = 0 \/ (canvas'[k].graph = canvas[k].graph /\ Uncopied(k)')

(* What Delete and Purge did to a canvas lasts, although Update of         *)
(* store/postgresql/canvas.go matches the id alone.                        *)
TrashKept == [][PurgedIsGone /\ TrashIsFrozen]_vars
=============================================================================
