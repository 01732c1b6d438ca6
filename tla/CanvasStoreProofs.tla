-------------------------- MODULE CanvasStoreProofs --------------------------
(* Theorems about CanvasStore, for any number of canvases, projects,       *)
(* sessions and edits, and any bound on the clock.                         *)
EXTENDS CanvasStore, TLAPS

(* What a request in each of its stages carries.                           *)
LEMMA RequestFields ==
  ASSUME NEW r \in Requests
  PROVE  /\ r.at = "update" =>
              /\ r.id \in Canvases /\ r.row \in CanvasRow /\ r.read \in CanvasRow
              /\ r.edit \in Edits \cup {None}
         /\ r.at = "add canvas" => r.row \in CanvasRow
         /\ r.at \in {"reassign", "delete project"} => r.id \in Projects
         /\ r.at = "add default" =>
              \/ r.next = "add canvas" /\ r.row \in CanvasRow
              \/ r.next \in {"add project", "idle"} /\ r.row = NoCanvas
  BY DEF Requests, Stage

(* The requests that the handlers make.                                    *)
LEMMA RequestsMade ==
  /\ Idle \in Requests
  /\ \A row \in CanvasRow :
       Adding("add canvas", "idle", row) \in Requests /\ Adding("add default", "add canvas", row) \in Requests
  /\ Adding("add project", "idle", NoCanvas) \in Requests
  /\ \A next \in {"add project", "idle"} : Adding("add default", next, NoCanvas) \in Requests
  /\ \A p \in Projects, at \in {"reassign", "delete project"} : Deleting(at, p) \in Requests
  /\ \A k \in Canvases, row, read \in CanvasRow, e \in Edits \cup {None} :
       Updating(k, row, read, e) \in Requests
  BY DEF Idle, Adding, Deleting, Updating, Request, Requests, Stage

(* Rows, and the row that stands for none.                                 *)
LEMMA Rows ==
  /\ \A p \in Projects, g \in SUBSET Edits, u, d \in 0..MaxTime : Row(p, g, u, d) \in CanvasRow
  /\ \A r \in CanvasRow :
       /\ r.project \in Projects /\ r.graph \in SUBSET Edits
       /\ r.updated \in 0..MaxTime /\ r.deleted \in 0..MaxTime
       /\ r # NoCanvas
  /\ NoCanvas.project = None /\ NoCanvas.deleted = 0 /\ NoCanvas.graph = {}
  BY CanvasAssumption DEF Row, NoCanvas, CanvasRow

(* What a row is made of.                                                  *)
LEMMA RowFields ==
  ASSUME NEW p, NEW g, NEW u, NEW d
  PROVE  /\ Row(p, g, u, d).project = p /\ Row(p, g, u, d).graph = g
         /\ Row(p, g, u, d).updated = u /\ Row(p, g, u, d).deleted = d
  BY DEF Row
-----------------------------------------------------------------------------
(* What TypeOK says of one canvas, one editor and one request.             *)
LEMMA Typed ==
  ASSUME TypeOK
  PROVE  /\ \A k \in Canvases : canvas[k] \in CanvasRow \cup {NoCanvas}
         /\ \A s \in Sessions :
              /\ view[s].id \in Canvases \cup {None}
              /\ view[s].graph \in SUBSET Edits /\ view[s].base \in 0..MaxTime
              /\ req[s] \in Requests
         /\ now \in 0..MaxTime /\ 0 \in 0..MaxTime
  BY CanvasAssumption DEF TypeOK

(* A step that only moves a request on keeps the types.                    *)
LEMMA TypeMoves ==
  ASSUME TypeOK, NEW s \in Sessions, NEW r \in Requests, Moves(s, r),
         UNCHANGED <<canvas, project, now, view, born, acked, exposed, late>>
  PROVE  TypeOK'
  BY DEF TypeOK, Moves

(* ensureDefaultProject keeps the types, whatever it was called for.       *)
LEMMA TypeEnsure ==
  ASSUME TypeOK, NEW s \in Sessions, NEW next, NEW row, Ensure(s, next, row),
         \/ next = "add canvas" /\ row \in CanvasRow
         \/ next \in {"add project", "idle"} /\ row = NoCanvas /\ (next = "idle" => Default \notin project)
  PROVE  TypeOK'
  <1>1. Adding("add default", next, row) \in Requests
    BY RequestsMade
  <1>2. Default \in project => Adding(next, "idle", row) \in Requests
    BY RequestsMade
  <1>3. PICK r \in Requests : Moves(s, r)
    BY <1>1, <1>2 DEF Ensure, Begin, Moves
  <1> QED
    BY <1>3, TypeMoves DEF Ensure

(* The steps of project requests keep the types.                           *)
LEMMA TypeProjectStep ==
  ASSUME TypeOK, NEW s \in Sessions, ProjectStep(s)
  PROVE  TypeOK'
  <1>1. CASE ProjectList(s)
    BY <1>1, TypeEnsure DEF ProjectList
  <1>2. CASE ProjectCreate(s)
    BY <1>2, TypeEnsure DEF ProjectCreate
  <1>3. CASE AddDefault(s)
    <2>1. req[s] \in Requests
      BY Typed
    <2>2. PICK r \in Requests : Moves(s, r)
      BY <1>3, <2>1, RequestFields, RequestsMade DEF AddDefault, Moves
    <2> QED
      BY <1>3, <2>2, CanvasAssumption DEF AddDefault, Moves, TypeOK
  <1>4. ASSUME NEW p \in Projects, AddProject(s, p) PROVE TypeOK'
    BY <1>4, RequestsMade DEF AddProject, Moves, TypeOK
  <1>5. ASSUME NEW p \in Projects, ProjectDelete(s, p) PROVE TypeOK'
    BY <1>5, RequestsMade, TypeMoves DEF ProjectDelete, Begin, Moves
  <1>6. CASE ReassignProject(s)
    <2>1. req[s].id \in Projects
      BY <1>6, Typed, RequestFields DEF ReassignProject
    <2>2. canvas' \in [Canvases -> CanvasRow \cup {NoCanvas}]
      <3>1. ASSUME NEW k \in Canvases, canvas[k].project = req[s].id
            PROVE  Row(Default, canvas[k].graph, now, canvas[k].deleted) \in CanvasRow
        BY <2>1, <3>1, Typed, Rows, CanvasAssumption
      <3> QED
        BY <1>6, <3>1, Typed DEF ReassignProject
    <2> QED
      BY <1>6, <2>1, <2>2, RequestsMade DEF ReassignProject, Moves, TypeOK
  <1>7. CASE DeleteProject(s)
    BY <1>7, RequestsMade DEF DeleteProject, Moves, TypeOK
  <1> QED
    BY <1>1, <1>2, <1>3, <1>4, <1>5, <1>6, <1>7 DEF ProjectStep

(* The requests that read a canvas and write it back keep the types.       *)
LEMMA TypeUpdating ==
  ASSUME TypeOK, NEW s \in Sessions, NEW k \in Canvases, Live(k),
         NEW p \in Projects, NEW g \in SUBSET Edits, NEW e \in Edits \cup {None}
  PROVE  /\ Row(p, g, canvas[k].updated, 0) \in CanvasRow
         /\ canvas[k] \in CanvasRow
         /\ Updating(k, Row(p, g, canvas[k].updated, 0), canvas[k], e) \in Requests
         /\ Updating(k, canvas[k], canvas[k], e) \in Requests
  BY Typed, Rows, RequestsMade DEF Live

(* The steps of canvas requests keep the types.                            *)
LEMMA TypeCanvasStep ==
  ASSUME TypeOK, NEW s \in Sessions, CanvasStep(s)
  PROVE  TypeOK'
  <1>1. ASSUME NEW p \in Projects, CanvasCreate(s, p) PROVE TypeOK'
    BY <1>1, TypeEnsure, Rows, Typed DEF CanvasCreate
  <1>2. ASSUME NEW p \in Projects, NEW e \in Edits, CanvasImport(s, p, e) PROVE TypeOK'
    BY <1>2, TypeEnsure, Rows, Typed DEF CanvasImport
  <1>3. ASSUME NEW k \in Canvases, AddCanvas(s, k) PROVE TypeOK'
    <2>1. req[s].row \in CanvasRow
      BY <1>3, Typed, RequestFields DEF AddCanvas
    <2>2. Row(req[s].row.project, req[s].row.graph, now, 0) \in CanvasRow
      BY <2>1, Rows, Typed
    <2> QED
      BY <1>3, <2>1, <2>2, Rows, RequestsMade DEF AddCanvas, WriteFor, Moves, TypeOK
  <1>4. ASSUME NEW k \in Canvases, CanvasGet(s, k) PROVE TypeOK'
    BY <1>4, Typed, Rows DEF CanvasGet, Live, TypeOK
  <1>5. ASSUME NEW k \in Canvases, CanvasTouch(s, k) PROVE TypeOK'
    BY <1>5, TypeUpdating, TypeMoves, CanvasAssumption DEF CanvasTouch, Begin, Moves
  <1>6. ASSUME NEW e \in Edits, NEW checked \in BOOLEAN, CanvasSave(s, e, checked) PROVE TypeOK'
    <2>1. view[s].id \in Canvases /\ Live(view[s].id)
      BY <1>6, Typed DEF CanvasSave
    <2>2. canvas[view[s].id].project \in Projects /\ view[s].graph \cup {e} \in SUBSET Edits
      BY <2>1, Typed, Rows DEF Live
    <2>3. PICK r \in Requests : Moves(s, r)
      BY <1>6, <2>1, <2>2, TypeUpdating DEF CanvasSave, Begin, Moves
    <2> QED
      BY <1>6, <2>1, <2>3 DEF CanvasSave, Moves, TypeOK
  <1>7. ASSUME NEW k \in Canvases, NEW e \in Edits, CanvasWorkflowImport(s, k, e) PROVE TypeOK'
    <2>1. canvas[k].project \in Projects /\ canvas[k].graph \cup {e} \in SUBSET Edits
      BY <1>7, Typed, Rows DEF CanvasWorkflowImport, Live
    <2> QED
      BY <1>7, <2>1, TypeUpdating, TypeMoves DEF CanvasWorkflowImport, Begin, Moves
  <1>8. ASSUME NEW k \in Canvases, NEW p \in Projects, CanvasUpdateMeta(s, k, p) PROVE TypeOK'
    <2>1. canvas[k].graph \in SUBSET Edits
      BY <1>8, Typed, Rows DEF CanvasUpdateMeta, Live
    <2> QED
      BY <1>8, <2>1, TypeUpdating, TypeMoves DEF CanvasUpdateMeta, Begin, Moves
  <1>9. CASE Update(s)
    <2>1. /\ req[s].id \in Canvases /\ req[s].row \in CanvasRow /\ req[s].read \in CanvasRow
          /\ req[s].edit \in Edits \cup {None}
      BY <1>9, Typed, RequestFields DEF Update
    <2>2. Row(req[s].row.project, req[s].row.graph, now, canvas[req[s].id].deleted) \in CanvasRow
      BY <2>1, Rows, Typed
    <2>3. req' \in [Sessions -> Requests]
      BY <1>9, RequestsMade DEF Update, Moves, TypeOK
    <2>4. CASE canvas[req[s].id] # NoCanvas
      <3>1. canvas' \in [Canvases -> CanvasRow \cup {NoCanvas}]
        BY <1>9, <2>1, <2>2, <2>4 DEF Update, TypeOK
      <3>2. late' \subseteq Projects /\ exposed' \subseteq Canvases
        BY <1>9, <2>1, <2>4, Rows DEF Update, WriteFor, TypeOK
      <3>3. acked' \in [Canvases -> SUBSET Edits]
        BY <1>9, <2>1, <2>4 DEF Update, TypeOK
      <3>4. view' \in [Sessions -> [id : Canvases \cup {None}, graph : SUBSET Edits, base : 0..MaxTime]]
        BY <1>9, <2>1, <2>4, Rows DEF Update, TypeOK
      <3> QED
        BY <1>9, <2>3, <3>1, <3>2, <3>3, <3>4 DEF Update, TypeOK
    <2>5. CASE canvas[req[s].id] = NoCanvas
      BY <1>9, <2>3, <2>5 DEF Update, TypeOK
    <2> QED
      BY <2>4, <2>5
  <1> QED
    BY <1>1, <1>2, <1>3, <1>4, <1>5, <1>6, <1>7, <1>8, <1>9 DEF CanvasStep

(* Every step keeps the types.                                             *)
LEMMA TypeStep ==
  ASSUME TypeOK, [Next]_vars
  PROVE  TypeOK'
  <1>1. ASSUME NEW s \in Sessions, CallFails(s) PROVE TypeOK'
    BY <1>1, RequestsMade, TypeMoves DEF CallFails
  <1>2. ASSUME NEW k \in Canvases, CanvasSoftDelete(k) \/ CanvasRestore(k) \/ CanvasPurge(k)
        PROVE  TypeOK'
    <2>1. canvas[k] # NoCanvas
      BY <1>2, Rows DEF CanvasSoftDelete, CanvasRestore, CanvasPurge, Live
    <2>2. /\ Row(canvas[k].project, canvas[k].graph, now, now) \in CanvasRow
          /\ Row(canvas[k].project, canvas[k].graph, now, 0) \in CanvasRow
      BY <2>1, Typed, Rows
    <2> QED
      BY <1>2, <2>2 DEF CanvasSoftDelete, CanvasRestore, CanvasPurge, TypeOK
  <1>3. CASE CanvasList
    BY <1>3 DEF CanvasList, TypeOK
  <1>4. CASE Tick
    BY <1>4, CanvasAssumption DEF Tick, TypeOK
  <1>5. CASE UNCHANGED vars
    BY <1>5 DEF vars, TypeOK
  <1> QED
    BY <1>1, <1>2, <1>3, <1>4, <1>5, TypeProjectStep, TypeCanvasStep DEF Next

(* Rows, copies of rows, editors and clocks keep their types.              *)
THEOREM TypeCorrect == Spec => []TypeOK
  <1>1. Init => TypeOK
    <2> SUFFICES ASSUME Init PROVE TypeOK
      OBVIOUS
    <2>1. Idle \in Requests
      BY RequestsMade
    <2>2. now \in 1..MaxTime /\ 0 \in 0..MaxTime
      BY CanvasAssumption DEF Init
    <2> QED
      BY <2>1, <2>2 DEF Init, TypeOK
  <1> QED
    BY <1>1, TypeStep, PTL DEF Spec
-----------------------------------------------------------------------------
(* Session s has read canvas k and is about to write to it.                *)
Writing(s, k) == req[s].at = "update" /\ req[s].id = k

(* Only ids that were handed out are in the table, in editors and in       *)
(* requests, no row is from the future, and a save writes its own edit.    *)
Known ==
  /\ \A k \in Canvases : canvas[k] # NoCanvas => k \in born /\ canvas[k].updated <= now
  /\ \A s \in Sessions, k \in Canvases : view[s].id = k \/ Writing(s, k) => k \in born
  /\ \A s \in Sessions : req[s].at = "update" => req[s].edit = None \/ req[s].edit \in req[s].row.graph

(* No editor and no request knows a version newer than the table's.        *)
Older ==
  \A s \in Sessions, k \in Canvases : canvas[k] # NoCanvas =>
    /\ view[s].id = k => view[s].base <= canvas[k].updated
    /\ Writing(s, k) => req[s].read.updated <= canvas[k].updated

(* Why the conflict check works: an editor or a request whose version is   *)
(* still the table's holds every acknowledged edit.                        *)
CurrentIsComplete ==
  \A s \in Sessions, k \in Canvases \ exposed : canvas[k] # NoCanvas =>
    /\ view[s].id = k /\ view[s].base >= canvas[k].updated => acked[k] \subseteq view[s].graph
    /\ Writing(s, k) /\ req[s].read.updated >= canvas[k].updated => acked[k] \subseteq req[s].row.graph

LossInv == Known /\ Older /\ CurrentIsComplete /\ NoSilentLoss

(* Fields of the requests that the handlers make.                          *)
LEMMA MadeFields ==
  /\ Idle.at = "idle"
  /\ \A at, next, row : Adding(at, next, row).at = at
  /\ \A at, p : Deleting(at, p).at = at /\ Deleting(at, p).id = p
  /\ \A k, row, read, e : LET r == Updating(k, row, read, e) IN
       r.at = "update" /\ r.id = k /\ r.row = row /\ r.read = read /\ r.edit = e
  BY DEF Idle, Adding, Deleting, Updating, Request

(* A row's version is a number.                                            *)
LEMMA RowVersion ==
  \A r \in CanvasRow \cup {NoCanvas} : r.updated \in Nat
  BY Rows, RowFields, CanvasAssumption DEF NoCanvas

(* The versions that the conflict check compares are numbers.              *)
LEMMA Versions ==
  ASSUME TypeOK
  PROVE  /\ now \in Nat
         /\ \A k \in Canvases : canvas[k].updated \in Nat
         /\ \A s \in Sessions : view[s].base \in Nat
         /\ \A s \in Sessions : req[s].at = "update" => req[s].read.updated \in Nat
  <1>2. now \in Nat /\ \A s \in Sessions : view[s].base \in Nat
    BY CanvasAssumption DEF TypeOK
  <1>3. \A s \in Sessions : req[s].at = "update" => req[s].read \in CanvasRow
    BY Typed, RequestFields
  <1> QED
    BY <1>2, <1>3, RowVersion, Typed

(* A step that writes no drawing and starts no write: rows stay, are       *)
(* stamped or go.                                                          *)
LEMMA QuietStep ==
  ASSUME TypeOK, TypeOK', LossInv, view' = view, born \subseteq born', now <= now',
         \A s \in Sessions : req'[s] = req[s] \/ req'[s].at # "update",
         \A k \in Canvases : \/ canvas'[k] = NoCanvas
                             \/ /\ canvas[k] # NoCanvas
                                /\ canvas'[k].graph = canvas[k].graph
                                /\ canvas'[k].updated \in {canvas[k].updated, now}
                                /\ acked'[k] = acked[k]
                                /\ k \in exposed' <=> k \in exposed
  PROVE  LossInv'
  <1>0. /\ now \in Nat /\ now' \in Nat
        /\ \A k \in Canvases : canvas[k].updated \in Nat /\ canvas'[k].updated \in Nat
        /\ \A s \in Sessions : view[s].base \in Nat
        /\ \A s \in Sessions : req[s].at = "update" => req[s].read.updated \in Nat
    <2>1. now' \in Nat /\ \A k \in Canvases : canvas'[k].updated \in Nat
      BY RowVersion, CanvasAssumption DEF TypeOK
    <2> QED
      BY <2>1, Versions
  <1>1. \A k \in Canvases : canvas'[k] # NoCanvas =>
          /\ canvas[k] # NoCanvas /\ canvas'[k].graph = canvas[k].graph
          /\ canvas[k].updated <= canvas'[k].updated /\ canvas'[k].updated <= now'
          /\ acked'[k] = acked[k] /\ (k \in exposed' <=> k \in exposed)
    BY <1>0 DEF LossInv, Known
  <1>2. \A s \in Sessions, k \in Canvases : Writing(s, k)' => Writing(s, k) /\ req'[s] = req[s]
    BY DEF Writing
  <1>3. Known'
    BY <1>1, <1>2 DEF LossInv, Known, Writing
  <1>4. Older'
    <2> SUFFICES ASSUME NEW s \in Sessions, NEW k \in Canvases, canvas'[k] # NoCanvas
                 PROVE  /\ view'[s].id = k => view'[s].base <= canvas'[k].updated
                        /\ Writing(s, k)' => req'[s].read.updated <= canvas'[k].updated
      BY DEF Older
    <2>1. canvas[k].updated \in Nat /\ view[s].base \in Nat /\ canvas'[k].updated \in Nat
      BY <1>0
    <2>2. Writing(s, k) => req[s].read.updated \in Nat
      BY <1>0 DEF Writing
    <2> QED
      BY <1>1, <1>2, <2>1, <2>2 DEF LossInv, Older
  <1>5. CurrentIsComplete'
    <2> SUFFICES ASSUME NEW s \in Sessions, NEW k \in Canvases \ exposed', canvas'[k] # NoCanvas
                 PROVE  /\ view'[s].id = k /\ view'[s].base >= canvas'[k].updated => acked'[k] \subseteq view'[s].graph
                        /\ Writing(s, k)' /\ req'[s].read.updated >= canvas'[k].updated => acked'[k] \subseteq req'[s].row.graph
      BY DEF CurrentIsComplete
    <2>1. canvas[k].updated \in Nat /\ view[s].base \in Nat /\ canvas'[k].updated \in Nat
      BY <1>0
    <2>2. Writing(s, k) => req[s].read.updated \in Nat
      BY <1>0 DEF Writing
    <2> QED
      BY <1>1, <1>2, <2>1, <2>2 DEF LossInv, CurrentIsComplete
  <1>6. NoSilentLoss'
    BY <1>1 DEF LossInv, NoSilentLoss
  <1> QED
    BY <1>3, <1>4, <1>5, <1>6 DEF LossInv

(* A request has read canvas k and is to write it back: what it is going   *)
(* to write holds every acknowledged edit.                                 *)
LEMMA ReadToWrite ==
  ASSUME TypeOK, LossInv, NEW s \in Sessions, NEW k \in Canvases, NEW row, NEW e,
         Live(k), Moves(s, Updating(k, row, canvas[k], e)),
         e = None \/ e \in row.graph,
         k \notin exposed' => acked[k] \subseteq row.graph,
         exposed \subseteq exposed', UNCHANGED <<canvas, now, view, born, acked>>
  PROVE  LossInv'
  <1>1. req'[s] = Updating(k, row, canvas[k], e) /\ \A t \in Sessions \ {s} : req'[t] = req[t]
    BY DEF Moves, TypeOK
  <1>2. /\ req'[s].at = "update" /\ req'[s].id = k /\ req'[s].row = row
        /\ req'[s].read = canvas[k] /\ req'[s].edit = e
    BY <1>1, MadeFields
  <1>3. canvas[k] # NoCanvas /\ k \in born /\ canvas[k].updated \in Nat
    BY Versions DEF Live, LossInv, Known
  <1>4. Known'
    BY <1>1, <1>2, <1>3 DEF LossInv, Known, Writing
  <1>5. Older'
    BY <1>1, <1>2, <1>3 DEF LossInv, Older, Writing
  <1>6. CurrentIsComplete'
    BY <1>1, <1>2, <1>3 DEF LossInv, CurrentIsComplete, Writing
  <1>7. NoSilentLoss'
    BY DEF LossInv, NoSilentLoss
  <1> QED
    BY <1>4, <1>5, <1>6, <1>7 DEF LossInv

(* A new canvas: no editor and no request names it yet.                    *)
LEMMA LossAddCanvas ==
  ASSUME TypeOK, LossInv, NEW s \in Sessions, NEW k \in Canvases, AddCanvas(s, k)
  PROVE  LossInv'
  <1>1. /\ canvas'[k] = Row(req[s].row.project, req[s].row.graph, now, 0)
        /\ acked'[k] = req[s].row.graph
        /\ \A j \in Canvases \ {k} : canvas'[j] = canvas[j] /\ acked'[j] = acked[j]
        /\ born' = born \cup {k} /\ k \notin born
        /\ UNCHANGED <<now, view, exposed>>
    BY DEF AddCanvas, TypeOK
  <1>2. canvas'[k].graph = req[s].row.graph /\ canvas'[k].updated = now /\ now \in Nat
    BY <1>1, RowFields, Versions
  <1>3. \A t \in Sessions, j \in Canvases : Writing(t, j)' => Writing(t, j) /\ req'[t] = req[t]
    BY MadeFields DEF AddCanvas, Moves, TypeOK, Writing
  <1>4. \A t \in Sessions : req'[t] = req[t] \/ req'[t].at # "update"
    BY MadeFields DEF AddCanvas, Moves, TypeOK
  <1>5. \A t \in Sessions : view[t].id # k /\ ~Writing(t, k)
    BY <1>1 DEF LossInv, Known
  <1>6. Known'
    BY <1>1, <1>2, <1>3, <1>4 DEF LossInv, Known
  <1>7. Older'
    BY <1>1, <1>3, <1>5 DEF LossInv, Older
  <1>8. CurrentIsComplete'
    BY <1>1, <1>3, <1>5 DEF LossInv, CurrentIsComplete
  <1>9. NoSilentLoss'
    BY <1>1, <1>2 DEF LossInv, NoSilentLoss
  <1> QED
    BY <1>6, <1>7, <1>8, <1>9 DEF LossInv

(* An editor that has just loaded the canvas has all of it.                *)
LEMMA LossCanvasGet ==
  ASSUME TypeOK, LossInv, NEW s \in Sessions, NEW k \in Canvases, CanvasGet(s, k)
  PROVE  LossInv'
  <1>1. /\ view'[s].id = k /\ view'[s].graph = canvas[k].graph /\ view'[s].base = canvas[k].updated
        /\ \A t \in Sessions \ {s} : view'[t] = view[t]
        /\ UNCHANGED <<canvas, now, req, born, acked, exposed>>
    BY DEF CanvasGet, TypeOK
  <1>2. canvas[k] # NoCanvas /\ k \in born /\ canvas[k].updated \in Nat
    BY Versions DEF CanvasGet, Live, LossInv, Known
  <1>3. Known'
    BY <1>1, <1>2 DEF LossInv, Known, Writing
  <1>4. Older'
    BY <1>1, <1>2 DEF LossInv, Older, Writing
  <1>5. CurrentIsComplete'
    BY <1>1, <1>2 DEF LossInv, CurrentIsComplete, NoSilentLoss, Writing
  <1>6. NoSilentLoss'
    BY <1>1 DEF LossInv, NoSilentLoss
  <1> QED
    BY <1>3, <1>4, <1>5, <1>6 DEF LossInv

(* The write itself.  If the row is the one that was read and the clock    *)
(* has moved on since, the drawing written holds every acknowledged edit,  *)
(* and every other editor and request is out of date from now on.          *)
LEMMA LossUpdate ==
  ASSUME TypeOK, TypeOK', LossInv, NEW s \in Sessions, Update(s), canvas[req[s].id] # NoCanvas
  PROVE  LossInv'
  <1> DEFINE r == req[s]
             k == r.id
  <1>1. /\ k \in Canvases /\ r.row \in CanvasRow /\ r.read \in CanvasRow /\ Writing(s, k)
        /\ canvas[k] # NoCanvas
    BY Typed, RequestFields DEF Update, Writing
  <1>2. /\ canvas'[k].graph = r.row.graph /\ canvas'[k].updated = now
        /\ acked'[k] = acked[k] \cup ({r.edit} \ {None})
        /\ \A j \in Canvases \ {k} : canvas'[j] = canvas[j] /\ acked'[j] = acked[j]
        /\ UNCHANGED <<now, born>>
        /\ exposed' = IF canvas[k] # r.read \/ canvas[k].updated = now
                      THEN exposed \cup {k} ELSE exposed
    BY <1>1, RowFields DEF Update, TypeOK
  <1>3. /\ \A t \in Sessions, j \in Canvases : Writing(t, j)' => Writing(t, j) /\ req'[t] = req[t]
        /\ \A t \in Sessions : req'[t] = req[t] \/ req'[t].at # "update"
    BY MadeFields DEF Update, Moves, TypeOK, Writing
  <1>4. \A t \in Sessions : \/ view'[t] = view[t]
                            \/ view'[t] = [id |-> k, graph |-> r.row.graph, base |-> r.read.updated]
    BY <1>1 DEF Update, TypeOK
  <1>5. /\ now \in Nat /\ canvas[k].updated \in Nat /\ r.read.updated \in Nat
        /\ \A t \in Sessions : view[t].base \in Nat
        /\ \A t \in Sessions : req[t].at = "update" => req[t].read.updated \in Nat
    BY <1>1, Versions DEF Writing
  <1>6. /\ k \in born /\ canvas[k].updated <= now /\ r.read.updated <= canvas[k].updated
        /\ r.edit = None \/ r.edit \in r.row.graph
    BY <1>1 DEF LossInv, Known, Older, Writing
  <1>7. Known'
    BY <1>1, <1>2, <1>3, <1>4, <1>5, <1>6 DEF LossInv, Known
  <1>8. Older'
    BY <1>1, <1>2, <1>3, <1>4, <1>5, <1>6 DEF LossInv, Older, Writing
  <1>9. CurrentIsComplete'
    <2> SUFFICES ASSUME NEW t \in Sessions, NEW j \in Canvases \ exposed', canvas'[j] # NoCanvas
                 PROVE  /\ view'[t].id = j /\ view'[t].base >= canvas'[j].updated => acked'[j] \subseteq view'[t].graph
                        /\ Writing(t, j)' /\ req'[t].read.updated >= canvas'[j].updated => acked'[j] \subseteq req'[t].row.graph
      BY DEF CurrentIsComplete
    <2>1. CASE j # k
      BY <1>1, <1>2, <1>3, <1>4, <2>1 DEF LossInv, CurrentIsComplete
    <2>2. CASE j = k
      <3>1. canvas[k].updated < now
        BY <1>2, <1>5, <1>6, <2>2
      <3>2. view[t].id = k => view[t].base < now
        BY <1>1, <1>5, <3>1 DEF LossInv, Older
      <3>3. Writing(t, k) => req[t].read.updated < now
        BY <1>1, <1>5, <3>1 DEF LossInv, Older, Writing
      <3>4. view'[t].id = k => view'[t].base < now
        BY <1>4, <1>5, <1>6, <3>1, <3>2
      <3>5. view'[t].base \in Nat
        BY <1>4, <1>5
      <3> QED
        BY <1>2, <1>3, <1>5, <2>2, <3>3, <3>4, <3>5 DEF Writing
    <2> QED
      BY <2>1, <2>2
  <1>10. NoSilentLoss'
    <2>1. k \notin exposed' => acked[k] \subseteq r.row.graph
      BY <1>1, <1>2, <1>5 DEF LossInv, CurrentIsComplete, Writing
    <2> QED
      BY <1>1, <1>2, <1>6, <2>1 DEF LossInv, NoSilentLoss
  <1> QED
    BY <1>7, <1>8, <1>9, <1>10 DEF LossInv

(* A step that only moves on a request that is not to write a canvas.      *)
LEMMA LossMoves ==
  ASSUME TypeOK, TypeOK', LossInv, NEW s \in Sessions, NEW r, Moves(s, r), r.at # "update",
         born \subseteq born', UNCHANGED <<canvas, now, view, acked, exposed>>
  PROVE  LossInv'
  <1>1. \A t \in Sessions : req'[t] = req[t] \/ req'[t].at # "update"
    BY DEF Moves, TypeOK
  <1>2. now <= now'
    BY Versions
  <1>3. \A k \in Canvases : \/ canvas'[k] = NoCanvas
                            \/ /\ canvas[k] # NoCanvas
                               /\ canvas'[k].graph = canvas[k].graph
                               /\ canvas'[k].updated \in {canvas[k].updated, now}
                               /\ acked'[k] = acked[k]
                               /\ k \in exposed' <=> k \in exposed
    OBVIOUS
  <1> QED
    BY <1>1, <1>2, <1>3, QuietStep

(* ensureDefaultProject writes no canvas.                                  *)
LEMMA LossEnsure ==
  ASSUME TypeOK, TypeOK', LossInv, NEW s \in Sessions,
         NEW next \in {"add canvas", "add project", "idle"}, NEW row, Ensure(s, next, row)
  PROVE  LossInv'
  <1>1. PICK r : Moves(s, r) /\ r.at # "update"
    <2>1. Moves(s, Adding(next, "idle", row)) \/ Moves(s, Adding("add default", next, row))
      BY DEF Ensure, Begin, Moves
    <2>2. Adding(next, "idle", row).at = next /\ Adding("add default", next, row).at = "add default"
      BY DEF Adding, Request
    <2> QED
      BY <2>1, <2>2
  <1> QED
    BY <1>1, LossMoves DEF Ensure

(* The steps of project requests lose no edit.                             *)
LEMMA LossProjectStep ==
  ASSUME TypeOK, TypeOK', LossInv, NEW s \in Sessions, ProjectStep(s)
  PROVE  LossInv'
  <1>1. CASE ProjectList(s) \/ ProjectCreate(s)
    BY <1>1, LossEnsure DEF ProjectList, ProjectCreate
  <1>2. CASE AddDefault(s)
    <2>1. req[s].next # "update"
      BY <1>2, Typed, RequestFields DEF AddDefault
    <2>2. PICK r : Moves(s, r) /\ r.at # "update"
      <3>1. Moves(s, Idle) \/ Moves(s, Adding(req[s].next, "idle", req[s].row))
        BY <1>2 DEF AddDefault, Moves
      <3>2. Idle.at # "update" /\ Adding(req[s].next, "idle", req[s].row).at # "update"
        BY <2>1, MadeFields
      <3> QED
        BY <3>1, <3>2
    <2> QED
      BY <1>2, <2>2, LossMoves DEF AddDefault
  <1>3. ASSUME NEW p \in Projects, AddProject(s, p) PROVE LossInv'
    BY <1>3, LossMoves, MadeFields DEF AddProject
  <1>4. ASSUME NEW p \in Projects, ProjectDelete(s, p) PROVE LossInv'
    <2>1. Moves(s, Deleting("reassign", p)) /\ Deleting("reassign", p).at # "update"
      BY <1>4, MadeFields DEF ProjectDelete, Begin, Moves
    <2> QED
      BY <1>4, <2>1, LossMoves DEF ProjectDelete
  <1>5. CASE ReassignProject(s)
    <2>1. req[s].id \in Projects
      BY <1>5, Typed, RequestFields DEF ReassignProject
    <2>2. \A k \in Canvases : \/ canvas'[k] = NoCanvas
                              \/ /\ canvas[k] # NoCanvas
                                 /\ canvas'[k].graph = canvas[k].graph
                                 /\ canvas'[k].updated \in {canvas[k].updated, now}
                                 /\ acked'[k] = acked[k]
                                 /\ k \in exposed' <=> k \in exposed
      BY <1>5, <2>1, Rows, RowFields, CanvasAssumption DEF ReassignProject, Row
    <2>3. \A t \in Sessions : req'[t] = req[t] \/ req'[t].at # "update"
      <3>1. Moves(s, Deleting("delete project", req[s].id))
        BY <1>5 DEF ReassignProject
      <3>2. Deleting("delete project", req[s].id).at # "update"
        BY DEF Deleting, Request
      <3> QED
        BY <3>1, <3>2 DEF Moves, TypeOK
    <2>4. view' = view /\ born' = born /\ now <= now'
      <3>1. UNCHANGED <<view, born, now>>
        BY <1>5 DEF ReassignProject
      <3> QED
        BY <3>1, Versions
    <2> QED
      BY <2>2, <2>3, <2>4, QuietStep
  <1>6. CASE DeleteProject(s)
    BY <1>6, LossMoves, MadeFields DEF DeleteProject
  <1> QED
    BY <1>1, <1>2, <1>3, <1>4, <1>5, <1>6 DEF ProjectStep

(* The steps of canvas requests lose no edit.                              *)
LEMMA LossCanvasStep ==
  ASSUME TypeOK, TypeOK', LossInv, NEW s \in Sessions, CanvasStep(s)
  PROVE  LossInv'
  <1>1. ASSUME NEW p \in Projects, CanvasCreate(s, p) PROVE LossInv'
    BY <1>1, LossEnsure DEF CanvasCreate
  <1>2. ASSUME NEW p \in Projects, NEW e \in Edits, CanvasImport(s, p, e) PROVE LossInv'
    BY <1>2, LossEnsure DEF CanvasImport
  <1>3. ASSUME NEW k \in Canvases, CanvasTouch(s, k) PROVE LossInv'
    <2>1. k \notin exposed' => acked[k] \subseteq canvas[k].graph
      BY <1>3 DEF CanvasTouch, Live, LossInv, NoSilentLoss
    <2> QED
      BY <1>3, <2>1, ReadToWrite DEF CanvasTouch, Begin, Moves
  <1>4. ASSUME NEW e \in Edits, NEW checked \in BOOLEAN, CanvasSave(s, e, checked) PROVE LossInv'
    <2> DEFINE k == view[s].id
               row == Row(canvas[k].project, view[s].graph \cup {e}, canvas[k].updated, 0)
    <2>1. k \in Canvases /\ Live(k)
      BY <1>4, Typed DEF CanvasSave
    <2>2. row.graph = view[s].graph \cup {e}
      BY RowFields
    <2>3. k \notin exposed' => view[s].base >= canvas[k].updated /\ k \notin exposed
      BY <1>4, <2>1, Versions DEF CanvasSave
    <2>4. k \notin exposed' => acked[k] \subseteq row.graph
      BY <2>1, <2>2, <2>3 DEF LossInv, CurrentIsComplete, Live
    <2>5. exposed \subseteq exposed'
      BY <1>4 DEF CanvasSave
    <2> HIDE DEF row
    <2>6. Moves(s, Updating(k, row, canvas[k], e)) /\ UNCHANGED <<canvas, now, view, born, acked>>
      BY <1>4 DEF CanvasSave, Begin, Moves, row
    <2> QED
      BY <2>1, <2>2, <2>4, <2>5, <2>6, ReadToWrite
  <1>5. ASSUME NEW k \in Canvases, NEW e \in Edits, CanvasWorkflowImport(s, k, e) PROVE LossInv'
    <2> DEFINE row == Row(canvas[k].project, canvas[k].graph \cup {e}, canvas[k].updated, 0)
    <2>1. row.graph = canvas[k].graph \cup {e}
      BY RowFields
    <2>2. k \notin exposed' => acked[k] \subseteq row.graph
      BY <1>5, <2>1 DEF CanvasWorkflowImport, Live, LossInv, NoSilentLoss
    <2> HIDE DEF row
    <2>3. /\ Live(k) /\ Moves(s, Updating(k, row, canvas[k], e))
          /\ UNCHANGED <<canvas, now, view, born, acked, exposed>>
      BY <1>5 DEF CanvasWorkflowImport, Begin, Moves, row
    <2> QED
      BY <2>1, <2>2, <2>3, ReadToWrite
  <1>6. ASSUME NEW k \in Canvases, NEW p \in Projects, CanvasUpdateMeta(s, k, p) PROVE LossInv'
    <2> DEFINE row == Row(p, canvas[k].graph, canvas[k].updated, 0)
    <2>1. row.graph = canvas[k].graph
      BY RowFields
    <2>2. k \notin exposed' => acked[k] \subseteq row.graph
      BY <1>6, <2>1 DEF CanvasUpdateMeta, Live, LossInv, NoSilentLoss
    <2> HIDE DEF row
    <2>3. /\ Live(k) /\ Moves(s, Updating(k, row, canvas[k], None))
          /\ UNCHANGED <<canvas, now, view, born, acked, exposed>>
      BY <1>6 DEF CanvasUpdateMeta, Begin, Moves, row
    <2> QED
      BY <2>1, <2>2, <2>3, ReadToWrite
  <1>7. CASE Update(s)
    <2>1. CASE canvas[req[s].id] = NoCanvas
      BY <1>7, <2>1, LossMoves, MadeFields DEF Update
    <2> QED
      BY <1>7, <2>1, LossUpdate
  <1> QED
    BY <1>1, <1>2, <1>3, <1>4, <1>5, <1>6, <1>7, LossAddCanvas, LossCanvasGet DEF CanvasStep

(* No step loses an edit.                                                  *)
LEMMA LossStep ==
  ASSUME TypeOK, TypeOK', LossInv, [Next]_vars
  PROVE  LossInv'
  <1>1. ASSUME NEW s \in Sessions, CallFails(s) PROVE LossInv'
    BY <1>1, LossMoves, MadeFields DEF CallFails
  <1> DEFINE Touched == \A k \in Canvases : \/ canvas'[k] = NoCanvas
                                            \/ /\ canvas[k] # NoCanvas
                                               /\ canvas'[k].graph = canvas[k].graph
                                               /\ canvas'[k].updated \in {canvas[k].updated, now}
                                               /\ acked'[k] = acked[k]
                                               /\ k \in exposed' <=> k \in exposed
  <1>2. ASSUME NEW k \in Canvases, CanvasSoftDelete(k) \/ CanvasRestore(k) \/ CanvasPurge(k)
        PROVE  LossInv'
    <2>1. Touched
      BY <1>2, Rows, RowFields DEF CanvasSoftDelete, CanvasRestore, CanvasPurge, Live, TypeOK
    <2>2. UNCHANGED <<view, born, now, req>> /\ now <= now
      BY <1>2, Versions DEF CanvasSoftDelete, CanvasRestore, CanvasPurge
    <2> QED
      BY <2>1, <2>2, QuietStep
  <1>3. CASE CanvasList
    <2>1. Touched
      BY <1>3 DEF CanvasList
    <2>2. UNCHANGED <<view, born, now, req>> /\ now <= now
      BY <1>3, Versions DEF CanvasList
    <2> QED
      BY <2>1, <2>2, QuietStep
  <1>4. CASE Tick
    BY <1>4, Versions, QuietStep DEF Tick
  <1>5. CASE UNCHANGED vars
    BY <1>5, Versions, QuietStep DEF vars
  <1> QED
    BY <1>1, <1>2, <1>3, <1>4, <1>5, LossProjectStep, LossCanvasStep DEF Next

(* The conflict check of CanvasSave is complete but for the three gaps     *)
(* that exposed records.                                                   *)
THEOREM NoEditLost == Spec => []NoSilentLoss
  <1>1. Init => LossInv
    BY MadeFields, CanvasAssumption DEF Init, LossInv, Known, Older, CurrentIsComplete, NoSilentLoss, Writing
  <1>2. LossInv => NoSilentLoss
    BY DEF LossInv
  <1> QED
    BY <1>1, <1>2, LossStep, TypeCorrect, PTL DEF Spec
-----------------------------------------------------------------------------
(* The default project is never deleted.                                   *)
DefaultStays ==
  /\ Default \in born => Default \in project
  /\ \A s \in Sessions : req[s].at \in {"reassign", "delete project"} => req[s].id # Default

(* A project is empty from the moment its canvases have been moved out,    *)
(* before its row is deleted.                                              *)
LeavingIsEmpty ==
  \A p \in Projects \ late : Leaving(p) => \A k \in Canvases : canvas[k].project # p

EmptyInv == DefaultStays /\ LeavingIsEmpty

Removing == {"reassign", "delete project"}

(* A step that is not part of a deletion and puts no canvas into a project *)
(* that is leaving, or says so.                                            *)
LEMMA EmptyQuiet ==
  ASSUME EmptyInv,
         \A s \in Sessions : req'[s] = req[s] \/ req'[s].at \notin Removing,
         \A p \in Projects : p \in born' \ project' => p \in born \ project,
         late \subseteq late',
         \A k \in Canvases, p \in Projects :
           canvas'[k].project = p => canvas[k].project = p \/ ~Leaving(p) \/ p \in late'
  PROVE  EmptyInv'
  <1>1. \A p \in Projects : Leaving(p)' => Leaving(p)
    BY DEF Leaving, Removing
  <1>2. DefaultStays'
    BY CanvasAssumption DEF EmptyInv, DefaultStays, Removing
  <1>3. LeavingIsEmpty'
    BY <1>1 DEF EmptyInv, LeavingIsEmpty
  <1> QED
    BY <1>2, <1>3 DEF EmptyInv

(* A step of another request leaves deletions as they are.                 *)
LEMMA OtherRequest ==
  ASSUME TypeOK, NEW s \in Sessions, NEW r, Moves(s, r), r.at \notin Removing
  PROVE  \A t \in Sessions : req'[t] = req[t] \/ req'[t].at \notin Removing
  BY DEF Moves, TypeOK

(* Which requests are no deletions.                                        *)
LEMMA NoRemoval ==
  /\ Idle.at \notin Removing
  /\ \A k, row, read, e : Updating(k, row, read, e).at \notin Removing
  BY DEF Idle, Updating, Request, Removing

(* ensureDefaultProject moves no canvas.                                   *)
LEMMA EmptyEnsure ==
  ASSUME TypeOK, EmptyInv, NEW s \in Sessions, NEW next \in {"add canvas", "add project", "idle"},
         NEW row, Ensure(s, next, row)
  PROVE  EmptyInv'
  <1>1. PICK r : Moves(s, r) /\ r.at \notin Removing
    <2>1. Moves(s, Adding(next, "idle", row)) \/ Moves(s, Adding("add default", next, row))
      BY DEF Ensure, Begin, Moves
    <2>2. Adding(next, "idle", row).at \notin Removing /\ Adding("add default", next, row).at \notin Removing
      BY DEF Adding, Request, Removing
    <2> QED
      BY <2>1, <2>2
  <1>2. \A t \in Sessions : req'[t] = req[t] \/ req'[t].at \notin Removing
    BY <1>1, OtherRequest
  <1> QED
    BY <1>2, EmptyQuiet DEF Ensure

(* The steps of project requests empty a project before it goes.           *)
LEMMA EmptyProjectStep ==
  ASSUME TypeOK, EmptyInv, NEW s \in Sessions, ProjectStep(s)
  PROVE  EmptyInv'
  <1>1. CASE ProjectList(s) \/ ProjectCreate(s)
    BY <1>1, EmptyEnsure DEF ProjectList, ProjectCreate
  <1>2. CASE AddDefault(s)
    <2>1. req[s].next \notin Removing
      BY <1>2, Typed, RequestFields DEF AddDefault, Removing
    <2>2. PICK r : Moves(s, r) /\ r.at \notin Removing
      <3>1. Moves(s, Idle) \/ Moves(s, Adding(req[s].next, "idle", req[s].row))
        BY <1>2 DEF AddDefault, Moves
      <3>2. Idle.at \notin Removing /\ Adding(req[s].next, "idle", req[s].row).at \notin Removing
        BY <2>1 DEF Idle, Adding, Request, Removing
      <3> QED
        BY <3>1, <3>2
    <2>3. \A t \in Sessions : req'[t] = req[t] \/ req'[t].at \notin Removing
      BY <2>2, OtherRequest
    <2> QED
      BY <1>2, <2>3, EmptyQuiet DEF AddDefault
  <1>3. ASSUME NEW p \in Projects, AddProject(s, p) PROVE EmptyInv'
    <2>1. \A t \in Sessions : req'[t] = req[t] \/ req'[t].at \notin Removing
      BY <1>3, NoRemoval, OtherRequest DEF AddProject
    <2> QED
      BY <1>3, <2>1, EmptyQuiet DEF AddProject
  <1>4. ASSUME NEW p \in Projects, ProjectDelete(s, p) PROVE EmptyInv'
    <2>1. /\ req'[s].at = "reassign" /\ req'[s].id = p /\ p # Default
          /\ \A t \in Sessions \ {s} : req'[t] = req[t]
          /\ UNCHANGED <<canvas, project, born, late>>
      BY <1>4 DEF ProjectDelete, Begin, Deleting, Request, TypeOK
    <2>2. DefaultStays'
      BY <2>1 DEF EmptyInv, DefaultStays
    <2>3. LeavingIsEmpty'
      BY <2>1 DEF EmptyInv, LeavingIsEmpty, Leaving
    <2> QED
      BY <2>2, <2>3 DEF EmptyInv
  <1>5. CASE ReassignProject(s)
    <2> DEFINE p == req[s].id
    <2>1. p \in Projects /\ p # Default
      BY <1>5, Typed, RequestFields DEF ReassignProject, EmptyInv, DefaultStays
    <2>2. Moves(s, Deleting("delete project", p)) /\ UNCHANGED <<project, born, late>>
      BY <1>5 DEF ReassignProject
    <2>3. /\ req'[s].at = "delete project" /\ req'[s].id = p
          /\ \A t \in Sessions \ {s} : req'[t] = req[t]
      BY <2>2 DEF Moves, Deleting, Request, TypeOK
    <2>4. \A k \in Canvases : canvas'[k].project = IF canvas[k].project = p THEN Default ELSE canvas[k].project
      BY <1>5 DEF ReassignProject, Row
    <2>5. DefaultStays'
      BY <2>1, <2>2, <2>3 DEF EmptyInv, DefaultStays
    <2>6. ~Leaving(Default)
      BY DEF EmptyInv, DefaultStays, Leaving
    <2>7. \A q \in Projects : Leaving(q)' => Leaving(q) \/ q = p
      BY <2>2, <2>3 DEF Leaving
    <2>8. LeavingIsEmpty'
      BY <2>1, <2>2, <2>4, <2>6, <2>7 DEF EmptyInv, LeavingIsEmpty
    <2> QED
      BY <2>5, <2>8 DEF EmptyInv
  <1>6. CASE DeleteProject(s)
    <2>1. /\ \A t \in Sessions : req'[t] = req[t] \/ req'[t].at \notin Removing
          /\ project' = project \ {req[s].id} /\ req[s].id # Default
          /\ UNCHANGED <<canvas, born, late>>
      BY <1>6, NoRemoval, OtherRequest DEF DeleteProject, EmptyInv, DefaultStays
    <2>2. \A q \in Projects : Leaving(q)' => Leaving(q)
      BY <1>6, <2>1 DEF DeleteProject, Leaving, Removing
    <2>3. DefaultStays'
      BY <2>1 DEF EmptyInv, DefaultStays, Removing
    <2>4. LeavingIsEmpty'
      BY <2>1, <2>2 DEF EmptyInv, LeavingIsEmpty
    <2> QED
      BY <2>3, <2>4 DEF EmptyInv
  <1> QED
    BY <1>1, <1>2, <1>3, <1>4, <1>5, <1>6 DEF ProjectStep

(* A request that has read a canvas puts nothing anywhere yet.             *)
LEMMA EmptyReading ==
  ASSUME TypeOK, EmptyInv, NEW s \in Sessions, NEW k, NEW row, NEW read, NEW e,
         Moves(s, Updating(k, row, read, e)), UNCHANGED <<canvas, project, born, late>>
  PROVE  EmptyInv'
  <1>1. Updating(k, row, read, e).at \notin Removing
    BY NoRemoval
  <1>2. \A t \in Sessions : req'[t] = req[t] \/ req'[t].at \notin Removing
    BY <1>1, OtherRequest
  <1> QED
    BY <1>2, EmptyQuiet

(* The steps of canvas requests fill a project that is leaving only where  *)
(* late records it.                                                        *)
LEMMA EmptyCanvasStep ==
  ASSUME TypeOK, EmptyInv, NEW s \in Sessions, CanvasStep(s)
  PROVE  EmptyInv'
  <1>1. ASSUME NEW p \in Projects, CanvasCreate(s, p) PROVE EmptyInv'
    BY <1>1, EmptyEnsure DEF CanvasCreate
  <1>2. ASSUME NEW p \in Projects, NEW e \in Edits, CanvasImport(s, p, e) PROVE EmptyInv'
    BY <1>2, EmptyEnsure DEF CanvasImport
  <1>3. ASSUME NEW k \in Canvases, AddCanvas(s, k) PROVE EmptyInv'
    <2>1. \A t \in Sessions : req'[t] = req[t] \/ req'[t].at \notin Removing
      BY <1>3, NoRemoval, OtherRequest DEF AddCanvas
    <2>2. /\ \A j \in Canvases \ {k} : canvas'[j] = canvas[j]
          /\ canvas'[k].project = req[s].row.project
      BY <1>3 DEF AddCanvas, Row, TypeOK
    <2>3. late \subseteq late' /\ (Leaving(req[s].row.project) => req[s].row.project \in late')
      BY <1>3 DEF AddCanvas, WriteFor
    <2>4. \A p \in Projects : p \in born' \ project' => p \in born \ project
      BY <1>3, CanvasAssumption DEF AddCanvas
    <2> QED
      BY <2>1, <2>2, <2>3, <2>4, EmptyQuiet
  <1>4. ASSUME NEW k \in Canvases, CanvasGet(s, k) PROVE EmptyInv'
    BY <1>4, EmptyQuiet DEF CanvasGet
  <1>5. ASSUME NEW k \in Canvases, CanvasTouch(s, k) PROVE EmptyInv'
    BY <1>5, EmptyReading DEF CanvasTouch, Begin, Moves
  <1>6. ASSUME NEW e \in Edits, NEW checked \in BOOLEAN, CanvasSave(s, e, checked) PROVE EmptyInv'
    BY <1>6, EmptyReading DEF CanvasSave, Begin, Moves
  <1>7. ASSUME NEW k \in Canvases, NEW e \in Edits, CanvasWorkflowImport(s, k, e) PROVE EmptyInv'
    BY <1>7, EmptyReading DEF CanvasWorkflowImport, Begin, Moves
  <1>8. ASSUME NEW k \in Canvases, NEW p \in Projects, CanvasUpdateMeta(s, k, p) PROVE EmptyInv'
    BY <1>8, EmptyReading DEF CanvasUpdateMeta, Begin, Moves
  <1>9. CASE Update(s)
    <2>1. \A t \in Sessions : req'[t] = req[t] \/ req'[t].at \notin Removing
      BY <1>9, NoRemoval, OtherRequest DEF Update
    <2>2. UNCHANGED <<project, born>>
      BY <1>9 DEF Update
    <2>3. CASE canvas[req[s].id] = NoCanvas
      BY <1>9, <2>1, <2>2, <2>3, EmptyQuiet DEF Update
    <2>4. CASE canvas[req[s].id] # NoCanvas
      <3>1. req[s].id \in Canvases
        BY <1>9, Typed, RequestFields DEF Update
      <3>2. /\ \A j \in Canvases \ {req[s].id} : canvas'[j] = canvas[j]
            /\ canvas'[req[s].id].project = req[s].row.project
        BY <1>9, <2>4, <3>1 DEF Update, Row, TypeOK
      <3>3. late \subseteq late' /\ (Leaving(req[s].row.project) => req[s].row.project \in late')
        BY <1>9, <2>4 DEF Update, WriteFor
      <3> QED
        BY <2>1, <2>2, <3>2, <3>3, EmptyQuiet
    <2> QED
      BY <2>3, <2>4
  <1> QED
    BY <1>1, <1>2, <1>3, <1>4, <1>5, <1>6, <1>7, <1>8, <1>9 DEF CanvasStep

(* No step fills a project that is leaving without saying so.              *)
LEMMA EmptyStep ==
  ASSUME TypeOK, EmptyInv, [Next]_vars
  PROVE  EmptyInv'
  <1>1. ASSUME NEW s \in Sessions, CallFails(s) PROVE EmptyInv'
    <2>1. \A t \in Sessions : req'[t] = req[t] \/ req'[t].at \notin Removing
      BY <1>1, NoRemoval, OtherRequest DEF CallFails
    <2> QED
      BY <1>1, <2>1, EmptyQuiet DEF CallFails
  <1>2. ASSUME NEW k \in Canvases, CanvasSoftDelete(k) \/ CanvasRestore(k) \/ CanvasPurge(k)
        PROVE  EmptyInv'
    <2>1. \A j \in Canvases : canvas'[j].project \in {canvas[j].project, None}
      BY <1>2, Rows DEF CanvasSoftDelete, CanvasRestore, CanvasPurge, Row, TypeOK
    <2>2. UNCHANGED <<project, born, req, late>>
      BY <1>2 DEF CanvasSoftDelete, CanvasRestore, CanvasPurge
    <2> QED
      BY <2>1, <2>2, EmptyQuiet, CanvasAssumption
  <1>3. CASE CanvasList
    <2>1. \A j \in Canvases : canvas'[j].project \in {canvas[j].project, None}
      BY <1>3, Rows DEF CanvasList
    <2>2. UNCHANGED <<project, born, req, late>>
      BY <1>3 DEF CanvasList
    <2> QED
      BY <2>1, <2>2, EmptyQuiet, CanvasAssumption
  <1>4. CASE Tick
    BY <1>4, EmptyQuiet DEF Tick
  <1>5. CASE UNCHANGED vars
    BY <1>5, EmptyQuiet DEF vars
  <1> QED
    BY <1>1, <1>2, <1>3, <1>4, <1>5, EmptyProjectStep, EmptyCanvasStep DEF Next

(* ProjectDelete leaves no canvas in the project, unless one was put there *)
(* meanwhile or later.                                                     *)
THEOREM NothingLeftBehind == Spec => []DeletedProjectIsEmpty
  <1>1. Init => EmptyInv
    <2> SUFFICES ASSUME Init PROVE EmptyInv
      OBVIOUS
    <2>1. born = {} /\ \A s \in Sessions : req[s].at = "idle"
      BY MadeFields DEF Init
    <2> QED
      BY <2>1 DEF EmptyInv, DefaultStays, LeavingIsEmpty, Leaving
  <1>2. EmptyInv => DeletedProjectIsEmpty
    BY DEF EmptyInv, LeavingIsEmpty, Leaving, DeletedProjectIsEmpty
  <1> QED
    BY <1>1, <1>2, EmptyStep, TypeCorrect, PTL DEF Spec
-----------------------------------------------------------------------------
(* A step that writes to no canvas in the trash and removes rows or brings *)
(* them back only.                                                         *)
LEMMA TrashQuiet ==
  ASSUME \A s \in Sessions : req'[s] = req[s] \/ req'[s].at # "update",
         \A k \in Canvases : \/ canvas'[k] = NoCanvas
                             \/ canvas[k] # NoCanvas /\ canvas'[k].graph = canvas[k].graph
                             \/ k \notin born /\ canvas[k].deleted = 0
  PROVE  PurgedIsGone /\ TrashIsFrozen
  BY Rows DEF PurgedIsGone, TrashIsFrozen, Uncopied

(* A step of a request that is not to write a canvas.                      *)
LEMMA NoUpdate ==
  ASSUME TypeOK, NEW s \in Sessions, NEW r, Moves(s, r), r.at # "update"
  PROVE  \A t \in Sessions : req'[t] = req[t] \/ req'[t].at # "update"
  BY DEF Moves, TypeOK

(* A request that is to write a canvas has found it outside the trash.     *)
LEMMA TrashReading ==
  ASSUME TypeOK, NEW s \in Sessions, NEW k \in Canvases, Live(k), NEW row, NEW e,
         Moves(s, Updating(k, row, canvas[k], e)), canvas' = canvas
  PROVE  PurgedIsGone /\ TrashIsFrozen
  <1>1. req'[s].id = k /\ \A t \in Sessions \ {s} : req'[t] = req[t]
    BY DEF Moves, Updating, Request, TypeOK
  <1>2. ~(canvas[k].deleted > 0)
    BY DEF Live
  <1> QED
    BY <1>1, <1>2 DEF PurgedIsGone, TrashIsFrozen, Uncopied

(* ensureDefaultProject touches no trash.                                  *)
LEMMA TrashEnsure ==
  ASSUME TypeOK, NEW s \in Sessions, NEW next \in {"add canvas", "add project", "idle"},
         NEW row, Ensure(s, next, row)
  PROVE  PurgedIsGone /\ TrashIsFrozen
  <1>1. PICK r : Moves(s, r) /\ r.at # "update"
    <2>1. Moves(s, Adding(next, "idle", row)) \/ Moves(s, Adding("add default", next, row))
      BY DEF Ensure, Begin, Moves
    <2>2. Adding(next, "idle", row).at = next /\ Adding("add default", next, row).at = "add default"
      BY DEF Adding, Request
    <2> QED
      BY <2>1, <2>2
  <1>2. \A t \in Sessions : req'[t] = req[t] \/ req'[t].at # "update"
    BY <1>1, NoUpdate
  <1> QED
    BY <1>2, TrashQuiet DEF Ensure

(* The steps of project requests respect the trash.                        *)
LEMMA TrashProjectStep ==
  ASSUME TypeOK, NEW s \in Sessions, ProjectStep(s)
  PROVE  PurgedIsGone /\ TrashIsFrozen
  <1> DEFINE Goal == PurgedIsGone /\ TrashIsFrozen
  <1>1. CASE ProjectList(s) \/ ProjectCreate(s)
    BY <1>1, TrashEnsure DEF ProjectList, ProjectCreate
  <1>2. CASE AddDefault(s)
    <2>1. req[s].next # "update"
      BY <1>2, Typed, RequestFields DEF AddDefault
    <2>2. PICK r : Moves(s, r) /\ r.at # "update"
      <3>1. Moves(s, Idle) \/ Moves(s, Adding(req[s].next, "idle", req[s].row))
        BY <1>2 DEF AddDefault, Moves
      <3>2. Idle.at # "update" /\ Adding(req[s].next, "idle", req[s].row).at # "update"
        BY <2>1, MadeFields
      <3> QED
        BY <3>1, <3>2
    <2>3. \A t \in Sessions : req'[t] = req[t] \/ req'[t].at # "update"
      BY <2>2, NoUpdate
    <2> QED
      BY <1>2, <2>3, TrashQuiet DEF AddDefault
  <1>3. ASSUME NEW p \in Projects, AddProject(s, p) PROVE Goal
    <2>1. \A t \in Sessions : req'[t] = req[t] \/ req'[t].at # "update"
      BY <1>3, NoUpdate, MadeFields DEF AddProject
    <2> QED
      BY <1>3, <2>1, TrashQuiet DEF AddProject
  <1>4. ASSUME NEW p \in Projects, ProjectDelete(s, p) PROVE Goal
    <2>1. Moves(s, Deleting("reassign", p)) /\ Deleting("reassign", p).at # "update"
      BY <1>4 DEF ProjectDelete, Begin, Moves, Deleting, Request
    <2>2. \A t \in Sessions : req'[t] = req[t] \/ req'[t].at # "update"
      BY <2>1, NoUpdate
    <2> QED
      BY <1>4, <2>2, TrashQuiet DEF ProjectDelete
  <1>5. CASE ReassignProject(s)
    <2>1. req[s].id \in Projects
      BY <1>5, Typed, RequestFields DEF ReassignProject
    <2>2. \A k \in Canvases : \/ canvas'[k] = NoCanvas
                              \/ canvas[k] # NoCanvas /\ canvas'[k].graph = canvas[k].graph
      BY <1>5, <2>1, Rows, CanvasAssumption DEF ReassignProject, Row
    <2>3. Moves(s, Deleting("delete project", req[s].id))
      BY <1>5 DEF ReassignProject
    <2>4. Deleting("delete project", req[s].id).at # "update"
      BY DEF Deleting, Request
    <2>5. \A t \in Sessions : req'[t] = req[t] \/ req'[t].at # "update"
      BY <2>3, <2>4, NoUpdate
    <2> QED
      BY <2>2, <2>5, TrashQuiet
  <1>6. CASE DeleteProject(s)
    <2>1. \A t \in Sessions : req'[t] = req[t] \/ req'[t].at # "update"
      BY <1>6, NoUpdate, MadeFields DEF DeleteProject
    <2> QED
      BY <1>6, <2>1, TrashQuiet DEF DeleteProject
  <1> QED
    BY <1>1, <1>2, <1>3, <1>4, <1>5, <1>6 DEF ProjectStep

(* The steps of canvas requests respect the trash.                         *)
LEMMA TrashCanvasStep ==
  ASSUME TypeOK, Known, NEW s \in Sessions, CanvasStep(s)
  PROVE  PurgedIsGone /\ TrashIsFrozen
  <1> DEFINE Goal == PurgedIsGone /\ TrashIsFrozen
  <1>1. ASSUME NEW p \in Projects, CanvasCreate(s, p) PROVE Goal
    BY <1>1, TrashEnsure DEF CanvasCreate
  <1>2. ASSUME NEW p \in Projects, NEW e \in Edits, CanvasImport(s, p, e) PROVE Goal
    BY <1>2, TrashEnsure DEF CanvasImport
  <1>3. ASSUME NEW k \in Canvases, AddCanvas(s, k) PROVE Goal
    <2>1. \A t \in Sessions : req'[t] = req[t] \/ req'[t].at # "update"
      BY <1>3, NoUpdate, MadeFields DEF AddCanvas
    <2>2. \A j \in Canvases \ {k} : canvas'[j] = canvas[j]
      BY <1>3 DEF AddCanvas, TypeOK
    <2>3. k \notin born /\ canvas[k].deleted = 0
      BY <1>3, Rows DEF AddCanvas, Known
    <2> QED
      BY <2>1, <2>2, <2>3, TrashQuiet
  <1>4. ASSUME NEW k \in Canvases, CanvasGet(s, k) PROVE Goal
    BY <1>4, TrashQuiet DEF CanvasGet
  <1>5. ASSUME NEW k \in Canvases, CanvasTouch(s, k) PROVE Goal
    BY <1>5, TrashReading DEF CanvasTouch, Begin, Moves
  <1>6. ASSUME NEW e \in Edits, NEW checked \in BOOLEAN, CanvasSave(s, e, checked) PROVE Goal
    <2>1. view[s].id \in Canvases /\ Live(view[s].id)
      BY <1>6, Typed DEF CanvasSave
    <2> QED
      BY <1>6, <2>1, TrashReading DEF CanvasSave, Begin, Moves
  <1>7. ASSUME NEW k \in Canvases, NEW e \in Edits, CanvasWorkflowImport(s, k, e) PROVE Goal
    BY <1>7, TrashReading DEF CanvasWorkflowImport, Begin, Moves
  <1>8. ASSUME NEW k \in Canvases, NEW p \in Projects, CanvasUpdateMeta(s, k, p) PROVE Goal
    BY <1>8, TrashReading DEF CanvasUpdateMeta, Begin, Moves
  <1>9. CASE Update(s)
    <2>1. \A t \in Sessions : req'[t] = req[t] \/ req'[t].at # "update"
      BY <1>9, NoUpdate, MadeFields DEF Update
    <2>2. req[s].id \in Canvases /\ req[s].at = "update"
      BY <1>9, Typed, RequestFields DEF Update
    <2>3. ~Uncopied(req[s].id)
      BY <2>2 DEF Uncopied
    <2>4. \A k \in Canvases \ {req[s].id} : canvas'[k] = canvas[k]
      BY <1>9, <2>2 DEF Update, TypeOK
    <2>5. canvas[req[s].id] = NoCanvas => canvas' = canvas
      BY <1>9 DEF Update
    <2>6. PurgedIsGone
      BY <2>4, <2>5 DEF PurgedIsGone
    <2>7. TrashIsFrozen
      BY <2>1, <2>3, <2>4 DEF TrashIsFrozen, Uncopied
    <2> QED
      BY <2>6, <2>7
  <1> QED
    BY <1>1, <1>2, <1>3, <1>4, <1>5, <1>6, <1>7, <1>8, <1>9 DEF CanvasStep

(* Every step respects the trash.                                          *)
LEMMA TrashStep ==
  ASSUME TypeOK, Known, [Next]_vars
  PROVE  PurgedIsGone /\ TrashIsFrozen
  <1> DEFINE Goal == PurgedIsGone /\ TrashIsFrozen
  <1>1. ASSUME NEW s \in Sessions, CallFails(s) PROVE Goal
    <2>1. \A t \in Sessions : req'[t] = req[t] \/ req'[t].at # "update"
      BY <1>1, NoUpdate, MadeFields DEF CallFails
    <2> QED
      BY <1>1, <2>1, TrashQuiet DEF CallFails
  <1>2. ASSUME NEW k \in Canvases, CanvasSoftDelete(k) \/ CanvasRestore(k) \/ CanvasPurge(k)
        PROVE  Goal
    <2>0. canvas[k] # NoCanvas
      BY <1>2, Rows DEF CanvasSoftDelete, CanvasRestore, CanvasPurge, Live
    <2>1. canvas'[k] = NoCanvas \/ canvas'[k].graph = canvas[k].graph
      BY <1>2, RowFields DEF CanvasSoftDelete, CanvasRestore, CanvasPurge, TypeOK
    <2>2. req' = req /\ \A j \in Canvases \ {k} : canvas'[j] = canvas[j]
      BY <1>2 DEF CanvasSoftDelete, CanvasRestore, CanvasPurge, TypeOK
    <2> QED
      BY <2>0, <2>1, <2>2, TrashQuiet
  <1>3. CASE CanvasList
    BY <1>3, TrashQuiet DEF CanvasList
  <1>4. CASE Tick
    BY <1>4, TrashQuiet DEF Tick
  <1>5. CASE UNCHANGED vars
    BY <1>5, TrashQuiet DEF vars
  <1> QED
    BY <1>1, <1>2, <1>3, <1>4, <1>5, TrashProjectStep, TrashCanvasStep DEF Next

(* What Delete and Purge did to a canvas lasts.                            *)
THEOREM TrashIsKept == Spec => TrashKept
  <1>1. Init => LossInv
    BY MadeFields, CanvasAssumption DEF Init, LossInv, Known, Older, CurrentIsComplete, NoSilentLoss, Writing
  <1>2. LossInv => Known
    BY DEF LossInv
  <1>3. TypeOK /\ Known /\ [Next]_vars => [PurgedIsGone /\ TrashIsFrozen]_vars
    BY TrashStep
  <1> QED
    BY <1>1, <1>2, <1>3, LossStep, TypeCorrect, PTL DEF Spec, TrashKept
=============================================================================
