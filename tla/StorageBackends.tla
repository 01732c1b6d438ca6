--------------------------- MODULE StorageBackends ---------------------------
(***************************************************************************)
(* Storage backends: the table storage_backends, the requests that create  *)
(* and change its rows, and the uploads that put files under the root of   *)
(* the default one.  An update reads a row, changes the columns it was     *)
(* asked to and saves all of them; an upload looks the default backend up, *)
(* adds one if it finds none, writes the file under the root it read and   *)
(* inserts the asset.  Ids are numbers in the order of creation.           *)
(*                                                                         *)
(* A root is a name and the directory it is relative to; base "" is a root *)
(* that is not absolute yet.  Names, configurations and quotas are carried *)
(* along unread by the code and left out.                                  *)
(***************************************************************************)
EXTENDS Naturals, Sequences, Tables

CONSTANTS
  StoreSessions,   \* clients, each with one request at a time
  Homes,           \* working directories the server may be started in
  MaxBackends, MaxFiles   \* bounds on rows and on uploads

ASSUME StorageAssumption == MaxBackends \in Nat /\ MaxFiles \in Nat /\ "" \notin Homes

VARIABLES
  backends,   \* table storage_backends
  placed,     \* table assets: the backend of each asset
  uploads,    \* uploads begun so far, which numbers the assets
  files,      \* the file system: pairs of a root and an asset
  home,       \* where relative and empty roots lead in this process
  sreq,       \* the request each session is in
  asked,      \* what the committed requests, one after the other, make of each row
  mixed,      \* backends an update saved from a copy others had overtaken
  moved       \* backends whose root or type a client has changed

storeVars == <<backends, placed, uploads, files, home, sreq, asked, mixed, moved>>
-----------------------------------------------------------------------------
Types == {"local", "s3"}
RootNames == {"", "media"}   \* the default directory, and one a client names
Roots == [base : Homes \cup {""}, name : RootNames]
StorageBackend == [type : Types, root : Roots, enabled : BOOLEAN, readonly : BOOLEAN]
BackendIds == 1..Len(backends)

normalizeLocalRoot(root) == IF root.base = "" THEN [root EXCEPT !.base = home] ELSE root
Normalized(row) ==
  IF row.type = "local" THEN [row EXCEPT !.root = normalizeLocalRoot(@)] ELSE row

(* A create statement lets the column default replace a zero value: what   *)
(* is created disabled is stored enabled.                                  *)
Stored(row) == [row EXCEPT !.enabled = TRUE]

(* What a request may change: one column and its new value. *)
Patches ==
  [col : {"type"}, to : Types] \cup [col : {"root"}, to : [base : {""}, name : RootNames]]
    \cup [col : {"enabled", "readonly"}, to : BOOLEAN]
Patched(row, patch) == Normalized([row EXCEPT ![patch.col] = patch.to])

Usable == {b \in BackendIds : backends[b].type = "local" /\ backends[b].enabled /\ ~backends[b].readonly}

(* A request: its next call, its backend, the row it read, the change it   *)
(* makes, its asset; over: others have saved that row since it was read;   *)
(* excused: a lookup failed, or others have added or changed a backend     *)
(* since the lookup.                                                       *)
StoreRequest(at, b, row, patch, asset) ==
  [at |-> at, b |-> b, row |-> row, patch |-> patch, asset |-> asset,
   over |-> FALSE, excused |-> FALSE]
NoRow == [type |-> "s3", root |-> [base |-> "", name |-> ""], enabled |-> FALSE, readonly |-> FALSE]
NoPatch == [col |-> "", to |-> FALSE]
StoreIdle == StoreRequest("idle", 0, NoRow, NoPatch, 0)
Uploading == {"lookup", "add default", "write", "insert asset"}

(* Session s goes on with r; the others learn that backend b was written. *)
Wrote(s, r, b) ==
  sreq' = [t \in StoreSessions |->
             IF t = s THEN r
             ELSE IF sreq[t].at = "save" /\ sreq[t].b = b THEN [sreq[t] EXCEPT !.over = TRUE]
             ELSE IF sreq[t].at \in Uploading THEN [sreq[t] EXCEPT !.excused = TRUE]
             ELSE sreq[t]]
StoreGoes(s, r) == sreq' = [sreq EXCEPT ![s] = r]
-----------------------------------------------------------------------------
StoreInit ==
  /\ backends = <<>> /\ asked = <<>> /\ placed = <<>> /\ uploads = 0
  /\ files = {} /\ mixed = {} /\ moved = {}
  /\ home \in Homes
  /\ sreq = [s \in StoreSessions |-> StoreIdle]

(* A call fails and the request returns the error. *)
StoreCallFails(s) ==
  /\ sreq[s].at \notin {"idle", "lookup"}
  /\ StoreGoes(s, StoreIdle)
  /\ UNCHANGED <<backends, placed, uploads, files, home, asked, mixed, moved>>

(* The server is stopped and started, perhaps in another directory. *)
StoreRestart(h) ==
  /\ home' = h
  /\ sreq' = [s \in StoreSessions |-> StoreIdle]
  /\ UNCHANGED <<backends, placed, uploads, files, asked, mixed, moved>>

(* Fault seeded for the checks: the root is stored as the client wrote it. *)
StorageBackendCreateRaw(s, row) ==
  /\ sreq[s] = StoreIdle
  /\ Len(backends) < MaxBackends
  /\ backends' = Append(backends, Stored(row))
  /\ asked' = Append(asked, Stored(row))
  /\ Wrote(s, StoreIdle, Len(backends) + 1)
  /\ UNCHANGED <<placed, uploads, files, home, mixed, moved>>

(* The root of a local backend is made absolute, and the row added. *)
StorageBackendCreate(s, row) ==
  /\ sreq[s] = StoreIdle
  /\ Len(backends) < MaxBackends
  /\ backends' = Append(backends, Stored(Normalized(row)))
  /\ asked' = Append(asked, Stored(Normalized(row)))
  /\ Wrote(s, StoreIdle, Len(backends) + 1)
  /\ UNCHANGED <<placed, uploads, files, home, mixed, moved>>

(* The row is read and changed in memory ... *)
StorageBackendUpdate(s, b, patch) ==
  /\ sreq[s] = StoreIdle
  /\ b \in BackendIds
  /\ StoreGoes(s, StoreRequest("save", b, Patched(backends[b], patch), patch, 0))
  /\ UNCHANGED <<backends, placed, uploads, files, home, asked, mixed, moved>>

(* Fault seeded for the checks: an empty root in the row means the default. *)
SaveBackendDefaultRoot(s) ==
  LET r == sreq[s]
      row == IF r.patch.col = "root" THEN r.row
             ELSE Normalized([r.row EXCEPT !.root = [base |-> "", name |-> ""]])
  IN
  /\ r.at = "save"
  /\ backends' = [backends EXCEPT ![r.b] = row]
  /\ asked' = [asked EXCEPT ![r.b] = Patched(@, r.patch)]
  /\ mixed' = IF r.over THEN mixed \cup {r.b} ELSE mixed
  /\ moved' = IF r.patch.col \in {"root", "type"} THEN moved \cup {r.b} ELSE moved
  /\ Wrote(s, StoreIdle, r.b)
  /\ UNCHANGED <<placed, uploads, files, home>>

(* ... and all its columns are saved. *)
SaveBackend(s) ==
  LET r == sreq[s] IN
  /\ r.at = "save"
  /\ backends' = [backends EXCEPT ![r.b] = r.row]
  /\ asked' = [asked EXCEPT ![r.b] = Patched(@, r.patch)]
  /\ mixed' = IF r.over THEN mixed \cup {r.b} ELSE mixed
  /\ moved' = IF r.patch.col \in {"root", "type"} THEN moved \cup {r.b} ELSE moved
  /\ Wrote(s, StoreIdle, r.b)
  /\ UNCHANGED <<placed, uploads, files, home>>
-----------------------------------------------------------------------------
AssetUpload(s) ==
  /\ sreq[s] = StoreIdle
  /\ uploads < MaxFiles
  /\ uploads' = uploads + 1
  /\ StoreGoes(s, StoreRequest("lookup", 0, NoRow, NoPatch, uploads + 1))
  /\ UNCHANGED <<backends, placed, files, home, asked, mixed, moved>>

(* The oldest backend that is local, enabled and writable. *)
GetDefaultLocal(b) == b \in Usable /\ \A c \in Usable : b <= c

ensureDefaultLocalBackend(s) ==
  /\ sreq[s].at = "lookup"
  /\ \/ \E b \in BackendIds :
          /\ GetDefaultLocal(b)
          /\ StoreGoes(s, [sreq[s] EXCEPT !.at = "write", !.b = b, !.row = backends[b], !.excused = FALSE])
     \/ /\ ~\E b \in BackendIds : GetDefaultLocal(b)
        /\ StoreGoes(s, [sreq[s] EXCEPT !.at = "add default", !.excused = FALSE])
  /\ UNCHANGED <<backends, placed, uploads, files, home, asked, mixed, moved>>

(* Any error of the lookup counts as no backend. *)
LookupFails(s) ==
  /\ sreq[s].at = "lookup"
  /\ StoreGoes(s, [sreq[s] EXCEPT !.at = "add default", !.excused = TRUE])
  /\ UNCHANGED <<backends, placed, uploads, files, home, asked, mixed, moved>>

AddDefault(s) ==
  LET row == Normalized([type |-> "local", root |-> [base |-> "", name |-> ""],
                         enabled |-> TRUE, readonly |-> FALSE])
      b == Len(backends) + 1
  IN
  /\ sreq[s].at = "add default"
  /\ b <= MaxBackends
  /\ backends' = Append(backends, row)
  /\ asked' = Append(asked, row)
  /\ Wrote(s, [sreq[s] EXCEPT !.at = "write", !.b = b, !.row = row, !.excused = FALSE], b)
  /\ UNCHANGED <<placed, uploads, files, home, mixed, moved>>

(* The file goes under the root that was read. *)
WriteFile(s) ==
  /\ sreq[s].at = "write"
  /\ files' = files \cup {<<normalizeLocalRoot(sreq[s].row.root), sreq[s].asset>>}
  /\ StoreGoes(s, [sreq[s] EXCEPT !.at = "insert asset"])
  /\ UNCHANGED <<backends, placed, uploads, home, asked, mixed, moved>>

InsertAsset(s) ==
  /\ sreq[s].at = "insert asset"
  /\ placed' = Put(placed, sreq[s].asset, sreq[s].b)
  /\ StoreGoes(s, StoreIdle)
  /\ UNCHANGED <<backends, uploads, files, home, asked, mixed, moved>>

StoreNext ==
  \/ \E h \in Homes : StoreRestart(h)
  \/ \E s \in StoreSessions :
       \/ StoreCallFails(s)
       \/ \E row \in [type : Types, root : [base : {""}, name : RootNames], enabled : BOOLEAN, readonly : {FALSE}] :
            StorageBackendCreate(s, row)
       \/ \E b \in BackendIds, patch \in Patches : StorageBackendUpdate(s, b, patch)
       \/ SaveBackend(s)
       \/ AssetUpload(s) \/ ensureDefaultLocalBackend(s) \/ LookupFails(s)
       \/ AddDefault(s) \/ WriteFile(s) \/ InsertAsset(s)

StoreSpec == StoreInit /\ [][StoreNext]_storeVars
-----------------------------------------------------------------------------
(* localObjectPath refuses a backend that is not local; the content path   *)
(* is an error when the file is not there.                                 *)
localObjectPath(b) == normalizeLocalRoot(backends[b].root)
AssetContentPath(a) ==
  LET b == placed[a] IN backends[b].type = "local" /\ <<localObjectPath(b), a>> \in files

(* Every asset's content can be served, after restarts in other            *)
(* directories too, unless a client gave its backend another root or type. *)
ContentReachable == \A a \in DOMAIN placed : AssetContentPath(a) \/ placed[a] \in moved

(* A row is what its updates, one after the other, make of it, unless one  *)
(* of them saved a copy that others had overtaken (StorageBackendUpdate    *)
(* takes no lock and has no version).                                      *)
NoLostPatch == \A b \in BackendIds : backends[b] = asked[b] \/ b \in mixed

(* A second default backend is added, and a file is recorded on a backend  *)
(* that is disabled or read-only, only when the lookup failed or others    *)
(* changed the backends after it.                                          *)
PlacementExplained ==
  \A s \in StoreSessions :
    /\ AddDefault(s) => Usable = {} \/ sreq[s].excused
    /\ InsertAsset(s) => sreq[s].b \in Usable \/ sreq[s].excused

(* Backends are what was asked for, and assets are where they may be, but  *)
(* for requests that overlap and lookups that fail.                        *)
BackendsExplained == [][PlacementExplained /\ NoLostPatch']_storeVars
=============================================================================
