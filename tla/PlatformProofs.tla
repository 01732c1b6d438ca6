--------------------------- MODULE PlatformProofs ---------------------------
(* Theorems about StorageBackends, for any number of clients, backends,    *)
(* uploads and directories, about SsoSettings, for any number of clients,  *)
(* rows and contents, about AssetGrouping, for any number of clients,      *)
(* assets, names, sources and rows, and about SamlSignOn, for any delays   *)
(* of which the one for a request is the shorter.  About HttpApi, which    *)
(* has no constants, they hold of every message and need no bound.         *)
EXTENDS StorageBackends, SsoSettings, AssetGrouping, SamlSignOn, HttpApi, SequenceTheorems,
        WellFoundedInduction, TLAPS

StoreRequests ==
  [at : Uploading \cup {"idle", "save"}, b : Nat, row : StorageBackend, patch : Patches \cup {NoPatch},
   asset : Nat, over : BOOLEAN, excused : BOOLEAN]
StoreTypes ==
  /\ backends \in Seq(StorageBackend) /\ asked \in Seq(StorageBackend) /\ Len(asked) = Len(backends)
  /\ home \in Homes /\ uploads \in Nat
  /\ sreq \in [StoreSessions -> StoreRequests]

(* The root of a local backend is absolute, so that it means the same in   *)
(* every process.                                                          *)
Absolute(row) == row.type = "local" => row.root.base # ""
SamePlace(row, other) == row.type = other.type /\ row.root = other.root

(* Patched, with the directory it depends on as a parameter.               *)
PatchedIn(h, row, patch) ==
  LET new == [row EXCEPT ![patch.col] = patch.to] IN
  IF new.type = "local" /\ new.root.base = "" THEN [new EXCEPT !.root = [new.root EXCEPT !.base = h]] ELSE new

(* What a request that is to save a row may rely on: the row is still      *)
(* where it was, or a client has moved it; and it is still the row that    *)
(* was read, or the request knows of it.                                   *)
SaveFits(r) ==
  /\ r.b \in BackendIds /\ r.patch \in Patches /\ Absolute(r.row)
  /\ r.patch.col \in {"root", "type"} \/ r.b \in moved \/ SamePlace(r.row, backends[r.b])
  /\ r.over \/ r.row = PatchedIn(home, backends[r.b], r.patch)

(* What an upload may rely on after its lookup.                            *)
UploadFits(r) ==
  /\ r.b \in BackendIds /\ r.row.type = "local" /\ Absolute(r.row)
  /\ r.b \in moved \/ SamePlace(r.row, backends[r.b])
  /\ r.b \in Usable \/ r.excused
Fits(r) ==
  /\ r.at = "save" => SaveFits(r)
  /\ r.at = "add default" => Usable = {} \/ r.excused
  /\ r.at \in {"write", "insert asset"} => UploadFits(r)
  /\ r.at = "insert asset" => <<r.row.root, r.asset>> \in files

Rooted == \A b \in BackendIds : Absolute(backends[b])
Filed ==
  \A a \in DOMAIN placed :
    /\ placed[a] \in BackendIds
    /\ \/ placed[a] \in moved
       \/ backends[placed[a]].type = "local" /\ <<backends[placed[a]].root, a>> \in files
StoreInv ==
  /\ StoreTypes /\ Rooted /\ Filed /\ NoLostPatch
  /\ \A s \in StoreSessions : Fits(sreq[s])
-----------------------------------------------------------------------------
(* A row that a request changes: its type, and what stays of its place.    *)
LEMMA NormalizeFacts ==
  ASSUME home \in Homes, NEW row \in StorageBackend
  PROVE  /\ Normalized(row) \in StorageBackend /\ Absolute(Normalized(row))
         /\ Normalized(row).type = row.type /\ Normalized(row).enabled = row.enabled
         /\ Normalized(row).readonly = row.readonly
         /\ Absolute(row) => Normalized(row) = row
<1>0. "" \notin Homes
  BY StorageAssumption
<1>1. CASE row.type = "local" /\ row.root.base = ""
  <2>1. Normalized(row) = [row EXCEPT !.root = [row.root EXCEPT !.base = home]]
    BY <1>1 DEF Normalized, normalizeLocalRoot
  <2>2. [row.root EXCEPT !.base = home] \in Roots /\ [row.root EXCEPT !.base = home].base = home
    BY DEF StorageBackend, Roots
  <2> QED BY <1>0, <1>1, <2>1, <2>2 DEF StorageBackend, Absolute
<1>2. CASE ~(row.type = "local" /\ row.root.base = "")
  <2>1. Normalized(row) = row
    BY <1>2 DEF Normalized, normalizeLocalRoot, StorageBackend
  <2> QED BY <1>2, <2>1 DEF Absolute
<1> QED BY <1>1, <1>2

(* A patched row is a row with an absolute root, in the same place but *)
(* for a new root or type.                                             *)
LEMMA PatchFacts ==
  ASSUME home \in Homes, NEW row \in StorageBackend, NEW patch \in Patches
  PROVE  /\ Patched(row, patch) \in StorageBackend /\ Absolute(Patched(row, patch))
         /\ Absolute(row) => patch.col \in {"root", "type"} \/ SamePlace(Patched(row, patch), row)
         /\ Patched(row, patch) = PatchedIn(home, row, patch)
<1> DEFINE new == [row EXCEPT ![patch.col] = patch.to]
<1>0. ASSUME new \in StorageBackend PROVE Patched(row, patch) = PatchedIn(home, row, patch)
  <2>1. Patched(row, patch) = Normalized(new)
    BY DEF Patched
  <2>2. PatchedIn(home, row, patch) =
          IF new.type = "local" /\ new.root.base = "" THEN [new EXCEPT !.root = [new.root EXCEPT !.base = home]] ELSE new
    BY DEF PatchedIn
  <2> HIDE DEF new
  <2>3. Normalized(new) =
          IF new.type = "local" /\ new.root.base = "" THEN [new EXCEPT !.root = [new.root EXCEPT !.base = home]] ELSE new
    BY <1>0 DEF Normalized, normalizeLocalRoot, StorageBackend
  <2> QED BY <2>1, <2>2, <2>3
<1>1. CASE patch \in [col : {"type"}, to : Types]
  <2>1. patch.col = "type" /\ patch.to \in Types
    BY <1>1
  <2>2. new \in StorageBackend
    BY <2>1 DEF StorageBackend
  <2> QED BY <1>0, <2>1, <2>2, NormalizeFacts DEF Patched
<1>2. CASE patch \in [col : {"root"}, to : [base : {""}, name : RootNames]]
  <2>1. patch.col = "root" /\ patch.to \in Roots
    BY <1>2 DEF Roots
  <2>2. new \in StorageBackend
    BY <2>1 DEF StorageBackend
  <2> QED BY <1>0, <2>1, <2>2, NormalizeFacts DEF Patched
<1>3. CASE patch \in [col : {"enabled", "readonly"}, to : BOOLEAN]
  <2>1. patch.col \in {"enabled", "readonly"} /\ patch.to \in BOOLEAN
    BY <1>3
  <2>2. new \in StorageBackend /\ new.type = row.type /\ new.root = row.root
    BY <2>1 DEF StorageBackend
  <2>3. Absolute(row) => Absolute(new)
    BY <2>2 DEF Absolute
  <2> QED BY <1>0, <2>2, <2>3, NormalizeFacts DEF Patched, SamePlace
<1> QED BY <1>1, <1>2, <1>3 DEF Patches

(* GetDefaultLocal finds a backend if there is one.                        *)
LEMMA OldestUsable ==
  ASSUME StoreTypes, ~\E b \in BackendIds : GetDefaultLocal(b)
  PROVE  Usable = {}
<1> SUFFICES ASSUME Usable # {} PROVE FALSE
  OBVIOUS
<1>1. Usable \subseteq Nat /\ Usable \subseteq BackendIds
  BY DEF Usable, BackendIds
<1>2. PICK x \in Usable : \A y \in Usable : <<y, x>> \notin OpToRel(<, Nat)
  BY <1>1, NatLessThanWellFounded, WFMin
<1>3. \A y \in Usable : ~(y < x)
  BY <1>1, <1>2 DEF OpToRel
<1>4. GetDefaultLocal(x)
  BY <1>1, <1>3 DEF GetDefaultLocal
<1> QED BY <1>1, <1>4

(* Rows are added at the end.                                              *)
LEMMA AppendRow ==
  ASSUME NEW table \in Seq(StorageBackend), NEW row \in StorageBackend
  PROVE  /\ Append(table, row) \in Seq(StorageBackend) /\ Len(Append(table, row)) = Len(table) + 1
         /\ \A b \in 1..Len(table) : Append(table, row)[b] = table[b]
         /\ Append(table, row)[Len(table) + 1] = row
  BY AppendProperties

(* Requests as they are made.                                              *)
LEMMA RequestFacts ==
  /\ StoreIdle \in StoreRequests /\ StoreIdle.at = "idle" /\ NoRow \in StorageBackend
  /\ \A at \in Uploading \cup {"idle", "save"}, b \in Nat, row \in StorageBackend,
        patch \in Patches \cup {NoPatch}, asset \in Nat :
       StoreRequest(at, b, row, patch, asset) \in StoreRequests
<1>1. NoRow \in StorageBackend
  BY DEF NoRow, StorageBackend, Types, Roots, RootNames
<1>2. \A at \in Uploading \cup {"idle", "save"}, b \in Nat, row \in StorageBackend,
        patch \in Patches \cup {NoPatch}, asset \in Nat :
        StoreRequest(at, b, row, patch, asset) \in StoreRequests
  BY DEF StoreRequest, StoreRequests
<1>3. StoreIdle \in StoreRequests /\ StoreIdle.at = "idle"
  BY <1>1, <1>2 DEF StoreIdle, StoreRequest
<1> QED BY <1>1, <1>2, <1>3

(* A request goes on.                                                      *)
LEMMA StoreSet ==
  ASSUME StoreTypes, NEW s \in StoreSessions, NEW r \in StoreRequests, StoreGoes(s, r)
  PROVE  /\ sreq' \in [StoreSessions -> StoreRequests] /\ sreq'[s] = r
         /\ \A t \in StoreSessions \ {s} : sreq'[t] = sreq[t]
  BY DEF StoreTypes, StoreGoes

(* Nothing is written to the table of backends: the requests of the others *)
(* stay as they are.                                                       *)
LEMMA StoreQuiet ==
  ASSUME StoreInv, NEW s \in StoreSessions, sreq' \in [StoreSessions -> StoreRequests],
         \A t \in StoreSessions \ {s} : sreq'[t] = sreq[t],
         UNCHANGED <<backends, asked, home, mixed, moved>>, uploads' \in Nat,
         files \subseteq files', Fits(sreq[s])', Filed'
  PROVE  StoreInv'
<1>1. StoreTypes'
  BY DEF StoreInv, StoreTypes
<1>2. Rooted' /\ NoLostPatch'
  BY DEF StoreInv, Rooted, NoLostPatch, BackendIds
<1>3. ASSUME NEW t \in StoreSessions PROVE Fits(sreq[t])'
  <2>1. CASE t = s
    BY <2>1
  <2>2. CASE t # s
    <3>1. sreq'[t] = sreq[t] /\ Fits(sreq[t])
      BY <2>2 DEF StoreInv, StoreTypes
    <3>2. sreq[t].at = "save" => SaveFits(sreq[t])'
      <4> SUFFICES ASSUME sreq[t].at = "save" PROVE SaveFits(sreq[t])'
        OBVIOUS
      <4>0. SaveFits(sreq[t])
        BY <3>1 DEF Fits
      <4>1. (sreq[t].b \in BackendIds /\ sreq[t].patch \in Patches /\ Absolute(sreq[t].row))'
        BY <3>1, <4>0 DEF SaveFits, BackendIds, Absolute
      <4>2. (sreq[t].patch.col \in {"root", "type"} \/ sreq[t].b \in moved \/ SamePlace(sreq[t].row, backends[sreq[t].b]))'
        BY <3>1, <4>0 DEF SaveFits, BackendIds, SamePlace
      <4>3. (sreq[t].over \/ sreq[t].row = PatchedIn(home, backends[sreq[t].b], sreq[t].patch))'
        BY <3>1, <4>0 DEF SaveFits
      <4> QED BY <4>1, <4>2, <4>3 DEF SaveFits
    <3>3. Usable' = Usable /\ BackendIds' = BackendIds
      BY DEF Usable, BackendIds
    <3>4. sreq[t].at \in {"write", "insert asset"} => UploadFits(sreq[t])'
      <4> SUFFICES ASSUME sreq[t].at \in {"write", "insert asset"} PROVE UploadFits(sreq[t])'
        OBVIOUS
      <4>0. UploadFits(sreq[t])
        BY <3>1 DEF Fits
      <4>r. sreq'[t].b = sreq[t].b /\ sreq'[t].row = sreq[t].row /\ sreq'[t].excused = sreq[t].excused
        BY <3>1
      <4>1. (sreq[t].b \in BackendIds /\ sreq[t].row.type = "local" /\ Absolute(sreq[t].row))'
        BY <3>3, <4>0, <4>r DEF UploadFits, Absolute
      <4>2. (sreq[t].b \in moved \/ SamePlace(sreq[t].row, backends[sreq[t].b]))'
        BY <4>0, <4>r DEF UploadFits, SamePlace
      <4>3. (sreq[t].b \in Usable \/ sreq[t].excused)'
        BY <3>3, <4>0, <4>r DEF UploadFits
      <4> QED BY <4>1, <4>2, <4>3 DEF UploadFits
    <3> QED BY <3>1, <3>2, <3>3, <3>4 DEF Fits
  <2> QED BY <2>1, <2>2
<1> QED BY <1>1, <1>2, <1>3 DEF StoreInv

(* Backend b is written.  Who was to save it learns that others have been  *)
(* there, and uploads that the backends have changed.                      *)
LEMMA WroteTypes ==
  ASSUME StoreTypes, NEW s \in StoreSessions, NEW r \in StoreRequests, NEW b, Wrote(s, r, b)
  PROVE  sreq' \in [StoreSessions -> StoreRequests] /\ sreq'[s] = r
<1>1. \A t \in StoreSessions :
        /\ sreq[t] \in StoreRequests /\ [sreq[t] EXCEPT !.over = TRUE] \in StoreRequests
        /\ [sreq[t] EXCEPT !.excused = TRUE] \in StoreRequests
  BY DEF StoreTypes, StoreRequests
<1> HIDE DEF StoreRequests
<1> QED BY <1>1 DEF Wrote

(* A row is written: the others may rely on what they have read, or know *)
(* of it.                                                                *)
LEMMA StoreWrote ==
  ASSUME StoreInv, NEW s \in StoreSessions, NEW r, NEW b, Wrote(s, r, b), Fits(sreq[s])',
         StoreTypes', Rooted', NoLostPatch', Filed', UNCHANGED <<home, files>>,
         BackendIds \subseteq BackendIds', moved \subseteq moved',
         \A c \in BackendIds : c = b \/ backends'[c] = backends[c],
         \A c \in BackendIds : c \in moved' \/ SamePlace(backends'[c], backends[c])
  PROVE  StoreInv'
<1> SUFFICES ASSUME NEW t \in StoreSessions, t # s PROVE Fits(sreq[t])'
  BY DEF StoreInv
<1>0. Fits(sreq[t]) /\ sreq[t] \in StoreRequests
  BY DEF StoreInv, StoreTypes
<1>1. CASE sreq[t].at = "save" /\ sreq[t].b = b
  <2>1. sreq'[t] = [sreq[t] EXCEPT !.over = TRUE]
    BY <1>1 DEF Wrote
  <2>2. /\ sreq'[t].at = "save" /\ sreq'[t].b = sreq[t].b /\ sreq'[t].row = sreq[t].row
        /\ sreq'[t].patch = sreq[t].patch /\ sreq'[t].over = TRUE
    BY <1>0, <1>1, <2>1 DEF StoreRequests
  <2>3. SaveFits(sreq[t])
    BY <1>0, <1>1 DEF Fits
  <2>4. (sreq[t].b \in BackendIds /\ sreq[t].patch \in Patches /\ Absolute(sreq[t].row))'
    BY <2>2, <2>3 DEF SaveFits, Absolute
  <2>5. (sreq[t].patch.col \in {"root", "type"} \/ sreq[t].b \in moved \/ SamePlace(sreq[t].row, backends[sreq[t].b]))'
    BY <2>2, <2>3 DEF SaveFits, SamePlace
  <2>6. SaveFits(sreq[t])'
    BY <2>2, <2>4, <2>5 DEF SaveFits
  <2> QED BY <2>2, <2>6 DEF Fits
<1>2. CASE sreq[t].at = "save" /\ sreq[t].b # b
  <2>1. sreq'[t] = sreq[t]
    BY <1>2 DEF Wrote, Uploading
  <2>3. SaveFits(sreq[t])
    BY <1>0, <1>2 DEF Fits
  <2>4. (sreq[t].b \in BackendIds /\ sreq[t].patch \in Patches /\ Absolute(sreq[t].row))'
    BY <2>1, <2>3 DEF SaveFits, Absolute
  <2>5. (sreq[t].patch.col \in {"root", "type"} \/ sreq[t].b \in moved \/ SamePlace(sreq[t].row, backends[sreq[t].b]))'
    BY <2>1, <2>3 DEF SaveFits, SamePlace
  <2>6. (sreq[t].over \/ sreq[t].row = PatchedIn(home, backends[sreq[t].b], sreq[t].patch))'
    BY <1>2, <2>1, <2>3 DEF SaveFits
  <2>7. SaveFits(sreq[t])'
    BY <2>4, <2>5, <2>6 DEF SaveFits
  <2> QED BY <1>2, <2>1, <2>7 DEF Fits
<1>3. CASE sreq[t].at \in Uploading
  <2>1. sreq'[t] = [sreq[t] EXCEPT !.excused = TRUE]
    BY <1>3 DEF Wrote, Uploading
  <2>2. /\ sreq'[t].at = sreq[t].at /\ sreq'[t].b = sreq[t].b /\ sreq'[t].row = sreq[t].row
        /\ sreq'[t].asset = sreq[t].asset /\ sreq'[t].excused = TRUE
    BY <1>0, <1>3, <2>1 DEF StoreRequests
  <2>3. ASSUME sreq[t].at \in {"write", "insert asset"} PROVE UploadFits(sreq[t])'
    <3>1. UploadFits(sreq[t])
      BY <1>0, <2>3 DEF Fits
    <3>2. (sreq[t].b \in BackendIds /\ sreq[t].row.type = "local" /\ Absolute(sreq[t].row))'
      BY <2>2, <3>1 DEF UploadFits, Absolute
    <3>3. (sreq[t].b \in moved \/ SamePlace(sreq[t].row, backends[sreq[t].b]))'
      BY <2>2, <3>1 DEF UploadFits, SamePlace
    <3> QED BY <2>2, <3>2, <3>3 DEF UploadFits
  <2>4. sreq[t].at = "insert asset" => <<sreq'[t].row.root, sreq'[t].asset>> \in files'
    BY <1>0, <2>2 DEF Fits
  <2> QED BY <1>3, <2>2, <2>3, <2>4 DEF Fits, Uploading
<1>4. CASE sreq[t].at = "idle"
  <2>1. sreq'[t] = sreq[t]
    BY <1>4 DEF Wrote, Uploading
  <2> QED BY <1>4, <2>1 DEF Fits
<1> QED BY <1>0, <1>1, <1>2, <1>3, <1>4 DEF StoreRequests, Uploading

(* A backend is added.                                                     *)
LEMMA StoreAdds ==
  ASSUME StoreInv, NEW s \in StoreSessions, NEW r \in StoreRequests, NEW row \in StorageBackend, Absolute(row),
         backends' = Append(backends, row), asked' = Append(asked, row),
         Wrote(s, r, Len(backends) + 1), Fits(sreq[s])',
         UNCHANGED <<placed, uploads, files, home, mixed, moved>>
  PROVE  StoreInv'
<1>1. StoreTypes /\ Rooted /\ Filed /\ NoLostPatch
  BY DEF StoreInv
<1>2. /\ backends \in Seq(StorageBackend) /\ asked \in Seq(StorageBackend)
      /\ Len(asked) = Len(backends) /\ Len(backends) \in Nat
  BY <1>1, LenProperties DEF StoreTypes
<1>3. /\ backends' \in Seq(StorageBackend) /\ asked' \in Seq(StorageBackend)
      /\ Len(backends') = Len(backends) + 1 /\ Len(asked') = Len(backends')
      /\ backends'[Len(backends) + 1] = row /\ asked'[Len(backends) + 1] = row
      /\ \A b \in BackendIds : backends'[b] = backends[b] /\ asked'[b] = asked[b]
  BY <1>2, AppendRow DEF BackendIds
<1>4. /\ BackendIds \subseteq BackendIds' /\ \A b \in BackendIds' : b \in BackendIds \/ b = Len(backends) + 1
  BY <1>2, <1>3 DEF BackendIds
<1>5. StoreTypes'
  BY <1>1, <1>3, WroteTypes DEF StoreTypes
<1>6. Rooted'
  BY <1>1, <1>3, <1>4 DEF Rooted, Absolute
<1>7. NoLostPatch'
  BY <1>1, <1>3, <1>4 DEF NoLostPatch
<1>8. Filed'
  BY <1>1, <1>3, <1>4 DEF Filed
<1>9. \A c \in BackendIds : SamePlace(backends'[c], backends[c])
  BY <1>3 DEF SamePlace
<1> QED BY <1>3, <1>4, <1>5, <1>6, <1>7, <1>8, <1>9, StoreWrote
-----------------------------------------------------------------------------
(* Requests that end, fail or begin without touching a backend.            *)
LEMMA StoreReads ==
  ASSUME StoreInv, NEW s \in StoreSessions,
         \/ StoreCallFails(s)
         \/ \E b \in BackendIds, patch \in Patches : StorageBackendUpdate(s, b, patch)
         \/ AssetUpload(s)
  PROVE  StoreInv'
<1>0. StoreTypes /\ Filed /\ backends \in Seq(StorageBackend) /\ home \in Homes /\ uploads \in Nat
  BY DEF StoreInv, StoreTypes
<1>f. ASSUME UNCHANGED <<placed, moved, backends, files>> PROVE Filed'
  BY <1>0, <1>f DEF Filed, BackendIds
<1>1. CASE StoreCallFails(s)
  <2>1. StoreGoes(s, StoreIdle) /\ UNCHANGED <<backends, placed, uploads, files, home, asked, mixed, moved>>
    BY <1>1 DEF StoreCallFails
  <2>2. sreq' \in [StoreSessions -> StoreRequests] /\ sreq'[s] = StoreIdle /\ \A t \in StoreSessions \ {s} : sreq'[t] = sreq[t]
    BY <1>0, <2>1, RequestFacts, StoreSet
  <2>3. Fits(sreq[s])'
    BY <2>2, RequestFacts DEF Fits
  <2> QED BY <1>0, <1>f, <2>1, <2>2, <2>3, StoreQuiet
<1>2. ASSUME NEW b \in BackendIds, NEW patch \in Patches, StorageBackendUpdate(s, b, patch) PROVE StoreInv'
  <2> DEFINE row == Patched(backends[b], patch)
             r == StoreRequest("save", b, row, patch, 0)
  <2>0. b \in Nat /\ backends[b] \in StorageBackend /\ Absolute(backends[b])
    BY <1>0, ElementOfSeq DEF BackendIds, StoreInv, Rooted
  <2>1. /\ row \in StorageBackend /\ Absolute(row) /\ row = PatchedIn(home, backends[b], patch)
        /\ patch.col \in {"root", "type"} \/ SamePlace(row, backends[b])
    BY <1>0, <2>0, PatchFacts
  <2> HIDE DEF row
  <2>2. r \in StoreRequests
    BY <2>0, <2>1, RequestFacts
  <2>3. r.at = "save" /\ r.b = b /\ r.row = row /\ r.patch = patch
    BY DEF StoreRequest
  <2>4. StoreGoes(s, r) /\ UNCHANGED <<backends, placed, uploads, files, home, asked, mixed, moved>>
    BY <1>2 DEF StorageBackendUpdate, row
  <2> HIDE DEF r
  <2>5. sreq' \in [StoreSessions -> StoreRequests] /\ sreq'[s] = r /\ \A t \in StoreSessions \ {s} : sreq'[t] = sreq[t]
    BY <1>0, <2>2, <2>4, StoreSet
  <2>6. (sreq[s].b \in BackendIds /\ sreq[s].patch \in Patches /\ Absolute(sreq[s].row))'
    BY <2>1, <2>3, <2>4, <2>5 DEF BackendIds, Absolute
  <2>7. (sreq[s].patch.col \in {"root", "type"} \/ sreq[s].b \in moved \/ SamePlace(sreq[s].row, backends[sreq[s].b]))'
    BY <2>1, <2>3, <2>4, <2>5 DEF SamePlace
  <2>8. (sreq[s].row = PatchedIn(home, backends[sreq[s].b], sreq[s].patch))'
    BY <2>1, <2>3, <2>4, <2>5
  <2>9. SaveFits(sreq[s])'
    BY <2>6, <2>7, <2>8 DEF SaveFits
  <2>10. Fits(sreq[s])'
    BY <2>3, <2>5, <2>9 DEF Fits
  <2> QED BY <1>0, <1>f, <2>4, <2>5, <2>10, StoreQuiet
<1>3. CASE AssetUpload(s)
  <2> DEFINE r == StoreRequest("lookup", 0, NoRow, NoPatch, uploads + 1)
  <2>1. uploads' = uploads + 1 /\ StoreGoes(s, r) /\ UNCHANGED <<backends, placed, files, home, asked, mixed, moved>>
    BY <1>3 DEF AssetUpload
  <2>2. uploads + 1 \in Nat
    BY <1>0
  <2>3. r \in StoreRequests
    BY <2>2, RequestFacts DEF Uploading
  <2>4. r.at = "lookup"
    BY DEF StoreRequest
  <2> HIDE DEF r
  <2>5. sreq' \in [StoreSessions -> StoreRequests] /\ sreq'[s] = r /\ \A t \in StoreSessions \ {s} : sreq'[t] = sreq[t]
    BY <1>0, <2>1, <2>3, StoreSet
  <2>6. Fits(sreq[s])'
    BY <2>4, <2>5 DEF Fits
  <2> QED BY <1>f, <2>1, <2>2, <2>5, <2>6, StoreQuiet
<1> QED BY <1>1, <1>2, <1>3

(* An upload on its way to its backend and its row.                        *)
LEMMA StoreUploads ==
  ASSUME StoreInv, NEW s \in StoreSessions,
         ensureDefaultLocalBackend(s) \/ LookupFails(s) \/ WriteFile(s) \/ InsertAsset(s)
  PROVE  StoreInv'
<1>0. /\ StoreTypes /\ Filed /\ Rooted /\ backends \in Seq(StorageBackend) /\ home \in Homes /\ uploads \in Nat
      /\ sreq[s] \in StoreRequests /\ Fits(sreq[s])
  BY DEF StoreInv, StoreTypes
<1>f. ASSUME UNCHANGED <<placed, moved, backends>>, files \subseteq files' PROVE Filed'
  BY <1>0, <1>f DEF Filed, BackendIds
<1>u. ASSUME UNCHANGED backends PROVE Usable' = Usable /\ BackendIds' = BackendIds
  BY <1>u DEF Usable, BackendIds
<1>1. ASSUME sreq[s].at = "lookup", NEW b \in BackendIds, GetDefaultLocal(b),
             StoreGoes(s, [sreq[s] EXCEPT !.at = "write", !.b = b, !.row = backends[b], !.excused = FALSE]),
             UNCHANGED <<backends, placed, uploads, files, home, asked, mixed, moved>>
      PROVE  StoreInv'
  <2> DEFINE r == [sreq[s] EXCEPT !.at = "write", !.b = b, !.row = backends[b], !.excused = FALSE]
  <2>0. b \in Nat /\ backends[b] \in StorageBackend
    BY <1>0, ElementOfSeq DEF BackendIds
  <2>1. r \in StoreRequests /\ r.at = "write" /\ r.b = b /\ r.row = backends[b]
    BY <1>0, <2>0 DEF StoreRequests, Uploading
  <2> HIDE DEF r
  <2>2. sreq' \in [StoreSessions -> StoreRequests] /\ sreq'[s] = r /\ \A t \in StoreSessions \ {s} : sreq'[t] = sreq[t]
    BY <1>0, <1>1, <2>1, StoreSet DEF r
  <2>3. b \in Usable /\ backends[b].type = "local" /\ Absolute(backends[b])
    BY <1>0, <1>1 DEF GetDefaultLocal, Usable, Rooted
  <2>4. UploadFits(sreq[s])'
    BY <1>1, <1>u, <2>1, <2>2, <2>3 DEF UploadFits, Absolute, SamePlace
  <2>5. Fits(sreq[s])'
    BY <2>1, <2>2, <2>4 DEF Fits
  <2> QED BY <1>0, <1>1, <1>f, <2>2, <2>5, StoreQuiet
<1>2. ASSUME sreq[s].at = "lookup", NEW e \in BOOLEAN, Usable = {} \/ e,
             StoreGoes(s, [sreq[s] EXCEPT !.at = "add default", !.excused = e]),
             UNCHANGED <<backends, placed, uploads, files, home, asked, mixed, moved>>
      PROVE  StoreInv'
  <2> DEFINE r == [sreq[s] EXCEPT !.at = "add default", !.excused = e]
  <2>1. r \in StoreRequests /\ r.at = "add default" /\ r.excused = e
    BY <1>0 DEF StoreRequests, Uploading
  <2> HIDE DEF r
  <2>2. sreq' \in [StoreSessions -> StoreRequests] /\ sreq'[s] = r /\ \A t \in StoreSessions \ {s} : sreq'[t] = sreq[t]
    BY <1>0, <1>2, <2>1, StoreSet DEF r
  <2>3. (Usable = {} \/ sreq[s].excused)'
    BY <1>2, <1>u, <2>1, <2>2
  <2>5. Fits(sreq[s])'
    BY <2>1, <2>2, <2>3 DEF Fits
  <2> QED BY <1>0, <1>2, <1>f, <2>2, <2>5, StoreQuiet
<1>3. CASE ensureDefaultLocalBackend(s)
  <2>1. CASE ~\E b \in BackendIds : GetDefaultLocal(b)
    <3>1. Usable = {}
      BY <1>0, <2>1, OldestUsable
    <3>2. /\ sreq[s].at = "lookup" /\ StoreGoes(s, [sreq[s] EXCEPT !.at = "add default", !.excused = FALSE])
          /\ UNCHANGED <<backends, placed, uploads, files, home, asked, mixed, moved>>
      BY <1>3, <2>1 DEF ensureDefaultLocalBackend
    <3> QED BY <1>2, <3>1, <3>2
  <2>2. CASE \E b \in BackendIds : GetDefaultLocal(b)
    BY <1>1, <1>3, <2>2 DEF ensureDefaultLocalBackend
  <2> QED BY <2>1, <2>2
<1>4. CASE LookupFails(s)
  BY <1>2, <1>4 DEF LookupFails
<1>5. CASE WriteFile(s)
  <2> DEFINE r == [sreq[s] EXCEPT !.at = "insert asset"]
  <2>0. /\ sreq[s].at = "write" /\ StoreGoes(s, r) /\ UNCHANGED <<backends, placed, uploads, home, asked, mixed, moved>>
        /\ files' = files \cup {<<normalizeLocalRoot(sreq[s].row.root), sreq[s].asset>>}
    BY <1>5 DEF WriteFile
  <2>1. /\ r \in StoreRequests /\ r.at = "insert asset" /\ r.b = sreq[s].b /\ r.row = sreq[s].row
        /\ r.asset = sreq[s].asset /\ r.excused = sreq[s].excused
    BY <1>0 DEF StoreRequests, Uploading
  <2> HIDE DEF r
  <2>2. sreq' \in [StoreSessions -> StoreRequests] /\ sreq'[s] = r /\ \A t \in StoreSessions \ {s} : sreq'[t] = sreq[t]
    BY <1>0, <2>0, <2>1, StoreSet
  <2>3. UploadFits(sreq[s]) /\ normalizeLocalRoot(sreq[s].row.root) = sreq[s].row.root
    BY <1>0, <2>0 DEF Fits, UploadFits, Absolute, normalizeLocalRoot
  <2>4. (sreq[s].b \in BackendIds /\ sreq[s].row.type = "local" /\ Absolute(sreq[s].row))'
    BY <1>u, <2>0, <2>1, <2>2, <2>3 DEF UploadFits, Absolute
  <2>5. (sreq[s].b \in moved \/ SamePlace(sreq[s].row, backends[sreq[s].b]))'
    BY <2>0, <2>1, <2>2, <2>3 DEF UploadFits, SamePlace
  <2>e. sreq[s].b \in Usable \/ sreq[s].excused
    BY <2>3 DEF UploadFits
  <2>g. Usable' = Usable /\ sreq'[s].b = sreq[s].b /\ sreq'[s].excused = sreq[s].excused
    BY <1>u, <2>0, <2>1, <2>2
  <2>6. (sreq[s].b \in Usable \/ sreq[s].excused)'
    BY <2>e, <2>g
  <2>7. UploadFits(sreq[s])'
    BY <2>4, <2>5, <2>6 DEF UploadFits
  <2>8. <<sreq'[s].row.root, sreq'[s].asset>> \in files' /\ files \subseteq files'
    BY <2>0, <2>1, <2>2, <2>3
  <2>9. Fits(sreq[s])'
    BY <2>1, <2>2, <2>7, <2>8 DEF Fits
  <2> QED BY <1>0, <1>f, <2>0, <2>2, <2>8, <2>9, StoreQuiet
<1>6. CASE InsertAsset(s)
  <2>0. /\ sreq[s].at = "insert asset" /\ StoreGoes(s, StoreIdle)
        /\ UNCHANGED <<backends, uploads, files, home, asked, mixed, moved>>
        /\ placed' = Put(placed, sreq[s].asset, sreq[s].b)
    BY <1>6 DEF InsertAsset
  <2>1. sreq' \in [StoreSessions -> StoreRequests] /\ sreq'[s] = StoreIdle /\ \A t \in StoreSessions \ {s} : sreq'[t] = sreq[t]
    BY <1>0, <2>0, RequestFacts, StoreSet
  <2>2. Fits(sreq[s])'
    BY <2>1, RequestFacts DEF Fits
  <2>3. UploadFits(sreq[s]) /\ <<sreq[s].row.root, sreq[s].asset>> \in files
    BY <1>0, <2>0 DEF Fits
  <2>4. Filed'
    <3> SUFFICES ASSUME NEW a \in DOMAIN placed'
                 PROVE  /\ placed'[a] \in BackendIds
                        /\ \/ placed'[a] \in moved
                           \/ backends[placed'[a]].type = "local" /\ <<backends[placed'[a]].root, a>> \in files
      BY <2>0 DEF Filed, BackendIds
    <3>1. CASE a = sreq[s].asset
      <4>1. placed'[a] = sreq[s].b
        BY <2>0, <3>1 DEF Put
      <4> QED BY <2>3, <3>1, <4>1 DEF UploadFits, SamePlace
    <3>2. CASE a # sreq[s].asset
      <4>1. a \in DOMAIN placed /\ placed'[a] = placed[a]
        BY <2>0, <3>2 DEF Put
      <4> QED BY <1>0, <4>1 DEF Filed
    <3> QED BY <3>1, <3>2
  <2> QED BY <1>0, <2>0, <2>1, <2>2, <2>4, StoreQuiet
<1> QED BY <1>3, <1>4, <1>5, <1>6

(* The id the next backend gets.                                           *)
LEMMA NextId ==
  ASSUME StoreTypes
  PROVE  Len(backends) + 1 \in Nat /\ Len(backends) + 1 \in 1..(Len(backends) + 1)
<1>1. Len(backends) \in Nat
  BY LenProperties DEF StoreTypes
<1> QED BY <1>1

(* A client adds a backend, or an upload adds the default one.             *)
LEMMA StoreCreates ==
  ASSUME StoreInv, NEW s \in StoreSessions,
         \/ \E row \in [type : Types, root : [base : {""}, name : RootNames], enabled : BOOLEAN, readonly : {FALSE}] :
              StorageBackendCreate(s, row)
         \/ AddDefault(s)
  PROVE  StoreInv'
<1>0. StoreTypes /\ home \in Homes /\ sreq[s] \in StoreRequests /\ Len(backends) \in Nat /\ backends \in Seq(StorageBackend)
  BY LenProperties DEF StoreInv, StoreTypes
<1>1. ASSUME NEW row \in [type : Types, root : [base : {""}, name : RootNames], enabled : BOOLEAN, readonly : {FALSE}],
             StorageBackendCreate(s, row)
      PROVE  StoreInv'
  <2> DEFINE new == Normalized(row)
  <2>1. row \in StorageBackend
    BY DEF StorageBackend, Roots
  <2>2. new \in StorageBackend /\ Absolute(new)
    BY <1>0, <2>1, NormalizeFacts
  <2> HIDE DEF new
  <2>3. Stored(new) \in StorageBackend /\ Absolute(Stored(new))
    BY <2>2 DEF Stored, StorageBackend, Absolute
  <2>4. /\ backends' = Append(backends, Stored(new)) /\ asked' = Append(asked, Stored(new))
        /\ Wrote(s, StoreIdle, Len(backends) + 1) /\ UNCHANGED <<placed, uploads, files, home, mixed, moved>>
    BY <1>1 DEF StorageBackendCreate, new
  <2>5. sreq'[s] = StoreIdle
    BY <1>0, <2>4, RequestFacts, WroteTypes
  <2>6. Fits(sreq[s])'
    BY <2>5, RequestFacts DEF Fits
  <2> QED BY <2>3, <2>4, <2>6, RequestFacts, StoreAdds
<1>b. Len(backends) + 1 \in Nat /\ Len(backends) + 1 \in 1..(Len(backends) + 1)
  BY <1>0, NextId
<1>2. CASE AddDefault(s)
  <2> DEFINE raw == [type |-> "local", root |-> [base |-> "", name |-> ""], enabled |-> TRUE, readonly |-> FALSE]
             new == Normalized(raw)
             b == Len(backends) + 1
             r == [sreq[s] EXCEPT !.at = "write", !.b = b, !.row = new, !.excused = FALSE]
  <2>1. raw \in StorageBackend /\ raw.type = "local" /\ raw.enabled = TRUE /\ raw.readonly = FALSE
    BY DEF StorageBackend, Types, Roots, RootNames
  <2> HIDE DEF raw
  <2>2. new \in StorageBackend /\ Absolute(new) /\ new.type = "local" /\ new.enabled = TRUE /\ new.readonly = FALSE
    BY <1>0, <2>1, NormalizeFacts
  <2> HIDE DEF new
  <2>3. /\ backends' = Append(backends, new) /\ asked' = Append(asked, new)
        /\ Wrote(s, r, b) /\ UNCHANGED <<placed, uploads, files, home, mixed, moved>>
    BY <1>2, Zenon DEF AddDefault, raw, new
  <2>4. b \in Nat /\ b \in 1..b
    BY <1>b
  <2>5. r \in StoreRequests /\ r.at = "write" /\ r.b = b /\ r.row = new
    BY <1>0, <2>2, <2>4 DEF StoreRequests, Uploading
  <2>6. sreq'[s] = r
    BY <1>0, <2>3, <2>5, WroteTypes
  <2>7. Len(backends') = b /\ backends'[b] = new
    BY <1>0, <2>2, <2>3, AppendRow
  <2> HIDE DEF r, b
  <2>8. b \in BackendIds'
    BY <2>4, <2>7 DEF BackendIds
  <2>u. b \in Usable'
    BY <2>2, <2>7, <2>8 DEF Usable
  <2>g. sreq'[s].at = "write" /\ sreq'[s].b = b /\ sreq'[s].row = new
    BY <2>5, <2>6
  <2>h. (sreq[s].b \in BackendIds /\ sreq[s].row.type = "local" /\ Absolute(sreq[s].row))'
    BY <2>2, <2>8, <2>g DEF Absolute
  <2>i. (SamePlace(sreq[s].row, backends[sreq[s].b]))'
    BY <2>7, <2>g DEF SamePlace
  <2>j. (sreq[s].b \in Usable)'
    BY <2>u, <2>g
  <2>9. UploadFits(sreq[s])'
    BY <2>h, <2>i, <2>j DEF UploadFits
  <2>10. Fits(sreq[s])'
    BY <2>9, <2>g DEF Fits
  <2> QED BY <2>2, <2>3, <2>5, <2>10, StoreAdds DEF b
<1> QED BY <1>1, <1>2

(* A changed row is saved.                                                 *)
LEMMA StoreSaves ==
  ASSUME StoreInv, NEW s \in StoreSessions, SaveBackend(s)
  PROVE  StoreInv'
<1> DEFINE r == sreq[s]
           b == sreq[s].b
<1>0. /\ StoreTypes /\ Rooted /\ Filed /\ NoLostPatch /\ home \in Homes
      /\ backends \in Seq(StorageBackend) /\ asked \in Seq(StorageBackend) /\ Len(asked) = Len(backends)
      /\ r \in StoreRequests /\ r.row \in StorageBackend /\ Fits(r)
  BY DEF StoreInv, StoreTypes, StoreRequests
<1>1. /\ r.at = "save" /\ backends' = [backends EXCEPT ![b] = r.row]
      /\ asked' = [asked EXCEPT ![b] = Patched(@, r.patch)]
      /\ mixed' = (IF r.over THEN mixed \cup {b} ELSE mixed)
      /\ moved' = (IF r.patch.col \in {"root", "type"} THEN moved \cup {b} ELSE moved)
      /\ Wrote(s, StoreIdle, b) /\ UNCHANGED <<placed, uploads, files, home>>
  BY DEF SaveBackend
<1>2. SaveFits(r)
  BY <1>0, <1>1 DEF Fits
<1>3. b \in BackendIds /\ r.patch \in Patches /\ Absolute(r.row)
  BY <1>2 DEF SaveFits
<1>4. b \in 1..Len(backends) /\ backends[b] \in StorageBackend /\ asked[b] \in StorageBackend
  BY <1>0, <1>3, ElementOfSeq DEF BackendIds
<1>5. Patched(asked[b], r.patch) \in StorageBackend /\ Patched(asked[b], r.patch) = PatchedIn(home, asked[b], r.patch)
  BY <1>0, <1>3, <1>4, PatchFacts
<1>6. /\ backends' \in Seq(StorageBackend) /\ Len(backends') = Len(backends)
      /\ backends'[b] = r.row /\ \A c \in BackendIds : c # b => backends'[c] = backends[c]
  BY <1>0, <1>1, <1>4, ExceptSeq DEF BackendIds
<1>7. /\ asked' \in Seq(StorageBackend) /\ Len(asked') = Len(asked)
      /\ asked'[b] = Patched(asked[b], r.patch) /\ \A c \in BackendIds : c # b => asked'[c] = asked[c]
  BY <1>0, <1>1, <1>4, <1>5, ExceptSeq DEF BackendIds
<1>8. BackendIds' = BackendIds
  BY <1>6 DEF BackendIds
<1>9. sreq' \in [StoreSessions -> StoreRequests] /\ sreq'[s] = StoreIdle
  BY <1>0, <1>1, RequestFacts, WroteTypes
<1>10. Fits(sreq[s])'
  BY <1>9, RequestFacts DEF Fits
<1>11. StoreTypes'
  BY <1>0, <1>1, <1>6, <1>7, <1>9 DEF StoreTypes
<1>12. Rooted'
  BY <1>0, <1>3, <1>6, <1>8 DEF Rooted, Absolute
<1>13. NoLostPatch'
  <2> SUFFICES ASSUME NEW c \in BackendIds PROVE backends'[c] = asked'[c] \/ c \in mixed'
    BY <1>8 DEF NoLostPatch
  <2>0. (backends[c] = asked[c] \/ c \in mixed) /\ mixed \subseteq mixed'
    BY <1>0, <1>1 DEF NoLostPatch
  <2>1. CASE c # b
    BY <1>6, <1>7, <2>0, <2>1
  <2>2. CASE c = b /\ r.over
    BY <1>1, <2>2
  <2>3. CASE c = b /\ ~r.over
    <3>1. r.row = PatchedIn(home, backends[b], r.patch)
      BY <1>2, <2>3 DEF SaveFits
    <3> QED BY <1>5, <1>6, <1>7, <2>0, <2>3, <3>1
  <2> QED BY <2>1, <2>2, <2>3
<1>14. moved \subseteq moved'
  BY <1>1
<1>15. \A c \in BackendIds : c \in moved' \/ SamePlace(backends'[c], backends[c])
  <2> SUFFICES ASSUME NEW c \in BackendIds PROVE c \in moved' \/ SamePlace(backends'[c], backends[c])
    OBVIOUS
  <2>1. CASE c # b
    BY <1>6, <2>1 DEF SamePlace
  <2>2. CASE c = b
    <3>1. r.patch.col \in {"root", "type"} \/ b \in moved \/ SamePlace(r.row, backends[b])
      BY <1>2 DEF SaveFits
    <3> QED BY <1>1, <1>6, <1>14, <2>2, <3>1
  <2> QED BY <2>1, <2>2
<1>16. Filed'
  <2> SUFFICES ASSUME NEW a \in DOMAIN placed
               PROVE  /\ placed[a] \in BackendIds
                      /\ \/ placed[a] \in moved'
                         \/ backends'[placed[a]].type = "local" /\ <<backends'[placed[a]].root, a>> \in files
    BY <1>1, <1>8 DEF Filed
  <2>1. /\ placed[a] \in BackendIds
        /\ \/ placed[a] \in moved
           \/ backends[placed[a]].type = "local" /\ <<backends[placed[a]].root, a>> \in files
    BY <1>0 DEF Filed
  <2>2. placed[a] \in moved' \/ SamePlace(backends'[placed[a]], backends[placed[a]])
    BY <1>15, <2>1
  <2> QED BY <1>14, <2>1, <2>2 DEF SamePlace
<1>17. \A c \in BackendIds : c = b \/ backends'[c] = backends[c]
  BY <1>6
<1> HIDE DEF r, b
<1> QED BY <1>1, <1>8, <1>10, <1>11, <1>12, <1>13, <1>14, <1>15, <1>16, <1>17, StoreWrote

(* The server is started again: no request survives it.                    *)
LEMMA StoreRestarts ==
  ASSUME StoreInv, NEW h \in Homes, StoreRestart(h)
  PROVE  StoreInv'
<1>0. /\ home' = h /\ sreq' = [s \in StoreSessions |-> StoreIdle]
      /\ UNCHANGED <<backends, placed, uploads, files, asked, mixed, moved>>
  BY DEF StoreRestart
<1>1. StoreTypes'
  BY <1>0, RequestFacts DEF StoreInv, StoreTypes
<1>2. Rooted' /\ Filed' /\ NoLostPatch'
  BY <1>0 DEF StoreInv, Rooted, Filed, NoLostPatch, BackendIds
<1>3. ASSUME NEW s \in StoreSessions PROVE Fits(sreq[s])'
  BY <1>0, RequestFacts DEF Fits
<1> QED BY <1>1, <1>2, <1>3 DEF StoreInv

(* A step that changes nothing.                                            *)
LEMMA StoreStutters ==
  ASSUME StoreInv, UNCHANGED storeVars
  PROVE  StoreInv'
<1>0. UNCHANGED <<backends, placed, uploads, files, home, sreq, asked, mixed, moved>>
  BY DEF storeVars
<1>1. StoreTypes' /\ Rooted' /\ Filed' /\ NoLostPatch'
  BY <1>0 DEF StoreInv, StoreTypes, Rooted, Filed, NoLostPatch, BackendIds
<1>2. Usable' = Usable /\ BackendIds' = BackendIds
  BY <1>0 DEF Usable, BackendIds
<1>3. ASSUME NEW s \in StoreSessions PROVE Fits(sreq[s])'
  <2>1. Fits(sreq[s])
    BY DEF StoreInv
  <2>2. SaveFits(sreq[s]) => SaveFits(sreq[s])'
    BY <1>0, <1>2 DEF SaveFits, Absolute, SamePlace
  <2>3. UploadFits(sreq[s]) => UploadFits(sreq[s])'
    BY <1>0, <1>2 DEF UploadFits, Absolute, SamePlace
  <2> QED BY <1>0, <1>2, <2>1, <2>2, <2>3 DEF Fits
<1> QED BY <1>1, <1>3 DEF StoreInv

(* Every step of the storage requests, and of the server under them, keeps *)
(* StoreInv.                                                               *)
LEMMA StoreInvariant == StoreSpec => []StoreInv
<1>1. ASSUME StoreInit PROVE StoreInv
  <2>0. backends = <<>> /\ asked = <<>> /\ placed = <<>> /\ uploads = 0 /\ home \in Homes
        /\ sreq = [s \in StoreSessions |-> StoreIdle]
    BY <1>1 DEF StoreInit
  <2>1. Len(backends) = 0 /\ backends \in Seq(StorageBackend) /\ BackendIds = {} /\ DOMAIN placed = {}
    BY <2>0, EmptySeq DEF BackendIds
  <2>2. StoreTypes
    BY <2>0, <2>1, RequestFacts DEF StoreTypes
  <2>3. Rooted /\ Filed /\ NoLostPatch
    BY <2>1 DEF Rooted, Filed, NoLostPatch
  <2>4. ASSUME NEW s \in StoreSessions PROVE Fits(sreq[s])
    BY <2>0, RequestFacts DEF Fits
  <2> QED BY <2>2, <2>3, <2>4 DEF StoreInv
<1>2. ASSUME StoreInv, [StoreNext]_storeVars PROVE StoreInv'
  <2>1. ASSUME NEW h \in Homes, StoreRestart(h) PROVE StoreInv'
    BY <1>2, <2>1, StoreRestarts
  <2>2. ASSUME NEW s \in StoreSessions,
               \/ StoreCallFails(s)
               \/ \E b \in BackendIds, patch \in Patches : StorageBackendUpdate(s, b, patch)
               \/ AssetUpload(s)
        PROVE  StoreInv'
    BY <1>2, <2>2, StoreReads
  <2>3. ASSUME NEW s \in StoreSessions,
               ensureDefaultLocalBackend(s) \/ LookupFails(s) \/ WriteFile(s) \/ InsertAsset(s)
        PROVE  StoreInv'
    BY <1>2, <2>3, StoreUploads
  <2>4. ASSUME NEW s \in StoreSessions,
               \/ \E row \in [type : Types, root : [base : {""}, name : RootNames], enabled : BOOLEAN, readonly : {FALSE}] :
                    StorageBackendCreate(s, row)
               \/ AddDefault(s)
        PROVE  StoreInv'
    BY <1>2, <2>4, StoreCreates
  <2>5. ASSUME NEW s \in StoreSessions, SaveBackend(s) PROVE StoreInv'
    BY <1>2, <2>5, StoreSaves
  <2>6. CASE UNCHANGED storeVars
    BY <1>2, <2>6, StoreStutters
  <2> QED BY <1>2, <2>1, <2>2, <2>3, <2>4, <2>5, <2>6 DEF StoreNext
<1> QED BY <1>1, <1>2, PTL DEF StoreSpec

(* The content of every asset stays where its row leads, through failed    *)
(* calls, requests of others and restarts in other directories, as long as *)
(* no client gives its backend another root or type.                       *)
THEOREM ContentStays == StoreSpec => []ContentReachable
<1>1. ASSUME StoreInv PROVE ContentReachable
  <2> SUFFICES ASSUME NEW a \in DOMAIN placed, placed[a] \notin moved PROVE AssetContentPath(a)
    BY DEF ContentReachable
  <2>1. /\ placed[a] \in BackendIds
        /\ backends[placed[a]].type = "local" /\ <<backends[placed[a]].root, a>> \in files
    BY <1>1 DEF StoreInv, Filed
  <2>2. localObjectPath(placed[a]) = backends[placed[a]].root
    BY <1>1, <2>1 DEF StoreInv, Rooted, Absolute, localObjectPath, normalizeLocalRoot
  <2> QED BY <2>1, <2>2 DEF AssetContentPath
<1> QED BY <1>1, StoreInvariant, PTL

(* A second default backend is added, an asset recorded on a backend that  *)
(* is not to be written, or an update undone by another, only when         *)
(* requests overlap or a lookup fails.                                     *)
THEOREM PlacementsExplained == StoreSpec => BackendsExplained
<1>1. ASSUME StoreInv PROVE PlacementExplained
  <2> SUFFICES ASSUME NEW s \in StoreSessions
               PROVE  /\ AddDefault(s) => Usable = {} \/ sreq[s].excused
                      /\ InsertAsset(s) => sreq[s].b \in Usable \/ sreq[s].excused
    BY DEF PlacementExplained
  <2>0. Fits(sreq[s])
    BY <1>1 DEF StoreInv
  <2>1. AddDefault(s) => sreq[s].at = "add default"
    BY DEF AddDefault
  <2>2. InsertAsset(s) => sreq[s].at = "insert asset"
    BY DEF InsertAsset
  <2> QED BY <2>0, <2>1, <2>2 DEF Fits, UploadFits
<1>2. StoreInv => NoLostPatch
  BY DEF StoreInv
<1> QED BY <1>1, <1>2, StoreInvariant, PTL DEF BackendsExplained
-----------------------------------------------------------------------------
(* The upserts under way, and the table's type. *)
Upserting == {"insert setting", "lock setting", "update setting"}
SsoRequested(r) ==
  /\ r = [at |-> r.at, kind |-> r.kind, content |-> r.content, row |-> r.row,
          new |-> r.new, rivals |-> r.rivals]
  /\ r.at \in Upserting /\ r.kind \in Kinds

SsoTypes ==
  /\ DOMAIN settings \subseteq RowIds
  /\ \A i \in DOMAIN settings : settings[i] = [name |-> settings[i].name, extend |-> settings[i].extend]
  /\ xreq = [s \in SsoSessions |-> xreq[s]]
  /\ \A s \in SsoSessions : xreq[s] = SsoIdle \/ SsoRequested(xreq[s])
  /\ latest = [k \in Kinds |-> latest[k]]
  /\ rivals = [k \in Kinds |-> rivals[k]]

(* The rows of its kind an upsert does not know, or that come before the   *)
(* one it found, others have inserted and written since it looked.         *)
UpsertFits(r, table) ==
  r.at \in Upserting =>
    /\ r.at # "insert setting" => r.row \in DOMAIN table /\ table[r.row].name = r.kind
    /\ \A j \in DOMAIN table :
         table[j].name = r.kind /\ (r.at = "insert setting" \/ j < r.row) => j \in r.new /\ table[j].extend \in r.rivals

SsoInv == SsoTypes /\ SettingIsLatest /\ \A s \in SsoSessions : UpsertFits(xreq[s], settings)

(* The first of some rows is the one with the least id. *)
LEMMA FirstFound ==
  ASSUME NEW ids, ids \subseteq RowIds, ids # {}
  PROVE  First(ids) \in ids /\ \A j \in ids : First(ids) <= j
<1>1. ids \subseteq Nat
  BY SsoAssumption DEF SsoAssumption
<1>2. PICK x \in ids : \A y \in ids : <<y, x>> \notin OpToRel(<, Nat)
  BY <1>1, NatLessThanWellFounded, WFMin
<1>3. \A y \in ids : ~(y < x)
  BY <1>1, <1>2 DEF OpToRel
<1>4. \A y \in ids : x <= y
  BY <1>1, <1>3
<1> QED
  BY <1>4 DEF First

(* An upsert that gets its lock is the same upsert.                        *)
LEMMA LockedUpsert ==
  ASSUME NEW r, SsoRequested(r), NEW q, q = [r EXCEPT !.at = "update setting"]
  PROVE  /\ SsoRequested(q) /\ q.at = "update setting" /\ q.kind = r.kind /\ q.row = r.row
         /\ q.new = r.new /\ q.rivals = r.rivals
<1>1. q = [at |-> "update setting", kind |-> r.kind, content |-> r.content, row |-> r.row,
           new |-> r.new, rivals |-> r.rivals]
  BY DEF SsoRequested
<1>2. /\ q.at = "update setting" /\ q.kind = r.kind /\ q.content = r.content /\ q.row = r.row
      /\ q.new = r.new /\ q.rivals = r.rivals
  BY <1>1
<1>3. q = [at |-> q.at, kind |-> q.kind, content |-> q.content, row |-> q.row, new |-> q.new, rivals |-> q.rivals]
  BY <1>1, <1>2
<1>4. SsoRequested(q)
  BY <1>2, <1>3 DEF SsoRequested, Upserting
<1> QED
  BY <1>2, <1>4

(* An upsert beside which others write learns what they wrote, no more.    *)
LEMMA OvertakenUpsert ==
  ASSUME NEW r, SsoRequested(r), NEW rows, NEW c, NEW q, q = Overtaken(r, rows, c)
  PROVE  /\ SsoRequested(q) /\ q.at = r.at /\ q.kind = r.kind /\ q.row = r.row
         /\ q.new = r.new \cup rows /\ q.rivals = r.rivals \cup {c}
<1>1. q = [at |-> r.at, kind |-> r.kind, content |-> r.content, row |-> r.row,
           new |-> r.new \cup rows, rivals |-> r.rivals \cup {c}]
  BY DEF SsoRequested, Overtaken
<1>2. /\ q.at = r.at /\ q.kind = r.kind /\ q.content = r.content /\ q.row = r.row
      /\ q.new = r.new \cup rows /\ q.rivals = r.rivals \cup {c}
  BY <1>1
<1>3. q = [at |-> q.at, kind |-> q.kind, content |-> q.content, row |-> q.row, new |-> q.new, rivals |-> q.rivals]
  BY <1>1, <1>2
<1>4. SsoRequested(q)
  BY <1>2, <1>3 DEF SsoRequested
<1> QED
  BY <1>2, <1>4

(* An idle session has found nothing yet. *)
LEMMA IdleFits == (\A table : UpsertFits(SsoIdle, table)) /\ SsoIdle.at = "idle"
BY DEF UpsertFits, Upserting, SsoIdle

(* A step that only moves the upsert of s. *)
LEMMA SsoQuiet ==
  ASSUME SsoInv, NEW s \in SsoSessions, NEW r, SsoGoes(s, r),
         r = SsoIdle \/ SsoRequested(r), UpsertFits(r, settings),
         UNCHANGED <<settings, latest, rivals>>
  PROVE  SsoInv'
<1>1. xreq' = [t \in SsoSessions |-> IF t = s THEN r ELSE xreq[t]]
  BY DEF SsoGoes, SsoInv, SsoTypes
<1>2. SsoTypes'
  <2>1. \A t \in SsoSessions : xreq'[t] = SsoIdle \/ SsoRequested(xreq'[t])
    BY <1>1 DEF SsoInv, SsoTypes
  <2>2. xreq' = [t \in SsoSessions |-> xreq'[t]]
    BY <1>1
  <2>3. \A t \in SsoSessions : (xreq[t] = SsoIdle \/ SsoRequested(xreq[t]))'
    BY <2>1 DEF SsoRequested
  <2> QED
    BY <2>2, <2>3 DEF SsoInv, SsoTypes
<1>3. SettingIsLatest'
  BY DEF SsoInv, SettingIsLatest, GetByName, Rows
<1>4. \A t \in SsoSessions : UpsertFits(xreq'[t], settings')
  BY <1>1 DEF SsoInv
<1>5. \A t \in SsoSessions : UpsertFits(xreq[t], settings)'
  BY <1>4 DEF UpsertFits
<1> QED
  BY <1>2, <1>3, <1>5 DEF SsoInv

(* The lookup, the lock and a failing call. *)
LEMMA SsoReads ==
  ASSUME SsoInv, NEW s \in SsoSessions,
         SsoCallFails(s) \/ LockSetting(s) \/ \E k \in Kinds, c \in Contents : MetadataUpsert(s, k, c)
  PROVE  SsoInv'
<1>1. CASE SsoCallFails(s)
  BY <1>1, IdleFits, SsoQuiet DEF SsoCallFails
<1>2. CASE LockSetting(s)
  <2> DEFINE r == [xreq[s] EXCEPT !.at = "update setting"]
  <2>1. xreq[s].at = "lock setting" /\ UpsertFits(xreq[s], settings)
    BY <1>2 DEF LockSetting, SsoInv
  <2>2. SsoRequested(xreq[s])
    BY <2>1, IdleFits DEF SsoInv, SsoTypes
  <2>3. /\ SsoRequested(r) /\ r.at = "update setting" /\ r.kind = xreq[s].kind /\ r.row = xreq[s].row
        /\ r.new = xreq[s].new /\ r.rivals = xreq[s].rivals
    BY <2>2, LockedUpsert
  <2> HIDE DEF r
  <2>4. UpsertFits(r, settings)
    BY <2>1, <2>3 DEF UpsertFits, Upserting
  <2>5. SsoGoes(s, r) /\ UNCHANGED <<settings, latest, rivals>>
    BY <1>2 DEF LockSetting, SsoGoes, r
  <2> QED
    BY <2>3, <2>4, <2>5, SsoQuiet
<1>3. ASSUME NEW k \in Kinds, NEW c \in Contents, MetadataUpsert(s, k, c) PROVE SsoInv'
  <2>1. CASE Rows(k) = {}
    <3> DEFINE r == Upsert("insert setting", k, c, 0)
    <3>1. SsoRequested(r) /\ r.at = "insert setting" /\ r.kind = k
      BY DEF Upsert, SsoRequested, Upserting
    <3> HIDE DEF r
    <3>2. UpsertFits(r, settings)
      BY <2>1, <3>1 DEF UpsertFits, Rows
    <3>3. SsoGoes(s, r) /\ UNCHANGED <<settings, latest, rivals>>
      BY <1>3, <2>1 DEF MetadataUpsert, r
    <3> QED
      BY <3>1, <3>2, <3>3, SsoQuiet
  <2>2. CASE Rows(k) # {}
    <3> DEFINE r == Upsert("lock setting", k, c, First(Rows(k)))
    <3>1. SsoRequested(r) /\ r.at = "lock setting" /\ r.kind = k /\ r.row = First(Rows(k))
      BY DEF Upsert, SsoRequested, Upserting
    <3> HIDE DEF r
    <3>2. First(Rows(k)) \in Rows(k) /\ \A j \in Rows(k) : First(Rows(k)) <= j
      BY <2>2, FirstFound DEF Rows, SsoInv, SsoTypes
    <3>3. Rows(k) \subseteq Nat
      BY SsoAssumption DEF SsoAssumption, SsoInv, SsoTypes, Rows
    <3>4. ASSUME NEW j \in Rows(k) PROVE ~(j < First(Rows(k)))
      <4>1. j \in Nat /\ First(Rows(k)) \in Nat /\ First(Rows(k)) <= j
        BY <3>2, <3>3
      <4> QED
        BY <4>1
    <3>5. UpsertFits(r, settings)
      BY <3>1, <3>2, <3>4 DEF UpsertFits, Rows
    <3>6. SsoGoes(s, r) /\ UNCHANGED <<settings, latest, rivals>>
      BY <1>3, <2>2 DEF MetadataUpsert, r
    <3> QED
      BY <3>1, <3>5, <3>6, SsoQuiet
  <2> QED
    BY <2>1, <2>2
<1> QED
  BY <1>1, <1>2, <1>3

(* The row an upsert writes: a new one, or the one it has locked. *)
Written(r, i) ==
  \/ r.at = "insert setting" /\ i \notin DOMAIN settings
  \/ r.at = "update setting" /\ i = r.row /\ i \in DOMAIN settings

(* An upsert commits: its row has its content, the other rows are as they  *)
(* were, and the upserts of its kind under way take notice.                *)
LEMMA SsoCommits ==
  ASSUME SsoInv, NEW s \in SsoSessions, SsoRequested(xreq[s]), Commits(s),
         NEW i \in RowIds, DOMAIN settings' = DOMAIN settings \cup {i},
         settings'[i] = [name |-> xreq[s].kind, extend |-> xreq[s].content],
         \A j \in DOMAIN settings \ {i} : settings'[j] = settings[j],
         Written(xreq[s], i)
  PROVE  SsoInv'
<1> DEFINE k == xreq[s].kind
           c == xreq[s].content
           inserted == DOMAIN settings' \ DOMAIN settings
<1>1. /\ k \in Kinds /\ DOMAIN settings \subseteq RowIds /\ RowIds \subseteq Nat
      /\ latest = [q \in Kinds |-> latest[q]] /\ rivals = [q \in Kinds |-> rivals[q]]
      /\ \A t \in SsoSessions : UpsertFits(xreq[t], settings) /\ (xreq[t] = SsoIdle \/ SsoRequested(xreq[t]))
  BY SsoAssumption DEF SsoAssumption, SsoInv, SsoTypes, SsoRequested
<1>2. /\ latest' = [latest EXCEPT ![k] = c]
      /\ rivals' = [rivals EXCEPT ![k] = IF xreq[s].new # {} THEN xreq[s].rivals ELSE {}]
      /\ xreq' = [t \in SsoSessions |->
                    IF t = s THEN SsoIdle
                    ELSE IF xreq[t].at # "idle" /\ xreq[t].kind = k
                           THEN Overtaken(xreq[t], inserted, c)
                           ELSE xreq[t]]
  BY DEF Commits
<1>3. i \in DOMAIN settings => settings[i].name = k
  BY <1>1 DEF UpsertFits, Upserting, Written
<1>4. settings'[i].name = k /\ settings'[i].extend = c
  OBVIOUS
<1>5. i \in inserted \/ i \in DOMAIN settings
  OBVIOUS
<1> HIDE DEF k, c, inserted
<1>6. \A j \in DOMAIN settings' :
        IF j = i THEN settings'[j].name = k /\ settings'[j].extend = c
                 ELSE j \in DOMAIN settings /\ settings'[j] = settings[j]
  BY <1>4
<1> DEFINE Told(t) == Overtaken(xreq[t], inserted, c)
<1>7. ASSUME NEW t \in SsoSessions, SsoRequested(xreq[t])
      PROVE  /\ SsoRequested(Told(t))
             /\ Told(t).at = xreq[t].at /\ Told(t).kind = xreq[t].kind /\ Told(t).row = xreq[t].row
             /\ Told(t).new = xreq[t].new \cup inserted /\ Told(t).rivals = xreq[t].rivals \cup {c}
  BY <1>7, OvertakenUpsert
<1>8. ASSUME NEW t \in SsoSessions, SsoRequested(xreq[t])
      PROVE  xreq'[t] = IF t = s THEN SsoIdle ELSE IF xreq[t].kind = k THEN Told(t) ELSE xreq[t]
  <2>1. xreq[t].at # "idle"
    BY <1>8 DEF SsoRequested, Upserting
  <2> QED
    BY <1>2, <2>1
<1>9. ASSUME NEW t \in SsoSessions, xreq[t] = SsoIdle PROVE xreq'[t] = SsoIdle
  BY <1>2, <1>9, IdleFits
<1> HIDE DEF Told
<1>10. ASSUME NEW t \in SsoSessions
      PROVE  \/ xreq'[t] = SsoIdle
             \/ t # s /\ xreq[t].kind = k /\ xreq'[t] = Told(t) /\ SsoRequested(xreq[t])
             \/ t # s /\ xreq[t].kind # k /\ xreq'[t] = xreq[t] /\ SsoRequested(xreq[t])
  BY <1>1, <1>8, <1>9
<1>11. SsoTypes'
  <2>1. \A t \in SsoSessions : xreq'[t] = SsoIdle \/ SsoRequested(xreq'[t])
    BY <1>7, <1>10
  <2>2. \A t \in SsoSessions : (xreq[t] = SsoIdle \/ SsoRequested(xreq[t]))'
    BY <2>1 DEF SsoRequested
  <2>3. \A j \in DOMAIN settings' : settings'[j] = [name |-> settings'[j].name, extend |-> settings'[j].extend]
    BY <1>6 DEF SsoInv, SsoTypes
  <2>4. xreq' = [t \in SsoSessions |-> xreq'[t]]
    BY <1>2
  <2>5. latest' = [q \in Kinds |-> latest'[q]] /\ rivals' = [q \in Kinds |-> rivals'[q]]
    BY <1>1, <1>2
  <2>6. DOMAIN settings' \subseteq RowIds
    BY <1>1
  <2> QED
    BY <2>2, <2>3, <2>4, <2>5, <2>6 DEF SsoTypes
<1>12. SettingIsLatest'
  <2> SUFFICES ASSUME NEW q \in Kinds PROVE GetByName(q)' \in {latest'[q]} \cup rivals'[q]
    BY DEF SettingIsLatest
  <2> DEFINE rows == {j \in DOMAIN settings' : settings'[j].name = q}
  <2>1. GetByName(q)' = IF rows = {} THEN Nothing ELSE settings'[First(rows)].extend
    BY DEF GetByName, Rows
  <2>2. rows # {} => First(rows) \in rows /\ \A j \in rows : First(rows) <= j
    BY <1>1, FirstFound
  <2>3. CASE q = k
    <3>1. i \in rows
      BY <1>6, <2>3
    <3>2. First(rows) \in rows /\ First(rows) <= i
      BY <2>2, <3>1
    <3>3. latest'[q] = c /\ rivals'[q] = IF xreq[s].new # {} THEN xreq[s].rivals ELSE {}
      BY <1>1, <1>2, <2>3
    <3>4. CASE First(rows) = i
      BY <1>6, <2>1, <3>1, <3>3, <3>4
    <3>5. CASE First(rows) # i
      <4>1. /\ First(rows) \in DOMAIN settings /\ settings'[First(rows)] = settings[First(rows)]
            /\ settings[First(rows)].name = k /\ First(rows) < i
        BY <1>1, <1>6, <2>3, <3>2, <3>5
      <4>2. First(rows) \in xreq[s].new /\ settings[First(rows)].extend \in xreq[s].rivals
        BY <1>1, <4>1 DEF UpsertFits, Upserting, Written, k
      <4> QED
        BY <2>1, <3>1, <3>3, <4>1, <4>2
    <3> QED
      BY <3>4, <3>5
  <2>4. CASE q # k
    <3>1. rows = Rows(q) /\ \A j \in rows : settings'[j] = settings[j]
      BY <1>3, <1>6, <2>4 DEF Rows
    <3>2. GetByName(q)' = GetByName(q)
      BY <2>1, <2>2, <3>1 DEF GetByName
    <3>3. latest'[q] = latest[q] /\ rivals'[q] = rivals[q]
      BY <1>1, <1>2, <2>4
    <3> QED
      BY <3>2, <3>3 DEF SsoInv, SettingIsLatest
  <2> QED
    BY <2>3, <2>4
<1>13. ASSUME NEW t \in SsoSessions PROVE UpsertFits(xreq'[t], settings')
  <2>1. CASE xreq'[t] = SsoIdle
    BY <2>1, IdleFits
  <2>2. CASE xreq[t].kind = k /\ xreq'[t] = Told(t) /\ SsoRequested(xreq[t])
    <3>1. /\ xreq'[t].at = xreq[t].at /\ xreq'[t].kind = k /\ xreq'[t].row = xreq[t].row
          /\ xreq'[t].new = xreq[t].new \cup inserted /\ xreq'[t].rivals = xreq[t].rivals \cup {c}
          /\ xreq[t].at \in Upserting
      BY <1>7, <2>2 DEF SsoRequested
    <3>2. /\ xreq[t].at # "insert setting" => xreq[t].row \in DOMAIN settings /\ settings[xreq[t].row].name = k
          /\ \A j \in DOMAIN settings :
               settings[j].name = k /\ (xreq[t].at = "insert setting" \/ j < xreq[t].row)
                 => j \in xreq[t].new /\ settings[j].extend \in xreq[t].rivals
      BY <1>1, <2>2, <3>1 DEF UpsertFits
    <3>3. xreq[t].at # "insert setting" => xreq[t].row \in DOMAIN settings' /\ settings'[xreq[t].row].name = k
      BY <1>6, <3>2
    <3>4. ASSUME NEW j \in DOMAIN settings', settings'[j].name = k, xreq[t].at = "insert setting" \/ j < xreq[t].row
          PROVE  j \in xreq[t].new \cup inserted /\ settings'[j].extend \in xreq[t].rivals \cup {c}
      <4>1. CASE j = i
        BY <1>3, <1>6, <1>5, <3>2, <3>4, <4>1
      <4>2. CASE j # i
        BY <1>6, <3>2, <3>4, <4>2
      <4> QED
        BY <4>1, <4>2
    <3>5. xreq'[t].at # "insert setting" => xreq'[t].row \in DOMAIN settings' /\ settings'[xreq'[t].row].name = xreq'[t].kind
      BY <3>1, <3>3
    <3>6. ASSUME NEW j \in DOMAIN settings', settings'[j].name = xreq'[t].kind,
                 xreq'[t].at = "insert setting" \/ j < xreq'[t].row
          PROVE  j \in xreq'[t].new /\ settings'[j].extend \in xreq'[t].rivals
      <4>1. j \in xreq[t].new \cup inserted /\ settings'[j].extend \in xreq[t].rivals \cup {c}
        BY <3>1, <3>4, <3>6
      <4> QED
        BY <3>1, <4>1
    <3> QED
      BY <3>5, <3>6 DEF UpsertFits
  <2>3. CASE xreq[t].kind # k /\ xreq'[t] = xreq[t] /\ SsoRequested(xreq[t])
    <3>1. UpsertFits(xreq[t], settings)
      BY <1>1
    <3> QED
      BY <1>3, <1>6, <2>3, <3>1 DEF UpsertFits
  <2> QED
    BY <1>10, <2>1, <2>2, <2>3
<1>14. \A t \in SsoSessions : UpsertFits(xreq[t], settings)'
  BY <1>13 DEF UpsertFits
<1> QED
  BY <1>11, <1>12, <1>14 DEF SsoInv

(* A setting is inserted, or the content of the locked row set. *)
LEMMA SsoWrites ==
  ASSUME SsoInv, NEW s \in SsoSessions, InsertSetting(s) \/ UpdateSetting(s)
  PROVE  SsoInv'
<1>1. SsoRequested(xreq[s]) /\ UpsertFits(xreq[s], settings) /\ DOMAIN settings \subseteq RowIds
  BY IdleFits DEF InsertSetting, UpdateSetting, SsoInv, SsoTypes
<1>2. CASE InsertSetting(s)
  <2>1. PICK i \in RowIds \ DOMAIN settings :
          settings' = Put(settings, i, [name |-> xreq[s].kind, extend |-> xreq[s].content])
    BY <1>2 DEF InsertSetting
  <2>2. /\ DOMAIN settings' = DOMAIN settings \cup {i}
        /\ settings'[i] = [name |-> xreq[s].kind, extend |-> xreq[s].content]
        /\ \A j \in DOMAIN settings \ {i} : settings'[j] = settings[j]
    BY <2>1 DEF Put
  <2>3. Commits(s) /\ xreq[s].at = "insert setting"
    BY <1>2 DEF InsertSetting
  <2> QED
    BY <1>1, <2>1, <2>2, <2>3, SsoCommits DEF Written
<1>3. CASE UpdateSetting(s)
  <2> DEFINE i == xreq[s].row
             c == xreq[s].content
  <2>1. i \in DOMAIN settings /\ settings[i].name = xreq[s].kind
    BY <1>1, <1>3 DEF UpdateSetting, UpsertFits, Upserting
  <2>2. settings' = [settings EXCEPT ![i].extend = c] /\ Commits(s) /\ xreq[s].at = "update setting"
    BY <1>3 DEF UpdateSetting
  <2> HIDE DEF c, i
  <2>3. /\ DOMAIN settings' = DOMAIN settings /\ settings'[i] = [settings[i] EXCEPT !.extend = c]
        /\ \A j \in DOMAIN settings \ {i} : settings'[j] = settings[j]
    BY <2>1, <2>2
  <2>4. settings[i] = [name |-> xreq[s].kind, extend |-> settings[i].extend]
    BY <2>1 DEF SsoInv, SsoTypes
  <2>5. [settings[i] EXCEPT !.extend = c] = [name |-> xreq[s].kind, extend |-> c]
    BY <2>4
  <2>6. DOMAIN settings' = DOMAIN settings \cup {i} /\ i \in RowIds
    BY <1>1, <2>1, <2>3
  <2> QED
    BY <1>1, <2>1, <2>2, <2>3, <2>5, <2>6, SsoCommits DEF Written, i, c
<1> QED
  BY <1>2, <1>3

(* Before any request. *)
LEMMA SsoInitial == SsoInit => SsoInv
<1> SUFFICES ASSUME SsoInit PROVE SsoInv
  OBVIOUS
<1>1. DOMAIN settings = {}
  BY DEF SsoInit
<1>2. SettingIsLatest
  BY <1>1 DEF SsoInit, SettingIsLatest, GetByName, Rows
<1>3. SsoTypes
  BY <1>1 DEF SsoInit, SsoTypes
<1> QED
  BY <1>2, <1>3, IdleFits DEF SsoInit, SsoInv

(* Every step keeps the invariant. *)
LEMMA SsoStep == SsoInv /\ [SsoNext]_ssoVars => SsoInv'
<1> SUFFICES ASSUME SsoInv, [SsoNext]_ssoVars PROVE SsoInv'
  OBVIOUS
<1>1. CASE UNCHANGED ssoVars
  BY <1>1 DEF ssoVars, SsoInv, SsoTypes, SsoRequested, SettingIsLatest, GetByName, Rows, UpsertFits
<1>2. CASE SsoNext
  BY <1>2, SsoReads, SsoWrites DEF SsoNext
<1> QED
  BY <1>1, <1>2

(* The metadata that is read is that of the last upsert, or, when an       *)
(* insertion overtook it, of an upsert that committed while it was under   *)
(* way; and a second row of one name is inserted only by an upsert that    *)
(* another insertion overtook: the row lock of Upsert is enough but for    *)
(* the rows that are not there yet.                                        *)
THEOREM SettingsAreExplained == SsoSpec => SettingsExplained
<1>1. SsoInv => RowsDistinct
  <2> SUFFICES ASSUME SsoInv, NEW s \in SsoSessions, InsertSetting(s)
               PROVE  Rows(xreq[s].kind) \subseteq xreq[s].new
    BY DEF RowsDistinct
  <2>1. UpsertFits(xreq[s], settings) /\ xreq[s].at = "insert setting"
    BY DEF SsoInv, InsertSetting
  <2> QED
    BY <2>1 DEF UpsertFits, Upserting, Rows
<1>2. SsoInv /\ SsoInv' => [RowsDistinct /\ SettingIsLatest']_ssoVars
  BY <1>1 DEF SsoInv
<1> QED
  BY <1>2, SsoInitial, SsoStep, PTL DEF SsoSpec, SettingsExplained
-----------------------------------------------------------------------------
(* Tags and asset groups.                                                *)
(* The fields of a request, and the tables' types. *)
Tagging == {"find tag", "create tag", "commit"}
TagFields(r) ==
  r = [at |-> r.at, asset |-> r.asset, source |-> r.source, left |-> r.left, names |-> r.names,
       found |-> r.found, doomed |-> r.doomed, over |-> r.over, unseen |-> r.unseen, group |-> r.group]
TagFlags(r) == r.over \in BOOLEAN /\ r.unseen \in BOOLEAN
TagRequested(r) ==
  /\ TagFields(r) /\ TagFlags(r)
  /\ r.at \in Tagging \cup {"idle", "add members"}
  /\ r.at \in Tagging =>
       /\ r.asset \in Tagged /\ r.source \in Sources
       /\ r.left \in Seq(TagNames) /\ r.names \in Seq(TagNames) /\ r.found \in Seq(Nat)
       /\ Len(r.names) = Len(r.found) + Len(r.left)
       /\ \A n \in 1..Len(r.left) : r.left[n] = r.names[Len(r.found) + n]
  /\ r.at = "create tag" => r.left # <<>>
  /\ r.at = "commit" => r.left = <<>>

TagTypes ==
  /\ tags \in Seq(TagRow) /\ linked \in Nat
  /\ links = [l \in DOMAIN links |-> links[l]] /\ DOMAIN links \subseteq 1..linked
  /\ \A l \in DOMAIN links : links[l].tag \in 1..Len(tags)
  /\ groups \in Seq([asked : SUBSET Grouped, members : SUBSET Grouped, answered : BOOLEAN])
  /\ treq = [s \in TagSessions |-> treq[s]]
  /\ \A s \in TagSessions : TagRequested(treq[s])
  /\ wanted = [p \in Tagged \X Sources |-> wanted[p]]

(* A request has found a tag for each name it is through with. *)
TagsFound(r, table) ==
  \A n \in 1..Len(r.found) : r.found[n] \in 1..Len(table) /\ table[r.found[n]].name = r.names[n]

(* What its delete saw is still there or was deleted by another one, and   *)
(* it is all there is unless another one committed meanwhile.              *)
Doomed(r, own, ids, last) ==
  /\ r.doomed \subseteq 1..last
  /\ r.doomed \cap ids \subseteq own
  /\ ~r.unseen => own \subseteq r.doomed

TagFitsIn(r, table, same, own, ids, last, made) ==
  /\ r.at \in Tagging => TagsFound(r, table)
  /\ r.at = "create tag" => same = {} \/ r.over
  /\ r.at = "commit" => Doomed(r, own, ids, last)
  /\ r.at = "add members" => r.group \in 1..made
TagFits(r) ==
  TagFitsIn(r, tags, Found(Head(r.left), r.source), LinksOf(r.asset, r.source), DOMAIN links, linked,
            Len(groups))

TagInv ==
  /\ TagTypes /\ TagsAsAsked /\ GroupsWhole
  /\ \A s \in TagSessions : TagFits(treq[s])

(* An idle session. *)
LEMMA TagIdleFits ==
  /\ TagRequested(TagIdle) /\ TagIdle.at = "idle"
  /\ \A table, same, own, ids, last, made : TagFitsIn(TagIdle, table, same, own, ids, last, made)
<1>1. TagIdle.at = "idle"
  BY DEF TagIdle
<1>2. TagRequested(TagIdle)
  BY DEF TagIdle, TagFields, TagFlags, TagRequested, Tagging
<1>3. \A table, same, own, ids, last, made : TagFitsIn(TagIdle, table, same, own, ids, last, made)
  BY <1>1 DEF TagFitsIn, Tagging
<1> QED
  BY <1>1, <1>2, <1>3

(* A step that only moves the request of s. *)
LEMMA TagQuiet ==
  ASSUME TagInv, NEW s \in TagSessions, NEW r, TagGoes(s, r), TagRequested(r), TagFits(r),
         UNCHANGED <<tags, links, linked, groups, wanted, blended>>
  PROVE  TagInv'
<1>1. treq' = [t \in TagSessions |-> IF t = s THEN r ELSE treq[t]]
  BY DEF TagGoes, TagInv, TagTypes
<1>2. TagTypes'
  <2>1. \A t \in TagSessions : TagRequested(treq'[t])
    BY <1>1 DEF TagInv, TagTypes
  <2>2. \A t \in TagSessions : TagRequested(treq[t])'
    BY <2>1 DEF TagFields, TagFlags, TagRequested
  <2>3. treq' = [t \in TagSessions |-> treq'[t]]
    BY <1>1
  <2> QED
    BY <2>2, <2>3 DEF TagInv, TagTypes
<1>3. TagsAsAsked' /\ GroupsWhole'
  BY DEF TagInv, TagsAsAsked, ListByAssetIDs, LinksOf, GroupsWhole
<1>4. ASSUME NEW t \in TagSessions PROVE TagFits(treq[t])'
  <2>1. TagFits(treq'[t])
    BY <1>1 DEF TagInv
  <2>2. Found(Head(treq'[t].left), treq'[t].source) = Found(Head(treq[t].left), treq[t].source)'
    BY DEF Found, TagIds
  <2>3. LinksOf(treq'[t].asset, treq'[t].source) = LinksOf(treq[t].asset, treq[t].source)'
    BY DEF LinksOf
  <2> QED
    BY <2>1, <2>2, <2>3 DEF TagFits
<1> QED
  BY <1>2, <1>3, <1>4 DEF TagInv

(* The names still to be looked up and the tags found, one name on. *)
LEMMA OneNameOn ==
  ASSUME NEW left \in Seq(TagNames), NEW names \in Seq(TagNames), NEW found \in Seq(Nat), NEW i \in Nat,
         left # <<>>, Len(names) = Len(found) + Len(left),
         \A n \in 1..Len(left) : left[n] = names[Len(found) + n]
  PROVE  /\ Tail(left) \in Seq(TagNames) /\ Append(found, i) \in Seq(Nat)
         /\ Len(names) = Len(Append(found, i)) + Len(Tail(left))
         /\ \A n \in 1..Len(Tail(left)) : Tail(left)[n] = names[Len(Append(found, i)) + n]
         /\ Head(left) = names[Len(found) + 1]
         /\ Len(found) \in Nat /\ Len(Append(found, i)) = Len(found) + 1
         /\ Append(found, i)[Len(found) + 1] = i
         /\ \A n \in 1..Len(found) : Append(found, i)[n] = found[n]
<1>1. Len(left) \in Nat /\ Len(left) # 0 /\ Len(found) \in Nat
  BY LenProperties, EmptySeq
<1>2. /\ Tail(left) \in Seq(TagNames) /\ Len(Tail(left)) = Len(left) - 1
      /\ \A n \in 1..Len(Tail(left)) : Tail(left)[n] = left[n + 1]
      /\ Head(left) = left[1]
  <2>1. Tail(left) \in Seq(TagNames) /\ Len(Tail(left)) = Len(left) - 1
    BY HeadTailProperties
  <2>2. \A n \in 1..Len(Tail(left)) : Tail(left)[n] = left[n + 1]
    BY <1>1, <2>1, HeadTailProperties
  <2> QED
    BY <2>1, <2>2
<1>3. /\ Append(found, i) \in Seq(Nat) /\ Len(Append(found, i)) = Len(found) + 1
      /\ Append(found, i)[Len(found) + 1] = i
      /\ \A n \in 1..Len(found) : Append(found, i)[n] = found[n]
  BY AppendProperties
<1>4. ASSUME NEW n \in 1..Len(Tail(left))
      PROVE  Tail(left)[n] = names[Len(Append(found, i)) + n]
  <2>1. n + 1 \in 1..Len(left) /\ Len(found) + (n + 1) = Len(Append(found, i)) + n
    BY <1>1, <1>2, <1>3
  <2>2. left[n + 1] = names[Len(found) + (n + 1)]
    BY <2>1
  <2> QED
    BY <1>2, <2>1, <2>2
<1>5. left[1] = names[Len(found) + 1]
  BY <1>1
<1> QED
  BY <1>1, <1>2, <1>3, <1>4, <1>5

(* q is request r, one name on: tag i of the table was found for it. *)
TagOneOn(r, q, i) ==
  /\ TagFields(q) /\ TagFlags(q) /\ q.at = "find tag" /\ q.asset = r.asset /\ q.source = r.source
  /\ q.left = Tail(r.left) /\ q.names = r.names /\ q.found = Append(r.found, i)
TagFor(r, table, i) == r.at \in {"find tag", "create tag"} /\ r.left # <<>> /\ table[i].name = Head(r.left)

(* The request, one name on. *)
LEMMA TagAdvanced ==
  ASSUME NEW r, TagFields(r), TagFlags(r), NEW i,
         NEW q, q = [r EXCEPT !.at = "find tag", !.left = Tail(r.left), !.found = Append(r.found, i),
                              !.over = FALSE]
  PROVE  TagOneOn(r, q, i)
<1>1. q = [at |-> "find tag", asset |-> r.asset, source |-> r.source, left |-> Tail(r.left), names |-> r.names,
           found |-> Append(r.found, i), doomed |-> r.doomed, over |-> FALSE, unseen |-> r.unseen, group |-> r.group]
  BY DEF TagFields
<1>2. /\ q.at = "find tag" /\ q.asset = r.asset /\ q.source = r.source /\ q.left = Tail(r.left)
      /\ q.names = r.names /\ q.found = Append(r.found, i) /\ q.doomed = r.doomed /\ q.over = FALSE
      /\ q.unseen = r.unseen /\ q.group = r.group
  BY <1>1
<1>3. q = [at |-> q.at, asset |-> q.asset, source |-> q.source, left |-> q.left, names |-> q.names,
           found |-> q.found, doomed |-> q.doomed, over |-> q.over, unseen |-> q.unseen, group |-> q.group]
  BY <1>1, <1>2
<1> QED
  BY <1>2, <1>3 DEF TagFields, TagFlags, TagOneOn

(* The same, by a lookup that found the tag. *)
LEMMA TagAdvancedFound ==
  ASSUME NEW r, TagRequested(r), r.at = "find tag", NEW i,
         NEW q, q = [r EXCEPT !.left = Tail(r.left), !.found = Append(r.found, i)]
  PROVE  TagOneOn(r, q, i)
<1>1. q = [at |-> r.at, asset |-> r.asset, source |-> r.source, left |-> Tail(r.left), names |-> r.names,
           found |-> Append(r.found, i), doomed |-> r.doomed, over |-> r.over, unseen |-> r.unseen, group |-> r.group]
  BY DEF TagRequested, TagFields
<1>2. /\ q.at = "find tag" /\ q.asset = r.asset /\ q.source = r.source /\ q.left = Tail(r.left)
      /\ q.names = r.names /\ q.found = Append(r.found, i) /\ q.doomed = r.doomed /\ q.over = r.over
      /\ q.unseen = r.unseen /\ q.group = r.group
  BY <1>1
<1>3. TagFields(q)
  BY <1>1, <1>2 DEF TagFields
<1>4. TagFlags(q)
  BY <1>2 DEF TagFlags, TagRequested
<1> QED
  BY <1>2, <1>3, <1>4 DEF TagOneOn

(* A tag was found for the next name. *)
LEMMA TagAdvances ==
  ASSUME NEW r, TagRequested(r), NEW table \in Seq(TagRow), TagsFound(r, table),
         NEW i \in 1..Len(table), TagFor(r, table, i), NEW q, TagOneOn(r, q, i)
  PROVE  TagRequested(q) /\ TagsFound(q, table)
<1>0. /\ r.left \in Seq(TagNames) /\ r.names \in Seq(TagNames) /\ r.found \in Seq(Nat)
      /\ Len(r.names) = Len(r.found) + Len(r.left)
      /\ \A n \in 1..Len(r.left) : r.left[n] = r.names[Len(r.found) + n]
      /\ r.asset \in Tagged /\ r.source \in Sources /\ r.left # <<>>
  BY DEF TagRequested, Tagging, TagFor
<1>4. i \in Nat
  BY LenProperties
<1> DEFINE left == r.left
           names == r.names
           found == r.found
           rest == Tail(left)
           more == Append(found, i)
<1>10. /\ left \in Seq(TagNames) /\ names \in Seq(TagNames) /\ found \in Seq(Nat) /\ left # <<>>
       /\ Len(names) = Len(found) + Len(left)
       /\ \A n \in 1..Len(left) : left[n] = names[Len(found) + n]
  BY <1>0
<1> HIDE DEF left, names, found
<1>5. /\ rest \in Seq(TagNames) /\ more \in Seq(Nat)
      /\ Len(names) = Len(more) + Len(rest)
      /\ \A n \in 1..Len(rest) : rest[n] = names[Len(more) + n]
      /\ Head(left) = names[Len(found) + 1]
      /\ Len(found) \in Nat /\ Len(more) = Len(found) + 1
      /\ more[Len(found) + 1] = i
      /\ \A n \in 1..Len(found) : more[n] = found[n]
  <2>1. rest \in Seq(TagNames) /\ more \in Seq(Nat)
    BY <1>4, <1>10, OneNameOn
  <2>2. /\ Len(names) = Len(more) + Len(rest) /\ Head(left) = names[Len(found) + 1]
        /\ Len(found) \in Nat /\ Len(more) = Len(found) + 1 /\ more[Len(found) + 1] = i
    BY <1>4, <1>10, OneNameOn
  <2>3. \A n \in 1..Len(rest) : rest[n] = names[Len(more) + n]
    BY <1>4, <1>10, OneNameOn
  <2>4. \A n \in 1..Len(found) : more[n] = found[n]
    BY <1>4, <1>10, OneNameOn
  <2> QED
    BY <2>1, <2>2, <2>3, <2>4
<1>6. /\ q.left = rest /\ q.found = more /\ q.names = names /\ table[i].name = Head(left)
      /\ \A n \in 1..Len(found) : found[n] \in 1..Len(table) /\ table[found[n]].name = names[n]
  BY DEF TagsFound, TagFor, TagOneOn, left, names, found
<1>7. names \in Seq(TagNames)
  BY <1>10
<1> HIDE DEF left, names, found, rest, more
<1>8. TagRequested(q)
  BY <1>0, <1>5, <1>6, <1>7 DEF TagRequested, Tagging, TagOneOn
<1>9. TagsFound(q, table)
  <2>1. ASSUME NEW n \in 1..Len(more)
        PROVE  more[n] \in 1..Len(table) /\ table[more[n]].name = names[n]
    <3>1. CASE n = Len(found) + 1
      BY <1>5, <1>6, <3>1
    <3>2. CASE n # Len(found) + 1
      <4>1. n \in 1..Len(found)
        BY <1>5, <3>2
      <4> QED
        BY <1>5, <1>6, <4>1
    <3> QED
      BY <3>1, <3>2
  <2> QED
    BY <1>6, <2>1 DEF TagsFound
<1> QED
  BY <1>8, <1>9

(* The request goes on to create a tag, or to commit. *)
TagAt(r, at, doomed) == [r EXCEPT !.at = at, !.doomed = doomed]
TagReady(r, at) ==
  /\ r.at = "find tag"
  /\ \/ at = "create tag" /\ r.left # <<>>
     \/ at = "commit" /\ r.left = <<>>

(* It keeps the tags it found. *)
LEMMA TagRestaged ==
  ASSUME NEW r, TagRequested(r), NEW at, NEW doomed, TagReady(r, at), NEW q, q = TagAt(r, at, doomed)
  PROVE  /\ TagRequested(q) /\ q.at = at /\ q.doomed = doomed /\ q.left = r.left /\ q.asset = r.asset
         /\ q.source = r.source /\ \A table : TagsFound(r, table) => TagsFound(q, table)
<1>1. q = [at |-> at, asset |-> r.asset, source |-> r.source, left |-> r.left, names |-> r.names,
           found |-> r.found, doomed |-> doomed, over |-> r.over, unseen |-> r.unseen, group |-> r.group]
  BY DEF TagRequested, TagFields, TagAt
<1>2. /\ q.at = at /\ q.asset = r.asset /\ q.source = r.source /\ q.left = r.left
      /\ q.names = r.names /\ q.found = r.found /\ q.doomed = doomed /\ q.over = r.over
      /\ q.unseen = r.unseen /\ q.group = r.group
  BY <1>1
<1>3. TagFields(q)
  BY <1>1, <1>2 DEF TagFields
<1>4. TagFlags(q)
  BY <1>2 DEF TagFlags, TagRequested
<1>5. TagRequested(q)
  BY <1>2, <1>3, <1>4 DEF TagRequested, Tagging, TagReady
<1>6. \A table : TagsFound(r, table) => TagsFound(q, table)
  BY <1>2 DEF TagsFound
<1> QED
  BY <1>2, <1>5, <1>6

(* A new request has found nothing. *)
LEMMA TagBegun ==
  ASSUME NEW asset \in Tagged, NEW source \in Sources, NEW names \in Seq(TagNames), NEW r,
         r = TagRequest(asset, source, names)
  PROVE  /\ TagRequested(r) /\ r.at = "find tag" /\ \A table : TagsFound(r, table)
<1>1. /\ r.at = "find tag" /\ r.asset = asset /\ r.source = source /\ r.left = names
      /\ r.names = names /\ r.found = <<>> /\ r.over = FALSE /\ r.unseen = FALSE
  BY DEF TagRequest
<1>2. TagFields(r) /\ TagFlags(r)
  BY DEF TagRequest, TagFields, TagFlags
<1>3. Len(<<>>) = 0 /\ <<>> \in Seq(Nat)
  OBVIOUS
<1>4. \A n \in 1..Len(names) : names[n] = names[0 + n]
  OBVIOUS
<1>5. Len(names) = 0 + Len(names)
  BY LenProperties
<1> DEFINE none == <<>>
<1>6. r.found = none /\ Len(none) = 0 /\ none \in Seq(Nat)
  BY <1>1, <1>3
<1> HIDE DEF none
<1>7. TagRequested(r)
  BY <1>1, <1>2, <1>4, <1>5, <1>6 DEF TagRequested, Tagging
<1>8. \A table : TagsFound(r, table)
  BY <1>6 DEF TagsFound
<1> QED
  BY <1>1, <1>7, <1>8

(* The lookups, the delete and a failing call. *)
LEMMA TagReads ==
  ASSUME TagInv, NEW s \in TagSessions,
         \/ TagCallFails(s)
         \/ \E a \in Tagged, src \in Sources, names \in Seq(TagNames) : replaceAssetTags(s, a, src, names)
         \/ FindTag(s) \/ ReplaceDelete(s)
  PROVE  TagInv'
<1>0. TagRequested(treq[s]) /\ TagFits(treq[s]) /\ tags \in Seq(TagRow)
  BY DEF TagInv, TagTypes
<1>1. CASE TagCallFails(s)
  BY <1>1, TagIdleFits, TagQuiet DEF TagCallFails, TagFits
<1>2. ASSUME NEW a \in Tagged, NEW src \in Sources, NEW names \in Seq(TagNames), replaceAssetTags(s, a, src, names)
      PROVE  TagInv'
  <2> DEFINE r == TagRequest(a, src, names)
  <2>1. TagRequested(r) /\ r.at = "find tag" /\ TagsFound(r, tags)
    BY TagBegun
  <2>2. TagGoes(s, r) /\ UNCHANGED <<tags, links, linked, groups, wanted, blended>>
    BY <1>2 DEF replaceAssetTags
  <2> HIDE DEF r
  <2>3. TagFits(r)
    BY <2>1 DEF TagFits, TagFitsIn
  <2> QED
    BY <2>1, <2>2, <2>3, TagQuiet
<1>3. CASE FindTag(s)
  <2> DEFINE r == treq[s]
  <2>1. r.at = "find tag" /\ r.left # <<>> /\ UNCHANGED <<tags, links, linked, groups, wanted, blended>>
    BY <1>3 DEF FindTag
  <2>2. TagRequested(r) /\ TagsFound(r, tags) /\ TagFields(r)
    BY <1>0, <2>1 DEF TagFits, TagFitsIn, Tagging, TagRequested
  <2>3. ASSUME NEW i \in Found(Head(r.left), r.source),
               TagGoes(s, [r EXCEPT !.left = Tail(@), !.found = Append(@, i)])
        PROVE  TagInv'
    <3> DEFINE q == [r EXCEPT !.left = Tail(@), !.found = Append(@, i)]
    <3>1. TagOneOn(r, q, i)
      <4>1. r = treq[s] /\ q = [treq[s] EXCEPT !.left = Tail(treq[s].left), !.found = Append(treq[s].found, i)]
        BY <2>2
      <4> HIDE DEF r, q
      <4> QED
        BY <2>1, <2>2, <4>1, TagAdvancedFound
    <3>2. i \in 1..Len(tags) /\ TagFor(r, tags, i)
      <4>1. i \in 1..Len(tags) /\ tags[i] = [name |-> Head(r.left), source |-> r.source]
        BY DEF Found, TagIds
      <4> HIDE DEF r
      <4>2. [name |-> Head(r.left), source |-> r.source].name = Head(r.left)
        OBVIOUS
      <4>3. tags[i].name = Head(r.left)
        BY <4>1, <4>2
      <4> QED
        BY <2>1, <4>1, <4>3 DEF TagFor
    <3>3. TagGoes(s, q)
      BY <2>3
    <3> HIDE DEF q
    <3>4. TagRequested(q) /\ TagsFound(q, tags) /\ q.at = "find tag"
      <4> HIDE DEF r
      <4>1. TagRequested(q) /\ TagsFound(q, tags)
        BY <1>0, <2>2, <3>1, <3>2, TagAdvances
      <4> QED
        BY <3>1, <4>1 DEF TagOneOn
    <3>5. TagFits(q)
      BY <3>4 DEF TagFits, TagFitsIn
    <3> QED
      BY <2>1, <3>3, <3>4, <3>5, TagQuiet
  <2>4. ASSUME Found(Head(r.left), r.source) = {}, TagGoes(s, [r EXCEPT !.at = "create tag"])
        PROVE  TagInv'
    <3> DEFINE q == [r EXCEPT !.at = "create tag"]
    <3>1. q = TagAt(r, "create tag", r.doomed) /\ TagReady(r, "create tag")
      BY <2>1, <2>2 DEF TagFields, TagAt, TagReady
    <3>2. TagGoes(s, q)
      BY <2>4
    <3> HIDE DEF q
    <3>3. /\ TagRequested(q) /\ q.at = "create tag" /\ q.left = r.left /\ q.source = r.source
          /\ TagsFound(q, tags)
      <4> DEFINE d == r.doomed
                 c == "create tag"
      <4>1. q = TagAt(r, c, d) /\ TagReady(r, c) /\ TagRequested(r) /\ TagsFound(r, tags)
        BY <2>2, <3>1
      <4> HIDE DEF r, d, c
      <4>2. /\ TagRequested(q) /\ q.at = c /\ q.left = r.left /\ q.source = r.source
            /\ TagsFound(q, tags)
        BY <4>1, TagRestaged
      <4> QED
        BY <4>2 DEF c
    <3>4. TagFits(q)
      BY <2>4, <3>3 DEF TagFits, TagFitsIn
    <3> QED
      BY <2>1, <3>2, <3>3, <3>4, TagQuiet
  <2> QED
    BY <1>3, <2>3, <2>4 DEF FindTag
<1>4. CASE ReplaceDelete(s)
  <2> DEFINE r == treq[s]
             own == LinksOf(r.asset, r.source)
             q == [r EXCEPT !.at = "commit", !.doomed = own]
  <2>1. /\ r.at = "find tag" /\ r.left = <<>> /\ TagGoes(s, q)
        /\ UNCHANGED <<tags, links, linked, groups, wanted, blended>>
    BY <1>4 DEF ReplaceDelete
  <2>2. TagRequested(r) /\ TagsFound(r, tags)
    BY <1>0, <2>1 DEF TagFits, TagFitsIn, Tagging
  <2>3. own \subseteq DOMAIN links /\ DOMAIN links \subseteq 1..linked
    BY DEF LinksOf, TagInv, TagTypes
  <2>4. q = TagAt(r, "commit", own) /\ TagReady(r, "commit")
    BY <2>1 DEF TagAt, TagReady
  <2> HIDE DEF q
  <2>5. /\ TagRequested(q) /\ q.at = "commit" /\ q.doomed = own /\ q.asset = r.asset /\ q.source = r.source
        /\ TagsFound(q, tags)
    <3> HIDE DEF r, own
    <3> QED
      BY <2>2, <2>4, TagRestaged
  <2>6. Doomed(q, own, DOMAIN links, linked)
    <3> HIDE DEF own
    <3> QED
      BY <2>3, <2>5 DEF Doomed
  <2>7. LinksOf(q.asset, q.source) = own
    BY <2>5
  <2>8. TagFits(q)
    <3> HIDE DEF own
    <3> QED
      BY <2>5, <2>6, <2>7 DEF TagFits, TagFitsIn
  <2> QED
    BY <2>1, <2>5, <2>8, TagQuiet
<1> QED
  BY <1>1, <1>2, <1>3, <1>4

(* Two requests that differ in the marks over and unseen only. *)
TagLike(r, q) ==
  /\ q.at = r.at /\ q.asset = r.asset /\ q.source = r.source /\ q.left = r.left /\ q.names = r.names
  /\ q.found = r.found /\ q.doomed = r.doomed /\ q.group = r.group

(* Marking a request keeps the rest of it. *)
LEMMA TagMarked ==
  ASSUME NEW r, TagRequested(r), NEW q
  PROVE  /\ q = [r EXCEPT !.over = TRUE] => TagRequested(q) /\ TagLike(r, q) /\ q.over /\ q.unseen = r.unseen
         /\ q = [r EXCEPT !.unseen = TRUE] => TagRequested(q) /\ TagLike(r, q) /\ q.unseen /\ q.over = r.over
<1>1. ASSUME q = [r EXCEPT !.over = TRUE]
      PROVE  TagRequested(q) /\ TagLike(r, q) /\ q.over /\ q.unseen = r.unseen
  <2>1. q = [at |-> r.at, asset |-> r.asset, source |-> r.source, left |-> r.left, names |-> r.names,
             found |-> r.found, doomed |-> r.doomed, over |-> TRUE, unseen |-> r.unseen, group |-> r.group]
    BY <1>1 DEF TagRequested, TagFields
  <2>2. TagLike(r, q) /\ q.over = TRUE /\ q.unseen = r.unseen
    BY <2>1 DEF TagLike
  <2>3. TagFields(q)
    BY <2>1, <2>2 DEF TagFields, TagLike
  <2>4. TagFlags(q)
    BY <2>2 DEF TagFlags, TagRequested
  <2>5. TagRequested(q)
    BY <2>2, <2>3, <2>4 DEF TagRequested, TagLike
  <2> QED
    BY <2>2, <2>5
<1>2. ASSUME q = [r EXCEPT !.unseen = TRUE]
      PROVE  TagRequested(q) /\ TagLike(r, q) /\ q.unseen /\ q.over = r.over
  <2>1. q = [at |-> r.at, asset |-> r.asset, source |-> r.source, left |-> r.left, names |-> r.names,
             found |-> r.found, doomed |-> r.doomed, over |-> r.over, unseen |-> TRUE, group |-> r.group]
    BY <1>2 DEF TagRequested, TagFields
  <2>2. TagLike(r, q) /\ q.unseen = TRUE /\ q.over = r.over
    BY <2>1 DEF TagLike
  <2>3. TagFields(q)
    BY <2>1, <2>2 DEF TagFields, TagLike
  <2>4. TagFlags(q)
    BY <2>2 DEF TagFlags, TagRequested
  <2>5. TagRequested(q)
    BY <2>2, <2>3, <2>4 DEF TagRequested, TagLike
  <2> QED
    BY <2>2, <2>5
<1> QED
  BY <1>1, <1>2

(* A tag more: the others keep their ids, and what was found stays found. *)
LEMMA TagAdded ==
  ASSUME NEW table \in Seq(TagRow), NEW row \in TagRow, NEW more, more = Append(table, row)
  PROVE  /\ more \in Seq(TagRow) /\ Len(more) = Len(table) + 1 /\ Len(table) + 1 \in 1..Len(more)
         /\ more[Len(table) + 1] = row
         /\ \A i \in 1..Len(table) : i \in 1..Len(more) /\ more[i] = table[i]
         /\ \A r : TagsFound(r, table) => TagsFound(r, more)
<1>1. /\ more \in Seq(TagRow) /\ Len(more) = Len(table) + 1 /\ more[Len(table) + 1] = row
      /\ \A i \in 1..Len(table) : more[i] = table[i]
  BY AppendProperties
<1>2. Len(table) \in Nat
  BY LenProperties
<1>3. \A i \in 1..Len(table) : i \in 1..Len(more)
  BY <1>1, <1>2
<1>4. Len(table) + 1 \in 1..Len(more)
  BY <1>1, <1>2
<1>5. ASSUME NEW r, TagsFound(r, table) PROVE TagsFound(r, more)
  BY <1>1, <1>3, <1>5 DEF TagsFound
<1> QED
  BY <1>1, <1>3, <1>4, <1>5

(* The create of a tag. *)
LEMMA TagCreates ==
  ASSUME TagInv, NEW s \in TagSessions, CreateTag(s)
  PROVE  TagInv'
<1> DEFINE r == treq[s]
           row == [name |-> Head(r.left), source |-> r.source]
           n == Len(tags) + 1
           q == [r EXCEPT !.at = "find tag", !.left = Tail(@), !.found = Append(@, n), !.over = FALSE]
           Over(t) == treq[t].at = "create tag" /\ Head(treq[t].left) = row.name /\ treq[t].source = row.source
<1>1. /\ r.at = "create tag" /\ tags' = Append(tags, row)
      /\ treq' = [t \in TagSessions |-> IF t = s THEN q ELSE IF Over(t) THEN [treq[t] EXCEPT !.over = TRUE]
                                        ELSE treq[t]]
      /\ UNCHANGED <<links, linked, groups, wanted, blended>>
  BY DEF CreateTag
<1>2. TagTypes /\ TagsAsAsked /\ GroupsWhole /\ \A t \in TagSessions : TagRequested(treq[t]) /\ TagFits(treq[t])
  BY DEF TagInv, TagTypes
<1>3. /\ TagRequested(r) /\ r.left \in Seq(TagNames) /\ r.left # <<>> /\ r.source \in Sources /\ TagsFound(r, tags)
      /\ TagFields(r) /\ TagFlags(r)
  BY <1>1, <1>2 DEF TagRequested, Tagging, TagFits, TagFitsIn
<1>4. Head(r.left) \in TagNames
  BY <1>3, HeadTailProperties
<1>5. row \in TagRow /\ row.name = Head(r.left) /\ row.source = r.source
  BY <1>3, <1>4 DEF TagRow
<1>6. /\ tags' \in Seq(TagRow) /\ Len(tags') = n /\ n \in 1..Len(tags') /\ tags'[n] = row
      /\ \A i \in 1..Len(tags) : i \in 1..Len(tags') /\ tags'[i] = tags[i]
      /\ \A x : TagsFound(x, tags) => TagsFound(x, tags')
  <2>1. tags \in Seq(TagRow) /\ tags' = Append(tags, row)
    BY <1>1, <1>2 DEF TagTypes
  <2> DEFINE more == tags'
  <2>2. more = Append(tags, row) /\ row \in TagRow
    BY <1>5, <2>1
  <2> HIDE DEF row, more
  <2>3. /\ more \in Seq(TagRow) /\ Len(more) = Len(tags) + 1 /\ Len(tags) + 1 \in 1..Len(more)
        /\ more[Len(tags) + 1] = row
        /\ \A i \in 1..Len(tags) : i \in 1..Len(more) /\ more[i] = tags[i]
        /\ \A x : TagsFound(x, tags) => TagsFound(x, more)
    <3> HIDE DEF r, n, q
    <3>1. tags \in Seq(TagRow)
      BY <2>1
    <3>2. Len(more) = Len(tags) + 1
      BY <2>2, <3>1, TagAdded
    <3>3. \A x : TagsFound(x, tags) => TagsFound(x, more)
      BY <2>2, <3>1, TagAdded
    <3>4. \A i \in 1..Len(tags) : i \in 1..Len(more) /\ more[i] = tags[i]
      BY <2>2, <3>1, TagAdded
    <3>5. /\ more \in Seq(TagRow) /\ Len(tags) + 1 \in 1..Len(more) /\ more[Len(tags) + 1] = row
      BY <2>2, <3>1, TagAdded
    <3> QED
      BY <3>2, <3>3, <3>4, <3>5
  <2> QED
    BY <2>3 DEF more
<1>7. TagRequested(q) /\ TagsFound(q, tags') /\ q.at = "find tag"
  <2>1. q = [r EXCEPT !.at = "find tag", !.left = Tail(r.left), !.found = Append(r.found, n), !.over = FALSE]
    BY <1>3 DEF TagFields
  <2> HIDE DEF q, n, r
  <2>2. TagOneOn(r, q, n)
    BY <1>3, <2>1, TagAdvanced
  <2>3. TagFor(r, tags', n)
    BY <1>1, <1>3, <1>5, <1>6 DEF TagFor
  <2>4. TagsFound(r, tags')
    BY <1>3, <1>6
  <2> DEFINE table == tags'
  <2>5. /\ TagFor(r, table, n) /\ TagsFound(r, table) /\ table \in Seq(TagRow) /\ n \in 1..Len(table)
    BY <1>6, <2>3, <2>4
  <2> HIDE DEF table
  <2>6. TagRequested(q) /\ TagsFound(q, table)
    BY <1>3, <2>2, <2>5, TagAdvances
  <2> QED
    BY <2>2, <2>6 DEF TagOneOn, table
<1>8. ASSUME NEW t \in TagSessions, t # s
      PROVE  /\ TagRequested(treq'[t]) /\ TagLike(treq[t], treq'[t])
             /\ Over(t) => treq'[t].over
             /\ ~Over(t) => treq'[t] = treq[t]
             /\ treq'[t].unseen = treq[t].unseen
  <2>1. CASE Over(t)
    <3>1. treq'[t] = [treq[t] EXCEPT !.over = TRUE] /\ TagRequested(treq[t])
      BY <1>1, <1>2, <1>8, <2>1
    <3> DEFINE x == treq[t]
               y == treq'[t]
    <3>2. TagRequested(x) /\ y = [x EXCEPT !.over = TRUE]
      BY <3>1
    <3> HIDE DEF x, y
    <3>3. TagRequested(y) /\ TagLike(x, y) /\ y.over /\ y.unseen = x.unseen
      BY <3>2, TagMarked
    <3>4. TagRequested(treq'[t]) /\ TagLike(treq[t], treq'[t]) /\ treq'[t].over /\ treq'[t].unseen = treq[t].unseen
      BY <3>3 DEF x, y
    <3> QED
      BY <2>1, <3>4
  <2>2. CASE ~Over(t)
    <3>1. treq'[t] = treq[t]
      BY <1>1, <1>8, <2>2
    <3> QED
      BY <1>2, <2>2, <3>1 DEF TagLike
  <2> QED
    BY <2>1, <2>2
<1>9. treq'[s] = q
  BY <1>1
<1> HIDE DEF q
<1>10. TagTypes'
  <2>1. \A t \in TagSessions : TagRequested(treq'[t])
    BY <1>7, <1>8, <1>9
  <2>2. \A t \in TagSessions : TagRequested(treq[t])'
    BY <2>1 DEF TagFields, TagFlags, TagRequested
  <2>3. treq' = [t \in TagSessions |-> treq'[t]]
    BY <1>1
  <2>4. \A l \in DOMAIN links : links[l].tag \in 1..Len(tags')
    BY <1>2, <1>6 DEF TagTypes
  <2> QED
    BY <1>1, <1>2, <1>6, <2>2, <2>3, <2>4 DEF TagTypes
<1>11. TagsAsAsked' /\ GroupsWhole'
  <2>1. ASSUME NEW a, NEW src PROVE ListByAssetIDs(a, src)' = ListByAssetIDs(a, src)
    <3>1. LinksOf(a, src)' = LinksOf(a, src)
      BY <1>1 DEF LinksOf
    <3>2. \A l \in LinksOf(a, src) : tags'[links'[l].tag] = tags[links[l].tag]
      BY <1>1, <1>2, <1>6 DEF TagTypes, LinksOf
    <3> QED
      BY <3>1, <3>2 DEF ListByAssetIDs
  <2>2. TagsAsAsked'
    BY <1>1, <1>2, <2>1 DEF TagsAsAsked
  <2> QED
    BY <1>1, <1>2, <2>2 DEF GroupsWhole
<1>12. ASSUME NEW t \in TagSessions PROVE TagFits(treq[t])'
  <2>0. LinksOf(treq[t].asset, treq[t].source)' = LinksOf(treq'[t].asset, treq'[t].source)
    BY <1>1 DEF LinksOf
  <2>1. CASE t = s
    BY <1>7, <1>9, <2>1 DEF TagFits, TagFitsIn
  <2>2. CASE t # s
    <3> DEFINE x == treq[t]
               y == treq'[t]
    <3>1. TagLike(x, y) /\ (Over(t) => y.over) /\ (~Over(t) => y = x) /\ y.unseen = x.unseen
      BY <1>8, <2>2
    <3>2. x.at \in Tagging => TagsFound(x, tags')
      BY <1>2, <1>6 DEF TagFits, TagFitsIn
    <3>3. y.at \in Tagging => TagsFound(y, tags')
      BY <3>1, <3>2 DEF TagLike, TagsFound
    <3>4. ASSUME y.at = "create tag" PROVE Found(Head(treq[t].left), treq[t].source)' = {} \/ y.over
      <4>1. CASE Over(t)
        BY <3>1, <4>1
      <4>2. CASE ~Over(t)
        <5>1. y = x /\ x.at = "create tag"
          BY <3>1, <3>4, <4>2
        <5>2. Found(Head(x.left), x.source) = {} \/ x.over
          BY <1>2, <5>1 DEF TagFits, TagFitsIn
        <5>3. ASSUME NEW i \in 1..Len(tags'), tags'[i] = [name |-> Head(x.left), source |-> x.source]
              PROVE  i \in Found(Head(x.left), x.source)
          <6>1. row # [name |-> Head(x.left), source |-> x.source]
            BY <1>5, <4>2, <5>1
          <6>2. i # n
            BY <1>6, <5>3, <6>1
          <6>3. i \in 1..Len(tags)
            BY <1>2, <1>6, <6>2, LenProperties DEF TagTypes
          <6> QED
            BY <1>6, <5>3, <6>3 DEF Found, TagIds
        <5>4. Found(Head(treq[t].left), treq[t].source)' \subseteq Found(Head(x.left), x.source)
          BY <5>1, <5>3 DEF Found, TagIds
        <5> QED
          BY <5>1, <5>2, <5>4
      <4> QED
        BY <4>1, <4>2
    <3>5. y.at = "commit" => Doomed(y, LinksOf(y.asset, y.source), DOMAIN links', linked')
      <4>1. x.at = "commit" => Doomed(x, LinksOf(x.asset, x.source), DOMAIN links, linked)
        BY <1>2 DEF TagFits, TagFitsIn
      <4> QED
        BY <1>1, <3>1, <4>1 DEF TagLike, Doomed
    <3>6. y.at = "add members" => y.group \in 1..Len(groups')
      BY <1>1, <1>2, <3>1 DEF TagLike, TagFits, TagFitsIn
    <3>7. Doomed(y, LinksOf(y.asset, y.source), DOMAIN links', linked') <=>
          Doomed(y, LinksOf(treq[t].asset, treq[t].source)', DOMAIN links', linked')
      BY <2>0
    <3> QED
      BY <3>3, <3>4, <3>5, <3>6, <3>7 DEF TagFits, TagFitsIn
  <2> QED
    BY <2>1, <2>2
<1> QED
  BY <1>10, <1>11, <1>12 DEF TagInv

(* The links of an asset and a source in a table of links. *)
LinksIn(table, a, src) == {l \in DOMAIN table : table[l].asset = a /\ table[l].source = src}

(* The commit of a replacement. *)
LEMMA TagCommits ==
  ASSUME TagInv, NEW s \in TagSessions, ReplaceCommit(s)
  PROVE  TagInv'
<1> DEFINE r == treq[s]
           p == <<r.asset, r.source>>
           m == Len(r.found)
           fresh == linked + 1 .. linked + m
           kept == Without(links, r.doomed)
           own == LinksIn(links, r.asset, r.source)
           ids == DOMAIN links
           Late(t) == treq[t].at = "commit" /\ <<treq[t].asset, treq[t].source>> = p
<1>1. /\ r.at = "commit" /\ linked' = linked + m
      /\ links' = [l \in DOMAIN kept \cup fresh |->
                     IF l \in fresh THEN LinkRow(r.asset, r.found[l - linked], r.source) ELSE kept[l]]
      /\ wanted' = [wanted EXCEPT ![p] = {r.names[i] : i \in 1..Len(r.names)}]
      /\ blended' = IF r.unseen THEN blended \cup {p} ELSE blended \ {p}
      /\ treq' = [t \in TagSessions |-> IF t = s THEN TagIdle ELSE IF Late(t)
                                        THEN [treq[t] EXCEPT !.unseen = TRUE] ELSE treq[t]]
      /\ UNCHANGED <<tags, groups>>
  BY DEF ReplaceCommit
<1>2. /\ TagRequested(r) /\ TagFits(r) /\ linked \in Nat /\ DOMAIN links \subseteq 1..linked
      /\ TagTypes /\ TagsAsAsked /\ GroupsWhole /\ \A t \in TagSessions : TagRequested(treq[t]) /\ TagFits(treq[t])
  BY DEF TagInv, TagTypes
<1>3. /\ r.left = <<>> /\ r.asset \in Tagged /\ r.source \in Sources /\ r.found \in Seq(Nat)
      /\ r.names \in Seq(TagNames)
      /\ Len(r.names) = Len(r.found) + Len(r.left) /\ TagsFound(r, tags)
      /\ Doomed(r, own, ids, linked)
  BY <1>1, <1>2 DEF TagRequested, Tagging, TagFits, TagFitsIn, LinksOf, LinksIn
<1>4. m \in Nat /\ Len(r.names) = m
  BY <1>3, LenProperties, EmptySeq
<1>5. DOMAIN kept = ids \ r.doomed /\ \A l \in DOMAIN kept : kept[l] = links[l]
  BY DEF Without, Restrict
<1>6. \A l \in fresh : l \notin ids /\ l - linked \in 1..m /\ l \in 1..linked' /\ l > linked
  BY <1>1, <1>2, <1>4
<1>7. \A l \in ids : l \in 1..linked' /\ l <= linked
  BY <1>1, <1>2, <1>4
<1>8. \A i \in 1..m : linked + i \in fresh /\ (linked + i) - linked = i
  BY <1>2, <1>4
<1>9. TagFlags(r)
  BY <1>2 DEF TagRequested
<1> HIDE DEF kept, fresh, own, ids, m
<1>10. /\ DOMAIN links' = (ids \ r.doomed) \cup fresh
       /\ links' = [l \in DOMAIN links' |-> links'[l]]
       /\ \A l \in fresh : links'[l] = LinkRow(r.asset, r.found[l - linked], r.source)
       /\ \A l \in ids \ r.doomed : links'[l] = links[l]
  BY <1>1, <1>5, <1>6
<1>11. \A l \in fresh : /\ links'[l].asset = r.asset /\ links'[l].source = r.source
                        /\ links'[l].tag = r.found[l - linked]
  <2>1. \A a, t, src : /\ LinkRow(a, t, src).asset = a /\ LinkRow(a, t, src).source = src
                       /\ LinkRow(a, t, src).tag = t
    BY DEF LinkRow
  <2> QED
    BY <1>10, <2>1
<1>12. LinksIn(links', r.asset, r.source) = (own \ r.doomed) \cup fresh
  BY <1>10, <1>11 DEF LinksIn, own, ids
<1>13. ASSUME NEW a, NEW src, <<a, src>> # p
       PROVE  LinksIn(links', a, src) = LinksIn(links, a, src)
  <2>0. a # r.asset \/ src # r.source
    BY <1>13
  <2>1. \A l \in LinksIn(links, a, src) : l \in ids \ r.doomed
    <3>1. r.doomed \cap ids \subseteq own
      BY <1>3 DEF Doomed
    <3> QED
      BY <2>0, <3>1 DEF LinksIn, own, ids
  <2> QED
    BY <1>10, <1>11, <2>0, <2>1 DEF LinksIn, ids
<1>14. treq'[s] = TagIdle
  BY <1>1
<1>15. ASSUME NEW t \in TagSessions, t # s
       PROVE  /\ TagRequested(treq'[t]) /\ TagLike(treq[t], treq'[t])
              /\ Late(t) => treq'[t].unseen
              /\ ~Late(t) => treq'[t] = treq[t]
              /\ treq'[t].over = treq[t].over
  <2>1. CASE Late(t)
    <3>1. treq'[t] = [treq[t] EXCEPT !.unseen = TRUE] /\ TagRequested(treq[t])
      BY <1>1, <1>2, <1>15, <2>1
    <3> DEFINE x == treq[t]
               y == treq'[t]
    <3>2. TagRequested(x) /\ y = [x EXCEPT !.unseen = TRUE]
      BY <3>1
    <3> HIDE DEF x, y
    <3>3. TagRequested(y) /\ TagLike(x, y) /\ y.unseen /\ y.over = x.over
      BY <3>2, TagMarked
    <3>4. TagRequested(treq'[t]) /\ TagLike(treq[t], treq'[t]) /\ treq'[t].unseen /\ treq'[t].over = treq[t].over
      BY <3>3 DEF x, y
    <3> QED
      BY <2>1, <3>4
  <2>2. CASE ~Late(t)
    <3>1. treq'[t] = treq[t]
      BY <1>1, <1>15, <2>2
    <3> QED
      BY <1>2, <2>2, <3>1 DEF TagLike
  <2> QED
    BY <2>1, <2>2
<1>16. TagTypes'
  <2>1. \A t \in TagSessions : TagRequested(treq'[t])
    BY <1>14, <1>15, TagIdleFits
  <2>2. \A t \in TagSessions : TagRequested(treq[t])'
    BY <2>1 DEF TagFields, TagFlags, TagRequested
  <2>3. treq' = [t \in TagSessions |-> treq'[t]]
    BY <1>1
  <2>4. DOMAIN links' \subseteq 1..linked' /\ linked' \in Nat
    <3>1. DOMAIN links' \subseteq 1..linked'
      BY <1>6, <1>7, <1>10
    <3> QED
      BY <1>1, <1>2, <1>4, <3>1
  <2>5. \A l \in DOMAIN links' : links'[l].tag \in 1..Len(tags')
    <3>1. \A l \in ids : links[l].tag \in 1..Len(tags)
      BY <1>2 DEF TagTypes, ids
    <3>2. \A l \in fresh : links'[l].tag \in 1..Len(tags)
      BY <1>3, <1>6, <1>11 DEF TagsFound, m
    <3> QED
      BY <1>1, <1>10, <3>1, <3>2
  <2>6. wanted' = [q \in Tagged \X Sources |-> wanted'[q]]
    <3>1. p \in Tagged \X Sources /\ wanted = [q \in Tagged \X Sources |-> wanted[q]]
      BY <1>2, <1>3 DEF TagTypes
    <3> HIDE DEF p
    <3> QED
      BY <1>1, <3>1
  <2>7. tags' \in Seq(TagRow) /\ groups' \in Seq([asked : SUBSET Grouped, members : SUBSET Grouped, answered : BOOLEAN])
    BY <1>1, <1>2 DEF TagTypes
  <2>8. links' = [l \in DOMAIN links' |-> links'[l]]
    BY <1>10
  <2> HIDE DEF r
  <2> QED
    BY <2>2, <2>3, <2>4, <2>5, <2>6, <2>7, <2>8 DEF TagTypes
<1>17. TagsAsAsked'
  <2> DEFINE named == {r.names[i] : i \in 1..Len(r.names)}
             Shown(a, src) == {tags[links'[l].tag].name : l \in LinksIn(links', a, src)}
  <2>1. ASSUME NEW a, NEW src
        PROVE  /\ ListByAssetIDs(a, src)' = Shown(a, src)
               /\ ListByAssetIDs(a, src) = {tags[links[l].tag].name : l \in LinksIn(links, a, src)}
    BY <1>1 DEF ListByAssetIDs, LinksOf, LinksIn
  <2>2. wanted'[p] = named /\ \A q \in Tagged \X Sources : q # p => wanted'[q] = wanted[q]
    <3>1. p \in Tagged \X Sources /\ wanted = [q \in Tagged \X Sources |-> wanted[q]]
      BY <1>2, <1>3 DEF TagTypes
    <3> HIDE DEF p, named
    <3>2. wanted' = [wanted EXCEPT ![p] = named]
      BY <1>1 DEF named
    <3> QED
      BY <3>1, <3>2
  <2>3. ASSUME NEW a \in Tagged, NEW src \in Sources, <<a, src>> # p
        PROVE  Shown(a, src) = ListByAssetIDs(a, src)
    <3>1. \A l \in LinksIn(links, a, src) : links'[l] = links[l]
      <4>1. LinksIn(links', a, src) = LinksIn(links, a, src)
        BY <1>13, <2>3
      <4>2. \A l \in LinksIn(links, a, src) : l \in DOMAIN links' /\ l \in ids
        BY <4>1 DEF LinksIn, ids
      <4>3. \A l \in LinksIn(links, a, src) : l \notin fresh
        BY <1>6, <4>2
      <4> QED
        BY <1>10, <4>2, <4>3
    <3> QED
      BY <1>13, <2>1, <2>3, <3>1
  <2>4. named \subseteq Shown(r.asset, r.source)
    <3>1. ASSUME NEW i \in 1..m
          PROVE  r.names[i] \in Shown(r.asset, r.source)
      <4>1. linked + i \in fresh /\ (linked + i) - linked = i
        BY <1>8
      <4>2. links'[linked + i].tag = r.found[i]
        BY <1>11, <4>1
      <4>3. tags[r.found[i]].name = r.names[i]
        BY <1>3 DEF TagsFound, m
      <4>4. linked + i \in LinksIn(links', r.asset, r.source)
        BY <1>12, <4>1
      <4> HIDE DEF r
      <4> QED
        BY <4>2, <4>3, <4>4
    <3> QED
      BY <1>4, <3>1
  <2>5. ASSUME ~r.unseen PROVE Shown(r.asset, r.source) \subseteq named
    <3>1. LinksIn(links', r.asset, r.source) = fresh
      <4>1. own \subseteq r.doomed
        BY <1>3, <2>5 DEF Doomed
      <4> QED
        BY <1>12, <4>1
    <3>2. ASSUME NEW l \in fresh PROVE tags[links'[l].tag].name \in named
      <4>1. l - linked \in 1..m /\ links'[l].tag = r.found[l - linked]
        BY <1>6, <1>11
      <4>2. tags[r.found[l - linked]].name = r.names[l - linked]
        BY <1>3, <4>1 DEF TagsFound, m
      <4> QED
        BY <1>4, <4>1, <4>2
    <3> QED
      BY <3>1, <3>2
  <2>6. ASSUME NEW q \in Tagged \X Sources
        PROVE  IF q \in blended' THEN wanted'[q] \subseteq Shown(q[1], q[2]) ELSE Shown(q[1], q[2]) = wanted'[q]
    <3>1. q = <<q[1], q[2]>> /\ q[1] \in Tagged /\ q[2] \in Sources
      OBVIOUS
    <3>2. CASE q = p
      <4>1. q[1] = r.asset /\ q[2] = r.source
        BY <3>2
      <4>2. r.unseen \in BOOLEAN /\ (q \in blended' <=> r.unseen)
        BY <1>1, <1>9, <3>2 DEF TagFlags
      <4> HIDE DEF Shown, named, p
      <4>3. Shown(q[1], q[2]) = Shown(r.asset, r.source) /\ wanted'[q] = named
        BY <2>2, <3>2, <4>1
      <4>4. ASSUME r.unseen
            PROVE  q \in blended' /\ wanted'[q] \subseteq Shown(q[1], q[2])
        BY <2>4, <4>2, <4>3, <4>4
      <4>5. ASSUME ~r.unseen
            PROVE  q \notin blended' /\ Shown(q[1], q[2]) = wanted'[q]
        BY <2>4, <2>5, <4>2, <4>3, <4>5
      <4> QED
        BY <4>4, <4>5
    <3>3. CASE q # p
      <4>1. Shown(q[1], q[2]) = ListByAssetIDs(q[1], q[2])
        BY <2>3, <3>1, <3>3
      <4>2. wanted'[q] = wanted[q] /\ (q \in blended' <=> q \in blended)
        BY <1>1, <2>2, <3>3
      <4>3. IF q \in blended THEN wanted[q] \subseteq ListByAssetIDs(q[1], q[2])
                             ELSE ListByAssetIDs(q[1], q[2]) = wanted[q]
        BY <1>2 DEF TagsAsAsked
      <4> HIDE DEF Shown
      <4> QED
        BY <4>1, <4>2, <4>3
    <3> QED
      BY <3>2, <3>3
  <2>7. \A q \in Tagged \X Sources : ListByAssetIDs(q[1], q[2])' = Shown(q[1], q[2])
    BY <2>1
  <2> HIDE DEF Shown
  <2> QED
    BY <2>6, <2>7 DEF TagsAsAsked
<1>18. ASSUME NEW t \in TagSessions PROVE TagFits(treq[t])'
  <2> DEFINE x == treq[t]
             y == treq'[t]
             now == LinksIn(links', y.asset, y.source)
             same == Found(Head(y.left), y.source)
  <2>0. LinksOf(treq[t].asset, treq[t].source)' = now /\ Found(Head(treq[t].left), treq[t].source)' = same
    BY <1>1 DEF LinksOf, LinksIn, Found, TagIds
  <2>00. SUFFICES TagFitsIn(y, tags', same, now, DOMAIN links', linked', Len(groups'))
    BY <2>0 DEF TagFits
  <2>1. CASE t = s
    BY <1>14, <2>1, TagIdleFits
  <2>2. CASE t # s
    <3>1. TagLike(x, y) /\ (Late(t) => y.unseen) /\ (~Late(t) => y = x) /\ y.over = x.over
      BY <1>15, <2>2
    <3>2. y.at \in Tagging => TagsFound(y, tags')
      <4>1. y.at = x.at /\ y.found = x.found /\ y.names = x.names /\ tags' = tags
        BY <1>1, <3>1 DEF TagLike
      <4>2. x.at \in Tagging => TagsFound(x, tags)
        BY <1>2 DEF TagFits, TagFitsIn
      <4> HIDE DEF x, y
      <4> QED
        BY <4>1, <4>2 DEF TagsFound
    <3>3. y.at = "create tag" => same = {} \/ y.over
      BY <1>2, <3>1 DEF TagFits, TagFitsIn, TagLike
    <3>4. ASSUME y.at = "commit" PROVE Doomed(y, now, DOMAIN links', linked')
      <4>1. x.at = "commit" /\ Doomed(x, LinksIn(links, x.asset, x.source), ids, linked)
        BY <1>2, <3>1, <3>4 DEF TagFits, TagFitsIn, TagLike, LinksOf, LinksIn, ids
      <4>2. y.doomed = x.doomed /\ y.asset = x.asset /\ y.source = x.source
        BY <3>1 DEF TagLike
      <4>3. y.doomed \subseteq 1..linked'
        <5>1. y.doomed \subseteq 1..linked
          BY <4>1, <4>2 DEF Doomed
        <5> QED
          BY <1>1, <1>2, <1>4, <5>1
      <4>4. \A l \in fresh : l \notin y.doomed
        <5>1. y.doomed \subseteq 1..linked
          BY <4>1, <4>2 DEF Doomed
        <5> QED
          BY <1>2, <1>6, <5>1
      <4>5. y.doomed \cap DOMAIN links' \subseteq LinksIn(links, x.asset, x.source) \ r.doomed
        BY <1>10, <4>1, <4>2, <4>4 DEF Doomed
      <4>6. CASE Late(t)
        <5>1. x.asset = r.asset /\ x.source = r.source
          BY <4>6
        <5>2. now = (own \ r.doomed) \cup fresh /\ LinksIn(links, x.asset, x.source) = own
          BY <1>12, <4>2, <5>1 DEF own
        <5>3. y.doomed \cap DOMAIN links' \subseteq now
          BY <4>5, <5>2
        <5>4. y.unseen
          BY <3>1, <4>6
        <5> HIDE DEF y, now
        <5> QED
          BY <4>3, <5>3, <5>4 DEF Doomed
      <4>7. CASE ~Late(t)
        <5>1. <<x.asset, x.source>> # p
          BY <4>1, <4>7
        <5>2. now = LinksIn(links, x.asset, x.source)
          BY <1>13, <4>2, <5>1
        <5>3. y = x
          BY <3>1, <4>7
        <5>4. y.doomed \cap DOMAIN links' \subseteq now
          BY <4>5, <5>2
        <5>5. ~y.unseen => now \subseteq y.doomed
          BY <4>1, <5>2, <5>3 DEF Doomed
        <5> HIDE DEF y, now
        <5> QED
          BY <4>3, <5>4, <5>5 DEF Doomed
      <4> QED
        BY <4>6, <4>7
    <3>5. y.at = "add members" => y.group \in 1..Len(groups')
      BY <1>1, <1>2, <3>1 DEF TagLike, TagFits, TagFitsIn
    <3> HIDE DEF y, now, same
    <3> QED
      BY <3>2, <3>3, <3>4, <3>5 DEF TagFitsIn
  <2> QED
    BY <2>1, <2>2
<1>19. GroupsWhole'
  BY <1>1, <1>2 DEF GroupsWhole
<1> QED
  BY <1>16, <1>17, <1>18, <1>19 DEF TagInv

(* The request of a group. *)
LEMMA TagGrouped ==
  ASSUME NEW r, TagRequested(r), NEW n, NEW q, q = [r EXCEPT !.at = "add members", !.group = n]
  PROVE  TagRequested(q) /\ q.at = "add members" /\ q.group = n
<1>1. q = [at |-> "add members", asset |-> r.asset, source |-> r.source, left |-> r.left, names |-> r.names,
           found |-> r.found, doomed |-> r.doomed, over |-> r.over, unseen |-> r.unseen, group |-> n]
  BY DEF TagRequested, TagFields
<1>2. /\ q.at = "add members" /\ q.group = n /\ q.asset = r.asset /\ q.source = r.source /\ q.left = r.left
      /\ q.names = r.names /\ q.found = r.found /\ q.doomed = r.doomed /\ q.over = r.over /\ q.unseen = r.unseen
  BY <1>1
<1>3. TagFields(q)
  BY <1>1, <1>2 DEF TagFields
<1>4. TagFlags(q)
  BY <1>2 DEF TagFlags, TagRequested
<1> QED
  BY <1>2, <1>3, <1>4 DEF TagRequested, Tagging

TagInGroup(r, n) == [r EXCEPT !.at = "add members", !.group = n]
(* The same, for the request as an expression. *)
LEMMA TagInGroupIs ==
  \A r, n : TagRequested(r) =>
     TagRequested(TagInGroup(r, n)) /\ TagInGroup(r, n).at = "add members" /\ TagInGroup(r, n).group = n
<1> SUFFICES ASSUME NEW r, NEW n, TagRequested(r)
             PROVE  TagRequested(TagInGroup(r, n)) /\ TagInGroup(r, n).at = "add members" /\ TagInGroup(r, n).group = n
  OBVIOUS
<1> DEFINE q == [r EXCEPT !.at = "add members", !.group = n]
<1>1. q = [r EXCEPT !.at = "add members", !.group = n] /\ q = TagInGroup(r, n)
  BY DEF TagInGroup
<1> HIDE DEF q
<1>2. TagRequested(q) /\ q.at = "add members" /\ q.group = n
  BY <1>1, TagGrouped
<1> QED
  BY <1>1, <1>2

(* A group with all its members. *)
LEMMA GroupAnswered ==
  ASSUME NEW old \in [asked : SUBSET Grouped, members : SUBSET Grouped, answered : BOOLEAN],
         NEW q, q = [old EXCEPT !.members = old.asked, !.answered = TRUE]
  PROVE  /\ q \in [asked : SUBSET Grouped, members : SUBSET Grouped, answered : BOOLEAN]
         /\ q.members = q.asked
<1>1. old.asked \in SUBSET Grouped
  OBVIOUS
<1>2. q = [asked |-> old.asked, members |-> old.asked, answered |-> TRUE]
  OBVIOUS
<1> QED
  BY <1>1, <1>2

(* The two steps of a group. *)
LEMMA TagGroups ==
  ASSUME TagInv, NEW s \in TagSessions,
         (\E members \in SUBSET Grouped : AssetGroupCreate(s, members)) \/ BatchAdd(s)
  PROVE  TagInv'
<1> DEFINE row == [asked : SUBSET Grouped, members : SUBSET Grouped, answered : BOOLEAN]
<1>0. /\ TagTypes /\ TagsAsAsked /\ GroupsWhole /\ groups \in Seq(row)
      /\ \A t \in TagSessions : TagRequested(treq[t]) /\ TagFits(treq[t])
  BY DEF TagInv, TagTypes
<1>1. ASSUME NEW q, TagGoes(s, q), TagRequested(q), q.at \in {"idle", "add members"},
             q.at = "add members" => q.group \in 1..Len(groups'),
             groups' \in Seq(row), GroupsWhole', Len(groups) <= Len(groups'),
             UNCHANGED <<tags, links, linked, wanted, blended>>
      PROVE  TagInv'
  <2>1. treq' = [t \in TagSessions |-> IF t = s THEN q ELSE treq[t]]
    BY <1>0, <1>1 DEF TagGoes, TagTypes
  <2>2. TagTypes'
    <3>1. \A t \in TagSessions : TagRequested(treq'[t])
      BY <1>0, <1>1, <2>1
    <3>2. \A t \in TagSessions : TagRequested(treq[t])'
      BY <3>1 DEF TagFields, TagFlags, TagRequested
    <3>3. treq' = [t \in TagSessions |-> treq'[t]]
      BY <2>1
    <3> QED
      BY <1>0, <1>1, <3>2, <3>3 DEF TagTypes
  <2>3. TagsAsAsked'
    <3>1. \A a, src : ListByAssetIDs(a, src)' = ListByAssetIDs(a, src)
      BY <1>1 DEF ListByAssetIDs, LinksOf
    <3> QED
      BY <1>0, <1>1, <3>1 DEF TagsAsAsked
  <2>4. ASSUME NEW t \in TagSessions PROVE TagFits(treq[t])'
    <3>1. CASE t = s
      <4>1. treq'[t] = q
        BY <2>1, <3>1
      <4> QED
        BY <1>1, <4>1 DEF TagFits, TagFitsIn, Tagging
    <3>2. CASE t # s
      <4>1. treq'[t] = treq[t]
        BY <2>1, <3>2
      <4>2. TagFits(treq[t])
        BY <1>0
      <4>3. treq[t].group \in 1..Len(groups) => treq[t].group \in 1..Len(groups')
        <5>1. groups \in Seq(row) /\ groups' \in Seq(row) /\ Len(groups) <= Len(groups')
          BY <1>0, <1>1
        <5> HIDE DEF row
        <5>2. Len(groups) \in Nat /\ Len(groups') \in Nat
          BY <5>1, LenProperties
        <5> QED
          BY <5>1, <5>2
      <4>4. Found(Head(treq[t].left), treq[t].source)' = Found(Head(treq[t].left), treq[t].source)
        BY <1>1, <4>1 DEF Found, TagIds
      <4>5. LinksOf(treq[t].asset, treq[t].source)' = LinksOf(treq[t].asset, treq[t].source)
        BY <1>1, <4>1 DEF LinksOf
      <4>6. TagFitsIn(treq[t], tags, Found(Head(treq[t].left), treq[t].source),
                      LinksOf(treq[t].asset, treq[t].source), DOMAIN links, linked, Len(groups'))
        BY <4>2, <4>3 DEF TagFits, TagFitsIn
      <4> QED
        BY <1>1, <4>1, <4>4, <4>5, <4>6 DEF TagFits
    <3> QED
      BY <3>1, <3>2
  <2> QED
    BY <1>1, <2>2, <2>3, <2>4 DEF TagInv
<1>2. ASSUME NEW members \in SUBSET Grouped, AssetGroupCreate(s, members) PROVE TagInv'
  <2> DEFINE new == [asked |-> members, members |-> {}, answered |-> FALSE]
             n == Len(groups) + 1
             q == [TagIdle EXCEPT !.at = "add members", !.group = n]
  <2>1. groups' = Append(groups, new) /\ TagGoes(s, q) /\ UNCHANGED <<tags, links, linked, wanted, blended>>
    BY <1>2 DEF AssetGroupCreate
  <2>2. new \in row /\ new.members = {} /\ new.answered = FALSE
    OBVIOUS
  <2>3. /\ q.at = "add members" /\ q.group = n /\ TagRequested(q)
    <3>1. q = TagInGroup(TagIdle, n)
      BY DEF TagInGroup
    <3> HIDE DEF q, n
    <3> QED
      BY <3>1, TagIdleFits, TagInGroupIs
  <2> HIDE DEF q, new
  <2>4. /\ groups' \in Seq(row) /\ Len(groups') = n /\ groups'[n] = new
        /\ \A g \in 1..Len(groups) : groups'[g] = groups[g]
    <3> HIDE DEF row
    <3> QED
      BY <1>0, <2>1, <2>2, AppendProperties
  <2>5. Len(groups) \in Nat
    BY <1>0, LenProperties
  <2>6. GroupsWhole'
    <3>1. ASSUME NEW g \in 1..Len(groups')
          PROVE  groups'[g].members = groups'[g].asked \/ (groups'[g].members = {} /\ ~groups'[g].answered)
      <4>1. CASE g = n
        BY <2>2, <2>4, <4>1
      <4>2. CASE g # n
        <5>1. g \in 1..Len(groups)
          BY <2>4, <2>5, <4>2
        <5>2. groups[g].members = groups[g].asked \/ (groups[g].members = {} /\ ~groups[g].answered)
          BY <1>0, <5>1 DEF GroupsWhole
        <5> QED
          BY <2>4, <5>1, <5>2
      <4> QED
        BY <4>1, <4>2
    <3> QED
      BY <3>1 DEF GroupsWhole
  <2>7. n \in 1..Len(groups') /\ Len(groups) <= Len(groups')
    BY <2>4, <2>5
  <2> QED
    BY <1>1, <2>1, <2>3, <2>4, <2>6, <2>7
<1>3. CASE BatchAdd(s)
  <2> DEFINE g == treq[s].group
             row2 == [groups[g] EXCEPT !.members = groups[g].asked, !.answered = TRUE]
  <2>1. /\ treq[s].at = "add members" /\ TagGoes(s, TagIdle)
        /\ groups' = [groups EXCEPT ![g].members = groups[g].asked, ![g].answered = TRUE]
        /\ UNCHANGED <<tags, links, linked, wanted, blended>>
    BY <1>3 DEF BatchAdd
  <2>2. g \in 1..Len(groups)
    BY <1>0, <2>1 DEF TagFits, TagFitsIn
  <2>3. groups[g] \in row
    <3> HIDE DEF row, g
    <3> QED
      BY <1>0, <2>2, ElementOfSeq
  <2>5. row2 \in row /\ row2.members = row2.asked
    <3> DEFINE old == groups[g]
    <3>1. old \in row /\ row2 = [old EXCEPT !.members = old.asked, !.answered = TRUE]
      BY <2>3
    <3> HIDE DEF old, row2
    <3> QED
      BY <3>1, GroupAnswered
  <2>6. groups' = [groups EXCEPT ![g] = row2]
    BY <2>1, <2>2
  <2> HIDE DEF row2
  <2>7. groups' \in Seq(row) /\ Len(groups') = Len(groups) /\ \A k \in 1..Len(groups) : groups'[k] = IF k = g THEN row2 ELSE groups[k]
    <3> HIDE DEF row, g
    <3> QED
      BY <1>0, <2>2, <2>5, <2>6, ExceptSeq
  <2>8. GroupsWhole'
    <3>1. ASSUME NEW k \in 1..Len(groups)
          PROVE  groups'[k].members = groups'[k].asked \/ (groups'[k].members = {} /\ ~groups'[k].answered)
      <4>1. CASE k = g
        BY <2>5, <2>7, <4>1
      <4>2. CASE k # g
        BY <1>0, <2>7, <4>2 DEF GroupsWhole
      <4> QED
        BY <4>1, <4>2
    <3> QED
      BY <2>7, <3>1 DEF GroupsWhole
  <2>9. Len(groups) \in Nat
    BY <1>0, LenProperties
  <2>10. Len(groups) <= Len(groups')
    BY <2>7, <2>9
  <2> QED
    BY <1>1, <2>1, <2>7, <2>8, <2>10, TagIdleFits
<1> QED
  BY <1>2, <1>3

(* No tags, links or groups, and nobody asks. *)
LEMMA TagInitial == TagInit => TagInv
<1> SUFFICES ASSUME TagInit PROVE TagInv
  OBVIOUS
<1>1. /\ tags = <<>> /\ links = <<>> /\ linked = 0 /\ groups = <<>> /\ blended = {}
      /\ treq = [t \in TagSessions |-> TagIdle] /\ wanted = [p \in Tagged \X Sources |-> {}]
  BY DEF TagInit
<1>2. Len(tags) = 0 /\ Len(groups) = 0 /\ DOMAIN links = {} /\ links = [l \in DOMAIN links |-> links[l]]
  BY <1>1
<1>3. TagTypes
  <2>1. tags \in Seq(TagRow) /\ groups \in Seq([asked : SUBSET Grouped, members : SUBSET Grouped, answered : BOOLEAN])
    BY <1>1
  <2>2. \A t \in TagSessions : TagRequested(treq[t])
    BY <1>1, TagIdleFits
  <2> QED
    BY <1>1, <1>2, <2>1, <2>2 DEF TagTypes
<1>4. TagsAsAsked
  BY <1>1, <1>2 DEF TagsAsAsked, ListByAssetIDs, LinksOf
<1>5. GroupsWhole
  BY <1>2 DEF GroupsWhole
<1>6. \A t \in TagSessions : TagFits(treq[t])
  BY <1>1, TagIdleFits DEF TagFits
<1> QED
  BY <1>3, <1>4, <1>5, <1>6 DEF TagInv

(* A step. *)
LEMMA TagStep == TagInv /\ [TagNext]_tagVars => TagInv'
<1> SUFFICES ASSUME TagInv, [TagNext]_tagVars PROVE TagInv'
  OBVIOUS
<1>1. CASE UNCHANGED tagVars
  <2>1. TagTypes'
    BY <1>1 DEF TagInv, tagVars, TagTypes, TagRequested, TagFields, TagFlags
  <2>2. TagsAsAsked' /\ GroupsWhole'
    BY <1>1 DEF TagInv, tagVars, TagsAsAsked, ListByAssetIDs, LinksOf, GroupsWhole
  <2>3. ASSUME NEW t \in TagSessions PROVE TagFits(treq[t])'
    <3>1. /\ Found(Head(treq[t].left), treq[t].source)' = Found(Head(treq[t].left), treq[t].source)
          /\ LinksOf(treq[t].asset, treq[t].source)' = LinksOf(treq[t].asset, treq[t].source)
      BY <1>1 DEF tagVars, Found, TagIds, LinksOf
    <3>2. TagFits(treq[t]) /\ UNCHANGED <<treq, tags, links, linked, groups>>
      BY <1>1 DEF TagInv, tagVars
    <3> QED
      BY <3>1, <3>2 DEF TagFits
  <2> QED
    BY <2>1, <2>2, <2>3 DEF TagInv
<1>2. CASE TagNext
  <2>1. PICK s \in TagSessions :
          \/ TagCallFails(s)
          \/ \E a \in Tagged, src \in Sources, names \in UNION {[1..n -> TagNames] : n \in 0..2} :
               replaceAssetTags(s, a, src, names)
          \/ FindTag(s) \/ CreateTag(s) \/ ReplaceDelete(s) \/ ReplaceCommit(s)
          \/ \E members \in SUBSET Grouped : AssetGroupCreate(s, members)
          \/ BatchAdd(s)
    BY <1>2 DEF TagNext
  <2>2. UNION {[1..n -> TagNames] : n \in 0..2} \subseteq Seq(TagNames)
    <3>1. ASSUME NEW n \in 0..2, NEW f \in [1..n -> TagNames] PROVE f \in Seq(TagNames)
      <4>1. n \in Nat
        OBVIOUS
      <4> QED
        BY <4>1, SeqDef
    <3> QED
      BY <3>1
  <2> QED
    BY <2>1, <2>2, TagReads, TagCreates, TagCommits, TagGroups
<1> QED
  BY <1>1, <1>2

(* The tags an asset shows and the members of a group are what the       *)
(* requests asked for, and a tag is created twice only by requests that  *)
(* looked it up before the other created it (replaceAssetTags,           *)
(* FirstOrCreate, Replace, AssetGroupCreate).                            *)
THEOREM GroupingIsExplained == TagSpec => GroupingExplained
<1>1. TagInv /\ [TagNext]_tagVars => [TagsUnique /\ TagsAsAsked' /\ GroupsWhole']_tagVars
  <2> SUFFICES ASSUME TagInv, [TagNext]_tagVars PROVE TagsUnique /\ TagsAsAsked' /\ GroupsWhole'
    OBVIOUS
  <2>1. TagsAsAsked' /\ GroupsWhole'
    BY TagStep DEF TagInv
  <2>2. ASSUME NEW s \in TagSessions, CreateTag(s)
        PROVE  Found(Head(treq[s].left), treq[s].source) = {} \/ treq[s].over
    BY <2>2 DEF CreateTag, TagInv, TagFits, TagFitsIn
  <2> QED
    BY <2>1, <2>2 DEF TagsUnique
<1> QED
  BY <1>1, TagInitial, TagStep, PTL DEF TagSpec, GroupingExplained
-----------------------------------------------------------------------------
(***************************************************************************)
(* SAML sign-on.  What the handler keeps of a request is the time, since   *)
(* Validate works on a copy.                                               *)
(***************************************************************************)
OwnForm(m) == m.formed /\ m.destination \in {"", "sso"} /\ m.version = "2.0" /\ m.index = 0 /\ m.url = 1

SamlTypes ==
  /\ clock \in Nat
  /\ spRow.key = "sp" /\ DOMAIN spRow.endpoints \subseteq Nat
  /\ authn.issued \in Nat
  /\ frame.now \in Nat /\ frame = Frame(frame.now, NoAuthn, <<>>, NoEndpoint, FALSE)

SamlInv ==
  /\ SamlTypes
  /\ samlAt = "begin" => ~authn.own
  /\ authn.own => OwnForm(authn)
  /\ samlAt \in {"write", "panicked", "answered"} => Passes(Validated(frame))
  /\ samlAt = "refused" /\ authn.own => ~Passes(Validated(frame))

(* Some numbers have a least one. *)
LEMMA LeastIn ==
  ASSUME NEW S \in SUBSET Nat, S # {}
  PROVE  Least(S) \in S /\ \A j \in S : Least(S) <= j
<1>1. PICK x \in S : \A y \in S : <<y, x>> \notin OpToRel(<, Nat)
  BY NatLessThanWellFounded, WFMin
<1>2. \A y \in S : ~(y < x)
  BY <1>1 DEF OpToRel
<1>3. \A y \in S : x <= y
  BY <1>2
<1> QED
  BY <1>3 DEF Least

(* The endpoint a request is answered at is a registered one that it names *)
(* by index or location, or, naming none, one whose binding can be used.   *)
LEMMA EndpointFits ==
  ASSUME NEW m, NEW endpoints, DOMAIN endpoints \subseteq Nat,
         getACSEndpoint(m, endpoints) # NoEndpoint
  PROVE  \E i \in DOMAIN endpoints :
           /\ getACSEndpoint(m, endpoints) = endpoints[i]
           /\ IF m.index = 0 /\ m.url = 0 THEN OffersBinding(endpoints[i])
              ELSE m.index = endpoints[i].index \/ m.url = endpoints[i].location
<1> DEFINE any == {i \in Offered(endpoints) : m.index = 0 /\ m.url = 0}
           defaults == {i \in any : endpoints[i].default}
           selections == <<ByIndex(m, endpoints), ByURL(m, endpoints), defaults, any>>
           met == {k \in DOMAIN selections : selections[k] # {}}
           k == Least(met)
           i == Least(selections[k])
<1>1. getACSEndpoint(m, endpoints) = IF met = {} THEN NoEndpoint ELSE endpoints[i]
  BY DEF getACSEndpoint, FirstEndpoint
<1>2. met \in SUBSET Nat /\ met # {} /\ met \subseteq 1..4
  <2>1. DOMAIN selections = 1..4
    OBVIOUS
  <2>2. met # {}
    BY <1>1
  <2> HIDE DEF selections
  <2> QED BY <2>1, <2>2
<1>3. k \in 1..4 /\ selections[k] # {}
  <2>1. k \in met
    BY <1>2, LeastIn
  <2> QED BY <1>2, <2>1
<1> HIDE DEF k
<1>4. selections[k] \subseteq DOMAIN endpoints
  BY <1>3 DEF ByIndex, ByURL, Offered
<1>5. i \in selections[k]
  BY <1>3, <1>4, LeastIn
<1> HIDE DEF i
<1>6. IF m.index = 0 /\ m.url = 0 THEN OffersBinding(endpoints[i])
      ELSE m.index = endpoints[i].index \/ m.url = endpoints[i].location
  BY <1>3, <1>5 DEF ByIndex, ByURL, Offered
<1>7. getACSEndpoint(m, endpoints) = endpoints[i]
  BY <1>1, <1>2
<1> QED
  BY <1>4, <1>5, <1>6, <1>7

(* The service provider of this software asks for its own endpoint.        *)
LEMMA OwnEndpoint ==
  ASSUME NEW m, m.index = 0, m.url = 1
  PROVE  getACSEndpoint(m, GeneratedSp) # NoEndpoint
<1> DEFINE any == {i \in Offered(GeneratedSp) : m.index = 0 /\ m.url = 0}
           defaults == {i \in any : GeneratedSp[i].default}
           selections == <<ByIndex(m, GeneratedSp), ByURL(m, GeneratedSp), defaults, any>>
           met == {k \in DOMAIN selections : selections[k] # {}}
<1>1. ByIndex(m, GeneratedSp) = {} /\ ByURL(m, GeneratedSp) = {1}
  BY DEF ByIndex, ByURL, GeneratedSp, Endpoint
<1>2. met \in SUBSET Nat /\ 2 \in met /\ \A k \in met : 2 <= k
  <2>1. DOMAIN selections = 1..4 /\ selections[1] = {} /\ selections[2] = {1}
    BY <1>1
  <2> HIDE DEF selections
  <2> QED BY <2>1
<1>3. Least(met) \in met /\ Least(met) <= 2 /\ met # {}
  BY <1>2, LeastIn
<1>4. Least(met) = 2
  <2> DEFINE n == Least(met)
  <2>1. n \in Nat /\ 2 <= n /\ n <= 2
    BY <1>2, <1>3
  <2> HIDE DEF n
  <2>2. n = 2
    BY <2>1
  <2> QED BY <2>2 DEF n
<1>5. Least(selections[2]) = 1
  BY <1>1, LeastIn
<1>6. getACSEndpoint(m, GeneratedSp) = GeneratedSp[1]
  BY <1>2, <1>4, <1>5 DEF getACSEndpoint, FirstEndpoint
<1> QED
  BY <1>6 DEF GeneratedSp, Endpoint, NoEndpoint

(* A sign-on begins without a request of ours and with an empty frame. *)
LEMMA SamlInitial == SamlInit => SamlInv
<1> SUFFICES ASSUME SamlInit PROVE SamlInv
  OBVIOUS
<1>1. spRow.key = "sp" /\ DOMAIN spRow.endpoints \subseteq Nat
  <2>1. ASSUME NEW es \in EndpointLists PROVE DOMAIN es \subseteq Nat
    BY <2>1 DEF EndpointLists
  <2>2. DOMAIN GeneratedSp \subseteq Nat
    BY DEF GeneratedSp
  <2> QED BY <2>1, <2>2 DEF SamlInit, SpRowOf
<1>2. authn.issued \in Nat /\ ~authn.own
  BY DEF SamlInit, NoAuthn, Authn
<1>3. frame.now \in Nat /\ frame = Frame(frame.now, NoAuthn, <<>>, NoEndpoint, FALSE)
  BY DEF SamlInit, NoFrame, Frame
<1> QED
  BY <1>1, <1>2, <1>3 DEF SamlInit, SamlInv, SamlTypes

(* A request of another service provider has a time, and is not ours. *)
LEMMA OtherFields ==
  ASSUME NEW m \in OtherRequests
  PROVE  m.issued \in Nat /\ ~m.own
<1>1. m.own = FALSE
  BY DEF OtherRequests
<1>2. m.issued \in 0..MaxSamlTime \/ m.issued \in {1}
  BY DEF OtherRequests
<1>3. m.issued \in Nat
  BY <1>2
<1> QED
  BY <1>1, <1>3

(* The verdict of Validate stands in every step after it. *)
LEMMA SamlStep == SamlInv /\ [SamlNext]_samlVars => SamlInv'
<1> SUFFICES ASSUME SamlInv, [SamlNext]_samlVars PROVE SamlInv'
  OBVIOUS
<1> USE DEF SamlInv, SamlGoes
<1>1. CASE UNCHANGED samlVars
  BY <1>1 DEF samlVars, SamlTypes, Passes, Validated, GetByKey
<1>2. ASSUME NEW e \in BOOLEAN, NEW p \in {"saml", "oauth2"}, NEW l \in SUBSET {"redirect", "post"},
             NEW i \in {"sp", "SP"}, Initiate(e, p, l, i)
      PROVE SamlInv'
  <2>1. CASE e /\ p = "saml"
    <3> DEFINE via == IF "redirect" \in l THEN "redirect" ELSE "post"
               destination == IF via \in l THEN "sso" ELSE ""
    <3>1. authn' = Authn(TRUE, via, TRUE, destination, "2.0", i, clock, 0, 1) /\ samlAt' = "sent"
      BY <1>2, <2>1 DEF Initiate
    <3>2. destination \in {"", "sso"}
      OBVIOUS
    <3> HIDE DEF via, destination
    <3>3. authn'.issued \in Nat /\ OwnForm(authn')
      BY <3>1, <3>2 DEF Authn, OwnForm, SamlTypes
    <3> QED BY <1>2, <3>1, <3>3 DEF Initiate, SamlTypes
  <2>2. CASE ~(e /\ p = "saml")
    BY <1>2, <2>2 DEF Initiate, SamlTypes
  <2> QED BY <2>1, <2>2
<1>3. ASSUME NEW m \in OtherRequests, ReceiveFromOther(m) PROVE SamlInv'
  <2>1. m.issued \in Nat /\ ~m.own
    BY OtherFields
  <2> QED BY <1>3, <2>1 DEF ReceiveFromOther, SamlTypes
<1>4. CASE SamlTick
  <2>1. clock' \in Nat
    <3>1. clock \in Nat /\ clock' = clock + 1
      BY <1>4 DEF SamlTick, SamlTypes
    <3> QED BY <3>1
  <2> QED BY <1>4, <2>1 DEF SamlTick, SamlTypes
<1>5. CASE Arrive
  BY <1>5 DEF Arrive, SamlTypes
<1>6. CASE IdpServeSAMLProtocolSSO
  BY <1>6 DEF IdpServeSAMLProtocolSSO, SamlTypes
<1>7. CASE NewIdpAuthnRequest
  BY <1>7 DEF NewIdpAuthnRequest, SamlTypes, Frame
<1>8. CASE ValidateAuthn
  <2>1. Passes(Validated(frame))' <=> Passes(Validated(frame))
    BY <1>8 DEF ValidateAuthn, Passes, Validated, GetByKey
  <2> QED BY <1>8, <2>1 DEF ValidateAuthn, SamlTypes
<1>9. CASE WriteSamlResponse
  <2>1. Passes(Validated(frame))' <=> Passes(Validated(frame))
    BY <1>9 DEF WriteSamlResponse, Passes, Validated, GetByKey
  <2>2. samlAt = "write" /\ samlAt' = "panicked"
    BY <1>9 DEF WriteSamlResponse, WriteResult, SamlTypes, Frame
  <2> QED BY <1>9, <2>1, <2>2 DEF WriteSamlResponse, SamlTypes
<1> QED
  BY <1>1, <1>2, <1>3, <1>4, <1>5, <1>6, <1>7, <1>8, <1>9 DEF SamlNext

(* The parts together are an invariant of every sign-on. *)
LEMMA SamlInvariant == SamlSpec => []SamlInv
<1> QED BY SamlInitial, SamlStep, PTL DEF SamlSpec

(* What a request that passes is like. *)
LEMMA Passed ==
  ASSUME SamlInv, Passes(Validated(frame))
  PROVE  /\ authn.destination \in {"", "sso"} /\ authn.issuer = spRow.key
         /\ authn.issued + MaxIssueDelay >= frame.now
         /\ \E i \in DOMAIN spRow.endpoints :
              /\ Validated(frame).acs = spRow.endpoints[i]
              /\ IF authn.index = 0 /\ authn.url = 0 THEN OffersBinding(spRow.endpoints[i])
                 ELSE authn.index = spRow.endpoints[i].index \/ authn.url = spRow.endpoints[i].location
<1>1. AfterFindSp(spRow).endpoints = spRow.endpoints /\ AfterFindSp(spRow).key = spRow.key
  BY DEF Passes, AfterFindSp
<1>2. /\ Validated(frame).request = authn /\ Validated(frame).now = frame.now
      /\ Validated(frame).acs = getACSEndpoint(authn, spRow.endpoints)
  BY <1>1 DEF Validated, Frame
<1>3. getACSEndpoint(authn, spRow.endpoints) # NoEndpoint
  BY <1>2 DEF Passes
<1>4. \E i \in DOMAIN spRow.endpoints :
        /\ getACSEndpoint(authn, spRow.endpoints) = spRow.endpoints[i]
        /\ IF authn.index = 0 /\ authn.url = 0 THEN OffersBinding(spRow.endpoints[i])
           ELSE authn.index = spRow.endpoints[i].index \/ authn.url = spRow.endpoints[i].location
  BY <1>3, EndpointFits DEF SamlInv, SamlTypes
<1>5. /\ authn.destination \in {"", "sso"} /\ authn.issuer = spRow.key
      /\ authn.issued + MaxIssueDelay >= frame.now
  BY <1>1, <1>2 DEF Passes, GetByKey
<1> QED
  BY <1>2, <1>4, <1>5

(* Validate lets through only requests that were sent here, by the         *)
(* registered service provider, that are not too old and can be answered   *)
(* where they ask; and it refuses none that this software's own service    *)
(* provider makes, if that is registered as it describes itself.           *)
THEOREM RequestsAreJudged == SamlSpec => []RequestsJudged
<1>1. ASSUME SamlInv PROVE AnswerableOnly
  <2> SUFFICES ASSUME samlAt \in {"write", "panicked", "answered"}
               PROVE  /\ authn.destination # "elsewhere" /\ authn.issuer = spRow.key
                      /\ frame.now - authn.issued <= MaxIssueDelay
                      /\ \E e \in {spRow.endpoints[i] : i \in DOMAIN spRow.endpoints} :
                           IF authn.index = 0 /\ authn.url = 0 THEN OffersBinding(e)
                           ELSE authn.index = e.index \/ authn.url = e.location
    BY DEF AnswerableOnly
  <2>1. Passes(Validated(frame))
    BY <1>1 DEF SamlInv
  <2>2. frame.now \in Nat /\ authn.issued \in Nat /\ MaxIssueDelay \in Nat
    BY <1>1, SamlAssumption DEF SamlInv, SamlTypes, SamlAssumption
  <2>3. authn.issued + MaxIssueDelay >= frame.now
    BY <1>1, <2>1, Passed
  <2>4. frame.now - authn.issued <= MaxIssueDelay
    BY <2>2, <2>3
  <2> QED BY <1>1, <2>1, <2>4, Passed
<1>2. ASSUME SamlInv PROVE OwnRequestFits
  <2> SUFFICES ASSUME samlAt = "refused", authn.own, spRow = SpRowOf("plain", "sp", GeneratedSp),
                      authn.issuer = spRow.key, ~(frame.now - authn.issued > MaxIssueDelay)
               PROVE  FALSE
    BY DEF OwnRequestFits
  <2>1. ~Passes(Validated(frame)) /\ OwnForm(authn)
    BY <1>2 DEF SamlInv
  <2>2. AfterFindSp(spRow) = [key |-> "sp", parses |-> TRUE, endpoints |-> GeneratedSp]
    BY DEF AfterFindSp, SpRowOf
  <2>3. getACSEndpoint(authn, GeneratedSp) # NoEndpoint
    BY <2>1, OwnEndpoint DEF OwnForm
  <2>4. /\ Validated(frame).request = authn /\ Validated(frame).now = frame.now
        /\ Validated(frame).acs = getACSEndpoint(authn, GeneratedSp)
    BY <2>2 DEF Validated, Frame
  <2>5. frame.now \in Nat /\ authn.issued \in Nat /\ MaxIssueDelay \in Nat
    BY <1>2, SamlAssumption DEF SamlInv, SamlTypes, SamlAssumption
  <2>6. authn.issued + MaxIssueDelay >= frame.now
    BY <2>5
  <2>7. GetByKey(authn.issuer) /\ AfterFindSp(spRow).parses
    BY <2>2 DEF GetByKey, SpRowOf
  <2> QED BY <2>1, <2>3, <2>4, <2>6, <2>7 DEF Passes, OwnForm
<1>3. SamlInv => RequestsJudged
  BY <1>1, <1>2 DEF RequestsJudged
<1> QED
  BY <1>3, SamlInvariant, PTL

(* An assertion about a request that passed runs from when the request was *)
(* issued, is valid unless that is in the future or MaxIssueDelay ago, and *)
(* goes to a registered endpoint.                                          *)
THEOREM AssertionsLast == SamlSpec => []AssertionWindow
<1>1. ASSUME SamlInv PROVE AssertionWindow
  <2> DEFINE a == MakeAssertion(Validated(frame), <<>>, Session("name", ""))
             w == a.conditions
  <2> SUFFICES ASSUME samlAt = "write"
               PROVE  /\ w.notOnOrAfter = w.notBefore + MaxIssueDelay /\ w.notBefore = authn.issued
                      /\ authn.issued <= frame.now =>
                           /\ w.notBefore <= frame.now /\ a.confirmUntil >= w.notOnOrAfter
                           /\ frame.now < w.notOnOrAfter \/ frame.now = authn.issued + MaxIssueDelay
                      /\ a.recipient \in {spRow.endpoints[i].location : i \in DOMAIN spRow.endpoints}
    BY DEF AssertionWindow
  <2>1. Passes(Validated(frame))
    BY <1>1 DEF SamlInv
  <2>2. /\ frame.now \in Nat /\ authn.issued \in Nat /\ MaxIssueDelay \in Nat
        /\ MaxClockSkew \in Nat /\ MaxIssueDelay < MaxClockSkew
    BY <1>1, SamlAssumption DEF SamlInv, SamlTypes, SamlAssumption
  <2>3. authn.issued + MaxIssueDelay >= frame.now
    BY <1>1, <2>1, Passed
  <2>4. Validated(frame).request = authn /\ Validated(frame).now = frame.now
    BY DEF Validated, Frame
  <2>5. /\ a.recipient = Validated(frame).acs.location
        /\ w = Window(frame.now, authn.issued) /\ a.confirmUntil = frame.now + MaxIssueDelay
    BY <2>4 DEF MakeAssertion
  <2>6. w.notBefore = authn.issued /\ w.notOnOrAfter = authn.issued + MaxIssueDelay
    <3>1. frame.now - MaxClockSkew < authn.issued
      BY <2>2, <2>3
    <3>2. w = [notBefore |-> authn.issued, notOnOrAfter |-> authn.issued + MaxIssueDelay]
      BY <2>5, <3>1 DEF Window
    <3> HIDE DEF w
    <3> QED BY <3>2
  <2>7. a.recipient \in {spRow.endpoints[i].location : i \in DOMAIN spRow.endpoints}
    BY <1>1, <2>1, <2>5, Passed
  <2> HIDE DEF a, w
  <2> QED BY <2>2, <2>3, <2>5, <2>6, <2>7
<1> QED
  BY <1>1, SamlInvariant, PTL
-----------------------------------------------------------------------------
(* What an assertion tells, and whom it is encrypted for.                  *)

(* Which service an assertion is for, however many there are: one of them, *)
(* and a default one if there is one.                                      *)
LEMMA ServiceTaken ==
  ASSUME NEW services, DOMAIN services \subseteq Nat, 1 \in DOMAIN services
  PROVE  \E i \in DOMAIN services :
           /\ ConsumingService(services) = services[i]
           /\ (\E j \in DOMAIN services : services[j].default) => services[i].default
           /\ (\A j \in DOMAIN services : ~services[j].default) => i = 1
<1> DEFINE defaults == {i \in DOMAIN services : services[i].default}
<1>1. services # <<>>
  OBVIOUS
<1>2. CASE defaults = {}
  <2>1. ConsumingService(services) = services[1]
    BY <1>1, <1>2 DEF ConsumingService
  <2> QED BY <1>2, <2>1
<1>3. CASE defaults # {}
  <2>1. ConsumingService(services) = services[Least(defaults)]
    BY <1>1, <1>3 DEF ConsumingService
  <2>2. Least(defaults) \in defaults
    <3>1. defaults \in SUBSET Nat
      OBVIOUS
    <3> HIDE DEF defaults
    <3> QED BY <1>3, <3>1, LeastIn
  <2> QED BY <2>1, <2>2
<1> QED
  BY <1>2, <1>3

(* The names an assertion gives to what a service may ask for are those it *)
(* asked for in a format that is known.                                    *)
LEMMA AttributesAsked ==
  ASSUME NEW v, NEW services, NEW session, NEW n \in DOMAIN Field, n \notin DOMAIN session
  PROVE  LET asks == ConsumingService(services).asks IN
         (\E a \in MakeAssertion(v, services, session).attributes : a[1] = n) <=>
           \E i \in DOMAIN asks : asks[i].format \in {"basic", "unspecified"} /\ asks[i].name = n
<1> DEFINE asks == ConsumingService(services).asks
           given == MakeAssertion(v, services, session).attributes
<1>1. given = RequestedAttributes(asks, session) \cup SessionAttributes(session)
  BY DEF MakeAssertion
<1> HIDE DEF asks, given
<1>2. \A x, y : <<x, y>>[1] = x
  OBVIOUS
<1>3. ASSUME NEW a \in SessionAttributes(session) PROVE a[1] \in DOMAIN session
  <2>1. \E f \in NotEmpty(session) : a = <<f, session[f]>>
    BY DEF SessionAttributes
  <2> QED BY <1>2, <2>1 DEF NotEmpty
<1>4. ASSUME NEW a \in RequestedAttributes(asks, session)
      PROVE  \E i \in Known(asks) : a[1] = asks[i].name
  <2>1. \E i \in Known(asks) : a = <<asks[i].name, session[Field[asks[i].name]]>>
    BY DEF RequestedAttributes
  <2> QED BY <1>2, <2>1
<1>5. ASSUME NEW i \in Known(asks)
      PROVE  \E a \in RequestedAttributes(asks, session) : a[1] = asks[i].name
  <2> DEFINE a == <<asks[i].name, session[Field[asks[i].name]]>>
  <2>1. a \in RequestedAttributes(asks, session)
    BY DEF RequestedAttributes
  <2>2. a[1] = asks[i].name
    OBVIOUS
  <2> HIDE DEF a
  <2> QED BY <2>1, <2>2
<1>6. (\E a \in given : a[1] = n) <=> \E i \in Known(asks) : asks[i].name = n
  BY <1>1, <1>3, <1>4, <1>5
<1> QED
  BY <1>6 DEF Known, asks, given

(* The key an assertion is encrypted for, however many there are: the      *)
(* first for encryption unless it is empty, or else one for any use.       *)
LEMMA KeyTaken ==
  ASSUME NEW keys, DOMAIN keys \subseteq Nat
  PROVE  /\ getSPEncryptionCert(keys).use # "signing"
         /\ (\A i \in DOMAIN keys : keys[i].use = "encryption" => keys[i].cert = "good") =>
              ((\E i \in DOMAIN keys : keys[i].use = "encryption") =>
                 \E i \in DOMAIN keys :
                   getSPEncryptionCert(keys) = keys[i] /\ keys[i].use = "encryption" /\ keys[i].cert = "good")
<1> DEFINE first == {i \in DOMAIN keys : keys[i].use = "encryption"}
           other == {i \in DOMAIN keys : keys[i].use = "" /\ keys[i].cert = "good"}
<1>1. getSPEncryptionCert(keys) =
        IF first # {} /\ keys[Least(first)].cert # "empty" THEN keys[Least(first)]
        ELSE IF other # {} THEN keys[Least(other)] ELSE KeyDescriptor("", "absent")
  BY DEF getSPEncryptionCert
<1>2. first # {} => Least(first) \in first
  <2>1. first \in SUBSET Nat
    OBVIOUS
  <2> HIDE DEF first
  <2> QED BY <2>1, LeastIn
<1>3. other # {} => Least(other) \in other
  <2>1. other \in SUBSET Nat
    OBVIOUS
  <2> HIDE DEF other
  <2> QED BY <2>1, LeastIn
<1>4. KeyDescriptor("", "absent").use # "signing"
  BY DEF KeyDescriptor
<1> HIDE DEF getSPEncryptionCert, KeyDescriptor
<1> QED
  BY <1>1, <1>2, <1>3, <1>4

(* The services that are checked, one or two. *)
ServiceLists == {<<s>> : s \in Services} \cup (Services \X Services)

(* Each of them is a service.                                              *)
LEMMA ListsOfServices ==
  ASSUME NEW services \in ServiceLists
  PROVE  /\ DOMAIN services \subseteq Nat /\ 1 \in DOMAIN services
         /\ \A i \in DOMAIN services : services[i] \in Services
<1>1. CASE services \in {<<s>> : s \in Services}
  <2>1. PICK s \in Services : services = <<s>>
    BY <1>1
  <2> HIDE DEF Services
  <2> QED BY <2>1
<1>2. CASE services \in Services \X Services
  BY <1>2
<1> QED
  BY <1>1, <1>2 DEF ServiceLists

(* What one of them asks for, at most one thing, by a name and a format.   *)
LEMMA AskedFor ==
  ASSUME NEW s \in Services, NEW i \in DOMAIN s.asks
  PROVE  /\ i = 1 /\ s.asks = <<s.asks[i]>> /\ s.asks[i] = Asked(s.asks[i].name, s.asks[i].format)
         /\ s.asks[i].name \in {"email", "uid", "shoe size"} /\ s.asks[i].format \in {"basic", "uri"}
<1> DEFINE Wishes == [name : {"email", "uid", "shoe size"}, format : {"basic", "uri"}]
           as == s.asks
<1>1. as \in Asks
  <2> HIDE DEF Asks
  <2> QED BY DEF Services
<1>2. Asks = {<<>>} \cup {<<a>> : a \in Wishes}
  BY DEF Asks
<1>3. \A a \in Wishes : /\ a = Asked(a.name, a.format)
                   /\ a.name \in {"email", "uid", "shoe size"} /\ a.format \in {"basic", "uri"}
  <2> DEFINE N == {"email", "uid", "shoe size"}
             F == {"basic", "uri"}
  <2>1. Wishes = [name : N, format : F]
    OBVIOUS
  <2> HIDE DEF N, F, Wishes
  <2>2. \A a \in Wishes : a = Asked(a.name, a.format) /\ a.name \in N /\ a.format \in F
    BY <2>1 DEF Asked
  <2> QED BY <2>2 DEF N, F
<1>4. i \in DOMAIN as
  OBVIOUS
<1> HIDE DEF Wishes, as
<1>5. as # <<>>
  <2>1. DOMAIN <<>> = {}
    OBVIOUS
  <2> QED BY <1>4, <2>1, Zenon
<1>6. \E a \in Wishes : as = <<a>>
  BY <1>1, <1>2, <1>5
<1>7. PICK a \in Wishes : as = <<a>>
  BY <1>6
<1>8. i = 1 /\ as[i] = a
  BY <1>4, <1>7
<1>9. as = <<as[i]>> /\ as[i] \in Wishes
  BY <1>7, <1>8
<1>10. /\ as[i] = Asked(as[i].name, as[i].format)
       /\ as[i].name \in {"email", "uid", "shoe size"} /\ as[i].format \in {"basic", "uri"}
  BY <1>3, <1>9
<1> QED
  BY <1>8, <1>9, <1>10 DEF as

(* What the assertion of a session says under names no service asks for,   *)
(* and that the one text it may lack is not its user.                      *)
LEMMA SessionFacts ==
  /\ \A n \in DOMAIN Field : n \notin DOMAIN Session("name", "")
  /\ Session("name", "")[Field["uid"]] # "" /\ "shoe size" \notin DOMAIN Field
<1>1. \A name, mail : DOMAIN Session(name, mail) =
        {"UserName", "UserEmail", "UserSurname", "UserGivenName", "UserCommonName"}
  BY DEF Session
<1>2. DOMAIN Field = {"email", "emailaddress", "name", "cn", "givenname", "surname", "uid"}
  BY DEF Field
<1>3. \A name, mail : Session(name, mail)["UserName"] = name
  BY DEF Session
<1>4. Field["uid"] = "UserName"
  BY DEF Field
<1>5. Session("name", "")["UserName"] # "" /\ "shoe size" \notin DOMAIN Field
  BY <1>2, <1>3
<1> QED
  BY <1>1, <1>2, <1>4, <1>5

(* Whatever services ask, an assertion answers what the one it is for asks *)
(* and no other's wish, and is encrypted for none but a key meant for it.  *)
THEOREM AssertionsFit == SamlSpec => []AssertionFits
<1>1. ASSUME NEW v, NEW services \in ServiceLists
      PROVE  LET given == MakeAssertion(v, services, Session("name", "")).attributes
                 names == {a[1] : a \in given}
                 default == {s \in {services[i] : i \in DOMAIN services} : s.default}
             IN /\ \A n \in DOMAIN Field : n \in names =>
                     \E s \in IF default = {} THEN {services[1]} ELSE default :
                       \E i \in DOMAIN s.asks : s.asks[i] = Asked(n, "basic")
                /\ \A n \in DOMAIN Field, f \in {"basic"} :
                     (\A i \in DOMAIN services : services[i].asks = <<Asked(n, f)>>) => n \in names
                /\ \A a \in given : a[2] = "" => a[1] = "email"
  <2> DEFINE session == Session("name", "")
             given == MakeAssertion(v, services, session).attributes
             names == {a[1] : a \in given}
             default == {s \in {services[i] : i \in DOMAIN services} : s.default}
             asks == ConsumingService(services).asks
             none == ""
  <2>1. \A n \in DOMAIN Field : n \notin DOMAIN session
    BY SessionFacts
  <2>2. session[Field["uid"]] # none /\ "shoe size" \notin DOMAIN Field
    BY SessionFacts
  <2>3. given = RequestedAttributes(asks, session) \cup SessionAttributes(session)
    <3> HIDE DEF session
    <3> QED BY DEF MakeAssertion
  <2>4. \A f \in NotEmpty(session) : session[f] # none
    BY DEF NotEmpty
  <2>5. PICK k \in DOMAIN services :
          /\ ConsumingService(services) = services[k]
          /\ (\E j \in DOMAIN services : services[j].default) => services[k].default
          /\ (\A j \in DOMAIN services : ~services[j].default) => k = 1
    BY ListsOfServices, ServiceTaken
  <2>6. asks = services[k].asks /\ services[k] \in Services
    BY <2>5, ListsOfServices
  <2> HIDE DEF session, asks, given, none
  <2>7. ASSUME NEW n \in DOMAIN Field
        PROVE  n \in names <=> \E i \in DOMAIN asks : asks[i].format \in {"basic", "unspecified"} /\ asks[i].name = n
    <3>1. (\E a \in given : a[1] = n) <=>
            \E i \in DOMAIN asks : asks[i].format \in {"basic", "unspecified"} /\ asks[i].name = n
      BY <2>1, AttributesAsked DEF given, asks
    <3> QED BY <3>1
  <2>8. ASSUME NEW n \in DOMAIN Field, n \in names
        PROVE  \E s \in IF default = {} THEN {services[1]} ELSE default :
                 \E i \in DOMAIN s.asks : s.asks[i] = Asked(n, "basic")
    <3>1. PICK i \in DOMAIN asks : asks[i].format \in {"basic", "unspecified"} /\ asks[i].name = n
      BY <2>7, <2>8
    <3>2. asks[i] = Asked(asks[i].name, asks[i].format) /\ asks[i].format \in {"basic", "uri"}
      BY <2>6, <3>1, AskedFor
    <3>3. asks[i] = Asked(n, "basic")
      BY <3>1, <3>2
    <3>4. services[k] \in IF default = {} THEN {services[1]} ELSE default
      BY <2>5
    <3> QED BY <2>6, <3>1, <3>3, <3>4
  <2>9. ASSUME NEW n \in DOMAIN Field, \A i \in DOMAIN services : services[i].asks = <<Asked(n, "basic")>>
        PROVE  n \in names
    <3>1. asks = <<Asked(n, "basic")>>
      BY <2>6, <2>9
    <3>2. Asked(n, "basic").name = n /\ Asked(n, "basic").format = "basic"
      BY DEF Asked
    <3>3. 1 \in DOMAIN asks /\ asks[1] = Asked(n, "basic")
      BY <3>1
    <3> QED BY <2>7, <3>2, <3>3
  <2>10. ASSUME NEW a \in given, a[2] = none
         PROVE  a[1] = "email"
    <3>1. \A x, y : <<x, y>>[1] = x /\ <<x, y>>[2] = y
      OBVIOUS
    <3>2. CASE a \in SessionAttributes(session)
      <4>1. \E f \in NotEmpty(session) : a = <<f, session[f]>>
        BY <3>2 DEF SessionAttributes
      <4> QED BY <2>4, <2>10, <3>1, <4>1
    <3>3. CASE a \in RequestedAttributes(asks, session)
      <4>1. \E i \in Known(asks) : a = <<asks[i].name, session[Field[asks[i].name]]>>
        BY <3>3 DEF RequestedAttributes
      <4>2. PICK i \in Known(asks) : a = <<asks[i].name, session[Field[asks[i].name]]>>
        BY <4>1
      <4>3. i \in DOMAIN asks /\ asks[i].name \in DOMAIN Field
        BY DEF Known
      <4>4. asks[i].name \in {"email", "uid", "shoe size"}
        BY <2>6, <4>3, AskedFor
      <4>5. a[1] = asks[i].name /\ a[2] = session[Field[asks[i].name]]
        BY <3>1, <4>2
      <4> QED BY <2>2, <2>10, <4>3, <4>4, <4>5
    <3> QED BY <2>3, <3>2, <3>3
  <2> QED BY <2>8, <2>9, <2>10 DEF given, session, none
<1>2. ASSUME NEW keys \in {<<>>} \cup {<<k>> : k \in Keys} \cup (Keys \X Keys)
      PROVE  /\ getSPEncryptionCert(keys).use # "signing"
             /\ (\A i \in DOMAIN keys : keys[i].use = "encryption" => keys[i].cert = "good")
                /\ (\E i \in DOMAIN keys : keys[i].use = "encryption")
                => getSPEncryptionCert(keys) = KeyDescriptor("encryption", "good")
  <2>1. DOMAIN keys \subseteq Nat /\ \A i \in DOMAIN keys : keys[i] \in Keys
    <3> HIDE DEF Keys
    <3>1. CASE keys = <<>>
      BY <3>1
    <3>2. CASE keys \in {<<k>> : k \in Keys}
      <4>1. PICK k \in Keys : keys = <<k>>
        BY <3>2
      <4> QED BY <4>1
    <3>3. CASE keys \in Keys \X Keys
      BY <3>3
    <3> QED BY <3>1, <3>2, <3>3
  <2>2. \A k \in Keys : k = KeyDescriptor(k.use, k.cert)
    <3>1. \A U, C : \A k \in [use : U, cert : C] : k = KeyDescriptor(k.use, k.cert)
      BY DEF KeyDescriptor
    <3> QED BY <3>1 DEF Keys
  <2> QED BY <2>1, <2>2, KeyTaken
<1>3. AnswersWhatIsAsked
  BY <1>1 DEF AnswersWhatIsAsked, ServiceLists
<1>4. EncryptedForRightKey
  BY <1>2 DEF EncryptedForRightKey
<1> QED
  BY <1>3, <1>4, AssertionsLast, PTL DEF AssertionFits
-----------------------------------------------------------------------------
(* HTTP: the tables of routes, handlers and types, and the stages of a     *)
(* message.                                                                *)

(* What the tables agree on, entry by entry: an id in the path is given to *)
(* the service, what is bound goes by core.Run or is the download, which   *)
(* runs no hook, and the rows whose Validate fails make the validator      *)
(* panic before.                                                           *)
Coherent(m) ==
  /\ m.route[4] => Handler(m).id \in {"path", "preset"}
  /\ Handler(m).req # "nil" => Handler(m).via \in {"run", "zip"}
  /\ Handler(m).via = "zip" => Type(m).check = "none" /\ Type(m).post = "none" /\ Type(m).files = {}
  /\ "nothing" \notin Demanded(m)
  /\ Type(m).check = "fails" => Type(m).meta /\ Binding(m)

InHand == {"bound", "valid", "ready", "succeeded", "failed"}

(* Every stage, by what has been found out when it is reached: nothing is  *)
(* written before the service is called, and only what was bound and       *)
(* validated is passed on.                                                 *)
StageInv ==
  /\ stage \in {"idle", "routed", "bound", "valid", "ready"} => ~ran /\ wrote = <<>>
  /\ stage \in InHand \/ ran =>
       /\ msg.route \in InstallApis /\ target = TargetOf(msg)
       /\ Binding(msg) => msg.readable /\ msg.lacks \notin Demanded(msg) /\ ~Type(msg).meta
  /\ stage = "valid" => (Type(msg).check = "scheme" => msg.formed)
  /\ (stage \in {"ready", "succeeded", "failed"} \/ ran) /\ Binding(msg) =>
       (Type(msg).check = "scheme" \/ Type(msg).post = "base64" => msg.formed)
  /\ stage \in {"succeeded", "failed"} =>
       ran /\ (wrote = <<>> \/ (Handler(msg).via = "zip" /\ wrote = <<"archive">>))
  /\ stage = "succeeded" /\ Handler(msg).via = "zip" => wrote = <<"archive">>
HttpInv == StageInv /\ CompleteMessageServed /\ AnsweredOnce

(* What ShouldBind and the validator find, and what a complete message is. *)
LEMMA BindingFinds ==
  ASSUME NEW m
  PROVE  /\ BindResult(m) = "bound" /\ Binding(m) => m.readable /\ m.lacks \notin Demanded(m) /\ ~Type(m).meta
         /\ BindResult(m) = "panicked" => Binding(m) /\ Type(m).meta
         /\ BindResult(m) = "refused" /\ Complete(m) /\ Coherent(m) => FALSE
<1>1. BindResult(m) = IF ~Binding(m) THEN "bound" ELSE IF ~Legible(m) THEN "refused"
                      ELSE IF Type(m).meta THEN "panicked"
                      ELSE IF Demanded(m) \subseteq Given(m) THEN "bound" ELSE "refused"
  <2> HIDE DEF Binding, Legible, Type, Demanded, Given
  <2> QED BY Zenon DEF BindResult
<1>2. m.lacks \notin Given(m)
  BY DEF Given
<1>3. Legible(m) => m.readable
  BY DEF Legible
<1>4. ASSUME Complete(m), Coherent(m), Binding(m) PROVE Legible(m) /\ Demanded(m) \subseteq Given(m)
  <2>1. Legible(m)
    BY <1>4 DEF Complete, Legible
  <2>2. ASSUME NEW f \in Demanded(m) PROVE f \in Given(m)
    <3>1. f # m.lacks
      BY <1>4 DEF Complete, Coherent
    <3>2. Named(m)
      BY <1>4 DEF Complete
    <3>3. f \in Type(m).files => m.coding = "form"
      BY <1>4 DEF Complete, Coherent
    <3> QED BY <3>1, <3>2, <3>3 DEF Given
  <2> QED BY <2>1, <2>2
<1> QED
  BY <1>1, <1>2, <1>3, <1>4

(* The handlers that decode by themselves bind nothing.                    *)
LEMMA BindsNothing ==
  ASSUME NEW m, Coherent(m), Handler(m).via \notin {"run", "zip"}
  PROVE  ~Binding(m)
BY DEF Coherent, Binding

(* Each step keeps the invariant, if the tables are coherent.              *)
LEMMA HttpStep ==
  ASSUME HttpInv, HttpNext, msg.route \in InstallApis => Coherent(msg)
  PROVE  HttpInv'
<1> USE DEF HttpInv
<1>1. CASE Receive
  BY <1>1 DEF Receive, StageInv, InHand, CompleteMessageServed, AnsweredOnce
<1>2. CASE NoRoute
  BY <1>2 DEF NoRoute, Refuse, WriteResponse, StageInv, InHand, CompleteMessageServed, AnsweredOnce
<1>3. CASE Bind
  <2>1. /\ stage = "routed" /\ msg.route \in InstallApis /\ wrote = <<>> /\ ~ran
        /\ Handler(msg).via \in {"run", "zip"}
    BY <1>3 DEF Bind, AtHandler, StageInv
  <2>2. CASE BindResult(msg) = "bound" /\ target' = TargetOf(msg) /\ UNCHANGED <<msg, ran, wrote>>
             /\ stage' = IF Handler(msg).via = "zip" THEN "ready" ELSE "bound"
    <3>1. Binding(msg) => msg.readable /\ msg.lacks \notin Demanded(msg) /\ ~Type(msg).meta
      BY <2>2, BindingFinds
    <3>2. stage' = "ready" => Type(msg).check = "none" /\ Type(msg).post = "none"
      BY <2>1, <2>2 DEF Coherent
    <3> QED BY <2>1, <2>2, <3>1, <3>2 DEF StageInv, InHand, CompleteMessageServed, AnsweredOnce
  <2>3. CASE BindResult(msg) = "refused" /\ Refuse
    <3>1. ~Complete(msg)
      BY <2>1, <2>3, BindingFinds
    <3> QED BY <2>1, <2>3, <3>1 DEF Refuse, WriteResponse, StageInv, InHand, CompleteMessageServed,
                                       AnsweredOnce
  <2>4. CASE BindResult(msg) = "panicked" /\ stage' = "done" /\ UNCHANGED <<msg, target, ran, wrote>>
    <3>1. Binding(msg) /\ Type(msg).meta
      BY <2>4, BindingFinds
    <3> QED BY <2>1, <2>4, <3>1 DEF StageInv, InHand, CompleteMessageServed, AnsweredOnce
  <2> QED BY <1>3, <2>2, <2>3, <2>4 DEF Bind
<1>4. CASE Validate
  <2>1. stage = "bound" /\ msg.route \in InstallApis /\ wrote = <<>> /\ ~ran
    BY <1>4 DEF Validate, StageInv, InHand
  <2>2. Type(msg).check # "fails"
    BY <2>1 DEF StageInv, InHand, Coherent
  <2>3. CASE Refuse /\ Type(msg).check = "scheme" /\ ~msg.formed
    <3>1. ~Complete(msg)
      BY <2>3 DEF Complete
    <3> QED BY <2>1, <2>3, <3>1 DEF Refuse, WriteResponse, StageInv, InHand, CompleteMessageServed,
                                       AnsweredOnce
  <2>4. CASE stage' = "valid" /\ UNCHANGED <<msg, target, ran, wrote>>
             /\ (Type(msg).check = "scheme" => msg.formed)
    BY <2>1, <2>4 DEF StageInv, InHand, CompleteMessageServed, AnsweredOnce
  <2> QED BY <1>4, <2>2, <2>3, <2>4 DEF Validate
<1>5. CASE PostBind
  <2>1. stage = "valid" /\ msg.route \in InstallApis /\ wrote = <<>> /\ ~ran
    BY <1>5 DEF PostBind, StageInv, InHand
  <2>2. CASE Refuse /\ ~msg.formed
    <3>1. ~Complete(msg)
      BY <2>2 DEF Complete
    <3> QED BY <2>1, <2>2, <3>1 DEF Refuse, WriteResponse, StageInv, InHand, CompleteMessageServed,
                                       AnsweredOnce
  <2>3. CASE stage' = "ready" /\ UNCHANGED <<msg, target, ran, wrote>>
             /\ (Type(msg).post = "base64" => msg.formed)
    BY <2>1, <2>3 DEF StageInv, InHand, CompleteMessageServed, AnsweredOnce
  <2> QED BY <1>5, <2>2, <2>3 DEF PostBind
<1>6. CASE UploadAsset \/ UploadAssetChunk \/ DirectCall \/ SpSsoSamlAcs
  <2>1. /\ stage = "routed" /\ msg.route \in InstallApis /\ wrote = <<>> /\ ~ran
        /\ Handler(msg).via \in {"file", "index", "direct", "relay"}
    BY <1>6 DEF UploadAsset, UploadAssetChunk, DirectCall, SpSsoSamlAcs, AtHandler, StageInv
  <2>2. ~Binding(msg)
    BY <2>1, BindsNothing
  <2>3. CASE stage' = "ready" /\ target' = TargetOf(msg) /\ UNCHANGED <<msg, ran, wrote>>
    BY <2>1, <2>2, <2>3 DEF StageInv, InHand, CompleteMessageServed, AnsweredOnce
  <2>4. CASE Refuse /\ (Complete(msg) => Handler(msg).via = "relay")
    BY <2>1, <2>2, <2>4 DEF Refuse, WriteResponse, StageInv, InHand, CompleteMessageServed,
                                       AnsweredOnce
  <2>5. CASE UploadAsset
    BY <2>3, <2>4, <2>5 DEF UploadAsset, AtHandler, Complete
  <2>6. CASE UploadAssetChunk
    BY <2>3, <2>4, <2>6 DEF UploadAssetChunk, AtHandler, Complete
  <2>7. CASE DirectCall
    BY <2>3, <2>7 DEF DirectCall
  <2>8. CASE SpSsoSamlAcs
    BY <2>4, <2>8 DEF SpSsoSamlAcs, AtHandler
  <2> QED BY <1>6, <2>5, <2>6, <2>7, <2>8
<1>7. CASE Serve
  <2>1. /\ stage = "ready" /\ wrote = <<>> /\ ran' /\ stage' \in {"succeeded", "failed"}
        /\ UNCHANGED <<msg, target>>
    BY <1>7 DEF Serve, StageInv
  <2>2. CASE Handler(msg).via = "zip" /\ wrote' = <<"archive">>
    BY <2>1, <2>2 DEF StageInv, InHand, CompleteMessageServed, AnsweredOnce
  <2>3. CASE (Handler(msg).via = "zip" => stage' = "failed") /\ wrote' = <<>>
    BY <2>1, <2>3 DEF StageInv, InHand, CompleteMessageServed, AnsweredOnce
  <2> QED BY <1>7, <2>1, <2>2, <2>3 DEF Serve
<1>8. CASE Answer
  <2>1. stage \in {"succeeded", "failed"} /\ ran /\ stage' = "done" /\ UNCHANGED <<msg, target, ran>>
    BY <1>8 DEF Answer, WriteResponse, Refuse, StageInv
  <2>2. StageInv'
    BY <2>1 DEF StageInv, InHand
  <2>3. CompleteMessageServed'
    BY <2>1 DEF CompleteMessageServed
  <2>4. AnsweredOnce'
    <3>1. CASE wrote = <<>>
      <4>1. \E body : wrote' = <<body>>
        BY <1>8, <3>1 DEF Answer, WriteResponse, Refuse, StageInv
      <4> QED BY <2>1, <4>1 DEF AnsweredOnce
    <3>2. CASE Handler(msg).via = "zip" /\ wrote = <<"archive">>
      <4>1. wrote' = <<"archive">> \/ wrote' = <<"archive", "error">>
        BY <1>8, <3>2 DEF Answer, WriteResponse, Refuse
      <4>2. \A w : w = <<"archive">> => ~(Len(w) > 1)
        OBVIOUS
      <4>3. wrote' # <<>>
        BY <4>1
      <4> QED BY <2>1, <3>2, <4>1, <4>2, <4>3 DEF AnsweredOnce
    <3> QED BY <2>1, <3>1, <3>2 DEF StageInv
  <2> QED BY <2>2, <2>3, <2>4
<1>9. CASE Done
  BY <1>9 DEF Done, StageInv, InHand, CompleteMessageServed, AnsweredOnce
<1> QED
  BY <1>1, <1>2, <1>3, <1>4, <1>5, <1>6, <1>7, <1>8, <1>9 DEF HttpNext

(* Types whose Validate fails, and what holds of every type.               *)
RowTypes ==
  {"IdentityProviderAddRequest", "IdentityProviderGetRequest", "IdentityProviderUpdateRequest",
   "IdentityProviderDeleteRequest", "ServiceProviderAddRequest", "ServiceProviderGetRequest",
   "ServiceProviderUpdateRequest", "ServiceProviderDeleteRequest"}
TypeFits(name, type) ==
  /\ "nothing" \notin type.needs \cup type.files
  /\ type.check = "fails" => type.meta /\ name \in RowTypes
  /\ name = "CanvasAssetDownloadRequest" => type.check = "none" /\ type.post = "none" /\ type.files = {}
TypesFit(table) == \A name \in DOMAIN table : TypeFits(name, table[name])

(* What the constructors put into a type.                                  *)
LEMMA FormsFit ==
  /\ \A needs, forms, own : LET type == T(needs, forms, own) IN
       /\ type.needs = needs /\ type.files = {} /\ type.check = "none" /\ type.post = "none"
  /\ \A needs : LET type == ObjectMeta(needs) IN
       /\ type.needs = needs /\ type.files = {} /\ type.check = "none" /\ type.post = "none" /\ type.meta
BY DEF T, ObjectMeta

(* The metadata of the identity provider, whose type is changed twice.     *)
LEMMA FitIdpMetadataRequests == TypesFit(IdpMetadataRequests)
<1> DEFINE type == Query({"endpoint", "redirect_sso_frontend_url"})
           checked == Checked(type, "scheme")
           finished == KeyPair(checked)
<1>1. /\ DOMAIN type = {"needs", "loose", "forms", "own", "meta", "files", "check", "post"}
      /\ type.needs = {"endpoint", "redirect_sso_frontend_url"}
  BY DEF Query, T
<1> HIDE DEF type
<1>2. DOMAIN checked = DOMAIN type /\ checked.check = "scheme" /\ checked.needs = type.needs
  BY <1>1 DEF Checked
<1> HIDE DEF checked
<1>3. /\ finished.check = "scheme" /\ finished.needs = type.needs
      /\ finished.files = {"key_file", "cert_file"}
  BY <1>1, <1>2 DEF KeyPair
<1>4. IdpMetadataRequests = [IdentityProviderMetadataUpsetRequest |-> finished]
  BY DEF IdpMetadataRequests, finished, checked, type
<1> HIDE DEF finished
<1> QED
  BY <1>1, <1>3, <1>4 DEF TypesFit, TypeFits, RowTypes

(* The metadata of the service provider.                                   *)
LEMMA FitSpMetadataRequests == TypesFit(SpMetadataRequests)
<1> DEFINE type == Query({"endpoint"})
           checked == Checked(type, "scheme")
           finished == KeyPair(checked)
<1>1. /\ DOMAIN type = {"needs", "loose", "forms", "own", "meta", "files", "check", "post"}
      /\ type.needs = {"endpoint"}
  BY DEF Query, T
<1> HIDE DEF type
<1>2. DOMAIN checked = DOMAIN type /\ checked.check = "scheme" /\ checked.needs = type.needs
  BY <1>1 DEF Checked
<1> HIDE DEF checked
<1>3. /\ finished.check = "scheme" /\ finished.needs = type.needs
      /\ finished.files = {"key_file", "cert_file"}
  BY <1>1, <1>2 DEF KeyPair
<1>4. SpMetadataRequests = [ServiceProviderMetadataUpsetRequest |-> finished]
  BY DEF SpMetadataRequests, finished, checked, type
<1> HIDE DEF finished
<1> QED
  BY <1>1, <1>3, <1>4 DEF TypesFit, TypeFits, RowTypes

(* The rows of identity providers.                                         *)
LEMMA FitIdpRequests == TypesFit(IdpRequests)
<1>1. IdpRow.needs = {} /\ IdpRow.files = {} /\ IdpRow.meta
  BY FormsFit DEF IdpRow, Checked
<1>2. Query({}).needs = {} /\ Query({}).files = {} /\ Query({}).check = "none"
  BY DEF Query, T
<1> HIDE DEF IdpRow, Query
<1> QED
  BY <1>1, <1>2 DEF IdpRequests, TypesFit, TypeFits, RowTypes

(* The rows of service providers.                                          *)
LEMMA FitSpRequests == TypesFit(SpRequests)
<1>1. SpRow.needs = {"protocol", "endpoint", "type"} /\ SpRow.files = {} /\ SpRow.meta
  BY FormsFit DEF SpRow, Checked
<1>2. Query({}).needs = {} /\ Query({}).files = {} /\ Query({}).check = "none"
  BY DEF Query, T
<1> HIDE DEF SpRow, Query
<1> QED
  BY <1>1, <1>2 DEF SpRequests, TypesFit, TypeFits, RowTypes

(* Names of the handlers that are asked about a resource in the path, and  *)
(* what holds of every handler.                                            *)
PlatformAddressed ==
  {"ListProviderModels", "GetAsset", "GetAssetContent", "GetAssetThumbnail", "GetTask",
   "TaskEvents", "GetCanvasRun", "InstallProviderPreset", "TestProvider",
   "CreateProviderModel", "SyncProviderModels", "CompleteAssetChunkUpload", "CancelTask",
   "RunCanvas", "RunCanvasNode", "CancelCanvasRun", "UpdateProvider",
   "UpdateProviderModel", "UpdateStorageBackend", "UpdateAsset", "UploadAssetChunk",
   "DeleteProvider", "DeleteProviderModel", "CancelAssetChunkUpload", "DeleteAsset"}
AssetAddressed ==
  {"UpdateLibrary", "UpdateCategory", "UpdateItem", "DeleteLibrary", "DeleteCategory",
   "DeleteItem"}
PromptAddressed ==
  {"UpdateLibrary", "UpdateItem", "UpdateCategory", "DeleteLibrary", "DeleteItem",
   "DeleteCategory"}
CanvasAddressed ==
  {"GetCanvas", "ExportCanvas", "GetCanvasMeta", "UpdateCanvasMeta", "ExportWorkflow",
   "ImportWorkflow", "ExportWorkflowPackage", "ImportWorkflowPackage", "TouchCanvas",
   "RestoreCanvas", "UpdateProject", "SaveCanvas", "DeleteCanvas", "PurgeCanvas",
   "DeleteProject"}
Addressed ==
  [platform |-> PlatformAddressed, auth |-> {}, setting |-> {}, asset |-> AssetAddressed,
   prompt |-> PromptAddressed, canvas |-> CanvasAddressed]
HandlerFits(controller, name, handler) ==
  /\ name \in Addressed[controller] => handler.id \in {"path", "preset"}
  /\ handler.req # "nil" => handler.via \in {"run", "zip"}
  /\ handler.via = "zip" => handler.req = "CanvasAssetDownloadRequest"
  /\ handler.req \in RowTypes => controller = "setting" /\ handler.req # "nil"
  /\ \E table \in RequestTables : handler.req \in DOMAIN table
HandlersFit(controller, table) == \A name \in DOMAIN table : HandlerFits(controller, name, table[name])

(* The handlers of one part of a controller fit.  Providers and models.    *)
LEMMA FitProviderHandlers == HandlersFit("platform", ProviderHandlers)
<1>1. \A name \in DOMAIN ProviderHandlers : LET handler == ProviderHandlers[name] IN
        /\ handler.req # "nil" => handler.via \in {"run", "zip"}
        /\ handler.via = "zip" => handler.req = "CanvasAssetDownloadRequest"
        /\ handler.req \in RowTypes => "platform" = "setting" /\ handler.req # "nil"
  BY DEF ProviderHandlers, RowTypes, H, Plain, Binds
<1>2. \A name \in DOMAIN ProviderHandlers :
        name \in PlatformAddressed => ProviderHandlers[name].id \in {"path", "preset"}
  BY DEF ProviderHandlers, PlatformAddressed, H, Plain, Binds
<1>3. \A name \in DOMAIN ProviderHandlers :
        ProviderHandlers[name].req \in DOMAIN ProviderRequests \cup
          DOMAIN LLMRequests \cup
          DOMAIN StorageRequests \cup
          DOMAIN NoRequest
  BY DEF ProviderHandlers, ProviderRequests, LLMRequests, StorageRequests, NoRequest, H, Plain, Binds
<1>4. {ProviderRequests, LLMRequests, StorageRequests, NoRequest} \subseteq RequestTables
  BY DEF RequestTables
<1>5. Addressed["platform"] = PlatformAddressed
  BY DEF Addressed
<1> QED
  BY <1>1, <1>2, <1>3, <1>4, <1>5 DEF HandlersFit, HandlerFits

(* Assets and their uploads.                                               *)
LEMMA FitAssetHandlers == HandlersFit("platform", AssetHandlers)
<1>1. \A name \in DOMAIN AssetHandlers : LET handler == AssetHandlers[name] IN
        /\ handler.req # "nil" => handler.via \in {"run", "zip"}
        /\ handler.via = "zip" => handler.req = "CanvasAssetDownloadRequest"
        /\ handler.req \in RowTypes => "platform" = "setting" /\ handler.req # "nil"
  BY DEF AssetHandlers, RowTypes, H, Plain, Direct, Binds
<1>2. \A name \in DOMAIN AssetHandlers :
        name \in PlatformAddressed => AssetHandlers[name].id \in {"path", "preset"}
  BY DEF AssetHandlers, PlatformAddressed, H, Plain, Direct, Binds
<1>3. \A name \in DOMAIN AssetHandlers :
        AssetHandlers[name].req \in DOMAIN NoRequest \cup
          DOMAIN AssetRequests \cup
          DOMAIN GroupRequests
  BY DEF AssetHandlers, NoRequest, AssetRequests, GroupRequests, H, Plain, Direct, Binds
<1>4. {NoRequest, AssetRequests, GroupRequests} \subseteq RequestTables
  BY DEF RequestTables
<1>5. Addressed["platform"] = PlatformAddressed
  BY DEF Addressed
<1> QED
  BY <1>1, <1>2, <1>3, <1>4, <1>5 DEF HandlersFit, HandlerFits

(* Tasks and runs of canvases.                                             *)
LEMMA FitRunHandlers == HandlersFit("platform", RunHandlers)
<1>1. \A name \in DOMAIN RunHandlers : LET handler == RunHandlers[name] IN
        /\ handler.req # "nil" => handler.via \in {"run", "zip"}
        /\ handler.via = "zip" => handler.req = "CanvasAssetDownloadRequest"
        /\ handler.req \in RowTypes => "platform" = "setting" /\ handler.req # "nil"
  BY DEF RunHandlers, RowTypes, H, Plain, Direct, Binds
<1>2. \A name \in DOMAIN RunHandlers :
        name \in PlatformAddressed => RunHandlers[name].id \in {"path", "preset"}
  BY DEF RunHandlers, PlatformAddressed, H, Plain, Direct, Binds
<1>3. \A name \in DOMAIN RunHandlers :
        RunHandlers[name].req \in DOMAIN TaskRequests \cup
          DOMAIN CanvasRunRequests \cup
          DOMAIN NoRequest
  BY DEF RunHandlers, TaskRequests, CanvasRunRequests, NoRequest, H, Plain, Direct, Binds
<1>4. {TaskRequests, CanvasRunRequests, NoRequest} \subseteq RequestTables
  BY DEF RequestTables
<1>5. Addressed["platform"] = PlatformAddressed
  BY DEF Addressed
<1> QED
  BY <1>1, <1>2, <1>3, <1>4, <1>5 DEF HandlersFit, HandlerFits

(* One-time passwords.                                                     *)
LEMMA FitOtpHandlers == HandlersFit("auth", OtpHandlers)
<1>1. \A name \in DOMAIN OtpHandlers : LET handler == OtpHandlers[name] IN
        /\ handler.req # "nil" => handler.via \in {"run", "zip"}
        /\ handler.via = "zip" => handler.req = "CanvasAssetDownloadRequest"
        /\ handler.req \in RowTypes => "auth" = "setting" /\ handler.req # "nil"
  BY DEF OtpHandlers, RowTypes, H, Binds
<1>2. \A name \in DOMAIN OtpHandlers :
        OtpHandlers[name].req \in DOMAIN OtpRequests
  BY DEF OtpHandlers, OtpRequests, H, Binds
<1>3. {OtpRequests} \subseteq RequestTables
  BY DEF RequestTables
<1>4. Addressed["auth"] = {}
  BY DEF Addressed
<1> QED
  BY <1>1, <1>2, <1>3, <1>4 DEF HandlersFit, HandlerFits

(* The identity provider.                                                  *)
LEMMA FitIdpHandlers == HandlersFit("auth", IdpHandlers)
<1>1. \A name \in DOMAIN IdpHandlers : LET handler == IdpHandlers[name] IN
        /\ handler.req # "nil" => handler.via \in {"run", "zip"}
        /\ handler.via = "zip" => handler.req = "CanvasAssetDownloadRequest"
        /\ handler.req \in RowTypes => "auth" = "setting" /\ handler.req # "nil"
  BY DEF IdpHandlers, RowTypes, H, Binds
<1>2. \A name \in DOMAIN IdpHandlers :
        IdpHandlers[name].req \in DOMAIN AnswerRequests
  BY DEF IdpHandlers, AnswerRequests, H, Binds
<1>3. {AnswerRequests} \subseteq RequestTables
  BY DEF RequestTables
<1>4. Addressed["auth"] = {}
  BY DEF Addressed
<1> QED
  BY <1>1, <1>2, <1>3, <1>4 DEF HandlersFit, HandlerFits

(* The service provider.                                                   *)
LEMMA FitSpHandlers == HandlersFit("auth", SpHandlers)
<1>1. \A name \in DOMAIN SpHandlers : LET handler == SpHandlers[name] IN
        /\ handler.req # "nil" => handler.via \in {"run", "zip"}
        /\ handler.via = "zip" => handler.req = "CanvasAssetDownloadRequest"
        /\ handler.req \in RowTypes => "auth" = "setting" /\ handler.req # "nil"
  BY DEF SpHandlers, RowTypes, H, Direct, Binds
<1>2. \A name \in DOMAIN SpHandlers :
        SpHandlers[name].req \in DOMAIN InitiatorRequests \cup DOMAIN NoRequest
  BY DEF SpHandlers, InitiatorRequests, NoRequest, H, Direct, Binds
<1>3. {InitiatorRequests, NoRequest} \subseteq RequestTables
  BY DEF RequestTables
<1>4. Addressed["auth"] = {}
  BY DEF Addressed
<1> QED
  BY <1>1, <1>2, <1>3, <1>4 DEF HandlersFit, HandlerFits

(* The metadata of both.                                                   *)
LEMMA FitMetadataHandlers == HandlersFit("setting", MetadataHandlers)
<1>1. \A name \in DOMAIN MetadataHandlers : LET handler == MetadataHandlers[name] IN
        /\ handler.req # "nil" => handler.via \in {"run", "zip"}
        /\ handler.via = "zip" => handler.req = "CanvasAssetDownloadRequest"
        /\ handler.req \in RowTypes => "setting" = "setting" /\ handler.req # "nil"
  BY DEF MetadataHandlers, RowTypes, H, Direct, Binds
<1>2. \A name \in DOMAIN MetadataHandlers :
        MetadataHandlers[name].req \in DOMAIN IdpMetadataRequests \cup
          DOMAIN SpMetadataRequests \cup
          DOMAIN NoRequest
  BY DEF MetadataHandlers, IdpMetadataRequests, SpMetadataRequests, NoRequest, H, Direct, Binds
<1>3. {IdpMetadataRequests, SpMetadataRequests, NoRequest} \subseteq RequestTables
  BY DEF RequestTables
<1>4. Addressed["setting"] = {}
  BY DEF Addressed
<1> QED
  BY <1>1, <1>2, <1>3, <1>4 DEF HandlersFit, HandlerFits

(* The pages of identity providers.                                        *)
LEMMA FitIdpPageHandlers == HandlersFit("setting", IdpPageHandlers)
<1>1. \A name \in DOMAIN IdpPageHandlers : LET handler == IdpPageHandlers[name] IN
        /\ handler.req # "nil" => handler.via \in {"run", "zip"}
        /\ handler.via = "zip" => handler.req = "CanvasAssetDownloadRequest"
        /\ handler.req \in RowTypes => "setting" = "setting" /\ handler.req # "nil"
  BY DEF IdpPageHandlers, RowTypes, H, Binds
<1>2. \A name \in DOMAIN IdpPageHandlers :
        IdpPageHandlers[name].req \in DOMAIN IdpRequests
  BY DEF IdpPageHandlers, IdpRequests, H, Binds
<1>3. {IdpRequests} \subseteq RequestTables
  BY DEF RequestTables
<1>4. Addressed["setting"] = {}
  BY DEF Addressed
<1> QED
  BY <1>1, <1>2, <1>3, <1>4 DEF HandlersFit, HandlerFits

(* The pages of service providers.                                         *)
LEMMA FitSpPageHandlers == HandlersFit("setting", SpPageHandlers)
<1>1. \A name \in DOMAIN SpPageHandlers : LET handler == SpPageHandlers[name] IN
        /\ handler.req # "nil" => handler.via \in {"run", "zip"}
        /\ handler.via = "zip" => handler.req = "CanvasAssetDownloadRequest"
        /\ handler.req \in RowTypes => "setting" = "setting" /\ handler.req # "nil"
  BY DEF SpPageHandlers, RowTypes, H, Binds
<1>2. \A name \in DOMAIN SpPageHandlers :
        SpPageHandlers[name].req \in DOMAIN SpRequests
  BY DEF SpPageHandlers, SpRequests, H, Binds
<1>3. {SpRequests} \subseteq RequestTables
  BY DEF RequestTables
<1>4. Addressed["setting"] = {}
  BY DEF Addressed
<1> QED
  BY <1>1, <1>2, <1>3, <1>4 DEF HandlersFit, HandlerFits

(* The asset library.                                                      *)
LEMMA FitAssetLibraryHandlers == HandlersFit("asset", AssetLibraryHandlers)
<1>1. \A name \in DOMAIN AssetLibraryHandlers : LET handler == AssetLibraryHandlers[name] IN
        /\ handler.req # "nil" => handler.via \in {"run", "zip"}
        /\ handler.via = "zip" => handler.req = "CanvasAssetDownloadRequest"
        /\ handler.req \in RowTypes => "asset" = "setting" /\ handler.req # "nil"
  BY DEF AssetLibraryHandlers, RowTypes, H, Binds
<1>2. \A name \in DOMAIN AssetLibraryHandlers :
        name \in AssetAddressed => AssetLibraryHandlers[name].id \in {"path", "preset"}
  BY DEF AssetLibraryHandlers, AssetAddressed, H, Binds
<1>3. \A name \in DOMAIN AssetLibraryHandlers :
        AssetLibraryHandlers[name].req \in DOMAIN LibraryRequests \cup
          DOMAIN CategoryRequests \cup
          DOMAIN ItemRequests
  BY DEF AssetLibraryHandlers, LibraryRequests, CategoryRequests, ItemRequests, H, Binds
<1>4. {LibraryRequests, CategoryRequests, ItemRequests} \subseteq RequestTables
  BY DEF RequestTables
<1>5. Addressed["asset"] = AssetAddressed
  BY DEF Addressed
<1> QED
  BY <1>1, <1>2, <1>3, <1>4, <1>5 DEF HandlersFit, HandlerFits

(* The prompt library.                                                     *)
LEMMA FitPromptLibraryHandlers == HandlersFit("prompt", PromptLibraryHandlers)
<1>1. \A name \in DOMAIN PromptLibraryHandlers : LET handler == PromptLibraryHandlers[name] IN
        /\ handler.req # "nil" => handler.via \in {"run", "zip"}
        /\ handler.via = "zip" => handler.req = "CanvasAssetDownloadRequest"
        /\ handler.req \in RowTypes => "prompt" = "setting" /\ handler.req # "nil"
  BY DEF PromptLibraryHandlers, RowTypes, H, Plain, Binds
<1>2. \A name \in DOMAIN PromptLibraryHandlers :
        name \in PromptAddressed => PromptLibraryHandlers[name].id \in {"path", "preset"}
  BY DEF PromptLibraryHandlers, PromptAddressed, H, Plain, Binds
<1>3. \A name \in DOMAIN PromptLibraryHandlers :
        PromptLibraryHandlers[name].req \in DOMAIN PromptRequests \cup DOMAIN NoRequest
  BY DEF PromptLibraryHandlers, PromptRequests, NoRequest, H, Plain, Binds
<1>4. {PromptRequests, NoRequest} \subseteq RequestTables
  BY DEF RequestTables
<1>5. Addressed["prompt"] = PromptAddressed
  BY DEF Addressed
<1> QED
  BY <1>1, <1>2, <1>3, <1>4, <1>5 DEF HandlersFit, HandlerFits

(* Canvases and projects.                                                  *)
LEMMA FitCanvasHandlers == HandlersFit("canvas", CanvasHandlers)
<1>1. \A name \in DOMAIN CanvasHandlers : LET handler == CanvasHandlers[name] IN
        /\ handler.req # "nil" => handler.via \in {"run", "zip"}
        /\ handler.via = "zip" => handler.req = "CanvasAssetDownloadRequest"
        /\ handler.req \in RowTypes => "canvas" = "setting" /\ handler.req # "nil"
  BY DEF CanvasHandlers, RowTypes, H, Plain, Binds
<1>2. \A name \in DOMAIN CanvasHandlers :
        name \in CanvasAddressed => CanvasHandlers[name].id \in {"path", "preset"}
  BY DEF CanvasHandlers, CanvasAddressed, H, Plain, Binds
<1>3. \A name \in DOMAIN CanvasHandlers :
        CanvasHandlers[name].req \in DOMAIN CanvasRequests \cup
          DOMAIN ProjectRequests \cup
          DOMAIN NoRequest
  BY DEF CanvasHandlers, CanvasRequests, ProjectRequests, NoRequest, H, Plain, Binds
<1>4. {CanvasRequests, ProjectRequests, NoRequest} \subseteq RequestTables
  BY DEF RequestTables
<1>5. Addressed["canvas"] = CanvasAddressed
  BY DEF Addressed
<1> QED
  BY <1>1, <1>2, <1>3, <1>4, <1>5 DEF HandlersFit, HandlerFits

(* Every route leads to a handler, and those with an id to one that is     *)
(* asked about it.                                                         *)
RouteFits(r) ==
  /\ \E table \in HandlerTables[r[2]] : r[3] \in DOMAIN table
  /\ r[4] => r[3] \in Addressed[r[2]]
  /\ r[2] = "setting" => r[1] # "DELETE"

(* What a group of routes has in common.                                   *)
LEMMA RouteGroup ==
  ASSUME NEW method, NEW controller, NEW names, NEW r
  PROVE  /\ r \in R(method, controller, names) =>
              r[1] = method /\ r[2] = controller /\ r[3] \in names /\ ~r[4]
         /\ r \in RId(method, controller, names) =>
              r[1] = method /\ r[2] = controller /\ r[3] \in names /\ r[4]
BY DEF R, RId

(* The routes of a controller fit.  The platform.                          *)
LEMMA InstallPlatformApisFit == \A r \in installPlatformApis : RouteFits(r)
<1> TAKE r \in installPlatformApis
<1>1. r[2] = "platform" /\ r[3] \in DOMAIN ProviderHandlers \cup DOMAIN AssetHandlers \cup DOMAIN RunHandlers
  BY RouteGroup DEF installPlatformApis, ProviderHandlers, AssetHandlers, RunHandlers
<1>2. r[4] => r[3] \in PlatformAddressed
  BY RouteGroup DEF installPlatformApis, PlatformAddressed
<1>3. /\ HandlerTables["platform"] = {ProviderHandlers, AssetHandlers, RunHandlers}
      /\ Addressed["platform"] = PlatformAddressed
  BY DEF HandlerTables, Addressed
<1> QED
  BY <1>1, <1>2, <1>3 DEF RouteFits

(* Signing on.                                                             *)
LEMMA InstallAuthApisFit == \A r \in installAuthApis : RouteFits(r)
<1> TAKE r \in installAuthApis
<1>1. r[2] = "auth" /\ r[3] \in DOMAIN OtpHandlers \cup DOMAIN IdpHandlers \cup DOMAIN SpHandlers
  BY RouteGroup DEF installAuthApis, OtpHandlers, IdpHandlers, SpHandlers
<1>2. r[4] => r[3] \in {}
  BY RouteGroup DEF installAuthApis
<1>3. HandlerTables["auth"] = {OtpHandlers, IdpHandlers, SpHandlers} /\ Addressed["auth"] = {}
  BY DEF HandlerTables, Addressed
<1> QED
  BY <1>1, <1>2, <1>3 DEF RouteFits

(* Single sign-on settings, where nothing is deleted by DELETE.            *)
LEMMA InstallSettingApisFit == \A r \in InstallSettingApis : RouteFits(r)
<1> TAKE r \in InstallSettingApis
<1>1. r[2] = "setting" /\ r[3] \in DOMAIN MetadataHandlers \cup DOMAIN IdpPageHandlers \cup DOMAIN SpPageHandlers
  BY RouteGroup DEF InstallSettingApis, MetadataHandlers, IdpPageHandlers, SpPageHandlers
<1>2. r[4] => r[3] \in {}
  BY RouteGroup DEF InstallSettingApis
<1>3. r[1] # "DELETE"
  BY RouteGroup DEF InstallSettingApis
<1>4. /\ HandlerTables["setting"] = {MetadataHandlers, IdpPageHandlers, SpPageHandlers}
      /\ Addressed["setting"] = {}
  BY DEF HandlerTables, Addressed
<1> QED
  BY <1>1, <1>2, <1>3, <1>4 DEF RouteFits

(* The asset library.                                                      *)
LEMMA InstallAssetApisFit == \A r \in installAssetApis : RouteFits(r)
<1> TAKE r \in installAssetApis
<1>1. r[2] = "asset" /\ r[3] \in DOMAIN AssetLibraryHandlers
  BY RouteGroup DEF installAssetApis, AssetLibraryHandlers
<1>2. r[4] => r[3] \in AssetAddressed
  BY RouteGroup DEF installAssetApis, AssetAddressed
<1>3. HandlerTables["asset"] = {AssetLibraryHandlers} /\ Addressed["asset"] = AssetAddressed
  BY DEF HandlerTables, Addressed
<1> QED
  BY <1>1, <1>2, <1>3 DEF RouteFits

(* The prompt library.                                                     *)
LEMMA InstallPromptApisFit == \A r \in installPromptApis : RouteFits(r)
<1> TAKE r \in installPromptApis
<1>1. r[2] = "prompt" /\ r[3] \in DOMAIN PromptLibraryHandlers
  BY RouteGroup DEF installPromptApis, PromptLibraryHandlers
<1>2. r[4] => r[3] \in PromptAddressed
  BY RouteGroup DEF installPromptApis, PromptAddressed
<1>3. HandlerTables["prompt"] = {PromptLibraryHandlers} /\ Addressed["prompt"] = PromptAddressed
  BY DEF HandlerTables, Addressed
<1> QED
  BY <1>1, <1>2, <1>3 DEF RouteFits

(* Canvases and projects.                                                  *)
LEMMA InstallCanvasApisFit == \A r \in installCanvasApis : RouteFits(r)
<1> TAKE r \in installCanvasApis
<1>1. r[2] = "canvas" /\ r[3] \in DOMAIN CanvasHandlers
  BY RouteGroup DEF installCanvasApis, CanvasHandlers
<1>2. r[4] => r[3] \in CanvasAddressed
  BY RouteGroup DEF installCanvasApis, CanvasAddressed
<1>3. HandlerTables["canvas"] = {CanvasHandlers} /\ Addressed["canvas"] = CanvasAddressed
  BY DEF HandlerTables, Addressed
<1> QED
  BY <1>1, <1>2, <1>3 DEF RouteFits

(* The entry that is looked up is that of a table that has the name.       *)
LEMMA EntryFound ==
  ASSUME NEW tables, NEW name, \E table \in tables : name \in DOMAIN table
  PROVE  \E table \in tables : name \in DOMAIN table /\ Entry(tables, name) = table[name]
BY DEF Entry

(* Every type of the tables fits.                                          *)
LEMMA AllTypesFit == \A table \in RequestTables : TypesFit(table)
<1> USE DEF TypesFit, TypeFits, RowTypes
<1>1. TypesFit(ProviderRequests)
  BY DEF ProviderRequests, T, Json, Query, Update, Checked
<1>2. TypesFit(LLMRequests)
  BY DEF LLMRequests, Json, Loose, T
<1>3. TypesFit(StorageRequests)
  BY DEF StorageRequests, Json, Query, Update, T
<1>4. TypesFit(AssetRequests)
  BY DEF AssetRequests, T, Json, Query, Update, Finished, ChunkFields
<1>5. TypesFit(GroupRequests)
  BY DEF GroupRequests, Json, T
<1>6. TypesFit(TaskRequests)
  BY DEF TaskRequests, Json, Query, T
<1>7. TypesFit(LibraryRequests)
  BY DEF LibraryRequests, Json, Query, ObjectMeta, T
<1>8. TypesFit(CategoryRequests)
  BY DEF CategoryRequests, Json, Query, ObjectMeta, T
<1>9. TypesFit(ItemRequests)
  BY DEF ItemRequests, Json, Query, Loose, ObjectMeta, T
<1>10. TypesFit(PromptRequests)
  BY DEF PromptRequests, Json, ObjectMeta, T
<1>11. TypesFit(ProjectRequests)
  BY DEF ProjectRequests, Json, Update, T
<1>12. TypesFit(CanvasRequests)
  BY DEF CanvasRequests, Json, Update, Loose, T
<1>13. TypesFit(CanvasRunRequests)
  BY DEF CanvasRunRequests, Json, T
<1>14. TypesFit(OtpRequests)
  BY DEF OtpRequests, Json, T
<1>15. TypesFit(AnswerRequests)
  BY DEF AnswerRequests, Query, Finished, T
<1>16. TypesFit(InitiatorRequests)
  BY DEF InitiatorRequests, Query, Finished, T
<1>17. TypesFit(NoRequest)
  BY DEF NoRequest, Json, T
<1> HIDE DEF TypesFit, TypeFits
<1> QED
  BY <1>1, <1>2, <1>3, <1>4, <1>5, <1>6, <1>7, <1>8, <1>9, <1>10,
     <1>11, <1>12, <1>13, <1>14, <1>15, <1>16, <1>17,
     FitIdpMetadataRequests, FitSpMetadataRequests, FitIdpRequests, FitSpRequests DEF RequestTables

(* Every handler of every controller fits.                                 *)
LEMMA AllHandlersFit ==
  ASSUME NEW controller \in {"platform", "auth", "setting", "asset", "prompt", "canvas"}
  PROVE  \A table \in HandlerTables[controller] : HandlersFit(controller, table)
<1>1. \A table \in HandlerTables["platform"] : HandlersFit("platform", table)
  BY FitProviderHandlers, FitAssetHandlers, FitRunHandlers DEF HandlerTables
<1>2. \A table \in HandlerTables["auth"] : HandlersFit("auth", table)
  BY FitOtpHandlers, FitIdpHandlers, FitSpHandlers DEF HandlerTables
<1>3. \A table \in HandlerTables["setting"] : HandlersFit("setting", table)
  BY FitMetadataHandlers, FitIdpPageHandlers, FitSpPageHandlers DEF HandlerTables
<1>4. \A table \in HandlerTables["asset"] : HandlersFit("asset", table)
  BY FitAssetLibraryHandlers DEF HandlerTables
<1>5. \A table \in HandlerTables["prompt"] : HandlersFit("prompt", table)
  BY FitPromptLibraryHandlers DEF HandlerTables
<1>6. \A table \in HandlerTables["canvas"] : HandlersFit("canvas", table)
  BY FitCanvasHandlers DEF HandlerTables
<1> QED
  BY <1>1, <1>2, <1>3, <1>4, <1>5, <1>6

(* Every route fits and belongs to one of the controllers.                 *)
LEMMA AllRoutesFit ==
  ASSUME NEW r \in InstallApis
  PROVE  RouteFits(r) /\ r[2] \in {"platform", "auth", "setting", "asset", "prompt", "canvas"}
<1>1. RouteFits(r)
  BY InstallPlatformApisFit, InstallAuthApisFit, InstallSettingApisFit, InstallAssetApisFit,
     InstallPromptApisFit, InstallCanvasApisFit DEF InstallApis
<1>2. r[2] \in {"platform", "auth", "setting", "asset", "prompt", "canvas"}
  BY RouteGroup DEF InstallApis, installPlatformApis, installAuthApis, InstallSettingApis,
     installAssetApis, installPromptApis, installCanvasApis
<1> QED
  BY <1>1, <1>2

(* So the three tables are coherent for every message that has a route.    *)
LEMMA RoutesCoherent ==
  ASSUME NEW m, m.route \in InstallApis
  PROVE  Coherent(m)
<1> DEFINE r == m.route
           c == r[2]
           h == Handler(m)
<1>1. RouteFits(r) /\ c \in {"platform", "auth", "setting", "asset", "prompt", "canvas"}
  BY AllRoutesFit
<1>2. PICK table \in HandlerTables[c] : r[3] \in DOMAIN table /\ h = table[r[3]]
  BY <1>1, EntryFound DEF RouteFits, Handler
<1>3. HandlerFits(c, r[3], h)
  BY <1>1, <1>2, AllHandlersFit DEF HandlersFit
<1> HIDE DEF h
<1>4. PICK types \in RequestTables : h.req \in DOMAIN types /\ Entry(RequestTables, h.req) = types[h.req]
  BY <1>3, EntryFound DEF HandlerFits
<1>5. TypeFits(h.req, Type(m))
  BY <1>4, AllTypesFit DEF TypesFit, Type, h
<1>6. Type(m).check = "fails" => Type(m).meta /\ Binding(m)
  <2>1. Type(m).check = "fails" => Type(m).meta /\ h.req # "nil" /\ r[1] # "DELETE"
    BY <1>1, <1>3, <1>5 DEF TypeFits, HandlerFits, RouteFits
  <2> QED BY <2>1 DEF Binding, Method, h
<1>7. "nothing" \notin Demanded(m)
  BY <1>5 DEF Demanded, TypeFits
<1>8. h.via = "zip" => Type(m).check = "none" /\ Type(m).post = "none" /\ Type(m).files = {}
  BY <1>3, <1>5 DEF HandlerFits, TypeFits
<1>9. (r[4] => h.id \in {"path", "preset"}) /\ (h.req # "nil" => h.via \in {"run", "zip"})
  BY <1>1, <1>3 DEF RouteFits, HandlerFits
<1> QED
  BY <1>6, <1>7, <1>8, <1>9 DEF Coherent, h

(* The invariant of the stages, for every message.                         *)
LEMMA HttpInvariant == HttpSpec => []HttpInv
<1>1. HttpInit => HttpInv
  BY DEF HttpInit, HttpInv, StageInv, InHand, CompleteMessageServed, AnsweredOnce
<1>2. HttpInv /\ [HttpNext]_httpVars => HttpInv'
  <2> SUFFICES ASSUME HttpInv, [HttpNext]_httpVars PROVE HttpInv'
    OBVIOUS
  <2>1. CASE HttpNext
    BY <2>1, HttpStep, RoutesCoherent
  <2>2. CASE UNCHANGED httpVars
    BY <2>2 DEF httpVars, HttpInv, StageInv, CompleteMessageServed, AnsweredOnce
  <2> QED BY <2>1, <2>2
<1> QED
  BY <1>1, <1>2, PTL DEF HttpSpec

(* Whatever is sent, in any encoding and with anything missing, goes to    *)
(* its service as it was sent, about the resource that is meant, or not at *)
(* all; and what is complete gets there.                                   *)
THEOREM MessagesServedAsSent == HttpSpec => []ServedAsSent
<1>1. HttpInv => ServedAsSent
  <2> SUFFICES ASSUME HttpInv PROVE ServedAsSent
    OBVIOUS
  <2>1. ran => msg.route \in InstallApis /\ target = TargetOf(msg)
    BY DEF HttpInv, StageInv
  <2>2. AddressedResource
    <3>1. TargetOf(msg) = IF Handler(msg).id = "preset"
                            THEN IF Binding(msg) /\ Type(msg).own /\ Named(msg) /\ msg.other THEN "message" ELSE "path"
                          ELSE IF Handler(msg).id = "body" THEN "message" ELSE Handler(msg).id
      <4> HIDE DEF Binding, Type, Named, Handler
      <4> QED BY Zenon DEF TargetOf
    <3>2. ran /\ msg.route[4] => Handler(msg).id \in {"path", "preset"}
      BY <2>1, RoutesCoherent DEF Coherent
    <3> QED BY <2>1, <3>1, <3>2 DEF AddressedResource, Binding
  <2>3. CheckedBeforeRun
    BY DEF HttpInv, StageInv, CheckedBeforeRun
  <2> QED BY <2>2, <2>3 DEF ServedAsSent, HttpInv
<1> QED
  BY <1>1, HttpInvariant, PTL

(* No message is answered twice, but for the download that fails midway,   *)
(* and none is left without an answer but where the validator panics.      *)
THEOREM MessagesAnsweredOnce == HttpSpec => []AnsweredOnce
<1>1. HttpInv => AnsweredOnce
  BY DEF HttpInv
<1> QED
  BY <1>1, HttpInvariant, PTL
=============================================================================
