------------------------------ MODULE LibraryProofs ------------------------------
(* Theorems about AssetLibrary and PromptLibrary, for any number of        *)
(* clients and rows.                                                       *)
EXTENDS AssetLibrary, PromptLibrary, SequenceTheorems, FiniteSetTheorems, WellFoundedInduction, TLAPS

Ids == Nat \cup {NoId}
LibraryRows == [name : Names, raced : BOOLEAN]
CategoryRows ==
  [lib : Ids, name : Names, type : CategoryTypes, raced : BOOLEAN, renamed : BOOLEAN, stray : BOOLEAN]
ItemRows == [lib : Ids, cat : Ids, home : Ids, late : BOOLEAN]
AssetCalls ==
  Naming \cup DeletingLibrary \cup
  {"idle", "check category", "insert category", "take category items", "drop category", "insert items", "move items"}
AssetRequests ==
  [at : AssetCalls, lib : Ids, cat : Ids, name : Names, ids : SUBSET Nat,
   todo : Seq([name : Names, type : CategoryTypes]), overtaken : BOOLEAN, home : Ids,
   takenCats : SUBSET Nat, takenItems : SUBSET Nat]
LibraryTypes ==
  /\ libs \in [DOMAIN libs -> LibraryRows] /\ IsFiniteSet(DOMAIN libs)
  /\ cats \in [DOMAIN cats -> CategoryRows] /\ DOMAIN cats \subseteq CategoryIds
  /\ items \in [DOMAIN items -> ItemRows] /\ DOMAIN items \subseteq Nat
  /\ issued \in [lib : Nat, cat : Nat, item : Nat]
  /\ areq \in [LibrarySessions -> AssetRequests]

(* What an item, and a request that is to file items, know of the category *)
(* they name: it is one that was there, and in the library noted as home   *)
(* as long as it exists.                                                   *)
FiledIn(cat, lib) == cat \in CategoryIds /\ (cat \in DOMAIN cats => cats[cat].lib = lib)

(* What a deletion has found is all there is to find, but for the rows     *)
(* whose flags tell why they may be left behind.                           *)
Excused(i) == items[i].late \/ items[i].lib # items[i].home
FoundCats(found, lib) ==
  /\ \A c \in found : FiledIn(c, lib)
  /\ \A c \in DOMAIN cats : cats[c].lib = lib => c \in found \/ cats[c].stray
FoundItems(found, of) == \A i \in DOMAIN items : items[i].cat \in of => i \in found \/ Excused(i)
DeletionFits(r) ==
  /\ r.at = "take categories" => FoundCats(r.ids, r.lib)
  /\ r.at \in {"take library items", "drop library"} => FoundCats(r.takenCats, r.lib)
  /\ r.at = "take library items" => FoundItems(r.ids, r.takenCats)
  /\ r.at = "drop library" => FoundItems(r.takenItems, r.takenCats)
  /\ r.at = "take category items" => FoundItems(r.ids, {r.cat})
  /\ r.at = "drop category" => FoundItems(r.takenItems, {r.cat})

(* What a request may still rely on of what it has read: all of it, unless *)
(* it was overtaken.                                                       *)
AssetFits(r) ==
  /\ r.at = "insert library" => r.overtaken \/ ~LibraryNamed(r.name)
  /\ r.at = "rename library" => r.overtaken \/ \A l \in DOMAIN libs \ {r.lib} : libs[l].name # r.name
  /\ r.at \in DeletingLibrary => r.overtaken \/ \E k, l \in DOMAIN libs : k # l
  /\ r.at \in {"check category", "insert category"} => r.todo # <<>>
  /\ r.at = "insert category" => r.overtaken \/ ~CategoryNamed(Head(r.todo).name, r.lib)
  /\ r.at \in {"insert items", "move items"} => FiledIn(r.cat, r.home)
  /\ r.at = "insert items" => IsFiniteSet(r.ids)
  /\ DeletionFits(r)

LibraryInv ==
  /\ LibraryTypes /\ LibraryNamesUnique /\ CategoryNamesUnique
  /\ LostCategoriesExplained /\ LostItemsExplained
  /\ \A i \in DOMAIN items : FiledIn(items[i].cat, items[i].home)
  /\ \A s \in LibrarySessions : AssetFits(areq[s])
-----------------------------------------------------------------------------
(* Requests as they are made.                                              *)
LEMMA AssetRequestFacts ==
  ASSUME NEW at \in AssetCalls, NEW lib \in Ids, NEW cat \in Ids, NEW name \in Names, NEW ids \in SUBSET Nat,
         NEW todo \in Seq([name : Names, type : CategoryTypes]), NEW home \in Ids
  PROVE  /\ AssetRequest(at, lib, cat, name, ids, todo) \in AssetRequests
         /\ [AssetRequest(at, lib, cat, name, ids, todo) EXCEPT !.home = home] \in AssetRequests
  BY DEF AssetRequest, AssetRequests, Ids

(* No request.                                                             *)
LEMMA AssetIdleFacts == AssetIdle \in AssetRequests /\ AssetIdle.at = "idle"
<1>1. AssetIdle \in AssetRequests
  BY AssetLibraryAssumption, EmptySeq, AssetRequestFacts DEF AssetIdle, AssetCalls, Ids
<1> QED BY <1>1 DEF AssetIdle, AssetRequest

(* Others go on with the request they are in; those whose next call is one *)
(* of ats have been overtaken.                                             *)
SameRequest(r, q) ==
  /\ r.at = q.at /\ r.lib = q.lib /\ r.cat = q.cat /\ r.name = q.name /\ r.todo = q.todo /\ r.home = q.home
  /\ r.ids = q.ids /\ r.takenCats = q.takenCats /\ r.takenItems = q.takenItems
PastOthers(s, ats) ==
  \A t \in LibrarySessions \ {s} :
    /\ SameRequest(areq'[t], areq[t])
    /\ areq[t].overtaken => areq'[t].overtaken
    /\ areq[t].at \in ats => areq'[t].overtaken

(* A request goes on, past nobody.                                         *)
LEMMA Goes ==
  ASSUME LibraryTypes, NEW s \in LibrarySessions, NEW r \in AssetRequests, AssetGoes(s, r)
  PROVE  areq' \in [LibrarySessions -> AssetRequests] /\ areq'[s] = r /\ PastOthers(s, {})
<1>1. areq' \in [LibrarySessions -> AssetRequests] /\ areq'[s] = r /\ \A t \in LibrarySessions \ {s} : areq'[t] = areq[t]
  BY DEF LibraryTypes, AssetGoes
<1> QED BY <1>1 DEF PastOthers, SameRequest

(* A request goes on, past those of ats.                                   *)
LEMMA GoesPast ==
  ASSUME LibraryTypes, NEW s \in LibrarySessions, NEW r \in AssetRequests, NEW ats, AssetGoesPast(s, r, ats)
  PROVE  areq' \in [LibrarySessions -> AssetRequests] /\ areq'[s] = r /\ PastOthers(s, ats)
<1>1. ASSUME NEW q \in AssetRequests, NEW n, n = [q EXCEPT !.overtaken = q.overtaken \/ q.at \in ats]
      PROVE  /\ n \in AssetRequests /\ SameRequest(n, q)
             /\ (q.overtaken => n.overtaken) /\ (q.at \in ats => n.overtaken)
  <2> DEFINE o == q.overtaken \/ q.at \in ats
  <2>1. o \in BOOLEAN /\ (q.overtaken => o) /\ (q.at \in ats => o)
    OBVIOUS
  <2>2. n = [q EXCEPT !.overtaken = o]
    BY <1>1
  <2> HIDE DEF o
  <2>3. n \in AssetRequests /\ SameRequest(n, q) /\ n.overtaken = o
    BY <2>1, <2>2 DEF AssetRequests, SameRequest
  <2> QED BY <2>1, <2>3
<1>2. \A t \in LibrarySessions : areq[t] \in AssetRequests
  BY DEF LibraryTypes
<1>3. areq' = [t \in LibrarySessions |-> IF t = s THEN r ELSE [areq[t] EXCEPT !.overtaken = areq[t].overtaken \/ areq[t].at \in ats]]
  BY DEF AssetGoesPast
<1>4. areq'[s] = r /\ DOMAIN areq' = LibrarySessions
  BY <1>3
<1>5. ASSUME NEW t \in LibrarySessions \ {s}
      PROVE  /\ areq'[t] \in AssetRequests /\ SameRequest(areq'[t], areq[t])
             /\ (areq[t].overtaken => areq'[t].overtaken) /\ (areq[t].at \in ats => areq'[t].overtaken)
  <2>1. areq'[t] = [areq[t] EXCEPT !.overtaken = areq[t].overtaken \/ areq[t].at \in ats]
    BY <1>3
  <2>2. areq[t] \in AssetRequests
    BY <1>2
  <2> QED BY <1>1, <2>1, <2>2, Zenon
<1>6. areq' \in [LibrarySessions -> AssetRequests]
  BY <1>3, <1>4, <1>5
<1> QED BY <1>4, <1>5, <1>6 DEF PastOthers
-----------------------------------------------------------------------------
(* What steps do to the tables.  A category that was there stays in its    *)
(* library, one that loses it is marked, and so is a new one whose library *)
(* is gone or being deleted; no id is used again.  The same goes for the   *)
(* items and their categories.                                             *)
LibsShrink == \A l \in DOMAIN libs' : l \in DOMAIN libs /\ libs'[l] = libs[l]
CatsShrink == \A c \in DOMAIN cats' : c \in DOMAIN cats /\ cats'[c] = cats[c]
CatStays(c) ==
  \/ /\ c \in DOMAIN cats /\ cats'[c].lib = cats[c].lib /\ cats'[c].stray = cats[c].stray
     /\ cats[c].lib \in DOMAIN libs \ DOMAIN libs' => cats[c].stray
  \/ /\ c \notin CategoryIds
     /\ cats'[c].lib \notin DOMAIN libs' \/ LibraryCleared(cats'[c].lib) => cats'[c].stray
CatsStay == CategoryIds \subseteq CategoryIds' /\ \A c \in DOMAIN cats' : CatStays(c)
AssetItemStays(i) ==
  \/ /\ i \in DOMAIN items /\ items'[i] = items[i]
     /\ items[i].cat \in DOMAIN cats \ DOMAIN cats' => Excused(i)
  \/ /\ items'[i].cat \in CategoryIds'
     /\ items'[i].cat \in DOMAIN cats' => cats'[items'[i].cat].lib = items'[i].home
     /\ items'[i].cat \notin DOMAIN cats' \/ CategoryCleared(items'[i].cat) => items'[i].late
ItemsStay == \A i \in DOMAIN items' : AssetItemStays(i)

(* What a deletion has found stays all there is.                           *)
LEMMA DeletionFitsStays ==
  ASSUME LibraryTypes, CatsStay, ItemsStay, NEW t \in LibrarySessions, DeletionFits(areq[t]),
         SameRequest(areq'[t], areq[t])
  PROVE  DeletionFits(areq[t])'
<1>0. DOMAIN cats \subseteq CategoryIds
  BY DEF LibraryTypes
<1>1. /\ areq'[t].at = areq[t].at /\ areq'[t].lib = areq[t].lib /\ areq'[t].cat = areq[t].cat
      /\ areq'[t].ids = areq[t].ids /\ areq'[t].takenCats = areq[t].takenCats /\ areq'[t].takenItems = areq[t].takenItems
  BY DEF SameRequest
<1>2. ASSUME NEW found, FoundCats(found, areq[t].lib), LibraryCleared(areq[t].lib)
      PROVE  /\ \A c \in found : c \in CategoryIds' /\ (c \in DOMAIN cats' => cats'[c].lib = areq[t].lib)
             /\ \A c \in DOMAIN cats' : cats'[c].lib = areq[t].lib => c \in found \/ cats'[c].stray
  BY <1>0, <1>2 DEF FoundCats, FiledIn, CatsStay, CatStays
<1>3. ASSUME NEW found, NEW of, FoundItems(found, of), \A c \in of : CategoryCleared(c)
      PROVE  \A i \in DOMAIN items' : items'[i].cat \in of => i \in found \/ items'[i].late \/ items'[i].lib # items'[i].home
  BY <1>3 DEF FoundItems, ItemsStay, AssetItemStays, Excused
<1>4. areq[t].at \in {"take categories", "take library items", "drop library"} => LibraryCleared(areq[t].lib)
  BY DEF LibraryCleared
<1>5. \A c \in areq[t].takenCats : CategoryCleared(c)
  BY DEF CategoryCleared
<1>6. areq[t].at \in {"take category items", "drop category"} => \A c \in {areq[t].cat} : CategoryCleared(c)
  BY DEF CategoryCleared
<1>7. areq[t].at = "take categories" => FoundCats(areq[t].ids, areq[t].lib)'
  BY <1>1, <1>2, <1>4 DEF DeletionFits, FoundCats, FiledIn
<1>8. areq[t].at \in {"take library items", "drop library"} => FoundCats(areq[t].takenCats, areq[t].lib)'
  BY <1>1, <1>2, <1>4 DEF DeletionFits, FoundCats, FiledIn
<1>9. areq[t].at = "take library items" => FoundItems(areq[t].ids, areq[t].takenCats)'
  <2>1. areq[t].at = "take library items" => FoundItems(areq[t].ids, areq[t].takenCats)
    BY DEF DeletionFits
  <2> QED BY <1>1, <1>3, <1>5, <2>1 DEF FoundItems, Excused
<1>10. areq[t].at = "drop library" => FoundItems(areq[t].takenItems, areq[t].takenCats)'
  <2>1. areq[t].at = "drop library" => FoundItems(areq[t].takenItems, areq[t].takenCats)
    BY DEF DeletionFits
  <2> QED BY <1>1, <1>3, <1>5, <2>1 DEF FoundItems, Excused
<1>11. areq[t].at = "take category items" => FoundItems(areq[t].ids, {areq[t].cat})'
  <2>1. areq[t].at = "take category items" => FoundItems(areq[t].ids, {areq[t].cat})
    BY DEF DeletionFits
  <2> QED BY <1>1, <1>3, <1>6, <2>1 DEF FoundItems, Excused
<1>12. areq[t].at = "drop category" => FoundItems(areq[t].takenItems, {areq[t].cat})'
  <2>1. areq[t].at = "drop category" => FoundItems(areq[t].takenItems, {areq[t].cat})
    BY DEF DeletionFits
  <2> QED BY <1>1, <1>3, <1>6, <2>1 DEF FoundItems, Excused
<1> QED BY <1>1, <1>7, <1>8, <1>9, <1>10, <1>11, <1>12 DEF DeletionFits

(* Every step of the asset library has this form.                          *)
LEMMA LibraryStep ==
  ASSUME LibraryInv, NEW s \in LibrarySessions, NEW ats, LibraryTypes', PastOthers(s, ats), AssetFits(areq[s])',
         LibsShrink \/ (Naming \subseteq ats /\ LibraryNamesUnique'),
         DeletingLibrary \subseteq ats \/ DOMAIN libs \subseteq DOMAIN libs',
         CatsShrink \/ ("insert category" \in ats /\ CategoryNamesUnique'),
         CatsStay, ItemsStay
  PROVE  LibraryInv'
<1>0. /\ LibraryTypes /\ LibraryNamesUnique /\ CategoryNamesUnique /\ LostCategoriesExplained /\ LostItemsExplained
      /\ \A i \in DOMAIN items : FiledIn(items[i].cat, items[i].home)
  BY DEF LibraryInv
<1>1. LibraryNamesUnique'
  BY <1>0 DEF LibsShrink, LibraryNamesUnique
<1>2. CategoryNamesUnique'
  <2> SUFFICES ASSUME CatsShrink PROVE CategoryNamesUnique'
    OBVIOUS
  <2>1. ASSUME NEW c \in DOMAIN cats', NEW d \in DOMAIN cats', c # d,
               cats'[c].name = cats'[d].name, cats'[c].lib = cats'[d].lib
        PROVE  \E e \in {c, d} : cats'[e].renamed \/ cats'[e].raced
    <3>1. c \in DOMAIN cats /\ d \in DOMAIN cats /\ cats'[c] = cats[c] /\ cats'[d] = cats[d]
      BY DEF CatsShrink
    <3>2. PICK e \in {c, d} : cats[e].renamed \/ cats[e].raced
      BY <1>0, <2>1, <3>1 DEF CategoryNamesUnique
    <3> QED BY <3>1, <3>2
  <2> QED BY <2>1 DEF CategoryNamesUnique
<1>l. LostCategoriesExplained'
  BY <1>0 DEF CatsStay, CatStays, LostCategoriesExplained
<1>3. ASSUME NEW i \in DOMAIN items'
      PROVE  /\ (FiledIn(items[i].cat, items[i].home))'
             /\ items'[i].cat \notin DOMAIN cats' => items'[i].late \/ items'[i].lib # items'[i].home
  <2>1. CASE /\ i \in DOMAIN items /\ items'[i] = items[i]
             /\ items[i].cat \in DOMAIN cats \ DOMAIN cats' => Excused(i)
    <3>1. FiledIn(items[i].cat, items[i].home) /\ items'[i].cat = items[i].cat /\ items'[i].home = items[i].home
      BY <1>0, <2>1
    <3>2. (FiledIn(items[i].cat, items[i].home))'
      BY <3>1 DEF FiledIn, CatsStay, CatStays
    <3> QED BY <1>0, <2>1, <3>2 DEF LostItemsExplained, Excused
  <2>2. CASE /\ items'[i].cat \in CategoryIds'
             /\ items'[i].cat \in DOMAIN cats' => cats'[items'[i].cat].lib = items'[i].home
             /\ items'[i].cat \notin DOMAIN cats' => items'[i].late
    BY <2>2 DEF FiledIn
  <2> QED BY <2>1, <2>2 DEF ItemsStay, AssetItemStays
<1>4. ASSUME NEW t \in LibrarySessions, t # s PROVE AssetFits(areq[t])'
  <2>0. AssetFits(areq[t])
    BY DEF LibraryInv
  <2>s. SameRequest(areq'[t], areq[t])
    BY <1>4 DEF PastOthers
  <2>1. /\ areq'[t].at = areq[t].at /\ areq'[t].lib = areq[t].lib /\ areq'[t].cat = areq[t].cat
        /\ areq'[t].name = areq[t].name /\ areq'[t].todo = areq[t].todo /\ areq'[t].home = areq[t].home
        /\ areq'[t].ids = areq[t].ids
        /\ areq[t].overtaken => areq'[t].overtaken
        /\ areq[t].at \in ats => areq'[t].overtaken
    BY <1>4 DEF PastOthers, SameRequest
  <2>2. areq[t].at = "insert library" => areq'[t].overtaken \/ ~LibraryNamed(areq[t].name)'
    BY <2>0, <2>1 DEF AssetFits, Naming, LibsShrink, LibraryNamed
  <2>3. areq[t].at = "rename library" => areq'[t].overtaken \/ \A l \in DOMAIN libs' \ {areq[t].lib} : libs'[l].name # areq[t].name
    BY <2>0, <2>1 DEF AssetFits, Naming, LibsShrink
  <2>4. areq[t].at \in DeletingLibrary => areq'[t].overtaken \/ \E k, l \in DOMAIN libs' : k # l
    BY <2>0, <2>1 DEF AssetFits
  <2>5. areq[t].at \in {"check category", "insert category"} => areq[t].todo # <<>>
    BY <2>0 DEF AssetFits
  <2>6. areq[t].at = "insert category" => areq'[t].overtaken \/ ~CategoryNamed(Head(areq[t].todo).name, areq[t].lib)'
    <3>1. areq[t].at = "insert category" => areq[t].overtaken \/ ~CategoryNamed(Head(areq[t].todo).name, areq[t].lib)
      BY <2>0 DEF AssetFits
    <3>2. CASE CatsShrink
      <4>1. CategoryNamed(Head(areq[t].todo).name, areq[t].lib)' => CategoryNamed(Head(areq[t].todo).name, areq[t].lib)
        BY <2>1, <3>2 DEF CatsShrink, CategoryNamed
      <4> QED BY <2>1, <3>1, <4>1
    <3>3. CASE "insert category" \in ats
      BY <2>1, <3>3
    <3> QED BY <3>2, <3>3
  <2>8. areq[t].at \in {"insert items", "move items"} => FiledIn(areq[t].cat, areq[t].home)'
    BY <2>0, <2>1 DEF AssetFits, FiledIn, CatsStay, CatStays
  <2>9. areq[t].at = "insert items" => IsFiniteSet(areq[t].ids)
    BY <2>0 DEF AssetFits
  <2>10. DeletionFits(areq[t])'
    <3>1. DeletionFits(areq[t])
      BY <2>0 DEF AssetFits
    <3> QED BY <1>0, <2>s, <3>1, DeletionFitsStays
  <2> QED BY <2>1, <2>2, <2>3, <2>4, <2>5, <2>6, <2>8, <2>9, <2>10 DEF AssetFits
<1> QED BY <1>1, <1>2, <1>l, <1>3, <1>4 DEF LibraryInv, LostItemsExplained
-----------------------------------------------------------------------------
(* A step that only reads.                                                 *)
LEMMA LibraryReads ==
  ASSUME LibraryInv, NEW s \in LibrarySessions, NEW r \in AssetRequests, AssetGoes(s, r), AssetFits(r),
         UNCHANGED <<libs, cats, items, issued>>
  PROVE  LibraryInv'
<1>0. LibraryTypes /\ CategoryIds' = CategoryIds
  BY DEF LibraryInv, CategoryIds
<1>1. areq' \in [LibrarySessions -> AssetRequests] /\ areq'[s] = r /\ PastOthers(s, {})
  BY <1>0, Goes
<1>2. LibraryTypes'
  BY <1>0, <1>1 DEF LibraryTypes
<1>3. AssetFits(areq[s])'
  <2>1. (r.at = "insert library" => r.overtaken \/ ~LibraryNamed(r.name))'
    BY DEF AssetFits, LibraryNamed
  <2>2. (r.at = "rename library" => r.overtaken \/ \A l \in DOMAIN libs \ {r.lib} : libs[l].name # r.name)'
    BY DEF AssetFits
  <2>3. (r.at \in DeletingLibrary => r.overtaken \/ \E k, l \in DOMAIN libs : k # l)'
    BY DEF AssetFits
  <2>4. r.at \in {"check category", "insert category"} => r.todo # <<>>
    BY DEF AssetFits
  <2>5. (r.at = "insert category" => r.overtaken \/ ~CategoryNamed(Head(r.todo).name, r.lib))'
    BY DEF AssetFits, CategoryNamed
  <2>6. (r.at \in {"insert items", "move items"} => FiledIn(r.cat, r.home))'
    BY <1>0 DEF AssetFits, FiledIn
  <2>7. r.at = "insert items" => IsFiniteSet(r.ids)
    BY DEF AssetFits
  <2>8. DeletionFits(r)'
    <3>1. DeletionFits(r)
      BY DEF AssetFits
    <3> QED BY <1>0, <3>1 DEF DeletionFits, FoundCats, FoundItems, FiledIn, Excused
  <2> QED BY <1>1, <2>1, <2>2, <2>3, <2>4, <2>5, <2>6, <2>7, <2>8 DEF AssetFits
<1>4. LibsShrink /\ CatsShrink /\ CatsStay /\ ItemsStay
  BY <1>0 DEF LibsShrink, CatsShrink, CatsStay, CatStays, ItemsStay, AssetItemStays
<1> QED BY <1>1, <1>2, <1>3, <1>4, LibraryStep

(* A request is done, or ends with an error.                               *)
LEMMA AssetIdleFits == AssetFits(AssetIdle)
  BY AssetIdleFacts DEF AssetFits, DeletionFits, DeletingLibrary

(* The ids of libraries that a client has seen.                            *)
LEMMA SeenIds ==
  ASSUME LibraryTypes
  PROVE  LibraryIds \subseteq Ids /\ CategoryIds \subseteq Ids /\ ItemIds \subseteq Nat /\ NoId \in Ids
  BY DEF LibraryTypes, LibraryIds, CategoryIds, ItemIds, Ids

(* A request for a library looks at the names, or counts.                  *)
LEMMA LibraryRequests ==
  ASSUME LibraryInv, NEW s \in LibrarySessions,
         \/ AssetCallFails(s)
         \/ \E name \in Names : AssetLibraryCreate(s, name)
         \/ \E l \in LibraryIds, name \in Names : AssetLibraryUpdate(s, l, name)
         \/ \E l \in LibraryIds : AssetLibraryDelete(s, l)
  PROVE  LibraryInv'
<1>0. LibraryTypes /\ DefaultName \in Names /\ {} \in SUBSET Nat /\ <<>> \in Seq([name : Names, type : CategoryTypes])
  BY AssetLibraryAssumption, EmptySeq DEF LibraryInv
<1>1. CASE AssetCallFails(s)
  BY <1>1, AssetIdleFacts, AssetIdleFits, LibraryReads DEF AssetCallFails
<1>2. ASSUME NEW name \in Names, AssetLibraryCreate(s, name) PROVE LibraryInv'
  <2> DEFINE r == AssetRequest("insert library", NoId, NoId, name, {}, <<>>)
  <2>1. r \in AssetRequests
    BY <1>0, SeenIds, AssetRequestFacts DEF AssetCalls, Naming
  <2>2. r.at = "insert library" /\ r.name = name
    BY DEF AssetRequest
  <2>3. ~LibraryNamed(name) /\ AssetGoes(s, r) /\ UNCHANGED <<libs, cats, items, issued>>
    BY <1>2 DEF AssetLibraryCreate
  <2> HIDE DEF r
  <2>4. AssetFits(r)
    BY <2>2, <2>3 DEF AssetFits, DeletionFits, DeletingLibrary
  <2> QED BY <2>1, <2>3, <2>4, LibraryReads
<1>3. ASSUME NEW l \in LibraryIds, NEW name \in Names, AssetLibraryUpdate(s, l, name) PROVE LibraryInv'
  <2> DEFINE r == AssetRequest("rename library", l, NoId, name, {}, <<>>)
  <2>1. r \in AssetRequests
    BY <1>0, SeenIds, AssetRequestFacts DEF AssetCalls, Naming
  <2>2. r.at = "rename library" /\ r.name = name /\ r.lib = l
    BY DEF AssetRequest
  <2>3. (\A k \in DOMAIN libs \ {l} : libs[k].name # name) /\ AssetGoes(s, r) /\ UNCHANGED <<libs, cats, items, issued>>
    BY <1>3 DEF AssetLibraryUpdate
  <2> HIDE DEF r
  <2>4. AssetFits(r)
    BY <2>2, <2>3 DEF AssetFits, DeletionFits, DeletingLibrary
  <2> QED BY <2>1, <2>3, <2>4, LibraryReads
<1>4. ASSUME NEW l \in LibraryIds, AssetLibraryDelete(s, l) PROVE LibraryInv'
  <2> DEFINE r == AssetRequest("delete library", l, NoId, DefaultName, {}, <<>>)
  <2>1. r \in AssetRequests
    BY <1>0, SeenIds, AssetRequestFacts DEF AssetCalls, DeletingLibrary
  <2>2. r.at = "delete library"
    BY DEF AssetRequest
  <2>3. Cardinality(DOMAIN libs) > 1 /\ AssetGoes(s, r) /\ UNCHANGED <<libs, cats, items, issued>>
    BY <1>4 DEF AssetLibraryDelete
  <2> HIDE DEF r
  <2>4. \E j, k \in DOMAIN libs : j # k
    <3>1. IsFiniteSet(DOMAIN libs)
      BY <1>0 DEF LibraryTypes
    <3>c. ~(0 > 1) /\ ~(1 > 1)
      OBVIOUS
    <3>2. DOMAIN libs # {}
      BY <2>3, <3>c, FS_EmptySet
    <3>3. PICK j \in DOMAIN libs : TRUE
      BY <3>2
    <3>4. DOMAIN libs # {j}
      BY <2>3, <3>c, FS_Singleton
    <3> QED BY <3>3, <3>4
  <2>5. AssetFits(r)
    BY <2>2, <2>4 DEF AssetFits, DeletionFits
  <2> QED BY <2>1, <2>3, <2>5, LibraryReads
<1> QED BY <1>1, <1>2, <1>3, <1>4

(* A request for a category or items looks up the category.                *)
LEMMA CategoryRequests ==
  ASSUME LibraryInv, NEW s \in LibrarySessions,
         \/ \E l \in LibraryIds, name \in Names, t \in CategoryTypes : AssetCategoryCreate(s, l, name, t)
         \/ CheckCategory(s)
         \/ \E l \in LibraryIds, c \in CategoryIds, n \in BatchSizes : AssetItemCreate(s, l, c, n)
         \/ \E ids \in SUBSET ItemIds \ {{}}, l \in LibraryIds \cup {NoId}, c \in CategoryIds :
              AssetItemBatchMove(s, ids, l, c)
  PROVE  LibraryInv'
<1>0. /\ LibraryTypes /\ DefaultName \in Names /\ {} \in SUBSET Nat /\ <<>> \in Seq([name : Names, type : CategoryTypes])
      /\ cats \in [DOMAIN cats -> CategoryRows] /\ areq[s] \in AssetRequests /\ AssetFits(areq[s])
  BY AssetLibraryAssumption, EmptySeq DEF LibraryInv, LibraryTypes
<1>1. ASSUME NEW l \in LibraryIds, NEW name \in Names, NEW t \in CategoryTypes, AssetCategoryCreate(s, l, name, t)
      PROVE  LibraryInv'
  <2> DEFINE new == <<[name |-> name, type |-> t]>>
             r == AssetRequest("check category", l, NoId, name, {}, new)
  <2>1. new \in Seq([name : Names, type : CategoryTypes]) /\ new # <<>>
    OBVIOUS
  <2>2. AssetGoes(s, r) /\ UNCHANGED <<libs, cats, items, issued>>
    BY <1>1 DEF AssetCategoryCreate
  <2> HIDE DEF new
  <2>3. r \in AssetRequests
    BY <1>0, <2>1, SeenIds, AssetRequestFacts DEF AssetCalls
  <2>4. r.at = "check category" /\ r.todo = new
    BY DEF AssetRequest
  <2> HIDE DEF r
  <2>5. AssetFits(r)
    BY <2>1, <2>4 DEF AssetFits, DeletionFits, DeletingLibrary
  <2> QED BY <2>2, <2>3, <2>5, LibraryReads
<1>2. CASE CheckCategory(s)
  <2>0. areq[s].at = "check category" /\ areq[s].todo # <<>> /\ UNCHANGED <<libs, cats, items, issued>>
    BY <1>0, <1>2 DEF CheckCategory, AssetFits
  <2>1. CASE CategoryNamed(Head(areq[s].todo).name, areq[s].lib)
    <3>1. AssetGoes(s, AssetIdle)
      BY <1>2, <2>1 DEF CheckCategory
    <3> QED BY <2>0, <3>1, AssetIdleFacts, AssetIdleFits, LibraryReads
  <2>2. CASE ~CategoryNamed(Head(areq[s].todo).name, areq[s].lib)
    <3> DEFINE r == [areq[s] EXCEPT !.at = "insert category", !.overtaken = FALSE]
    <3>1. AssetGoes(s, r)
      BY <1>2, <2>2 DEF CheckCategory
    <3>2. r \in AssetRequests /\ r.at = "insert category" /\ r.todo = areq[s].todo /\ r.lib = areq[s].lib
      BY <1>0 DEF AssetRequests, AssetCalls
    <3> HIDE DEF r
    <3>3. AssetFits(r)
      BY <2>0, <2>2, <3>2 DEF AssetFits, DeletionFits, DeletingLibrary
    <3> QED BY <2>0, <3>1, <3>2, <3>3, LibraryReads
  <2> QED BY <2>1, <2>2
<1>3. ASSUME NEW at \in {"insert items", "move items"}, NEW l \in LibraryIds \cup {NoId}, NEW c \in CategoryIds,
             NEW ids \in SUBSET Nat, at = "insert items" => IsFiniteSet(ids), c \in DOMAIN cats,
             AssetGoes(s, [AssetRequest(at, l, c, DefaultName, ids, <<>>) EXCEPT !.home = cats[c].lib]),
             UNCHANGED <<libs, cats, items, issued>>
      PROVE  LibraryInv'
  <2> DEFINE r == [AssetRequest(at, l, c, DefaultName, ids, <<>>) EXCEPT !.home = cats[c].lib]
  <2>0. l \in Ids /\ c \in Ids /\ at \in AssetCalls
    BY <1>0, SeenIds DEF AssetCalls
  <2>1. cats[c].lib \in Ids
    BY <1>0, <1>3 DEF CategoryRows
  <2>2. r \in AssetRequests
    BY <1>0, <2>0, <2>1, AssetRequestFacts
  <2>3. r.at = at /\ r.cat = c /\ r.home = cats[c].lib /\ r.ids = ids
    BY DEF AssetRequest
  <2>4. AssetGoes(s, r)
    BY <1>3
  <2>f. c \in CategoryIds /\ at \notin DeletingLibrary
    BY DEF DeletingLibrary
  <2> HIDE DEF r
  <2>5. AssetFits(r)
    BY <1>3, <2>3, <2>f DEF AssetFits, FiledIn, DeletionFits
  <2> QED BY <1>3, <2>2, <2>4, <2>5, LibraryReads
<1>4. ASSUME NEW l \in LibraryIds, NEW c \in CategoryIds, NEW n \in BatchSizes, AssetItemCreate(s, l, c, n)
      PROVE  LibraryInv'
  <2>0. n \in Nat
    BY AssetLibraryAssumption
  <2>i. IsFiniteSet(1..n)
    BY <2>0, FS_Interval
  <2>1. 1..n \in SUBSET Nat
    BY <2>0
  <2>2. /\ c \in DOMAIN cats /\ UNCHANGED <<libs, cats, items, issued>>
        /\ AssetGoes(s, [AssetRequest("insert items", l, c, DefaultName, 1..n, <<>>) EXCEPT !.home = cats[c].lib])
    BY <1>4 DEF AssetItemCreate
  <2> QED BY <1>3, <2>i, <2>1, <2>2
<1>5. ASSUME NEW ids \in SUBSET ItemIds, NEW l \in LibraryIds \cup {NoId}, NEW c \in CategoryIds,
             AssetItemBatchMove(s, ids, l, c)
      PROVE  LibraryInv'
  <2>1. ids \in SUBSET Nat
    BY <1>0, SeenIds
  <2>2. /\ c \in DOMAIN cats /\ UNCHANGED <<libs, cats, items, issued>>
        /\ AssetGoes(s, [AssetRequest("move items", l, c, DefaultName, ids, <<>>) EXCEPT !.home = cats[c].lib])
    BY <1>5 DEF AssetItemBatchMove
  <2> QED BY <1>3, <2>1, <2>2
<1> QED BY <1>1, <1>2, <1>4, <1>5

(* A request that is over fits whatever the tables are.                    *)
LEMMA AssetIdleThen ==
  ASSUME NEW s, areq'[s] = AssetIdle
  PROVE  AssetFits(areq[s])'
  BY AssetIdleFacts DEF AssetFits, DeletionFits, DeletingLibrary

(* A library is added.                                                     *)
LEMMA LibraryInserted ==
  ASSUME LibraryInv, NEW s \in LibrarySessions, InsertLibrary(s)
  PROVE  LibraryInv'
<1> DEFINE id == issued.lib + 1
           row == LibraryRow(areq[s].name, areq[s].overtaken)
           two == <<[name |-> DefaultName, type |-> "image"], [name |-> WorkflowName, type |-> "workflow"]>>
           r == AssetRequest("check category", id, NoId, DefaultName, {}, two)
<1>0. /\ LibraryTypes /\ LibraryNamesUnique /\ areq[s] \in AssetRequests /\ AssetFits(areq[s]) /\ issued \in [lib : Nat, cat : Nat, item : Nat]
      /\ libs \in [DOMAIN libs -> LibraryRows] /\ IsFiniteSet(DOMAIN libs)
  BY DEF LibraryInv, LibraryTypes
<1>1. /\ areq[s].at = "insert library" /\ libs' = Put(libs, id, row) /\ issued' = [issued EXCEPT !.lib = id]
      /\ AssetGoesPast(s, r, Naming) /\ UNCHANGED <<cats, items>>
  BY DEF InsertLibrary
<1>2. id \in Nat /\ issued' \in [lib : Nat, cat : Nat, item : Nat] /\ issued'.cat = issued.cat
  <2>1. issued.lib \in Nat
    BY <1>0
  <2>2. id \in Nat
    BY <2>1
  <2> HIDE DEF id
  <2> QED BY <1>0, <1>1, <2>2
<1>3. row \in LibraryRows /\ row.name = areq[s].name /\ row.raced = areq[s].overtaken
  BY <1>0 DEF LibraryRow, LibraryRows, AssetRequests
<1>4. two \in Seq([name : Names, type : CategoryTypes]) /\ two # <<>>
  BY AssetLibraryAssumption DEF CategoryTypes
<1>5. DefaultName \in Names
  BY AssetLibraryAssumption
<1> HIDE DEF id, row, two
<1>6. r \in AssetRequests
  BY <1>2, <1>4, <1>5, AssetRequestFacts DEF AssetCalls, Ids
<1>7. r.at = "check category" /\ r.todo = two
  BY DEF AssetRequest
<1> HIDE DEF r
<1>8. areq' \in [LibrarySessions -> AssetRequests] /\ areq'[s] = r /\ PastOthers(s, Naming)
  BY <1>0, <1>1, <1>6, GoesPast
<1>9. AssetFits(areq[s])'
  BY <1>4, <1>7, <1>8 DEF AssetFits, DeletionFits, DeletingLibrary
<1>10. /\ DOMAIN libs' = DOMAIN libs \cup {id} /\ libs' \in [DOMAIN libs' -> LibraryRows] /\ libs'[id] = row
       /\ \A l \in DOMAIN libs \ {id} : libs'[l] = libs[l]
  <2>1. libs \in [DOMAIN libs -> LibraryRows] /\ libs' = Put(libs, id, row) /\ row \in LibraryRows
    BY <1>0, <1>1, <1>3
  <2> QED BY <2>1 DEF Put
<1>11. IsFiniteSet(DOMAIN libs')
  BY <1>0, <1>10, FS_AddElement
<1>12. CategoryIds' = CategoryIds
  BY <1>2 DEF CategoryIds
<1>13. LibraryTypes'
  BY <1>0, <1>1, <1>2, <1>8, <1>10, <1>11, <1>12 DEF LibraryTypes
<1>14. LibraryNamesUnique'
  <2>1. row.raced \/ \A l \in DOMAIN libs : libs[l].name # row.name
    BY <1>0, <1>1, <1>3 DEF AssetFits, LibraryNamed
  <2> SUFFICES ASSUME NEW k \in DOMAIN libs', NEW l \in DOMAIN libs', k # l, libs'[k].name = libs'[l].name
               PROVE  libs'[k].raced \/ libs'[l].raced
    BY DEF LibraryNamesUnique
  <2>2. CASE k = id
    BY <1>10, <2>1, <2>2
  <2>3. CASE l = id
    BY <1>10, <2>1, <2>3
  <2>4. CASE k # id /\ l # id
    BY <1>0, <1>10, <2>4 DEF LibraryNamesUnique
  <2> QED BY <2>2, <2>3, <2>4
<1>15. CatsShrink /\ CatsStay /\ ItemsStay
  BY <1>0, <1>1, <1>10, <1>12 DEF CatsShrink, CatsStay, CatStays, ItemsStay, AssetItemStays
<1> QED BY <1>8, <1>9, <1>10, <1>13, <1>14, <1>15, LibraryStep

(* A library gets another name.                                            *)
LEMMA LibraryRenamed ==
  ASSUME LibraryInv, NEW s \in LibrarySessions, RenameLibrary(s)
  PROVE  LibraryInv'
<1> DEFINE id == areq[s].lib
           row == LibraryRow(areq[s].name, areq[s].overtaken)
           ats == IF id \in DOMAIN libs THEN Naming ELSE {}
<1>0. /\ LibraryTypes /\ LibraryNamesUnique /\ areq[s] \in AssetRequests /\ AssetFits(areq[s])
      /\ libs \in [DOMAIN libs -> LibraryRows] /\ IsFiniteSet(DOMAIN libs)
  BY DEF LibraryInv, LibraryTypes
<1>1. /\ areq[s].at = "rename library" /\ libs' = (IF id \in DOMAIN libs THEN [libs EXCEPT ![id] = row] ELSE libs)
      /\ AssetGoesPast(s, AssetIdle, ats) /\ UNCHANGED <<cats, items, issued>>
  BY DEF RenameLibrary
<1>3. row \in LibraryRows /\ row.name = areq[s].name /\ row.raced = areq[s].overtaken
  BY <1>0 DEF LibraryRow, LibraryRows, AssetRequests
<1>4. row.raced \/ \A l \in DOMAIN libs \ {id} : libs[l].name # row.name
  BY <1>0, <1>1, <1>3 DEF AssetFits
<1>5. id \in DOMAIN libs => ats = Naming
  OBVIOUS
<1> HIDE DEF id, row, ats
<1>8. areq' \in [LibrarySessions -> AssetRequests] /\ areq'[s] = AssetIdle /\ PastOthers(s, ats)
  BY <1>0, <1>1, AssetIdleFacts, GoesPast
<1>9. AssetFits(areq[s])'
  BY <1>8, AssetIdleThen
<1>10. /\ DOMAIN libs' = DOMAIN libs /\ libs' \in [DOMAIN libs' -> LibraryRows]
       /\ id \in DOMAIN libs => libs'[id] = row
       /\ \A l \in DOMAIN libs \ {id} : libs'[l] = libs[l]
  BY <1>0, <1>1, <1>3
<1>12. CategoryIds' = CategoryIds
  BY <1>1 DEF CategoryIds
<1>13. LibraryTypes'
  BY <1>0, <1>1, <1>8, <1>10, <1>12 DEF LibraryTypes
<1>14. LibraryNamesUnique'
  <2> SUFFICES ASSUME NEW k \in DOMAIN libs', NEW l \in DOMAIN libs', k # l, libs'[k].name = libs'[l].name
               PROVE  libs'[k].raced \/ libs'[l].raced
    BY DEF LibraryNamesUnique
  <2>2. CASE k = id
    BY <1>4, <1>10, <2>2
  <2>3. CASE l = id
    BY <1>4, <1>10, <2>3
  <2>4. CASE k # id /\ l # id
    BY <1>0, <1>10, <2>4 DEF LibraryNamesUnique
  <2> QED BY <2>2, <2>3, <2>4
<1>15. CatsShrink /\ CatsStay /\ ItemsStay
  BY <1>0, <1>1, <1>10, <1>12 DEF CatsShrink, CatsStay, CatStays, ItemsStay, AssetItemStays
<1>16. LibsShrink \/ (Naming \subseteq ats /\ LibraryNamesUnique')
  BY <1>1, <1>5, <1>14 DEF LibsShrink
<1> QED BY <1>8, <1>9, <1>10, <1>13, <1>15, <1>16, LibraryStep

(* The statements of a deletion find rows, and take those still there.     *)
LEMMA DeletionReads ==
  ASSUME LibraryInv, NEW s \in LibrarySessions,
         \/ FindCategories(s) \/ TakeCategories(s) \/ TakeLibraryItems(s) \/ TakeCategoryItems(s)
         \/ \E c \in CategoryIds, l \in LibraryIds \cup {NoId} : AssetCategoryDelete(s, c, l)
  PROVE  LibraryInv'
<1> DEFINE q == areq[s]
<1>0. /\ LibraryTypes /\ q \in AssetRequests /\ AssetFits(q) /\ DeletionFits(q) /\ LostItemsExplained
      /\ DOMAIN cats \subseteq CategoryIds /\ DOMAIN items \subseteq Nat /\ issued.cat \in Nat
      /\ \A i \in DOMAIN items : FiledIn(items[i].cat, items[i].home)
  BY DEF LibraryInv, LibraryTypes, AssetFits
<1>t. \A S : S \subseteq DOMAIN items \/ S \subseteq DOMAIN cats => S \in SUBSET Nat
  <2>1. DOMAIN cats \subseteq Nat
    BY <1>0 DEF CategoryIds
  <2> QED BY <1>0, <2>1
<1> HIDE DEF q
<1>1. CASE FindCategories(s)
  <2> DEFINE found == {c \in DOMAIN cats : cats[c].lib = q.lib}
             r == [q EXCEPT !.at = "take categories", !.ids = found]
  <2>1. q.at = "delete library" /\ AssetGoes(s, r) /\ UNCHANGED <<libs, cats, items, issued>>
    BY <1>1 DEF FindCategories, q
  <2>2. FoundCats(found, q.lib)
    BY <1>0 DEF FoundCats, FiledIn
  <2>3. found \in SUBSET Nat
    BY <1>t
  <2> HIDE DEF found
  <2>4. r \in AssetRequests /\ r.at = "take categories" /\ r.ids = found /\ r.lib = q.lib /\ r.overtaken = q.overtaken
    BY <1>0, <2>3 DEF AssetRequests, AssetCalls, DeletingLibrary
  <2> HIDE DEF r
  <2>5. AssetFits(r)
    BY <1>0, <2>1, <2>2, <2>4 DEF AssetFits, DeletionFits, DeletingLibrary
  <2> QED BY <2>1, <2>4, <2>5, LibraryReads
<1>2. CASE TakeCategories(s)
  <2> DEFINE took == q.ids \cap DOMAIN cats
             found == OfLibrary(q.lib)
             r == [q EXCEPT !.at = "take library items", !.ids = found, !.takenCats = took]
  <2>1. q.at = "take categories" /\ AssetGoes(s, r) /\ UNCHANGED <<libs, cats, items, issued>>
    BY <1>2 DEF TakeCategories, q
  <2>2. FoundCats(took, q.lib)
    BY <1>0, <2>1 DEF DeletionFits, FoundCats
  <2>3. FoundItems(found, took)
    <3> SUFFICES ASSUME NEW i \in DOMAIN items, items[i].cat \in took PROVE i \in found \/ items[i].lib # items[i].home
      BY DEF FoundItems, Excused
    <3>1. cats[items[i].cat].lib = q.lib
      BY <2>2 DEF FoundCats, FiledIn
    <3>2. items[i].home = q.lib
      BY <1>0, <3>1 DEF FiledIn
    <3> QED BY <3>2 DEF OfLibrary
  <2>4. took \in SUBSET Nat /\ found \in SUBSET Nat
    BY <1>t DEF OfLibrary
  <2> HIDE DEF took, found
  <2>5. /\ r \in AssetRequests /\ r.at = "take library items" /\ r.ids = found /\ r.takenCats = took
        /\ r.lib = q.lib /\ r.overtaken = q.overtaken
    BY <1>0, <2>4 DEF AssetRequests, AssetCalls, DeletingLibrary
  <2> HIDE DEF r
  <2>6. AssetFits(r)
    BY <1>0, <2>1, <2>2, <2>3, <2>5 DEF AssetFits, DeletionFits, DeletingLibrary
  <2> QED BY <2>1, <2>5, <2>6, LibraryReads
<1>3. CASE TakeLibraryItems(s)
  <2> DEFINE took == q.ids \cap OfLibrary(q.lib)
             r == [q EXCEPT !.at = "drop library", !.takenItems = took]
  <2>1. q.at = "take library items" /\ AssetGoes(s, r) /\ UNCHANGED <<libs, cats, items, issued>>
    BY <1>3 DEF TakeLibraryItems, q
  <2>2. FoundCats(q.takenCats, q.lib) /\ FoundItems(q.ids, q.takenCats)
    BY <1>0, <2>1 DEF DeletionFits
  <2>3. FoundItems(took, q.takenCats)
    <3> SUFFICES ASSUME NEW i \in DOMAIN items, items[i].cat \in q.takenCats, i \in q.ids, items[i].lib # q.lib
                 PROVE  Excused(i)
      BY <2>2 DEF FoundItems, OfLibrary
    <3>1. CASE items[i].cat \in DOMAIN cats
      <4>1. cats[items[i].cat].lib = q.lib /\ cats[items[i].cat].lib = items[i].home
        BY <1>0, <2>2, <3>1 DEF FoundCats, FiledIn
      <4> QED BY <4>1 DEF Excused
    <3>2. CASE items[i].cat \notin DOMAIN cats
      BY <1>0, <3>2 DEF LostItemsExplained, Excused
    <3> QED BY <3>1, <3>2
  <2>4. took \in SUBSET Nat
    BY <1>t DEF OfLibrary
  <2> HIDE DEF took
  <2>5. /\ r \in AssetRequests /\ r.at = "drop library" /\ r.takenItems = took /\ r.takenCats = q.takenCats
        /\ r.lib = q.lib /\ r.overtaken = q.overtaken
    BY <1>0, <2>4 DEF AssetRequests, AssetCalls, DeletingLibrary
  <2> HIDE DEF r
  <2>6. AssetFits(r)
    BY <1>0, <2>1, <2>2, <2>3, <2>5 DEF AssetFits, DeletionFits, DeletingLibrary
  <2> QED BY <2>1, <2>5, <2>6, LibraryReads
<1>4. CASE TakeCategoryItems(s)
  <2> DEFINE took == q.ids \cap OfCategory(q.cat)
             r == [q EXCEPT !.at = "drop category", !.takenItems = took]
  <2>1. q.at = "take category items" /\ AssetGoes(s, r) /\ UNCHANGED <<libs, cats, items, issued>>
    BY <1>4 DEF TakeCategoryItems, q
  <2>2. FoundItems(took, {q.cat})
    BY <1>0, <2>1 DEF DeletionFits, FoundItems, OfCategory
  <2>3. took \in SUBSET Nat
    BY <1>t DEF OfCategory
  <2> HIDE DEF took
  <2>4. r \in AssetRequests /\ r.at = "drop category" /\ r.takenItems = took /\ r.cat = q.cat
    BY <1>0, <2>3 DEF AssetRequests, AssetCalls
  <2> HIDE DEF r
  <2>5. AssetFits(r)
    BY <2>2, <2>4 DEF AssetFits, DeletionFits, DeletingLibrary
  <2> QED BY <2>1, <2>4, <2>5, LibraryReads
<1>5. ASSUME NEW c \in CategoryIds, NEW l \in LibraryIds \cup {NoId}, AssetCategoryDelete(s, c, l) PROVE LibraryInv'
  <2> DEFINE found == OfCategory(c)
             r == AssetRequest("take category items", l, c, DefaultName, found, <<>>)
  <2>1. AssetGoes(s, r) /\ UNCHANGED <<libs, cats, items, issued>>
    BY <1>5 DEF AssetCategoryDelete
  <2>2. FoundItems(found, {c})
    BY DEF FoundItems, OfCategory
  <2>3. found \in SUBSET Nat
    BY <1>t DEF OfCategory
  <2>4. l \in Ids /\ c \in Ids /\ DefaultName \in Names /\ <<>> \in Seq([name : Names, type : CategoryTypes])
    BY <1>0, SeenIds, EmptySeq, AssetLibraryAssumption
  <2> HIDE DEF found
  <2>5. r \in AssetRequests
    BY <2>3, <2>4, AssetRequestFacts DEF AssetCalls
  <2>6. r.at = "take category items" /\ r.ids = found /\ r.cat = c
    BY DEF AssetRequest
  <2> HIDE DEF r
  <2>7. AssetFits(r)
    BY <2>2, <2>6 DEF AssetFits, DeletionFits, DeletingLibrary
  <2> QED BY <2>1, <2>5, <2>7, LibraryReads
<1> QED BY <1>1, <1>2, <1>3, <1>4, <1>5

(* Rows go when a deletion commits.                                        *)
LEMMA RowsGo ==
  ASSUME LibraryTypes, NEW gc, NEW gi, cats' = Without(cats, gc), items' = Without(items, gi)
  PROVE  /\ DOMAIN cats' = DOMAIN cats \ gc /\ cats' \in [DOMAIN cats' -> CategoryRows]
         /\ \A c \in DOMAIN cats' : cats'[c] = cats[c]
         /\ DOMAIN items' = DOMAIN items \ gi /\ items' \in [DOMAIN items' -> ItemRows]
         /\ \A i \in DOMAIN items' : items'[i] = items[i]
<1>1. cats \in [DOMAIN cats -> CategoryRows] /\ items \in [DOMAIN items -> ItemRows]
  BY DEF LibraryTypes
<1>2. /\ DOMAIN cats' = DOMAIN cats \ gc /\ cats' \in [DOMAIN cats' -> CategoryRows]
      /\ \A c \in DOMAIN cats' : cats'[c] = cats[c]
  BY <1>1 DEF Without, Restrict
<1>3. /\ DOMAIN items' = DOMAIN items \ gi /\ items' \in [DOMAIN items' -> ItemRows]
      /\ \A i \in DOMAIN items' : items'[i] = items[i]
  BY <1>1 DEF Without, Restrict
<1> QED BY <1>2, <1>3

(* A library goes, with the categories and items the deletion has taken.   *)
LEMMA LibraryDropped ==
  ASSUME LibraryInv, NEW s \in LibrarySessions, DropLibrary(s)
  PROVE  LibraryInv'
<1> DEFINE l == areq[s].lib
           gc == areq[s].takenCats
           gi == areq[s].takenItems
<1>0. /\ LibraryTypes /\ libs \in [DOMAIN libs -> LibraryRows] /\ IsFiniteSet(DOMAIN libs)
      /\ DOMAIN cats \subseteq CategoryIds /\ DOMAIN items \subseteq Nat
      /\ DeletionFits(areq[s])
  BY DEF LibraryInv, LibraryTypes, AssetFits
<1>1. areq[s].at = "drop library" /\ issued' = issued
  BY DEF DropLibrary
<1>2. FoundCats(gc, l) /\ FoundItems(gi, gc)
  BY <1>0, <1>1 DEF DeletionFits
<1>6. CategoryIds' = CategoryIds
  BY <1>1 DEF CategoryIds
<1>7. CASE l \in DOMAIN libs
  <2>1. /\ libs' = Without(libs, {l}) /\ cats' = Without(cats, gc) /\ items' = Without(items, gi)
        /\ AssetGoesPast(s, AssetIdle, DeletingLibrary)
    BY <1>7 DEF DropLibrary
  <2> HIDE DEF l, gc, gi
  <2>2. areq' \in [LibrarySessions -> AssetRequests] /\ areq'[s] = AssetIdle /\ PastOthers(s, DeletingLibrary)
    BY <1>0, <2>1, AssetIdleFacts, GoesPast
  <2>3. AssetFits(areq[s])'
    BY <2>2, AssetIdleThen
  <2>4. DOMAIN libs' = DOMAIN libs \ {l} /\ libs' \in [DOMAIN libs' -> LibraryRows] /\ LibsShrink
    <3>1. /\ DOMAIN libs' = DOMAIN libs \ {l} /\ libs' \in [DOMAIN libs' -> LibraryRows]
          /\ \A x \in DOMAIN libs \ {l} : libs'[x] = libs[x]
      BY <1>0, <2>1 DEF Without, Restrict
    <3> QED BY <3>1 DEF LibsShrink
  <2>5. IsFiniteSet(DOMAIN libs')
    BY <1>0, <2>4, FS_RemoveElement
  <2>6. /\ DOMAIN cats' = DOMAIN cats \ gc /\ cats' \in [DOMAIN cats' -> CategoryRows]
        /\ \A c \in DOMAIN cats' : cats'[c] = cats[c]
        /\ DOMAIN items' = DOMAIN items \ gi /\ items' \in [DOMAIN items' -> ItemRows]
        /\ \A i \in DOMAIN items' : items'[i] = items[i]
    BY <1>0, <2>1, RowsGo
  <2>7. CatsShrink
    BY <2>6 DEF CatsShrink
  <2>8. CatsStay
    <3> SUFFICES ASSUME NEW c \in DOMAIN cats', cats[c].lib = l PROVE cats[c].stray
      BY <1>6, <2>4, <2>6 DEF CatsStay, CatStays
    <3> QED BY <1>2, <2>6 DEF FoundCats
  <2>9. ItemsStay
    BY <1>2, <2>6 DEF ItemsStay, AssetItemStays, FoundItems
  <2>10. LibraryTypes'
    BY <1>0, <1>1, <1>6, <2>2, <2>4, <2>5, <2>6 DEF LibraryTypes
  <2> QED BY <2>2, <2>3, <2>4, <2>7, <2>8, <2>9, <2>10, LibraryStep
<1>8. CASE l \notin DOMAIN libs
  <2>1. UNCHANGED <<libs, cats, items, issued>> /\ AssetGoes(s, AssetIdle)
    BY <1>1, <1>8 DEF DropLibrary
  <2> QED BY <2>1, AssetIdleFacts, AssetIdleFits, LibraryReads
<1> QED BY <1>7, <1>8

(* A category is added.                                                    *)
LEMMA CategoryInserted ==
  ASSUME LibraryInv, NEW s \in LibrarySessions, InsertCategory(s)
  PROVE  LibraryInv'
<1> DEFINE id == issued.cat + 1
           new == Head(areq[s].todo)
           rest == Tail(areq[s].todo)
           row == CategoryRow(areq[s].lib, new.name, new.type, areq[s].overtaken)
           more == [areq[s] EXCEPT !.at = "check category", !.todo = rest]
           r == IF rest = <<>> THEN AssetIdle ELSE more
<1>0. /\ LibraryTypes /\ CategoryNamesUnique /\ areq[s] \in AssetRequests /\ AssetFits(areq[s])
      /\ issued \in [lib : Nat, cat : Nat, item : Nat]
      /\ cats \in [DOMAIN cats -> CategoryRows] /\ DOMAIN cats \subseteq CategoryIds
  BY DEF LibraryInv, LibraryTypes
<1>1. /\ areq[s].at = "insert category" /\ cats' = Put(cats, id, row) /\ issued' = [issued EXCEPT !.cat = id]
      /\ AssetGoesPast(s, r, {"insert category"}) /\ UNCHANGED <<libs, items>>
  BY DEF InsertCategory
<1>2. id \in Nat /\ id \notin CategoryIds /\ issued' \in [lib : Nat, cat : Nat, item : Nat] /\ issued'.cat = id
  <2>1. issued.cat \in Nat
    BY <1>0
  <2>2. id \in Nat /\ id \notin CategoryIds
    BY <2>1 DEF CategoryIds
  <2> HIDE DEF id
  <2> QED BY <1>0, <1>1, <2>2
<1>3. CategoryIds \subseteq CategoryIds' /\ id \in CategoryIds'
  <2>1. issued.cat \in Nat /\ issued'.cat = issued.cat + 1
    BY <1>0, <1>2
  <2> QED BY <2>1 DEF CategoryIds
<1>4. areq[s].todo \in Seq([name : Names, type : CategoryTypes]) /\ areq[s].todo # <<>>
  BY <1>0, <1>1 DEF AssetRequests, AssetFits
<1>5. new \in [name : Names, type : CategoryTypes] /\ rest \in Seq([name : Names, type : CategoryTypes])
  BY <1>4, HeadTailProperties
<1> HIDE DEF id, new, rest
<1>6. /\ row \in CategoryRows /\ row.name = new.name /\ row.lib = areq[s].lib /\ row.raced = areq[s].overtaken
  BY <1>0, <1>5 DEF CategoryRow, CategoryRows, AssetRequests
<1>y. row.lib \notin DOMAIN libs \/ LibraryCleared(row.lib) => row.stray
  BY DEF CategoryRow
<1>7. row.raced \/ \A c \in DOMAIN cats : ~(cats[c].name = row.name /\ cats[c].lib = row.lib)
  BY <1>0, <1>1, <1>6 DEF AssetFits, CategoryNamed, new
<1> HIDE DEF row
<1>8. more \in AssetRequests /\ more.at = "check category" /\ more.todo = rest
  BY <1>0, <1>5 DEF AssetRequests, AssetCalls
<1> HIDE DEF more
<1>9. r \in AssetRequests
  BY <1>8, AssetIdleFacts
<1>10. (r.at = "idle") \/ (r.at = "check category" /\ r.todo # <<>>)
  BY <1>8, AssetIdleFacts
<1> HIDE DEF r
<1>11. areq' \in [LibrarySessions -> AssetRequests] /\ areq'[s] = r /\ PastOthers(s, {"insert category"})
  BY <1>0, <1>1, <1>9, GoesPast
<1>12. AssetFits(areq[s])'
  BY <1>10, <1>11 DEF AssetFits, DeletionFits, DeletingLibrary
<1>13. /\ DOMAIN cats' = DOMAIN cats \cup {id} /\ cats' \in [DOMAIN cats' -> CategoryRows] /\ cats'[id] = row
       /\ \A c \in DOMAIN cats \ {id} : cats'[c] = cats[c]
  <2>1. cats \in [DOMAIN cats -> CategoryRows] /\ cats' = Put(cats, id, row) /\ row \in CategoryRows
    BY <1>0, <1>1, <1>6
  <2> QED BY <2>1 DEF Put
<1>14. LibraryTypes'
  BY <1>0, <1>1, <1>2, <1>3, <1>11, <1>13 DEF LibraryTypes
<1>15. CategoryNamesUnique'
  <2> SUFFICES ASSUME NEW c \in DOMAIN cats', NEW d \in DOMAIN cats', c # d,
                      cats'[c].name = cats'[d].name, cats'[c].lib = cats'[d].lib
               PROVE  \E e \in {c, d} : cats'[e].renamed \/ cats'[e].raced
    BY DEF CategoryNamesUnique
  <2>2. CASE c = id
    BY <1>7, <1>13, <2>2
  <2>3. CASE d = id
    BY <1>7, <1>13, <2>3
  <2>4. CASE c # id /\ d # id
    BY <1>0, <1>13, <2>4 DEF CategoryNamesUnique
  <2> QED BY <2>2, <2>3, <2>4
<1>16. LibsShrink /\ DOMAIN libs' = DOMAIN libs
  BY <1>1 DEF LibsShrink
<1>17. CatsStay
  BY <1>1, <1>2, <1>3, <1>13, <1>y DEF CatsStay, CatStays
<1>18. ItemsStay
  BY <1>1, <1>13 DEF ItemsStay, AssetItemStays
<1> QED BY <1>11, <1>12, <1>14, <1>15, <1>16, <1>17, <1>18, LibraryStep

(* A category is renamed.                                                  *)
LEMMA CategoryRenamed ==
  ASSUME LibraryInv, NEW s \in LibrarySessions, NEW id \in CategoryIds, NEW name \in Names,
         AssetCategoryUpdate(s, id, name)
  PROVE  LibraryInv'
<1> DEFINE row == [[cats[id] EXCEPT !.name = name] EXCEPT !.renamed = TRUE]
<1>0. /\ LibraryTypes /\ CategoryNamesUnique /\ areq \in [LibrarySessions -> AssetRequests]
      /\ cats \in [DOMAIN cats -> CategoryRows] /\ DOMAIN cats \subseteq CategoryIds /\ items \in [DOMAIN items -> ItemRows]
  BY DEF LibraryInv, LibraryTypes
<1>1. /\ id \in DOMAIN cats /\ cats' = [[cats EXCEPT ![id].name = name] EXCEPT ![id].renamed = TRUE]
      /\ AssetGoesPast(s, AssetIdle, {"insert category"}) /\ UNCHANGED <<libs, items, issued>>
  BY DEF AssetCategoryUpdate
<1>2. /\ row \in CategoryRows /\ row.lib = cats[id].lib /\ row.renamed = TRUE /\ row.stray = cats[id].stray
  BY <1>0, <1>1 DEF CategoryRows
<1>3. /\ DOMAIN cats' = DOMAIN cats /\ cats' \in [DOMAIN cats' -> CategoryRows]
      /\ cats'[id] = row /\ \A c \in DOMAIN cats \ {id} : cats'[c] = cats[c]
  BY <1>0, <1>1, <1>2
<1> HIDE DEF row
<1>4. areq' \in [LibrarySessions -> AssetRequests] /\ areq'[s] = AssetIdle /\ PastOthers(s, {"insert category"})
  BY <1>0, <1>1, AssetIdleFacts, GoesPast
<1>5. AssetFits(areq[s])'
  BY <1>4, AssetIdleThen
<1>6. CategoryIds' = CategoryIds
  BY <1>1 DEF CategoryIds
<1>7. LibraryTypes'
  BY <1>0, <1>1, <1>3, <1>4, <1>6 DEF LibraryTypes
<1>8. CategoryNamesUnique'
  BY <1>0, <1>2, <1>3 DEF CategoryNamesUnique
<1>9. LibsShrink /\ DOMAIN libs' = DOMAIN libs
  BY <1>1 DEF LibsShrink
<1>10. CatsStay
  BY <1>1, <1>2, <1>3, <1>6 DEF CatsStay, CatStays
<1>11. ItemsStay
  BY <1>1, <1>3 DEF ItemsStay, AssetItemStays
<1> QED BY <1>4, <1>5, <1>7, <1>8, <1>9, <1>10, <1>11, LibraryStep

(* A category goes, with the items the deletion has taken.                 *)
LEMMA CategoryDropped ==
  ASSUME LibraryInv, NEW s \in LibrarySessions, DropCategory(s)
  PROVE  LibraryInv'
<1> DEFINE id == areq[s].cat
           own == {c \in DOMAIN cats : c = areq[s].cat /\ cats[c].lib = areq[s].lib}
           gi == IF own = {} THEN {} ELSE areq[s].takenItems
<1>0. /\ LibraryTypes /\ cats \in [DOMAIN cats -> CategoryRows] /\ DOMAIN cats \subseteq CategoryIds
      /\ items \in [DOMAIN items -> ItemRows] /\ DOMAIN items \subseteq Nat /\ DeletionFits(areq[s])
  BY DEF LibraryInv, LibraryTypes, AssetFits
<1>1. /\ areq[s].at = "drop category" /\ cats' = Without(cats, own) /\ AssetGoes(s, AssetIdle)
      /\ items' = (IF own = {} THEN items ELSE Without(items, areq[s].takenItems)) /\ UNCHANGED <<libs, issued>>
  BY DEF DropCategory
<1>2. items' = Without(items, gi)
  BY <1>0, <1>1 DEF Without, Restrict
<1>3. FoundItems(areq[s].takenItems, {id})
  BY <1>0, <1>1 DEF DeletionFits
<1>4. own \subseteq {id} /\ (own # {} => gi = areq[s].takenItems)
  OBVIOUS
<1> HIDE DEF own, gi, id
<1>5. /\ DOMAIN cats' = DOMAIN cats \ own /\ cats' \in [DOMAIN cats' -> CategoryRows]
      /\ \A c \in DOMAIN cats' : cats'[c] = cats[c]
      /\ DOMAIN items' = DOMAIN items \ gi /\ items' \in [DOMAIN items' -> ItemRows]
      /\ \A i \in DOMAIN items' : items'[i] = items[i]
  BY <1>0, <1>1, <1>2, RowsGo
<1>6. areq' \in [LibrarySessions -> AssetRequests] /\ areq'[s] = AssetIdle /\ PastOthers(s, {})
  BY <1>0, <1>1, AssetIdleFacts, Goes
<1>7. AssetFits(areq[s])'
  BY <1>6, AssetIdleThen
<1>8. CategoryIds' = CategoryIds /\ LibsShrink /\ DOMAIN libs' = DOMAIN libs
  BY <1>1 DEF CategoryIds, LibsShrink
<1>9. CatsShrink /\ CatsStay
  BY <1>5, <1>8 DEF CatsShrink, CatsStay, CatStays
<1>10. ItemsStay
  BY <1>3, <1>4, <1>5 DEF ItemsStay, AssetItemStays, FoundItems
<1>11. LibraryTypes'
  BY <1>0, <1>1, <1>5, <1>6, <1>8 DEF LibraryTypes
<1> QED BY <1>6, <1>7, <1>8, <1>9, <1>10, <1>11, LibraryStep

(* Items are written or go.                                                *)
LEMMA ItemsChanged ==
  ASSUME LibraryInv, NEW s \in LibrarySessions,
         \/ InsertItems(s) \/ MoveItems(s)
         \/ \E ids \in SUBSET ItemIds, l \in LibraryIds \cup {NoId} : AssetItemBatchDelete(s, ids, l)
  PROVE  LibraryInv'
<1> DEFINE row == ItemRow(areq[s].lib, areq[s].cat, areq[s].home)
<1>0. /\ LibraryTypes /\ areq \in [LibrarySessions -> AssetRequests] /\ areq[s] \in AssetRequests /\ AssetFits(areq[s])
      /\ items \in [DOMAIN items -> ItemRows] /\ DOMAIN items \subseteq Nat /\ issued \in [lib : Nat, cat : Nat, item : Nat]
  BY DEF LibraryInv, LibraryTypes
<1>2. /\ row \in ItemRows /\ row.cat = areq[s].cat /\ row.home = areq[s].home
      /\ row.cat \notin DOMAIN cats \/ CategoryCleared(row.cat) => row.late
  <2> DEFINE late == areq[s].cat \notin DOMAIN cats \/ CategoryCleared(areq[s].cat)
  <2>1. late \in BOOLEAN
    OBVIOUS
  <2>2. row = [lib |-> areq[s].lib, cat |-> areq[s].cat, home |-> areq[s].home, late |-> late]
    BY DEF ItemRow
  <2> HIDE DEF late, row
  <2>3. row \in ItemRows /\ row.cat = areq[s].cat /\ row.home = areq[s].home /\ row.late = late
    BY <1>0, <2>1, <2>2 DEF ItemRows, AssetRequests
  <2> QED BY <2>3 DEF late
<1> HIDE DEF row
<1>3. ASSUME areq[s].at \in {"insert items", "move items"}, AssetGoes(s, AssetIdle), UNCHANGED <<libs, cats>>,
             issued' \in [lib : Nat, cat : Nat, item : Nat], issued'.cat = issued.cat,
             items' \in [DOMAIN items' -> ItemRows], DOMAIN items' \subseteq Nat,
             \A i \in DOMAIN items' : items'[i] = row \/ (i \in DOMAIN items /\ items'[i] = items[i])
      PROVE  LibraryInv'
  <2>1. areq' \in [LibrarySessions -> AssetRequests] /\ areq'[s] = AssetIdle /\ PastOthers(s, {})
    BY <1>0, <1>3, AssetIdleFacts, Goes
  <2>2. AssetFits(areq[s])'
    BY <2>1, AssetIdleThen
  <2>3. CategoryIds' = CategoryIds /\ LibsShrink /\ CatsShrink /\ DOMAIN libs' = DOMAIN libs
    BY <1>3 DEF CategoryIds, LibsShrink, CatsShrink
  <2>4. FiledIn(areq[s].cat, areq[s].home)
    BY <1>0, <1>3 DEF AssetFits
  <2>5. CatsStay
    BY <1>3, <2>3 DEF CatsStay, CatStays
  <2>6. ItemsStay
    <3> SUFFICES ASSUME NEW i \in DOMAIN items' PROVE AssetItemStays(i)
      BY DEF ItemsStay
    <3>1. CASE items'[i] = row
      BY <1>2, <1>3, <2>3, <2>4, <3>1 DEF AssetItemStays, FiledIn
    <3>2. CASE i \in DOMAIN items /\ items'[i] = items[i]
      BY <1>3, <3>2 DEF AssetItemStays
    <3> QED BY <1>3, <3>1, <3>2
  <2>7. LibraryTypes'
    BY <1>0, <1>3, <2>1, <2>3 DEF LibraryTypes
  <2> QED BY <2>1, <2>2, <2>3, <2>5, <2>6, <2>7, LibraryStep
<1>4. CASE InsertItems(s)
  <2> DEFINE new == {issued.item + k : k \in areq[s].ids}
             many == Cardinality(areq[s].ids)
  <2>1. /\ areq[s].at = "insert items" /\ issued.item + many <= MaxItems /\ issued' = [issued EXCEPT !.item = issued.item + many]
        /\ AssetGoes(s, AssetIdle) /\ UNCHANGED <<libs, cats>>
    BY <1>4 DEF InsertItems
  <2>2. items' = [i \in DOMAIN items \cup new |-> IF i \in new THEN row ELSE items[i]]
    BY <1>4 DEF InsertItems, row
  <2>c. many \in Nat /\ new \subseteq Nat
    <3>1. many \in Nat
      BY <1>0, <2>1, FS_CardinalityType DEF AssetFits
    <3>2. issued.item \in Nat /\ areq[s].ids \subseteq Nat
      BY <1>0 DEF AssetRequests
    <3> QED BY <3>1, <3>2
  <2> HIDE DEF new, many
  <2>d. issued.item + many \in Nat
    BY <1>0, <2>c
  <2>3. issued' \in [lib : Nat, cat : Nat, item : Nat] /\ issued'.cat = issued.cat
    BY <1>0, <2>1, <2>d
  <2>4. /\ items' \in [DOMAIN items' -> ItemRows] /\ DOMAIN items' \subseteq Nat
        /\ \A i \in DOMAIN items' : items'[i] = row \/ (i \in DOMAIN items /\ items'[i] = items[i])
    BY <1>0, <1>2, <2>2, <2>c
  <2> QED BY <1>3, <2>1, <2>3, <2>4
<1>5. CASE MoveItems(s)
  <2>1. areq[s].at = "move items" /\ AssetGoes(s, AssetIdle) /\ UNCHANGED <<libs, cats, issued>>
    BY <1>5 DEF MoveItems
  <2>2. items' = [i \in DOMAIN items |-> IF i \in areq[s].ids THEN row ELSE items[i]]
    BY <1>5 DEF MoveItems, row
  <2>3. /\ items' \in [DOMAIN items' -> ItemRows] /\ DOMAIN items' \subseteq Nat
        /\ \A i \in DOMAIN items' : items'[i] = row \/ (i \in DOMAIN items /\ items'[i] = items[i])
    BY <1>0, <1>2, <2>2
  <2> QED BY <1>0, <1>3, <2>1, <2>3
<1>6. ASSUME NEW ids \in SUBSET ItemIds, NEW l \in LibraryIds \cup {NoId}, AssetItemBatchDelete(s, ids, l) PROVE LibraryInv'
  <2> DEFINE gone == FindByIDs(ids, l)
  <2>1. areq[s] = AssetIdle /\ items' = Without(items, gone) /\ UNCHANGED <<libs, cats, issued, areq>>
    BY <1>6 DEF AssetItemBatchDelete
  <2> HIDE DEF gone
  <2>2. /\ items' \in [DOMAIN items' -> ItemRows] /\ DOMAIN items' \subseteq Nat
        /\ \A i \in DOMAIN items' : i \in DOMAIN items /\ items'[i] = items[i]
    BY <1>0, <2>1 DEF Without, Restrict
  <2>3. PastOthers(s, {}) /\ areq'[s] = AssetIdle
    BY <2>1 DEF PastOthers, SameRequest
  <2>4. AssetFits(areq[s])'
    BY <2>3, AssetIdleThen
  <2>5. CategoryIds' = CategoryIds /\ LibsShrink /\ CatsShrink /\ DOMAIN libs' = DOMAIN libs
    BY <2>1 DEF CategoryIds, LibsShrink, CatsShrink
  <2>6. CatsStay /\ ItemsStay
    BY <2>1, <2>2, <2>5 DEF CatsStay, CatStays, ItemsStay, AssetItemStays
  <2>7. LibraryTypes'
    BY <1>0, <2>1, <2>2, <2>5 DEF LibraryTypes
  <2> QED BY <2>3, <2>4, <2>5, <2>6, <2>7, LibraryStep
<1> QED BY <1>4, <1>5, <1>6

(* A step that changes nothing.                                            *)
LEMMA LibraryStutters ==
  ASSUME LibraryInv, UNCHANGED assetVars
  PROVE  LibraryInv'
<1>0. UNCHANGED <<libs, cats, items, issued, areq>>
  BY DEF assetVars
<1>1. CategoryIds' = CategoryIds
  BY <1>0 DEF CategoryIds
<1>2. LibraryTypes' /\ LibraryNamesUnique' /\ CategoryNamesUnique' /\ LostCategoriesExplained' /\ LostItemsExplained'
  BY <1>0, <1>1 DEF LibraryInv, LibraryTypes, LibraryNamesUnique, CategoryNamesUnique, LostCategoriesExplained, LostItemsExplained
<1>3. ASSUME NEW i \in DOMAIN items' PROVE (FiledIn(items[i].cat, items[i].home))'
  BY <1>0, <1>1 DEF LibraryInv, FiledIn
<1>4. ASSUME NEW t \in LibrarySessions PROVE AssetFits(areq[t])'
  <2>1. AssetFits(areq[t])
    BY DEF LibraryInv
  <2>2. areq'[t] = areq[t]
    BY <1>0
  <2>3. LibraryNamed(areq[t].name)' <=> LibraryNamed(areq[t].name)
    BY <1>0 DEF LibraryNamed
  <2>4. CategoryNamed(Head(areq[t].todo).name, areq[t].lib)' <=> CategoryNamed(Head(areq[t].todo).name, areq[t].lib)
    BY <1>0 DEF CategoryNamed
  <2>5. FiledIn(areq[t].cat, areq[t].home)' <=> FiledIn(areq[t].cat, areq[t].home)
    BY <1>0, <1>1 DEF FiledIn
  <2>6. DeletionFits(areq[t])' <=> DeletionFits(areq[t])
    BY <1>0, <1>1 DEF DeletionFits, FoundCats, FoundItems, FiledIn, Excused
  <2> QED BY <1>0, <2>1, <2>2, <2>3, <2>4, <2>5, <2>6 DEF AssetFits
<1> QED BY <1>2, <1>3, <1>4 DEF LibraryInv

(* LibraryInv holds throughout.                                            *)
LEMMA LibraryInvariant == AssetSpec => []LibraryInv
<1>1. ASSUME AssetInit PROVE LibraryInv
  <2>0. /\ libs = <<>> /\ cats = <<>> /\ items = <<>> /\ issued = [lib |-> 0, cat |-> 0, item |-> 0]
        /\ areq = [s \in LibrarySessions |-> AssetIdle]
    BY <1>1 DEF AssetInit
  <2>1. /\ DOMAIN libs = {} /\ DOMAIN cats = {} /\ DOMAIN items = {}
        /\ libs \in [{} -> LibraryRows] /\ cats \in [{} -> CategoryRows] /\ items \in [{} -> ItemRows]
    BY <2>0
  <2>2. issued \in [lib : Nat, cat : Nat, item : Nat] /\ areq \in [LibrarySessions -> AssetRequests]
    BY <2>0, AssetIdleFacts
  <2>3. LibraryTypes
    BY <2>1, <2>2, FS_EmptySet DEF LibraryTypes
  <2>4. LibraryNamesUnique /\ CategoryNamesUnique /\ LostCategoriesExplained /\ LostItemsExplained
    BY <2>1 DEF LibraryNamesUnique, CategoryNamesUnique, LostCategoriesExplained, LostItemsExplained
  <2>5. ASSUME NEW s \in LibrarySessions PROVE AssetFits(areq[s])
    BY <2>0, AssetIdleFits
  <2> QED BY <2>1, <2>3, <2>4, <2>5 DEF LibraryInv
<1>2. ASSUME LibraryInv, [AssetNext]_assetVars PROVE LibraryInv'
  <2>1. ASSUME NEW s \in LibrarySessions,
               \/ AssetCallFails(s)
               \/ \E name \in Names : AssetLibraryCreate(s, name)
               \/ \E l \in LibraryIds, name \in Names : AssetLibraryUpdate(s, l, name)
               \/ \E l \in LibraryIds : AssetLibraryDelete(s, l)
        PROVE  LibraryInv'
    BY <1>2, <2>1, LibraryRequests
  <2>2. ASSUME NEW s \in LibrarySessions,
               \/ \E l \in LibraryIds, name \in Names, t \in CategoryTypes : AssetCategoryCreate(s, l, name, t)
               \/ CheckCategory(s)
               \/ \E l \in LibraryIds, c \in CategoryIds, n \in BatchSizes : AssetItemCreate(s, l, c, n)
               \/ \E ids \in SUBSET ItemIds \ {{}}, l \in LibraryIds \cup {NoId}, c \in CategoryIds :
                    AssetItemBatchMove(s, ids, l, c)
        PROVE  LibraryInv'
    BY <1>2, <2>2, CategoryRequests
  <2>3. ASSUME NEW s \in LibrarySessions, InsertLibrary(s) PROVE LibraryInv'
    BY <1>2, <2>3, LibraryInserted
  <2>4. ASSUME NEW s \in LibrarySessions, RenameLibrary(s) PROVE LibraryInv'
    BY <1>2, <2>4, LibraryRenamed
  <2>5. ASSUME NEW s \in LibrarySessions,
               \/ FindCategories(s) \/ TakeCategories(s) \/ TakeLibraryItems(s) \/ TakeCategoryItems(s)
               \/ \E c \in CategoryIds, l \in LibraryIds \cup {NoId} : AssetCategoryDelete(s, c, l)
        PROVE  LibraryInv'
    BY <1>2, <2>5, DeletionReads
  <2>6. ASSUME NEW s \in LibrarySessions, InsertCategory(s) PROVE LibraryInv'
    BY <1>2, <2>6, CategoryInserted
  <2>7. ASSUME NEW s \in LibrarySessions, NEW c \in CategoryIds, NEW name \in Names, AssetCategoryUpdate(s, c, name)
        PROVE  LibraryInv'
    BY <1>2, <2>7, CategoryRenamed
  <2>d. ASSUME NEW s \in LibrarySessions, DropLibrary(s) \/ DropCategory(s) PROVE LibraryInv'
    BY <1>2, <2>d, LibraryDropped, CategoryDropped
  <2>8. ASSUME NEW s \in LibrarySessions,
               \/ InsertItems(s) \/ MoveItems(s)
               \/ \E ids \in SUBSET ItemIds, l \in LibraryIds \cup {NoId} : AssetItemBatchDelete(s, ids, l)
        PROVE  LibraryInv'
    BY <1>2, <2>8, ItemsChanged
  <2>9. CASE UNCHANGED assetVars
    BY <1>2, <2>9, LibraryStutters
  <2> QED BY <1>2, <2>1, <2>2, <2>3, <2>4, <2>5, <2>6, <2>7, <2>d, <2>8, <2>9 DEF AssetNext
<1> QED BY <1>1, <1>2, PTL DEF AssetSpec

(* A name that is there twice, a category whose library is gone or an item *)
(* whose category is, comes only of requests that overlap, of a category   *)
(* that was renamed or added to a library that was gone, or of an item     *)
(* filed under another library than its category's.                        *)
THEOREM LibrarySurprisesExplained == AssetSpec => []LibraryExplained
<1>1. LibraryInv => LibraryExplained
  BY DEF LibraryInv, LibraryExplained
<1> QED BY <1>1, LibraryInvariant, PTL

(* The last library goes only through a deletion that another one has      *)
(* overtaken since it counted.                                             *)
THEOREM OneLibraryIsKept == AssetSpec => LastLibraryStays
<1> DEFINE Kept ==
             DOMAIN libs # {} /\ DOMAIN libs' = {}
               => \E s \in LibrarySessions : areq[s].at = "drop library" /\ areq[s].overtaken
<1>1. ASSUME LibraryInv, [AssetNext]_assetVars PROVE [Kept]_assetVars
  <2> SUFFICES ASSUME DOMAIN libs # {}, DOMAIN libs' = {}
               PROVE  \E s \in LibrarySessions : areq[s].at = "drop library" /\ areq[s].overtaken
    OBVIOUS
  <2>0. libs' # libs
    OBVIOUS
  <2>1. PICK s \in LibrarySessions : InsertLibrary(s) \/ RenameLibrary(s) \/ DropLibrary(s)
    <3>1. AssetNext
      BY <1>1, <2>0 DEF assetVars
    <3>2. ASSUME NEW s
          PROVE  /\ ~AssetCallFails(s) /\ ~CheckCategory(s) /\ ~InsertCategory(s) /\ ~InsertItems(s) /\ ~MoveItems(s)
                 /\ ~FindCategories(s) /\ ~TakeCategories(s) /\ ~TakeLibraryItems(s) /\ ~TakeCategoryItems(s) /\ ~DropCategory(s)
                 /\ \A name : ~AssetLibraryCreate(s, name)
                 /\ \A l, name : ~AssetLibraryUpdate(s, l, name) /\ ~AssetCategoryUpdate(s, l, name)
                 /\ \A l : ~AssetLibraryDelete(s, l)
                 /\ \A l, c : ~AssetCategoryDelete(s, c, l) /\ ~AssetItemBatchDelete(s, c, l)
                 /\ \A l, c, n : ~AssetCategoryCreate(s, l, c, n) /\ ~AssetItemCreate(s, l, c, n) /\ ~AssetItemBatchMove(s, n, l, c)
      <4>1. ~AssetCallFails(s) /\ ~CheckCategory(s) /\ ~InsertCategory(s) /\ ~InsertItems(s) /\ ~MoveItems(s)
        BY <2>0 DEF AssetCallFails, CheckCategory, InsertCategory, InsertItems, MoveItems
      <4>2. /\ \A name : ~AssetLibraryCreate(s, name)
            /\ \A l, name : ~AssetLibraryUpdate(s, l, name) /\ ~AssetCategoryUpdate(s, l, name)
            /\ \A l : ~AssetLibraryDelete(s, l)
        BY <2>0 DEF AssetLibraryCreate, AssetLibraryUpdate, AssetCategoryUpdate, AssetLibraryDelete
      <4>3. \A l, c : ~AssetCategoryDelete(s, c, l) /\ ~AssetItemBatchDelete(s, c, l)
        BY <2>0 DEF AssetCategoryDelete, AssetItemBatchDelete
      <4>4. \A l, c, n : ~AssetCategoryCreate(s, l, c, n) /\ ~AssetItemCreate(s, l, c, n) /\ ~AssetItemBatchMove(s, n, l, c)
        BY <2>0 DEF AssetCategoryCreate, AssetItemCreate, AssetItemBatchMove
      <4>5. ~FindCategories(s) /\ ~TakeCategories(s) /\ ~TakeLibraryItems(s) /\ ~TakeCategoryItems(s) /\ ~DropCategory(s)
        BY <2>0 DEF FindCategories, TakeCategories, TakeLibraryItems, TakeCategoryItems, DropCategory
      <4> QED BY <4>1, <4>2, <4>3, <4>4, <4>5
    <3> QED BY <3>1, <3>2, Zenon DEF AssetNext
  <2>2. ~InsertLibrary(s)
    BY DEF InsertLibrary, Put
  <2>3. ~RenameLibrary(s)
    BY DEF RenameLibrary
  <2>4. areq[s].at = "drop library" /\ DOMAIN libs' = DOMAIN libs \ {areq[s].lib}
    BY <2>0, <2>1, <2>2, <2>3 DEF DropLibrary, Without, Restrict
  <2>5. areq[s].overtaken \/ \E k, l \in DOMAIN libs : k # l
    BY <1>1, <2>4 DEF LibraryInv, AssetFits, DeletingLibrary
  <2>6. ~\E k, l \in DOMAIN libs : k # l
    <3>1. \A k \in DOMAIN libs : k = areq[s].lib
      BY <2>4
    <3> QED BY <3>1
  <2> QED BY <2>4, <2>5, <2>6
<1> QED BY <1>1, LibraryInvariant, PTL DEF AssetSpec, LastLibraryStays
-----------------------------------------------------------------------------
PromptIds == Nat \cup {NoPromptId}
PromptItemRows ==
  [lib : PromptIds, cat : PromptIds, blind : BOOLEAN, home : PromptIds, late : BOOLEAN, unowned : BOOLEAN]
PromptCalls ==
  {"idle", "begin", "clear", "mark", "insert item", "find items", "reassign", "delete category",
   "take categories", "take items", "drop library"}
PromptRequests ==
  [at : PromptCalls, lib : PromptIds, cat : PromptIds, fallback : PromptIds,
   read : SUBSET Nat, cleared : SUBSET Nat, since : SUBSET Nat, takenCats : SUBSET Nat, takenItems : SUBSET Nat]
PromptTypes ==
  /\ plibs \in [DOMAIN plibs -> [active : BOOLEAN]] /\ DOMAIN plibs \subseteq PromptLibraryIds
  /\ pcats \in [DOMAIN pcats -> [lib : Nat]] /\ DOMAIN pcats \subseteq PromptCategoryIds
  /\ pitems \in [DOMAIN pitems -> PromptItemRows] /\ DOMAIN pitems \subseteq Nat
  /\ pissued \in [lib : Nat, cat : Nat, item : Nat]
  /\ preq \in [PromptSessions -> PromptRequests]

(* A category id that a client may know.                                   *)
SeenCategory(cat) == cat \in PromptCategoryIds \cup {NoPromptId}

(* What an item knows of its category as long as it exists.                *)
ItemKnows(it) == SeenCategory(it.cat) /\ (it.cat \in DOMAIN pcats => it.home = pcats[it.cat].lib)

(* A category id that was found in a library.                              *)
KnownIn(cat, lib) == cat \in PromptCategoryIds /\ (cat \in DOMAIN pcats => pcats[cat].lib = lib)

(* The items found are all that the deletion of the library, with the      *)
(* categories taken, would leave behind, but for those whose flags tell    *)
(* why.                                                                    *)
PromptExcused(it) == it.blind \/ it.late \/ it.home # it.lib
PromptsFound(found, lib, taken) ==
  \A i \in DOMAIN pitems :
    /\ pitems[i].cat \in taken => i \in found \/ PromptExcused(pitems[i])
    /\ pitems[i].lib = lib => i \in found \/ pitems[i].unowned
PromptDeletionFits(r) ==
  /\ r.at = "take categories" => \A c \in r.read : KnownIn(c, r.lib)
  /\ r.at = "take items" => PromptsFound(r.read, r.lib, r.takenCats)
  /\ r.at = "drop library" => PromptsFound(r.takenItems, r.lib, r.takenCats)

(* What a request may rely on: while a category is being deleted only      *)
(* items that are marked as late come to it; a SetActive knows of every    *)
(* library that is marked.                                                 *)
PromptFits(r) ==
  /\ r.at = "insert item" => SeenCategory(r.cat)
  /\ r.at \in {"find items", "reassign"} => SeenCategory(r.fallback) /\ r.fallback # r.cat
  /\ r.at = "reassign" => \A i \in DOMAIN pitems : pitems[i].cat = r.cat => i \in r.read \/ pitems[i].late
  /\ r.at = "delete category" => \A i \in DOMAIN pitems : pitems[i].cat = r.cat => pitems[i].late
  /\ r.at = "clear" => Active \subseteq r.read \cup r.since
  /\ r.at = "mark" => Active \subseteq r.cleared \cup r.since
  /\ PromptDeletionFits(r)

PromptInv ==
  /\ PromptTypes /\ PromptLossExplained
  /\ \A i \in DOMAIN pitems : ItemKnows(pitems[i])
  /\ \A s \in PromptSessions : PromptFits(preq[s])

(* Requests as they are made.                                              *)
LEMMA PromptRequestFacts ==
  ASSUME NEW at \in PromptCalls, NEW lib \in PromptIds, NEW cat \in PromptIds, NEW fallback \in PromptIds
  PROVE  LET r == PromptRequest(at, lib, cat, fallback) IN
         /\ r \in PromptRequests /\ r.at = at /\ r.lib = lib /\ r.cat = cat /\ r.fallback = fallback
  BY DEF PromptRequest, PromptRequests

(* No request, and a SetActive that has not begun.                         *)
LEMMA PromptIdleFacts ==
  /\ PromptIdle \in PromptRequests /\ PromptIdle.at = "idle"
  /\ \A lib \in PromptIds : SetActive(lib) \in PromptRequests /\ SetActive(lib).at = "begin"
<1>1. NoPromptId \in PromptIds /\ "idle" \in PromptCalls /\ "begin" \in PromptCalls
  BY DEF PromptIds, PromptCalls
<1>2. PromptIdle \in PromptRequests /\ PromptIdle.at = "idle"
  BY <1>1, PromptRequestFacts DEF PromptIdle
<1>3. ASSUME NEW lib \in PromptIds PROVE SetActive(lib) \in PromptRequests /\ SetActive(lib).at = "begin"
  BY <1>1, PromptRequestFacts DEF SetActive
<1> QED BY <1>2, <1>3

(* These rely on nothing.                                                  *)
LEMMA PromptIdleFits ==
  ASSUME NEW s, preq'[s].at \in {"idle", "begin"}
  PROVE  PromptFits(preq[s])'
  BY DEF PromptFits, PromptDeletionFits

(* A request goes on.                                                      *)
LEMMA PromptSet ==
  ASSUME PromptTypes, NEW s \in PromptSessions, NEW r \in PromptRequests, PromptGoes(s, r)
  PROVE  preq' \in [PromptSessions -> PromptRequests] /\ preq'[s] = r /\ \A t \in PromptSessions \ {s} : preq'[t] = preq[t]
  BY DEF PromptTypes, PromptGoes

(* What Min and Max find.                                                  *)
LEMMA MinFound ==
  ASSUME NEW S \in SUBSET Nat, S # {}
  PROVE  Min(S) \in S
<1>0. S \subseteq Nat /\ S # {}
  OBVIOUS
<1>1. PICK x \in S : \A y \in S : <<y, x>> \notin OpToRel(<, Nat)
  BY <1>0, NatLessThanWellFounded, WFMin
<1>2. \A y \in S : ~(y < x)
  BY <1>0, <1>1 DEF OpToRel
<1>3. \A y \in S : x <= y
  BY <1>0, <1>2
<1> QED BY <1>3 DEF Min

(* A bounded set that is not empty has its maximum. *)
LEMMA MaxFound ==
  ASSUME NEW n \in Nat, NEW S \in SUBSET (1..n), S # {}
  PROVE  Max(S) \in S
<1> DEFINE U == {k \in Nat : \A x \in S : x <= k}
<1>1. U \subseteq Nat /\ U # {}
  <2>1. n \in U
    OBVIOUS
  <2> QED BY <2>1
<1> HIDE DEF U
<1>2. PICK m \in U : \A y \in U : <<y, m>> \notin OpToRel(<, Nat)
  BY <1>1, NatLessThanWellFounded, WFMin
<1>d. \A y \in U : ~(y < m)
  BY <1>1, <1>2 DEF OpToRel
<1>3. \A y \in U : m <= y
  BY <1>1, <1>d
<1> USE DEF U
<1>4. m \in S
  <2> SUFFICES ASSUME m \notin S PROVE FALSE
    OBVIOUS
  <2>1. m \in Nat /\ \A x \in S : x \in Nat /\ x >= 1 /\ x <= m /\ x # m
    OBVIOUS
  <2>2. PICK x \in S : TRUE
    OBVIOUS
  <2>3. m - 1 \in Nat
    BY <2>1, <2>2
  <2>4. m - 1 \in U
    BY <2>1, <2>3
  <2> QED BY <1>3, <2>1, <2>4
<1>5. \A y \in S : m >= y
  OBVIOUS
<1> QED BY <1>4, <1>5 DEF Max
-----------------------------------------------------------------------------
(* What steps do to the tables: a category that was there stays in its     *)
(* library, and the id of one that is gone is not used again; items that   *)
(* stay lose their library and their category only for a reason; items     *)
(* that are written know how they came by them.                            *)
PromptCatsStay ==
  /\ PromptCategoryIds \subseteq PromptCategoryIds'
  /\ \A c \in DOMAIN pcats' : c \in PromptCategoryIds => c \in DOMAIN pcats /\ pcats'[c].lib = pcats[c].lib
ItemStays(it) ==
  /\ it.lib \in DOMAIN plibs \ DOMAIN plibs' => it.unowned
  /\ it.cat \in DOMAIN pcats \ DOMAIN pcats' => PromptExcused(it)
ItemWritten(it) ==
  /\ it.cat \in PromptCategoryIds' \cup {NoPromptId}
  /\ it.cat \in DOMAIN pcats' => it.home = pcats'[it.cat].lib
  /\ it.cat \notin DOMAIN pcats' => it.blind
  /\ it.lib \notin DOMAIN plibs' => it.unowned
  /\ PromptsMoved(it.cat) => it.late
OwnedAsBefore(i) ==
  \/ i \in DOMAIN pitems /\ pitems'[i].lib = pitems[i].lib /\ pitems'[i].unowned = pitems[i].unowned
  \/ PromptsCleared(pitems'[i].lib) => pitems'[i].unowned
PromptItemsStay ==
  \A i \in DOMAIN pitems' :
    \/ i \in DOMAIN pitems /\ pitems'[i] = pitems[i] /\ ItemStays(pitems[i])
    \/ ItemWritten(pitems'[i]) /\ OwnedAsBefore(i)
SamePrompt(r, q) ==
  /\ r.at = q.at /\ r.lib = q.lib /\ r.cat = q.cat /\ r.fallback = q.fallback
  /\ r.read = q.read /\ r.cleared = q.cleared /\ r.takenCats = q.takenCats /\ r.takenItems = q.takenItems

(* What a deletion has found stays all there is.                           *)
LEMMA PromptDeletionFitsStays ==
  ASSUME PromptCatsStay, PromptItemsStay, NEW t \in PromptSessions, PromptDeletionFits(preq[t]),
         SamePrompt(preq'[t], preq[t])
  PROVE  PromptDeletionFits(preq[t])'
<1>1. /\ preq'[t].at = preq[t].at /\ preq'[t].lib = preq[t].lib /\ preq'[t].read = preq[t].read
      /\ preq'[t].takenCats = preq[t].takenCats /\ preq'[t].takenItems = preq[t].takenItems
  BY DEF SamePrompt
<1>2. preq[t].at = "take categories" => \A c \in preq[t].read : c \in PromptCategoryIds' /\ (c \in DOMAIN pcats' => pcats'[c].lib = preq[t].lib)
  BY DEF PromptDeletionFits, KnownIn, PromptCatsStay
<1>3. ASSUME NEW found, PromptsFound(found, preq[t].lib, preq[t].takenCats), PromptsCleared(preq[t].lib),
             NEW i \in DOMAIN pitems'
      PROVE  /\ pitems'[i].cat \in preq[t].takenCats => i \in found \/ PromptExcused(pitems'[i])
             /\ pitems'[i].lib = preq[t].lib => i \in found \/ pitems'[i].unowned
  <2>1. CASE i \in DOMAIN pitems /\ pitems'[i] = pitems[i]
    BY <1>3, <2>1 DEF PromptsFound
  <2>2. CASE ItemWritten(pitems'[i]) /\ OwnedAsBefore(i)
    <3>1. pitems'[i].cat \in preq[t].takenCats => PromptsMoved(pitems'[i].cat)
      BY DEF PromptsMoved
    <3>2. pitems'[i].cat \in preq[t].takenCats => PromptExcused(pitems'[i])
      BY <2>2, <3>1 DEF ItemWritten, PromptExcused
    <3>3. pitems'[i].lib = preq[t].lib => i \in found \/ pitems'[i].unowned
      BY <1>3, <2>2 DEF OwnedAsBefore, PromptsFound
    <3> QED BY <3>2, <3>3
  <2> QED BY <2>1, <2>2 DEF PromptItemsStay
<1>4. preq[t].at \in {"take items", "drop library"} => PromptsCleared(preq[t].lib)
  BY DEF PromptsCleared
<1>5. preq[t].at = "take items" => PromptsFound(preq[t].read, preq[t].lib, preq[t].takenCats)'
  <2>1. preq[t].at = "take items" => PromptsFound(preq[t].read, preq[t].lib, preq[t].takenCats)
    BY DEF PromptDeletionFits
  <2> QED BY <1>1, <1>3, <1>4, <2>1 DEF PromptsFound, PromptExcused
<1>6. preq[t].at = "drop library" => PromptsFound(preq[t].takenItems, preq[t].lib, preq[t].takenCats)'
  <2>1. preq[t].at = "drop library" => PromptsFound(preq[t].takenItems, preq[t].lib, preq[t].takenCats)
    BY DEF PromptDeletionFits
  <2> QED BY <1>1, <1>3, <1>4, <2>1 DEF PromptsFound, PromptExcused
<1> QED BY <1>1, <1>2, <1>5, <1>6 DEF PromptDeletionFits, KnownIn

(* Every step of the prompt library has this form.                         *)
LEMMA PromptStep ==
  ASSUME PromptInv, NEW s \in PromptSessions, PromptTypes', PromptFits(preq[s])', PromptCatsStay, PromptItemsStay,
         \A t \in PromptSessions \ {s} :
           /\ SamePrompt(preq'[t], preq[t]) /\ preq[t].since \subseteq preq'[t].since
           /\ preq[t].at \in {"clear", "mark"} => Active' \subseteq Active \cup preq'[t].since
  PROVE  PromptInv'
<1>0. /\ PromptTypes /\ PromptLossExplained /\ \A i \in DOMAIN pitems : ItemKnows(pitems[i])
  BY DEF PromptInv
<1>1. ASSUME NEW i \in DOMAIN pitems'
      PROVE  /\ ItemKnows(pitems[i])'
             /\ pitems'[i].lib \notin DOMAIN plibs' => pitems'[i].unowned
             /\ pitems'[i].cat \notin DOMAIN pcats' \cup {NoPromptId} =>
                  pitems'[i].blind \/ pitems'[i].late \/ pitems'[i].home # pitems'[i].lib
  <2>1. CASE i \in DOMAIN pitems /\ pitems'[i] = pitems[i] /\ ItemStays(pitems[i])
    <3>1. /\ ItemKnows(pitems[i]) /\ pitems'[i].cat = pitems[i].cat /\ pitems'[i].home = pitems[i].home
          /\ pitems'[i].lib = pitems[i].lib /\ pitems'[i].blind = pitems[i].blind /\ pitems'[i].late = pitems[i].late
          /\ pitems'[i].unowned = pitems[i].unowned
      BY <1>0, <2>1
    <3>2. (SeenCategory(pitems[i].cat))'
      BY <3>1 DEF ItemKnows, SeenCategory, PromptCatsStay
    <3>3. pitems'[i].cat \in DOMAIN pcats' => pitems'[i].home = pcats'[pitems'[i].cat].lib
      <4>1. NoPromptId \notin DOMAIN pcats'
        BY PromptLibraryAssumption DEF PromptTypes, PromptCategoryIds
      <4> QED BY <3>1, <4>1 DEF ItemKnows, SeenCategory, PromptCatsStay
    <3>4. pitems'[i].lib \notin DOMAIN plibs' => pitems'[i].unowned
      BY <1>0, <2>1, <3>1 DEF ItemStays, PromptLossExplained
    <3>5. pitems'[i].cat \notin DOMAIN pcats' \cup {NoPromptId} =>
             pitems'[i].blind \/ pitems'[i].late \/ pitems'[i].home # pitems'[i].lib
      BY <1>0, <2>1, <3>1 DEF ItemStays, PromptExcused, PromptLossExplained
    <3> QED BY <3>2, <3>3, <3>4, <3>5 DEF ItemKnows
  <2>2. CASE ItemWritten(pitems'[i])
    BY <2>2 DEF ItemWritten, ItemKnows, SeenCategory
  <2> QED BY <2>1, <2>2 DEF PromptItemsStay
<1>2. ASSUME NEW t \in PromptSessions, t # s PROVE PromptFits(preq[t])'
  <2>0. PromptFits(preq[t])
    BY DEF PromptInv
  <2>1. /\ preq'[t].at = preq[t].at /\ preq'[t].cat = preq[t].cat /\ preq'[t].fallback = preq[t].fallback
        /\ preq'[t].read = preq[t].read /\ preq'[t].cleared = preq[t].cleared /\ preq[t].since \subseteq preq'[t].since
        /\ preq[t].at \in {"clear", "mark"} => Active' \subseteq Active \cup preq'[t].since
    BY <1>2 DEF SamePrompt
  <2>i. ASSUME NEW i \in DOMAIN pitems', pitems'[i].cat = preq[t].cat, preq[t].at \in {"reassign", "delete category"}
        PROVE  pitems'[i].late \/ (i \in DOMAIN pitems /\ pitems'[i] = pitems[i])
    <3>1. CASE ItemWritten(pitems'[i])
      BY <2>i, <3>1 DEF ItemWritten, PromptsMoved
    <3> QED BY <3>1 DEF PromptItemsStay
  <2>2. preq[t].at = "insert item" => (SeenCategory(preq[t].cat))'
    BY <2>0, <2>1 DEF PromptFits, SeenCategory, PromptCatsStay
  <2>3. preq[t].at \in {"find items", "reassign"} => (SeenCategory(preq[t].fallback))' /\ preq'[t].fallback # preq'[t].cat
    BY <2>0, <2>1 DEF PromptFits, SeenCategory, PromptCatsStay
  <2>r. preq[t].at = "reassign" => \A i \in DOMAIN pitems' : pitems'[i].cat = preq[t].cat => i \in preq[t].read \/ pitems'[i].late
    BY <2>0, <2>i DEF PromptFits
  <2>4. preq[t].at = "delete category" => \A i \in DOMAIN pitems' : pitems'[i].cat = preq[t].cat => pitems'[i].late
    BY <2>0, <2>i DEF PromptFits
  <2>5. preq[t].at = "clear" => Active' \subseteq preq'[t].read \cup preq'[t].since
    <3>1. preq[t].at = "clear" => Active \subseteq preq[t].read \cup preq[t].since
      BY <2>0 DEF PromptFits
    <3> QED BY <2>1, <3>1
  <2>6. preq[t].at = "mark" => Active' \subseteq preq'[t].cleared \cup preq'[t].since
    <3>1. preq[t].at = "mark" => Active \subseteq preq[t].cleared \cup preq[t].since
      BY <2>0 DEF PromptFits
    <3> QED BY <2>1, <3>1
  <2>7. PromptDeletionFits(preq[t])'
    <3>1. PromptDeletionFits(preq[t]) /\ SamePrompt(preq'[t], preq[t])
      BY <1>2, <2>0 DEF PromptFits
    <3> QED BY <3>1, PromptDeletionFitsStays
  <2> QED BY <2>1, <2>2, <2>3, <2>r, <2>4, <2>5, <2>6, <2>7 DEF PromptFits
<1>3. PromptLossExplained'
  BY <1>1 DEF PromptLossExplained
<1> QED BY <1>1, <1>2, <1>3 DEF PromptInv
-----------------------------------------------------------------------------
(* The ids a client may know.                                              *)
LEMMA SeenPromptIds ==
  ASSUME PromptTypes
  PROVE  /\ PromptLibraryIds \subseteq PromptIds /\ PromptLibraryIds \subseteq Nat /\ NoPromptId \in PromptIds
         /\ \A c : SeenCategory(c) => c \in PromptIds
         /\ NoPromptId \notin PromptCategoryIds
  BY PromptLibraryAssumption DEF PromptTypes, PromptLibraryIds, PromptCategoryIds, PromptIds, SeenCategory

(* A step that only reads.                                                 *)
LEMMA PromptReads ==
  ASSUME PromptInv, NEW s \in PromptSessions, NEW r \in PromptRequests, PromptGoes(s, r), PromptFits(r),
         UNCHANGED <<plibs, pcats, pitems, pissued>>
  PROVE  PromptInv'
<1>0. PromptTypes /\ PromptCategoryIds' = PromptCategoryIds /\ PromptLibraryIds' = PromptLibraryIds /\ Active' = Active
  BY DEF PromptInv, PromptCategoryIds, PromptLibraryIds, Active
<1>1. preq' \in [PromptSessions -> PromptRequests] /\ preq'[s] = r /\ \A t \in PromptSessions \ {s} : preq'[t] = preq[t]
  BY <1>0, PromptSet
<1>2. PromptTypes'
  BY <1>0, <1>1 DEF PromptTypes
<1>3. PromptFits(preq[s])'
  <2>1. PromptDeletionFits(r)'
    BY <1>0 DEF PromptFits, PromptDeletionFits, PromptsFound, PromptExcused, KnownIn
  <2> QED BY <1>0, <1>1, <2>1 DEF PromptFits, SeenCategory
<1>4. PromptCatsStay /\ PromptItemsStay
  BY <1>0 DEF PromptCatsStay, PromptItemsStay, ItemStays
<1>5. \A t \in PromptSessions \ {s} :
        /\ SamePrompt(preq'[t], preq[t]) /\ preq[t].since \subseteq preq'[t].since
        /\ preq[t].at \in {"clear", "mark"} => Active' \subseteq Active \cup preq'[t].since
  BY <1>0, <1>1 DEF SamePrompt
<1> QED BY <1>2, <1>3, <1>4, <1>5, PromptStep

(* Requests end, read what is active, or look up a library or a category.  *)
LEMMA PromptReading ==
  ASSUME PromptInv, NEW s \in PromptSessions,
         \/ PromptCallFails(s) \/ ReadActive(s) \/ ClearActive(s)
         \/ \E l \in PromptLibraryIds, c \in PromptCategoryIds \cup {NoPromptId} : PromptItemCreate(s, l, c)
         \/ \E c \in PromptCategoryIds, l \in PromptLibraryIds \cup {NoPromptId} : PromptCategoryDelete(s, c, l)
  PROVE  PromptInv'
<1>0. /\ PromptTypes /\ preq[s] \in PromptRequests /\ PromptFits(preq[s]) /\ Active \subseteq Nat
  BY DEF PromptInv, PromptTypes, Active, PromptLibraryIds
<1>1. CASE PromptCallFails(s)
  <2>1. PromptGoes(s, PromptIdle) /\ UNCHANGED <<plibs, pcats, pitems, pissued>>
    BY <1>1 DEF PromptCallFails
  <2>2. PromptFits(PromptIdle)
    BY PromptIdleFacts DEF PromptFits, PromptDeletionFits
  <2> QED BY <2>1, <2>2, PromptIdleFacts, PromptReads
<1>2. CASE ReadActive(s)
  <2> DEFINE r == [preq[s] EXCEPT !.at = "clear", !.read = Active]
  <2>1. PromptGoes(s, r) /\ UNCHANGED <<plibs, pcats, pitems, pissued>>
    BY <1>2 DEF ReadActive
  <2>2. r \in PromptRequests /\ r.at = "clear" /\ r.read = Active
    BY <1>0 DEF PromptRequests, PromptCalls
  <2> HIDE DEF r
  <2>3. PromptFits(r)
    BY <2>2 DEF PromptFits, PromptDeletionFits
  <2> QED BY <2>1, <2>2, <2>3, PromptReads
<1>3. CASE ClearActive(s)
  <2> DEFINE all == preq[s].cleared \cup (preq[s].read \cap Active)
             r == [preq[s] EXCEPT !.at = "mark", !.cleared = all]
  <2>1. PromptGoes(s, r) /\ UNCHANGED <<plibs, pcats, pitems, pissued>> /\ preq[s].at = "clear"
    BY <1>3 DEF ClearActive
  <2>2. all \in SUBSET Nat /\ Active \subseteq all \cup preq[s].since
    BY <1>0, <2>1 DEF PromptRequests, PromptFits
  <2> HIDE DEF all
  <2>3. r \in PromptRequests /\ r.at = "mark" /\ r.cleared = all /\ r.since = preq[s].since
    BY <1>0, <2>2 DEF PromptRequests, PromptCalls
  <2> HIDE DEF r
  <2>4. PromptFits(r)
    BY <2>2, <2>3 DEF PromptFits, PromptDeletionFits
  <2> QED BY <2>1, <2>3, <2>4, PromptReads
<1>4. ASSUME NEW l \in PromptLibraryIds, NEW c \in PromptCategoryIds \cup {NoPromptId}, PromptItemCreate(s, l, c)
      PROVE  PromptInv'
  <2> DEFINE r == PromptRequest("insert item", l, c, NoPromptId)
  <2>1. PromptGoes(s, r) /\ UNCHANGED <<plibs, pcats, pitems, pissued>>
    BY <1>4 DEF PromptItemCreate
  <2>2. l \in PromptIds /\ c \in PromptIds /\ NoPromptId \in PromptIds /\ SeenCategory(c)
    BY <1>0, SeenPromptIds DEF SeenCategory
  <2>3. r \in PromptRequests /\ r.at = "insert item" /\ r.cat = c
    BY <2>2 DEF PromptRequest, PromptRequests, PromptCalls
  <2> HIDE DEF r
  <2>4. PromptFits(r)
    BY <2>2, <2>3 DEF PromptFits, PromptDeletionFits
  <2> QED BY <2>1, <2>3, <2>4, PromptReads
<1>5. ASSUME NEW c \in PromptCategoryIds, NEW l \in PromptLibraryIds \cup {NoPromptId}, PromptCategoryDelete(s, c, l)
      PROVE  PromptInv'
  <2> DEFINE f == Fallback(c, l)
             r == PromptRequest("find items", l, c, f)
  <2>1. PromptGoes(s, r) /\ UNCHANGED <<plibs, pcats, pitems, pissued>>
    BY <1>5 DEF PromptCategoryDelete
  <2>2. SeenCategory(f) /\ f # c
    <3> DEFINE others == {d \in DOMAIN pcats \ {c} : pcats[d].lib = l}
    <3>1. others \in SUBSET Nat /\ others \subseteq PromptCategoryIds
      BY <1>0 DEF PromptTypes, PromptCategoryIds
    <3>2. CASE others = {}
      BY <1>0, <3>2, SeenPromptIds DEF Fallback, SeenCategory
    <3>3. CASE others # {}
      <4>1. f = Min(others)
        BY <3>3 DEF Fallback
      <4>2. Min(others) \in others
        BY <3>1, <3>3, MinFound
      <4> QED BY <3>1, <4>1, <4>2 DEF SeenCategory
    <3> QED BY <3>2, <3>3
  <2> HIDE DEF f
  <2>3. l \in PromptIds /\ c \in PromptIds /\ f \in PromptIds
    BY <1>0, <2>2, SeenPromptIds DEF SeenCategory
  <2>4. r \in PromptRequests /\ r.at = "find items" /\ r.cat = c /\ r.fallback = f
    BY <2>3 DEF PromptRequest, PromptRequests, PromptCalls
  <2> HIDE DEF r
  <2>5. PromptFits(r)
    BY <2>2, <2>4 DEF PromptFits, PromptDeletionFits
  <2> QED BY <2>1, <2>4, <2>5, PromptReads
<1> QED BY <1>1, <1>2, <1>3, <1>4, <1>5

(* A deletion finds rows, and takes those still there.                     *)
LEMMA PromptDeletionReads ==
  ASSUME PromptInv, NEW s \in PromptSessions,
         \/ TakePromptCategories(s) \/ TakePromptItems(s) \/ FindPrompts(s)
         \/ \E l \in PromptLibraryIds \cup {SystemPromptLibraryID} : PromptLibraryDelete(s, l)
  PROVE  PromptInv'
<1> DEFINE q == preq[s]
<1>0. /\ PromptTypes /\ q \in PromptRequests /\ PromptFits(q) /\ PromptDeletionFits(q)
      /\ DOMAIN pcats \subseteq PromptCategoryIds /\ DOMAIN pitems \subseteq Nat /\ pissued.cat \in Nat
      /\ \A i \in DOMAIN pitems : ItemKnows(pitems[i])
  BY DEF PromptInv, PromptTypes, PromptFits
<1>t. \A S : S \subseteq DOMAIN pitems \/ S \subseteq DOMAIN pcats => S \in SUBSET Nat
  <2>1. DOMAIN pcats \subseteq Nat
    BY <1>0 DEF PromptCategoryIds
  <2> QED BY <1>0, <2>1
<1> HIDE DEF q
<1>1. ASSUME NEW l \in PromptLibraryIds \cup {SystemPromptLibraryID}, PromptLibraryDelete(s, l) PROVE PromptInv'
  <2> DEFINE found == {c \in DOMAIN pcats : pcats[c].lib = l}
             a == PromptRequest("take categories", l, NoPromptId, NoPromptId)
             r == [a EXCEPT !.read = found]
  <2>1. PromptGoes(s, r) /\ UNCHANGED <<plibs, pcats, pitems, pissued>>
    BY <1>1 DEF PromptLibraryDelete
  <2>2. \A c \in found : KnownIn(c, l)
    BY <1>0 DEF KnownIn
  <2>3. found \in SUBSET Nat
    BY <1>t
  <2>4. l \in PromptIds /\ NoPromptId \in PromptIds
    BY <1>0, SeenPromptIds DEF SystemPromptLibraryID, PromptIds
  <2>5. a \in PromptRequests /\ a.at = "take categories" /\ a.lib = l
    BY <2>4 DEF PromptRequest, PromptRequests, PromptCalls
  <2> HIDE DEF found, a
  <2>6. r \in PromptRequests /\ r.at = "take categories" /\ r.lib = l /\ r.read = found
    BY <2>3, <2>5 DEF PromptRequests
  <2> HIDE DEF r
  <2>7. PromptFits(r)
    BY <2>2, <2>6 DEF PromptFits, PromptDeletionFits
  <2> QED BY <2>1, <2>6, <2>7, PromptReads
<1>2. CASE TakePromptCategories(s)
  <2> DEFINE took == q.read \cap DOMAIN pcats
             found == PromptsOf(q.lib)
             r == [q EXCEPT !.at = "take items", !.read = found, !.takenCats = took]
  <2>1. q.at = "take categories" /\ PromptGoes(s, r) /\ UNCHANGED <<plibs, pcats, pitems, pissued>>
    BY <1>2 DEF TakePromptCategories, q
  <2>2. PromptsFound(found, q.lib, took)
    <3> SUFFICES ASSUME NEW i \in DOMAIN pitems, pitems[i].cat \in took, pitems[i].lib # q.lib
                 PROVE  PromptExcused(pitems[i])
      BY DEF PromptsFound, PromptsOf
    <3>1. pcats[pitems[i].cat].lib = q.lib
      BY <1>0, <2>1 DEF PromptDeletionFits, KnownIn
    <3>2. pitems[i].home = q.lib
      BY <1>0, <3>1 DEF ItemKnows
    <3> QED BY <3>2 DEF PromptExcused
  <2>3. took \in SUBSET Nat /\ found \in SUBSET Nat
    BY <1>t DEF PromptsOf
  <2> HIDE DEF took, found
  <2>4. r \in PromptRequests /\ r.at = "take items" /\ r.read = found /\ r.takenCats = took /\ r.lib = q.lib
    BY <1>0, <2>3 DEF PromptRequests, PromptCalls
  <2> HIDE DEF r
  <2>5. PromptFits(r)
    BY <2>2, <2>4 DEF PromptFits, PromptDeletionFits
  <2> QED BY <2>1, <2>4, <2>5, PromptReads
<1>3. CASE TakePromptItems(s)
  <2> DEFINE took == q.read \cap DOMAIN pitems
             r == [q EXCEPT !.at = "drop library", !.takenItems = took]
  <2>1. q.at = "take items" /\ PromptGoes(s, r) /\ UNCHANGED <<plibs, pcats, pitems, pissued>>
    BY <1>3 DEF TakePromptItems, q
  <2>2. PromptsFound(took, q.lib, q.takenCats)
    BY <1>0, <2>1 DEF PromptDeletionFits, PromptsFound
  <2>3. took \in SUBSET Nat
    BY <1>t
  <2> HIDE DEF took
  <2>4. /\ r \in PromptRequests /\ r.at = "drop library" /\ r.takenItems = took /\ r.takenCats = q.takenCats
        /\ r.lib = q.lib
    BY <1>0, <2>3 DEF PromptRequests, PromptCalls
  <2> HIDE DEF r
  <2>5. PromptFits(r)
    BY <2>2, <2>4 DEF PromptFits, PromptDeletionFits
  <2> QED BY <2>1, <2>4, <2>5, PromptReads
<1>4. CASE FindPrompts(s)
  <2> DEFINE found == PromptsIn(q.cat)
             r == [q EXCEPT !.at = "reassign", !.read = found]
  <2>1. q.at = "find items" /\ PromptGoes(s, r) /\ UNCHANGED <<plibs, pcats, pitems, pissued>>
    BY <1>4 DEF FindPrompts, q
  <2>2. \A i \in DOMAIN pitems : pitems[i].cat = q.cat => i \in found
    BY DEF PromptsIn
  <2>3. found \in SUBSET Nat
    BY <1>t DEF PromptsIn
  <2> HIDE DEF found
  <2>4. /\ r \in PromptRequests /\ r.at = "reassign" /\ r.read = found /\ r.cat = q.cat /\ r.fallback = q.fallback
    BY <1>0, <2>3 DEF PromptRequests, PromptCalls
  <2> HIDE DEF r
  <2>5. PromptFits(r)
    BY <1>0, <2>1, <2>2, <2>4 DEF PromptFits, PromptDeletionFits
  <2> QED BY <2>1, <2>4, <2>5, PromptReads
<1> QED BY <1>1, <1>2, <1>3, <1>4

(* A library is added, the active one is marked, a library goes.           *)
LEMMA PromptLibraries ==
  ASSUME PromptInv, NEW s \in PromptSessions,
         PromptLibraryCreate(s) \/ MarkActive(s) \/ DropPromptLibrary(s)
  PROVE  PromptInv'
<1>0. /\ PromptTypes /\ preq \in [PromptSessions -> PromptRequests] /\ pissued \in [lib : Nat, cat : Nat, item : Nat]
      /\ plibs \in [DOMAIN plibs -> [active : BOOLEAN]] /\ DOMAIN plibs \subseteq PromptLibraryIds
      /\ pcats \in [DOMAIN pcats -> [lib : Nat]] /\ DOMAIN pcats \subseteq PromptCategoryIds
      /\ pitems \in [DOMAIN pitems -> PromptItemRows] /\ DOMAIN pitems \subseteq Nat
      /\ PromptDeletionFits(preq[s])
  BY DEF PromptInv, PromptTypes, PromptFits
<1>1. CASE PromptLibraryCreate(s)
  <2> DEFINE id == pissued.lib + 1
  <2>1. /\ plibs' = Put(plibs, id, [active |-> FALSE]) /\ pissued' = [pissued EXCEPT !.lib = id]
        /\ PromptGoes(s, SetActive(id)) /\ UNCHANGED <<pcats, pitems>>
    BY <1>1 DEF PromptLibraryCreate
  <2>2. pissued.lib \in Nat
    BY <1>0
  <2>3. id \in Nat /\ id \in 1..id /\ PromptLibraryIds \subseteq 1..id
    BY <2>2 DEF PromptLibraryIds
  <2> HIDE DEF id
  <2>4. pissued' \in [lib : Nat, cat : Nat, item : Nat] /\ pissued'.cat = pissued.cat /\ pissued'.lib = id
    BY <1>0, <2>1, <2>3
  <2>5. PromptCategoryIds' = PromptCategoryIds /\ PromptLibraryIds \subseteq PromptLibraryIds' /\ id \in PromptLibraryIds'
    BY <2>3, <2>4 DEF PromptCategoryIds, PromptLibraryIds
  <2>6. /\ DOMAIN plibs' = DOMAIN plibs \cup {id} /\ plibs' \in [DOMAIN plibs' -> [active : BOOLEAN]]
        /\ plibs'[id].active = FALSE /\ \A l \in DOMAIN plibs \ {id} : plibs'[l] = plibs[l]
    BY <1>0, <2>1 DEF Put
  <2>7. Active' \subseteq Active
    BY <2>6 DEF Active
  <2>8. SetActive(id) \in PromptRequests /\ SetActive(id).at = "begin"
    BY <2>3, PromptIdleFacts DEF PromptIds
  <2>9. /\ preq' \in [PromptSessions -> PromptRequests] /\ preq'[s] = SetActive(id)
        /\ \A t \in PromptSessions \ {s} : preq'[t] = preq[t]
    BY <1>0, <2>1, <2>8, PromptSet
  <2>10. PromptFits(preq[s])'
    BY <2>8, <2>9, PromptIdleFits
  <2>11. PromptTypes'
    BY <1>0, <2>1, <2>4, <2>5, <2>6, <2>9 DEF PromptTypes
  <2>12. PromptCatsStay /\ PromptItemsStay
    BY <2>1, <2>5, <2>6 DEF PromptCatsStay, PromptItemsStay, ItemStays
  <2>13. \A t \in PromptSessions \ {s} :
           /\ SamePrompt(preq'[t], preq[t]) /\ preq[t].since \subseteq preq'[t].since
           /\ preq[t].at \in {"clear", "mark"} => Active' \subseteq Active \cup preq'[t].since
    BY <2>7, <2>9 DEF SamePrompt
  <2> QED BY <2>10, <2>11, <2>12, <2>13, PromptStep
<1>2. CASE MarkActive(s)
  <2> DEFINE l == preq[s].lib
  <2>1. /\ plibs' = (IF l \notin DOMAIN plibs THEN plibs
                     ELSE [k \in DOMAIN plibs |-> [active |-> k = l \/ (plibs[k].active /\ k \notin preq[s].cleared)]])
        /\ preq' = [t \in PromptSessions |->
                      IF t = s THEN PromptIdle
                      ELSE IF preq[t].at \in {"clear", "mark"} /\ l \in DOMAIN plibs
                             THEN [preq[t] EXCEPT !.since = preq[t].since \cup {l}] ELSE preq[t]]
        /\ UNCHANGED <<pcats, pitems, pissued>>
    BY <1>2 DEF MarkActive
  <2> HIDE DEF l
  <2>2. DOMAIN plibs' = DOMAIN plibs /\ plibs' \in [DOMAIN plibs' -> [active : BOOLEAN]]
    <3>1. ASSUME NEW k PROVE (k = l \/ (plibs[k].active /\ k \notin preq[s].cleared)) \in BOOLEAN
      OBVIOUS
    <3>2. ASSUME NEW k PROVE [active |-> k = l \/ (plibs[k].active /\ k \notin preq[s].cleared)] \in [active : BOOLEAN]
      BY <3>1
    <3> QED BY <1>0, <2>1, <3>2
  <2>3. /\ l \notin DOMAIN plibs => Active' = Active
        /\ l \in DOMAIN plibs => Active' \subseteq Active \cup {l}
    BY <2>1 DEF Active
  <2>4. ASSUME NEW t \in PromptSessions \ {s}
        PROVE  /\ preq'[t] \in PromptRequests /\ SamePrompt(preq'[t], preq[t]) /\ preq[t].since \subseteq preq'[t].since
               /\ preq[t].at \in {"clear", "mark"} /\ l \in DOMAIN plibs => l \in preq'[t].since
    <3>0. preq[t] \in PromptRequests
      BY <1>0
    <3>1. CASE preq[t].at \in {"clear", "mark"} /\ l \in DOMAIN plibs
      <4>1. preq'[t] = [preq[t] EXCEPT !.since = preq[t].since \cup {l}]
        BY <2>1, <3>1
      <4>2. preq[t].since \cup {l} \in SUBSET Nat
        BY <1>0, <3>0, <3>1, SeenPromptIds DEF PromptRequests
      <4> QED BY <3>0, <4>1, <4>2 DEF PromptRequests, SamePrompt
    <3>2. CASE ~(preq[t].at \in {"clear", "mark"} /\ l \in DOMAIN plibs)
      <4>1. preq'[t] = preq[t]
        BY <2>1, <3>2
      <4> QED BY <3>0, <3>2, <4>1 DEF SamePrompt
    <3> QED BY <3>1, <3>2
  <2>5. preq'[s] = PromptIdle /\ preq' \in [PromptSessions -> PromptRequests]
    <3>1. preq'[s] = PromptIdle /\ DOMAIN preq' = PromptSessions /\ preq' = [t \in PromptSessions |-> preq'[t]]
      BY <2>1
    <3>2. \A t \in PromptSessions : preq'[t] \in PromptRequests
      BY <2>4, <3>1, PromptIdleFacts
    <3> QED BY <3>1, <3>2
  <2>6. PromptFits(preq[s])'
    BY <2>5, PromptIdleFacts, PromptIdleFits
  <2>7. PromptCategoryIds' = PromptCategoryIds /\ PromptLibraryIds' = PromptLibraryIds
    BY <2>1 DEF PromptCategoryIds, PromptLibraryIds
  <2>8. PromptTypes'
    BY <1>0, <2>1, <2>2, <2>5, <2>7 DEF PromptTypes
  <2>9. PromptCatsStay /\ PromptItemsStay
    BY <2>1, <2>2, <2>7 DEF PromptCatsStay, PromptItemsStay, ItemStays
  <2>10. \A t \in PromptSessions \ {s} :
           /\ SamePrompt(preq'[t], preq[t]) /\ preq[t].since \subseteq preq'[t].since
           /\ preq[t].at \in {"clear", "mark"} => Active' \subseteq Active \cup preq'[t].since
    BY <2>3, <2>4
  <2> QED BY <2>6, <2>8, <2>9, <2>10, PromptStep
<1>3. CASE DropPromptLibrary(s)
  <2> DEFINE l == preq[s].lib
             gc == IF l \in DOMAIN plibs THEN preq[s].takenCats ELSE {}
             gi == IF l \in DOMAIN plibs THEN preq[s].takenItems ELSE {}
  <2>1. /\ preq[s].at = "drop library" /\ PromptGoes(s, PromptIdle) /\ pissued' = pissued
        /\ plibs' = Without(plibs, {l}) /\ pcats' = Without(pcats, gc) /\ pitems' = Without(pitems, gi)
    <3>1. pcats = Without(pcats, {}) /\ pitems = Without(pitems, {})
      BY <1>0 DEF Without, Restrict
    <3>2. l \notin DOMAIN plibs => plibs = Without(plibs, {l})
      BY <1>0 DEF Without, Restrict
    <3>3. CASE l \in DOMAIN plibs
      BY <1>3, <3>3 DEF DropPromptLibrary
    <3>4. CASE l \notin DOMAIN plibs
      BY <1>3, <3>1, <3>2, <3>4 DEF DropPromptLibrary
    <3> QED BY <3>3, <3>4
  <2>f. PromptsFound(preq[s].takenItems, l, preq[s].takenCats)
    BY <1>0, <2>1 DEF PromptDeletionFits
  <2>g. l \in DOMAIN plibs => gc = preq[s].takenCats /\ gi = preq[s].takenItems
    OBVIOUS
  <2>h. l \notin DOMAIN plibs => gc = {}
    OBVIOUS
  <2> HIDE DEF l, gc, gi
  <2>2. /\ DOMAIN plibs' = DOMAIN plibs \ {l} /\ plibs' \in [DOMAIN plibs' -> [active : BOOLEAN]]
        /\ \A k \in DOMAIN plibs \ {l} : plibs'[k] = plibs[k]
    BY <1>0, <2>1 DEF Without, Restrict
  <2>3. /\ DOMAIN pcats' = DOMAIN pcats \ gc /\ pcats' \in [DOMAIN pcats' -> [lib : Nat]]
        /\ \A c \in DOMAIN pcats \ gc : pcats'[c] = pcats[c]
    BY <1>0, <2>1 DEF Without, Restrict
  <2>4. /\ DOMAIN pitems' = DOMAIN pitems \ gi /\ pitems' \in [DOMAIN pitems' -> PromptItemRows]
        /\ \A i \in DOMAIN pitems \ gi : pitems'[i] = pitems[i]
    BY <1>0, <2>1 DEF Without, Restrict
  <2>5. PromptCategoryIds' = PromptCategoryIds /\ PromptLibraryIds' = PromptLibraryIds
    BY <2>1 DEF PromptCategoryIds, PromptLibraryIds
  <2>p. /\ preq' \in [PromptSessions -> PromptRequests] /\ preq'[s] = PromptIdle
        /\ \A t \in PromptSessions \ {s} : preq'[t] = preq[t]
    BY <1>0, <2>1, PromptIdleFacts, PromptSet
  <2>6. PromptTypes'
    BY <1>0, <2>1, <2>2, <2>3, <2>4, <2>5, <2>p DEF PromptTypes
  <2>7. PromptFits(preq[s])'
    BY <2>p, PromptIdleFacts, PromptIdleFits
  <2>8. PromptCatsStay
    BY <2>3, <2>5 DEF PromptCatsStay
  <2>9. PromptItemsStay
    <3> SUFFICES ASSUME NEW i \in DOMAIN pitems'
                 PROVE  i \in DOMAIN pitems /\ pitems'[i] = pitems[i] /\ ItemStays(pitems[i])
      BY DEF PromptItemsStay
    <3>1. i \in DOMAIN pitems /\ pitems'[i] = pitems[i] /\ i \notin gi
      BY <2>4
    <3>2. pitems[i].lib \in DOMAIN plibs \ DOMAIN plibs' => pitems[i].unowned
      BY <2>2, <2>f, <2>g, <3>1 DEF PromptsFound
    <3>3. pitems[i].cat \in DOMAIN pcats \ DOMAIN pcats' => PromptExcused(pitems[i])
      BY <2>3, <2>f, <2>g, <2>h, <3>1 DEF PromptsFound
    <3> QED BY <3>1, <3>2, <3>3 DEF ItemStays
  <2>10. Active' \subseteq Active
    BY <2>2 DEF Active
  <2>11. \A t \in PromptSessions \ {s} :
           /\ SamePrompt(preq'[t], preq[t]) /\ preq[t].since \subseteq preq'[t].since
           /\ preq[t].at \in {"clear", "mark"} => Active' \subseteq Active \cup preq'[t].since
    BY <2>p, <2>10 DEF SamePrompt
  <2> QED BY <2>6, <2>7, <2>8, <2>9, <2>11, PromptStep
<1> QED BY <1>1, <1>2, <1>3

(* An item that keeps its mark, or is marked as it should.                 *)
RowOwned(row, u) == row.unowned = u \/ (PromptsCleared(row.lib) => row.unowned)

(* An item as it is written, with or without a look at its library.        *)
LEMMA PromptRowFacts ==
  ASSUME PromptTypes, NEW lib \in PromptIds, NEW cat, SeenCategory(cat), NEW u \in BOOLEAN,
         u \/ lib \in DOMAIN plibs, NEW row,
         row \in {PromptItemRow(lib, cat), [PromptItemRow(lib, cat) EXCEPT !.unowned = u]},
         UNCHANGED <<plibs, pcats>>, pissued'.cat = pissued.cat
  PROVE  /\ row \in PromptItemRows /\ row.lib = lib /\ row.cat = cat /\ ItemWritten(row)
         /\ RowOwned(row, u)
<1> DEFINE blind == cat \notin DOMAIN pcats
           home == IF cat \in DOMAIN pcats THEN pcats[cat].lib ELSE NoPromptId
           late == PromptsMoved(cat)
           unowned == lib \notin DOMAIN plibs \/ PromptsCleared(lib)
           it == [lib |-> lib, cat |-> cat, blind |-> blind, home |-> home, late |-> late, unowned |-> unowned]
<1>1. it = PromptItemRow(lib, cat)
  BY DEF PromptItemRow
<1>b. late \in BOOLEAN
  BY DEF PromptsMoved
<1>2. /\ blind \in BOOLEAN /\ unowned \in BOOLEAN
      /\ cat \notin DOMAIN pcats => blind
      /\ cat \in DOMAIN pcats => home = pcats[cat].lib
      /\ PromptsMoved(cat) => late
      /\ lib \notin DOMAIN plibs => unowned
      /\ PromptsCleared(lib) => unowned
  OBVIOUS
<1>3. home \in PromptIds /\ cat \in PromptIds
  BY SeenPromptIds DEF PromptTypes, PromptIds
<1> HIDE DEF blind, home, late, unowned
<1>4. PICK o \in BOOLEAN :
        /\ row = [lib |-> lib, cat |-> cat, blind |-> blind, home |-> home, late |-> late, unowned |-> o]
        /\ lib \notin DOMAIN plibs => o
        /\ o = u \/ (PromptsCleared(lib) => o)
  <2>1. CASE row = PromptItemRow(lib, cat)
    BY <1>1, <1>2, <2>1
  <2>2. CASE row = [PromptItemRow(lib, cat) EXCEPT !.unowned = u]
    <3>1. row = [lib |-> lib, cat |-> cat, blind |-> blind, home |-> home, late |-> late, unowned |-> u]
      BY <1>1, <2>2
    <3> QED BY <3>1
  <2> QED BY <2>1, <2>2
<1>5. /\ row \in PromptItemRows /\ row.lib = lib /\ row.cat = cat /\ row.blind = blind /\ row.home = home
      /\ row.late = late /\ row.unowned = o
  BY <1>b, <1>2, <1>3, <1>4 DEF PromptItemRows
<1>6. cat \in PromptCategoryIds' \cup {NoPromptId}
  BY DEF SeenCategory, PromptCategoryIds
<1>7. ItemWritten(row)
  BY <1>2, <1>4, <1>5, <1>6 DEF ItemWritten
<1>8. RowOwned(row, u)
  BY <1>4, <1>5 DEF RowOwned
<1> QED BY <1>5, <1>7, <1>8

(* A step that writes no more than items.                                  *)
LEMMA PromptItemsMove ==
  ASSUME PromptInv, NEW s \in PromptSessions, preq' \in [PromptSessions -> PromptRequests],
         \A t \in PromptSessions \ {s} : preq'[t] = preq[t], PromptFits(preq[s])', UNCHANGED <<plibs, pcats>>,
         pissued' \in [lib : Nat, cat : Nat, item : Nat], pissued'.cat = pissued.cat, pissued'.lib = pissued.lib,
         pitems' \in [DOMAIN pitems' -> PromptItemRows], DOMAIN pitems' \subseteq Nat,
         \A i \in DOMAIN pitems' :
           (i \in DOMAIN pitems /\ pitems'[i] = pitems[i]) \/ (ItemWritten(pitems'[i]) /\ OwnedAsBefore(i))
  PROVE  PromptInv'
<1>0. /\ PromptTypes /\ PromptCategoryIds' = PromptCategoryIds /\ PromptLibraryIds' = PromptLibraryIds /\ Active' = Active
  BY DEF PromptInv, PromptCategoryIds, PromptLibraryIds, Active
<1>1. PromptTypes'
  BY <1>0 DEF PromptTypes
<1>2. PromptCatsStay
  BY <1>0 DEF PromptCatsStay
<1>3. \A it : ItemStays(it)
  BY DEF ItemStays
<1>4. PromptItemsStay
  BY <1>3 DEF PromptItemsStay
<1>5. \A t \in PromptSessions \ {s} :
        /\ SamePrompt(preq'[t], preq[t]) /\ preq[t].since \subseteq preq'[t].since
        /\ preq[t].at \in {"clear", "mark"} => Active' \subseteq Active \cup preq'[t].since
  BY <1>0 DEF SamePrompt
<1> QED BY <1>1, <1>2, <1>4, <1>5, PromptStep

(* Items are written, moved to another category, or go.                    *)
LEMMA PromptItemSteps ==
  ASSUME PromptInv, NEW s \in PromptSessions,
         \/ InsertItem(s) \/ ReassignCategory(s)
         \/ \E i \in PromptItemIds, c \in PromptCategoryIds \cup {NoPromptId} : PromptItemUpdate(s, i, c)
         \/ \E ids \in SUBSET PromptItemIds : PromptItemBatchDelete(s, ids)
  PROVE  PromptInv'
<1>0. /\ PromptTypes /\ preq \in [PromptSessions -> PromptRequests] /\ pissued \in [lib : Nat, cat : Nat, item : Nat]
      /\ pitems \in [DOMAIN pitems -> PromptItemRows] /\ DOMAIN pitems \subseteq Nat /\ preq[s] \in PromptRequests /\ PromptFits(preq[s])
      /\ PromptLossExplained
  BY DEF PromptInv, PromptTypes
<1>l. \A i \in DOMAIN pitems : /\ pitems[i].lib \in PromptIds /\ pitems[i].unowned \in BOOLEAN
                               /\ pitems[i].unowned \/ pitems[i].lib \in DOMAIN plibs
  BY <1>0 DEF PromptItemRows, PromptLossExplained
<1>1. CASE InsertItem(s)
  <2> DEFINE id == pissued.item + 1
             row == PromptItemRow(preq[s].lib, preq[s].cat)
  <2>1. /\ preq[s].at = "insert item" /\ pitems' = Put(pitems, id, row) /\ pissued' = [pissued EXCEPT !.item = id]
        /\ PromptGoes(s, SetActive(preq[s].lib)) /\ UNCHANGED <<plibs, pcats>>
    BY <1>1 DEF InsertItem
  <2>2. id \in Nat
    <3>1. pissued.item \in Nat
      BY <1>0
    <3> QED BY <3>1
  <2> HIDE DEF id
  <2>3. pissued' \in [lib : Nat, cat : Nat, item : Nat] /\ pissued'.cat = pissued.cat /\ pissued'.lib = pissued.lib
    BY <1>0, <2>1, <2>2
  <2>4. preq[s].lib \in PromptIds /\ SeenCategory(preq[s].cat)
    BY <1>0, <2>1 DEF PromptRequests, PromptFits
  <2>5. row \in PromptItemRows /\ row.lib = preq[s].lib /\ ItemWritten(row) /\ (PromptsCleared(row.lib) => row.unowned)
    <3> DEFINE u == TRUE
    <3>u. u = TRUE
      OBVIOUS
    <3>1. u \in BOOLEAN /\ (u \/ preq[s].lib \in DOMAIN plibs)
      OBVIOUS
    <3> HIDE DEF u
    <3>2. row \in {PromptItemRow(preq[s].lib, preq[s].cat), [PromptItemRow(preq[s].lib, preq[s].cat) EXCEPT !.unowned = u]}
      OBVIOUS
    <3>3. UNCHANGED <<plibs, pcats>> /\ pissued'.cat = pissued.cat /\ PromptTypes
      BY <1>0, <2>1, <2>3
    <3> HIDE DEF row
    <3>4. row \in PromptItemRows /\ row.lib = preq[s].lib /\ ItemWritten(row) /\ RowOwned(row, u)
      BY <2>4, <3>1, <3>2, <3>3, PromptRowFacts
    <3>5. PromptsCleared(row.lib) => row.unowned
      BY <3>u, <3>4, Zenon DEF RowOwned
    <3> QED BY <3>4, <3>5
  <2> HIDE DEF row
  <2>6. /\ pitems' \in [DOMAIN pitems' -> PromptItemRows] /\ DOMAIN pitems' \subseteq Nat
        /\ \A i \in DOMAIN pitems' : (i \in DOMAIN pitems /\ pitems'[i] = pitems[i]) \/ pitems'[i] = row
    BY <1>0, <2>1, <2>2, <2>5 DEF Put
  <2>7. SetActive(preq[s].lib) \in PromptRequests /\ SetActive(preq[s].lib).at = "begin"
    BY <2>4, PromptIdleFacts
  <2>8. /\ preq' \in [PromptSessions -> PromptRequests] /\ preq'[s] = SetActive(preq[s].lib)
        /\ \A t \in PromptSessions \ {s} : preq'[t] = preq[t]
    BY <1>0, <2>1, <2>7, PromptSet
  <2>9. PromptFits(preq[s])'
    BY <2>7, <2>8, PromptIdleFits
  <2>10. \A i \in DOMAIN pitems' :
           (i \in DOMAIN pitems /\ pitems'[i] = pitems[i]) \/ (ItemWritten(pitems'[i]) /\ OwnedAsBefore(i))
    BY <2>5, <2>6 DEF OwnedAsBefore, RowOwned
  <2> QED BY <2>1, <2>3, <2>6, <2>8, <2>9, <2>10, PromptItemsMove
<1>2. CASE ReassignCategory(s)
  <2> DEFINE f == preq[s].fallback
             r == [preq[s] EXCEPT !.at = "delete category"]
             row(i) == [PromptItemRow(pitems[i].lib, f) EXCEPT !.unowned = pitems[i].unowned]
  <2>1. /\ preq[s].at = "reassign" /\ PromptGoes(s, r) /\ UNCHANGED <<plibs, pcats, pissued>>
        /\ pitems' = [i \in DOMAIN pitems |-> IF i \notin preq[s].read \cap PromptsIn(preq[s].cat) THEN pitems[i] ELSE row(i)]
    BY <1>2 DEF ReassignCategory
  <2>n. \A i \in DOMAIN pitems : pitems[i].cat = preq[s].cat => i \in preq[s].read \cap PromptsIn(preq[s].cat) \/ pitems[i].late
    BY <1>0, <2>1 DEF PromptFits, PromptsIn
  <2>2. SeenCategory(f) /\ f # preq[s].cat
    BY <1>0, <2>1 DEF PromptFits
  <2>3. r \in PromptRequests /\ r.at = "delete category" /\ r.cat = preq[s].cat
    BY <1>0 DEF PromptRequests, PromptCalls
  <2> HIDE DEF f, r
  <2>4. ASSUME NEW i \in DOMAIN pitems
        PROVE  /\ row(i) \in PromptItemRows /\ row(i).cat = f /\ row(i).lib = pitems[i].lib /\ ItemWritten(row(i))
               /\ RowOwned(row(i), pitems[i].unowned)
    <3> DEFINE it == row(i)
    <3>1. it \in {PromptItemRow(pitems[i].lib, f), [PromptItemRow(pitems[i].lib, f) EXCEPT !.unowned = pitems[i].unowned]}
      OBVIOUS
    <3>2. /\ pitems[i].lib \in PromptIds /\ pitems[i].unowned \in BOOLEAN
          /\ pitems[i].unowned \/ pitems[i].lib \in DOMAIN plibs
          /\ pissued'.cat = pissued.cat
      BY <1>l, <2>1
    <3>3. UNCHANGED <<plibs, pcats>> /\ pissued'.cat = pissued.cat /\ PromptTypes
      BY <1>0, <2>1
    <3> HIDE DEF it
    <3>4. /\ it \in PromptItemRows /\ it.cat = f /\ it.lib = pitems[i].lib /\ ItemWritten(it)
          /\ RowOwned(it, pitems[i].unowned)
      BY <2>2, <3>1, <3>2, <3>3, PromptRowFacts
    <3> QED BY <3>4 DEF it
  <2> HIDE DEF row
  <2>5. /\ DOMAIN pitems' = DOMAIN pitems /\ pitems' \in [DOMAIN pitems' -> PromptItemRows]
        /\ \A i \in DOMAIN pitems' :
             (pitems'[i] = pitems[i] /\ (pitems[i].cat = preq[s].cat => pitems[i].late)) \/ pitems'[i] = row(i)
    BY <1>0, <2>1, <2>4, <2>n
  <2>6. preq' \in [PromptSessions -> PromptRequests] /\ preq'[s] = r /\ \A t \in PromptSessions \ {s} : preq'[t] = preq[t]
    BY <1>0, <2>1, <2>3, PromptSet
  <2>7. \A i \in DOMAIN pitems' : pitems'[i].cat = preq[s].cat => pitems'[i].late
    BY <2>2, <2>4, <2>5
  <2>8. PromptFits(preq[s])'
    BY <2>3, <2>6, <2>7 DEF PromptFits, PromptDeletionFits
  <2>9. \A i \in DOMAIN pitems' :
          (i \in DOMAIN pitems /\ pitems'[i] = pitems[i]) \/ (ItemWritten(pitems'[i]) /\ OwnedAsBefore(i))
    BY <2>4, <2>5 DEF OwnedAsBefore, RowOwned
  <2> QED BY <1>0, <2>1, <2>5, <2>6, <2>8, <2>9, PromptItemsMove
<1>3. ASSUME NEW k, NEW c \in PromptCategoryIds \cup {NoPromptId}, PromptItemUpdate(s, k, c) PROVE PromptInv'
  <2> DEFINE row == [PromptItemRow(pitems[k].lib, c) EXCEPT !.unowned = pitems[k].unowned]
  <2>1. /\ preq[s] = PromptIdle /\ k \in DOMAIN pitems /\ pitems' = [pitems EXCEPT ![k] = row]
        /\ UNCHANGED <<plibs, pcats, pissued, preq>>
    BY <1>3 DEF PromptItemUpdate
  <2>2. row \in {PromptItemRow(pitems[k].lib, c), [PromptItemRow(pitems[k].lib, c) EXCEPT !.unowned = pitems[k].unowned]}
    OBVIOUS
  <2>3. /\ pitems[k].lib \in PromptIds /\ pitems[k].unowned \in BOOLEAN
        /\ pitems[k].unowned \/ pitems[k].lib \in DOMAIN plibs
    BY <1>l, <2>1
  <2>4. UNCHANGED <<plibs, pcats>> /\ pissued'.cat = pissued.cat /\ PromptTypes /\ SeenCategory(c)
    BY <1>0, <2>1 DEF SeenCategory
  <2> HIDE DEF row
  <2>5. /\ row \in PromptItemRows /\ row.lib = pitems[k].lib /\ ItemWritten(row)
        /\ RowOwned(row, pitems[k].unowned)
    BY <2>2, <2>3, <2>4, PromptRowFacts
  <2>6. /\ pitems' \in [DOMAIN pitems' -> PromptItemRows] /\ DOMAIN pitems' \subseteq Nat
        /\ \A i \in DOMAIN pitems' : i \in DOMAIN pitems /\ (pitems'[i] = pitems[i] \/ (i = k /\ pitems'[i] = row))
    BY <1>0, <2>1, <2>5
  <2>7. \A i \in DOMAIN pitems' :
          (i \in DOMAIN pitems /\ pitems'[i] = pitems[i]) \/ (ItemWritten(pitems'[i]) /\ OwnedAsBefore(i))
    BY <2>5, <2>6 DEF OwnedAsBefore, RowOwned
  <2>8. PromptFits(preq[s])'
    BY <2>1, PromptIdleFacts, PromptIdleFits
  <2> QED BY <1>0, <2>1, <2>6, <2>7, <2>8, PromptItemsMove
<1>4. ASSUME NEW ids, PromptItemBatchDelete(s, ids) PROVE PromptInv'
  <2>1. preq[s] = PromptIdle /\ pitems' = Without(pitems, ids) /\ UNCHANGED <<plibs, pcats, pissued, preq>>
    BY <1>4 DEF PromptItemBatchDelete
  <2>2. /\ pitems' \in [DOMAIN pitems' -> PromptItemRows] /\ DOMAIN pitems' \subseteq Nat
        /\ \A i \in DOMAIN pitems' : i \in DOMAIN pitems /\ pitems'[i] = pitems[i]
    BY <1>0, <2>1 DEF Without, Restrict
  <2>3. PromptFits(preq[s])'
    BY <2>1, PromptIdleFacts, PromptIdleFits
  <2> QED BY <1>0, <2>1, <2>2, <2>3, PromptItemsMove
<1> QED BY <1>1, <1>2, <1>3, <1>4

(* A category is added, or goes once its items have been moved.            *)
LEMMA PromptCategorySteps ==
  ASSUME PromptInv, NEW s \in PromptSessions,
         DeleteCategory(s) \/ \E l \in PromptLibraryIds : PromptCategoryCreate(s, l)
  PROVE  PromptInv'
<1>0. /\ PromptTypes /\ preq \in [PromptSessions -> PromptRequests] /\ pissued \in [lib : Nat, cat : Nat, item : Nat]
      /\ pcats \in [DOMAIN pcats -> [lib : Nat]] /\ DOMAIN pcats \subseteq PromptCategoryIds /\ PromptFits(preq[s])
  BY DEF PromptInv, PromptTypes
<1>1. CASE DeleteCategory(s)
  <2> DEFINE c == preq[s].cat
             own == {d \in DOMAIN pcats : d = preq[s].cat /\ pcats[d].lib = preq[s].lib}
  <2>1. /\ preq[s].at = "delete category" /\ PromptGoes(s, PromptIdle) /\ UNCHANGED <<plibs, pitems, pissued>>
        /\ pcats' = Without(pcats, own) /\ own \subseteq {c}
    BY <1>1 DEF DeleteCategory
  <2> HIDE DEF own
  <2>2. /\ DOMAIN pcats' \subseteq DOMAIN pcats /\ DOMAIN pcats \ {c} \subseteq DOMAIN pcats'
        /\ pcats' \in [DOMAIN pcats' -> [lib : Nat]] /\ \A d \in DOMAIN pcats' : pcats'[d] = pcats[d]
    BY <1>0, <2>1 DEF Without, Restrict
  <2>3. \A i \in DOMAIN pitems : pitems[i].cat = c => pitems[i].late
    BY <1>0, <2>1 DEF PromptFits
  <2>4. /\ preq' \in [PromptSessions -> PromptRequests] /\ preq'[s] = PromptIdle
        /\ \A t \in PromptSessions \ {s} : preq'[t] = preq[t]
    BY <1>0, <2>1, PromptIdleFacts, PromptSet
  <2>5. PromptFits(preq[s])'
    BY <2>4, PromptIdleFacts, PromptIdleFits
  <2>6. PromptCategoryIds' = PromptCategoryIds /\ PromptLibraryIds' = PromptLibraryIds /\ Active' = Active
    BY <2>1 DEF PromptCategoryIds, PromptLibraryIds, Active
  <2>7. PromptTypes'
    BY <1>0, <2>1, <2>2, <2>4, <2>6 DEF PromptTypes
  <2>8. PromptCatsStay
    BY <2>2, <2>6 DEF PromptCatsStay
  <2>9. PromptItemsStay
    BY <2>1, <2>2, <2>3 DEF PromptItemsStay, ItemStays, PromptExcused
  <2>10. \A t \in PromptSessions \ {s} :
           /\ SamePrompt(preq'[t], preq[t]) /\ preq[t].since \subseteq preq'[t].since
           /\ preq[t].at \in {"clear", "mark"} => Active' \subseteq Active \cup preq'[t].since
    BY <2>4, <2>6 DEF SamePrompt
  <2> QED BY <2>5, <2>7, <2>8, <2>9, <2>10, PromptStep
<1>2. ASSUME NEW l \in PromptLibraryIds, PromptCategoryCreate(s, l) PROVE PromptInv'
  <2> DEFINE id == pissued.cat + 1
  <2>1. /\ preq[s] = PromptIdle /\ pcats' = Put(pcats, id, [lib |-> l]) /\ pissued' = [pissued EXCEPT !.cat = id]
        /\ UNCHANGED <<plibs, pitems, preq>>
    BY <1>2 DEF PromptCategoryCreate
  <2>2. pissued.cat \in Nat
    BY <1>0
  <2>3. id \in Nat /\ id \notin PromptCategoryIds /\ id \in 1..id /\ PromptCategoryIds \subseteq 1..id
    BY <2>2 DEF PromptCategoryIds
  <2> HIDE DEF id
  <2>4. pissued' \in [lib : Nat, cat : Nat, item : Nat] /\ pissued'.cat = id /\ pissued'.lib = pissued.lib
    BY <1>0, <2>1, <2>3
  <2>5. /\ PromptCategoryIds \subseteq PromptCategoryIds' /\ id \in PromptCategoryIds'
        /\ PromptLibraryIds' = PromptLibraryIds /\ Active' = Active
    BY <2>1, <2>3, <2>4 DEF PromptCategoryIds, PromptLibraryIds, Active
  <2>6. l \in Nat
    BY <1>0, SeenPromptIds
  <2>7. /\ DOMAIN pcats' = DOMAIN pcats \cup {id} /\ pcats' \in [DOMAIN pcats' -> [lib : Nat]]
        /\ \A c \in DOMAIN pcats \ {id} : pcats'[c] = pcats[c]
    BY <1>0, <2>1, <2>6 DEF Put
  <2>8. PromptTypes'
    BY <1>0, <2>1, <2>4, <2>5, <2>7 DEF PromptTypes
  <2>9. PromptFits(preq[s])'
    BY <2>1, PromptIdleFacts, PromptIdleFits
  <2>10. PromptCatsStay
    BY <2>3, <2>5, <2>7 DEF PromptCatsStay
  <2>11. PromptItemsStay
    BY <2>1, <2>7 DEF PromptItemsStay, ItemStays
  <2>12. \A t \in PromptSessions \ {s} :
           /\ SamePrompt(preq'[t], preq[t]) /\ preq[t].since \subseteq preq'[t].since
           /\ preq[t].at \in {"clear", "mark"} => Active' \subseteq Active \cup preq'[t].since
    BY <2>1, <2>5 DEF SamePrompt
  <2> QED BY <2>8, <2>9, <2>10, <2>11, <2>12, PromptStep
<1> QED BY <1>1, <1>2

(* PromptInv holds throughout.                                             *)
LEMMA PromptInvariant == PromptSpec => []PromptInv
<1>1. ASSUME PromptInit PROVE PromptInv
  <2>0. /\ plibs = <<>> /\ pcats = <<>> /\ pitems = <<>> /\ pissued = [lib |-> 0, cat |-> 0, item |-> 0]
        /\ preq = [s \in PromptSessions |-> PromptIdle]
    BY <1>1 DEF PromptInit
  <2>1. /\ DOMAIN plibs = {} /\ DOMAIN pcats = {} /\ DOMAIN pitems = {}
        /\ plibs \in [{} -> [active : BOOLEAN]] /\ pcats \in [{} -> [lib : Nat]] /\ pitems \in [{} -> PromptItemRows]
    BY <2>0
  <2>2. pissued \in [lib : Nat, cat : Nat, item : Nat] /\ preq \in [PromptSessions -> PromptRequests]
    BY <2>0, PromptIdleFacts
  <2>3. PromptTypes
    BY <2>1, <2>2 DEF PromptTypes
  <2>4. PromptLossExplained
    BY <2>1 DEF PromptLossExplained
  <2>5. ASSUME NEW s \in PromptSessions PROVE PromptFits(preq[s])
    BY <2>0, PromptIdleFacts DEF PromptFits, PromptDeletionFits
  <2> QED BY <2>1, <2>3, <2>4, <2>5 DEF PromptInv
<1>2. ASSUME PromptInv, [PromptNext]_promptVars PROVE PromptInv'
  <2>1. ASSUME NEW s \in PromptSessions,
               \/ PromptCallFails(s) \/ ReadActive(s) \/ ClearActive(s)
               \/ \E l \in PromptLibraryIds, c \in PromptCategoryIds \cup {NoPromptId} : PromptItemCreate(s, l, c)
               \/ \E c \in PromptCategoryIds, l \in PromptLibraryIds \cup {NoPromptId} : PromptCategoryDelete(s, c, l)
        PROVE  PromptInv'
    BY <1>2, <2>1, PromptReading
  <2>2. ASSUME NEW s \in PromptSessions,
               PromptLibraryCreate(s) \/ MarkActive(s) \/ DropPromptLibrary(s)
        PROVE  PromptInv'
    BY <1>2, <2>2, PromptLibraries
  <2>d. ASSUME NEW s \in PromptSessions,
               \/ TakePromptCategories(s) \/ TakePromptItems(s) \/ FindPrompts(s)
               \/ \E l \in PromptLibraryIds \cup {SystemPromptLibraryID} : PromptLibraryDelete(s, l)
        PROVE  PromptInv'
    BY <1>2, <2>d, PromptDeletionReads
  <2>3. ASSUME NEW s \in PromptSessions,
               \/ InsertItem(s) \/ ReassignCategory(s)
               \/ \E i \in PromptItemIds, c \in PromptCategoryIds \cup {NoPromptId} : PromptItemUpdate(s, i, c)
               \/ \E ids \in SUBSET PromptItemIds : PromptItemBatchDelete(s, ids)
        PROVE  PromptInv'
    BY <1>2, <2>3, PromptItemSteps
  <2>4. ASSUME NEW s \in PromptSessions,
               DeleteCategory(s) \/ \E l \in PromptLibraryIds : PromptCategoryCreate(s, l)
        PROVE  PromptInv'
    BY <1>2, <2>4, PromptCategorySteps
  <2>5. CASE UNCHANGED promptVars
    <3>0. UNCHANGED <<plibs, pcats, pitems, pissued, preq>>
      BY <2>5 DEF promptVars
    <3>1. PromptCategoryIds' = PromptCategoryIds /\ PromptLibraryIds' = PromptLibraryIds /\ Active' = Active
      BY <3>0 DEF PromptCategoryIds, PromptLibraryIds, Active
    <3>2. PromptTypes' /\ PromptLossExplained'
      BY <1>2, <3>0, <3>1 DEF PromptInv, PromptTypes, PromptLossExplained
    <3>3. ASSUME NEW i \in DOMAIN pitems' PROVE ItemKnows(pitems[i])'
      BY <1>2, <3>0, <3>1 DEF PromptInv, ItemKnows, SeenCategory
    <3>4. ASSUME NEW s \in PromptSessions PROVE PromptFits(preq[s])'
      <4>1. PromptFits(preq[s]) /\ preq'[s] = preq[s]
        BY <1>2, <3>0 DEF PromptInv
      <4>2. PromptDeletionFits(preq[s])' <=> PromptDeletionFits(preq[s])
        BY <3>0, <3>1 DEF PromptDeletionFits, PromptsFound, PromptExcused, KnownIn
      <4> QED BY <3>0, <3>1, <4>1, <4>2 DEF PromptFits, SeenCategory
    <3> QED BY <3>2, <3>3, <3>4 DEF PromptInv
  <2> QED BY <1>2, <2>1, <2>2, <2>d, <2>3, <2>4, <2>5 DEF PromptNext
<1> QED BY <1>1, <1>2, PTL DEF PromptSpec

(* An item loses its library, or its category, only for one of the reasons *)
(* that PromptLossExplained names: the deletions of the prompt library     *)
(* leave nothing else behind.                                              *)
THEOREM PromptLossesExplained == PromptSpec => []PromptLossExplained
<1>1. PromptInv => PromptLossExplained
  BY DEF PromptInv
<1> QED BY <1>1, PromptInvariant, PTL

(* When a SetActive commits, what is marked is its library and what others *)
(* marked meanwhile, however the two updates of the transactions           *)
(* interleave, and the list answers one of these.                          *)
THEOREM ActiveLibraryIsOurs == PromptSpec => ActiveIsOurs
<1> DEFINE Ours ==
      \A s \in PromptSessions :
        MarkActive(s) /\ preq[s].lib \in DOMAIN plibs
        => LET ours == {preq[s].lib} \cup preq[s].since IN
           {l \in DOMAIN plibs' : plibs'[l].active} \subseteq ours /\ ActiveLibraryID' \in ours
<1>1. ASSUME PromptInv, PromptInv', [PromptNext]_promptVars PROVE [Ours]_promptVars
  <2> SUFFICES ASSUME NEW s \in PromptSessions, MarkActive(s), preq[s].lib \in DOMAIN plibs
               PROVE  LET ours == {preq[s].lib} \cup preq[s].since IN
                      {l \in DOMAIN plibs' : plibs'[l].active} \subseteq ours /\ ActiveLibraryID' \in ours
    OBVIOUS
  <2> DEFINE ours == {preq[s].lib} \cup preq[s].since
             marked == {l \in DOMAIN plibs' : plibs'[l].active}
  <2>1. /\ preq[s].at = "mark"
        /\ plibs' = [k \in DOMAIN plibs |-> [active |-> k = preq[s].lib \/ (plibs[k].active /\ k \notin preq[s].cleared)]]
    BY DEF MarkActive
  <2>2. Active \subseteq preq[s].cleared \cup preq[s].since
    BY <1>1, <2>1 DEF PromptInv, PromptFits
  <2>3. marked \subseteq ours
    BY <2>1, <2>2 DEF Active
  <2>4. marked = Active' /\ preq[s].lib \in marked
    BY <2>1 DEF Active
  <2>5. pissued'.lib \in Nat /\ Active' \subseteq 1..pissued'.lib
    BY <1>1 DEF PromptInv, PromptTypes, PromptLibraryIds, Active
  <2>6. ActiveLibraryID' = Max(Active')
    BY <2>4 DEF ActiveLibraryID
  <2>7. Max(Active') \in Active'
    BY <2>4, <2>5, MaxFound
  <2> QED BY <2>3, <2>4, <2>6, <2>7
<1> QED BY <1>1, PromptInvariant, PTL DEF PromptSpec, ActiveIsOurs
=============================================================================
