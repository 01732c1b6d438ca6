----------------------------- MODULE AssetLibrary -----------------------------
(***************************************************************************)
(* The asset library: tables asset_libraries, asset_categories and         *)
(* asset_items, and the requests of assetService.  Every statement of a    *)
(* request is a step of its own, also within a transaction, for the        *)
(* transactions are READ COMMITTED: a statement sees what is committed     *)
(* when it starts.  A DELETE inside a transaction takes two steps: it      *)
(* finds its rows, and takes those that are still there once no other      *)
(* transaction holds them.  They go when the transaction commits, together *)
(* with its last statement; until then others see them, and wait to write  *)
(* them.  When two transactions wait for each other the database fails one *)
(* of the calls.                                                           *)
(*                                                                         *)
(* Ids are numbers in the order of creation; none is used twice.  Fields   *)
(* that decide nothing (URL, size, sort order, the names of items) are     *)
(* left out.                                                               *)
(***************************************************************************)
EXTENDS Naturals, Sequences, FiniteSets, Tables

CONSTANTS
  LibrarySessions,     \* clients, each with one request at a time
  Names,        \* names of libraries and categories
  DefaultName, WorkflowName,  \* names of the two categories a library starts with
  NoId,         \* the empty id
  BatchSizes,   \* numbers of items one request creates
  MaxLibraries, MaxCategories, MaxItems   \* bounds on the ids handed out

ASSUME AssetLibraryAssumption ==
  /\ DefaultName \in Names /\ WorkflowName \in Names /\ DefaultName # WorkflowName
  /\ NoId \notin Nat
  /\ BatchSizes \subseteq Nat
  /\ {MaxLibraries, MaxCategories, MaxItems} \subseteq Nat

VARIABLES
  libs, cats, items,   \* the tables: functions from the ids of the rows
  issued,              \* how many ids of each table were handed out
  areq                  \* the request each session is in

assetVars == <<libs, cats, items, issued, areq>>
-----------------------------------------------------------------------------
CategoryTypes == {"image", "workflow"}
LibraryIds == 1..issued.lib
CategoryIds == 1..issued.cat
ItemIds == 1..issued.item

(* A request: its next call, the library, category and name it is for, the *)
(* items it is for or the rows its statement has found, the categories     *)
(* still to be added, whether another request has written what it read,    *)
(* the library of its category, and the rows its transaction has taken.    *)
AssetRequest(at, lib, cat, name, ids, todo) ==
  [at |-> at, lib |-> lib, cat |-> cat, name |-> name, ids |-> ids, todo |-> todo,
   overtaken |-> FALSE, home |-> NoId, takenCats |-> {}, takenItems |-> {}]
AssetIdle == AssetRequest("idle", NoId, NoId, DefaultName, {}, <<>>)

(* The rows that other transactions than that of s have taken.             *)
HeldCats(s) == UNION {areq[t].takenCats : t \in LibrarySessions \ {s}}
HeldItems(s) == UNION {areq[t].takenItems : t \in LibrarySessions \ {s}}

OfLibrary(l) == {i \in DOMAIN items : items[i].lib = l}
OfCategory(c) == {i \in DOMAIN items : items[i].cat = c}

(* The deletion of the library has looked for its categories, that of the  *)
(* category for its items.                                                 *)
LibraryCleared(l) ==
  \E t \in LibrarySessions :
    areq[t].at \in {"take categories", "take library items", "drop library"} /\ areq[t].lib = l
CategoryCleared(c) ==
  \E t \in LibrarySessions :
    \/ c \in areq[t].takenCats
    \/ areq[t].at \in {"take category items", "drop category"} /\ areq[t].cat = c

(* raced: another request wrote to the table after the row's name was      *)
(* found free.  renamed: the name was given by an update, which looks for  *)
(* none.  stray: the library was gone, or was being deleted and had been   *)
(* cleared of its categories, when the category was written.               *)
LibraryRow(name, raced) == [name |-> name, raced |-> raced]
CategoryRow(lib, name, type, raced) ==
  [lib |-> lib, name |-> name, type |-> type, raced |-> raced, renamed |-> FALSE,
   stray |-> lib \notin DOMAIN libs \/ LibraryCleared(lib)]

(* home: the library of the item's category.  late: the category was gone, *)
(* or was being deleted and had been cleared of its items, when the item   *)
(* was written.                                                            *)
ItemRow(lib, cat, home) ==
  [lib |-> lib, cat |-> cat, home |-> home, late |-> cat \notin DOMAIN cats \/ CategoryCleared(cat)]

(* Session s goes on with r; the requests that are about to act on what    *)
(* they read of the same table have been overtaken.                        *)
AssetGoes(s, r) == areq' = [areq EXCEPT ![s] = r]
AssetGoesPast(s, r, ats) ==
  areq' = [t \in LibrarySessions |->
            IF t = s THEN r
            ELSE [areq[t] EXCEPT !.overtaken = @ \/ areq[t].at \in ats]]
Naming == {"insert library", "rename library"}
DeletingLibrary == {"delete library", "take categories", "take library items", "drop library"}

(* CheckExists on the name of a library, on a name within a library. *)
LibraryNamed(name) == \E l \in DOMAIN libs : libs[l].name = name
CategoryNamed(name, lib) == \E c \in DOMAIN cats : cats[c].name = name /\ cats[c].lib = lib
-----------------------------------------------------------------------------
AssetInit ==
  /\ libs = <<>> /\ cats = <<>> /\ items = <<>>
  /\ issued = [lib |-> 0, cat |-> 0, item |-> 0]
  /\ areq = [s \in LibrarySessions |-> AssetIdle]

(* A call to the database fails and the request returns the error; an open *)
(* transaction is rolled back, what earlier ones wrote stays.              *)
AssetCallFails(s) ==
  /\ areq[s] # AssetIdle
  /\ AssetGoes(s, AssetIdle)
  /\ UNCHANGED <<libs, cats, items, issued>>

(* The name is free and the row is about to be inserted. *)
AssetLibraryCreate(s, name) ==
  /\ areq[s] = AssetIdle
  /\ ~LibraryNamed(name)
  /\ AssetGoes(s, AssetRequest("insert library", NoId, NoId, name, {}, <<>>))
  /\ UNCHANGED <<libs, cats, items, issued>>

(* The new library is committed; its two categories follow. *)
InsertLibrary(s) ==
  /\ areq[s].at = "insert library"
  /\ issued.lib < MaxLibraries
  /\ LET id == issued.lib + 1 IN
     /\ libs' = Put(libs, id, LibraryRow(areq[s].name, areq[s].overtaken))
     /\ issued' = [issued EXCEPT !.lib = id]
     /\ AssetGoesPast(s, AssetRequest("check category", id, NoId, DefaultName, {},
                            <<[name |-> DefaultName, type |-> "image"],
                              [name |-> WorkflowName, type |-> "workflow"]>>), Naming)
  /\ UNCHANGED <<cats, items>>

(* No other library has the name; RowsAffected = 0 is an error. *)
AssetLibraryUpdate(s, id, name) ==
  /\ areq[s] = AssetIdle
  /\ \A l \in DOMAIN libs \ {id} : libs[l].name # name
  /\ AssetGoes(s, AssetRequest("rename library", id, NoId, name, {}, <<>>))
  /\ UNCHANGED <<libs, cats, items, issued>>

RenameLibrary(s) ==
  /\ areq[s].at = "rename library"
  /\ libs' = IF areq[s].lib \in DOMAIN libs
               THEN [libs EXCEPT ![areq[s].lib] = LibraryRow(areq[s].name, areq[s].overtaken)]
               ELSE libs
  /\ AssetGoesPast(s, AssetIdle, IF areq[s].lib \in DOMAIN libs THEN Naming ELSE {})
  /\ UNCHANGED <<cats, items, issued>>

(* Fault seeded for the checks: one library counts as enough. *)
AssetLibraryDeleteOffByOne(s, id) ==
  /\ areq[s] = AssetIdle
  /\ Cardinality(DOMAIN libs) >= 1
  /\ AssetGoes(s, AssetRequest("delete library", id, NoId, DefaultName, {}, <<>>))
  /\ UNCHANGED <<libs, cats, items, issued>>

(* "at least one asset library must be kept" *)
AssetLibraryDelete(s, id) ==
  /\ areq[s] = AssetIdle
  /\ Cardinality(DOMAIN libs) > 1
  /\ AssetGoes(s, AssetRequest("delete library", id, NoId, DefaultName, {}, <<>>))
  /\ UNCHANGED <<libs, cats, items, issued>>

(* The transaction begins, and its first statement finds the categories    *)
(* of the library ...                                                      *)
FindCategories(s) ==
  /\ areq[s].at = "delete library"
  /\ AssetGoes(s, [areq[s] EXCEPT !.at = "take categories",
                                !.ids = {c \in DOMAIN cats : cats[c].lib = areq[s].lib}])
  /\ UNCHANGED <<libs, cats, items, issued>>

(* ... and takes them; the second finds its items ...                      *)
TakeCategories(s) ==
  /\ areq[s].at = "take categories"
  /\ areq[s].ids \cap HeldCats(s) = {}
  /\ AssetGoes(s, [areq[s] EXCEPT !.at = "take library items", !.ids = OfLibrary(areq[s].lib),
                                !.takenCats = areq[s].ids \cap DOMAIN cats])
  /\ UNCHANGED <<libs, cats, items, issued>>

(* Fault seeded for the checks: the items of a deleted library stay. *)
TakeNoItems(s) ==
  /\ areq[s].at = "take library items"
  /\ areq[s].ids \cap HeldItems(s) = {}
  /\ AssetGoes(s, [areq[s] EXCEPT !.at = "drop library"])
  /\ UNCHANGED <<libs, cats, items, issued>>

(* ... and takes those that are still in the library.                      *)
TakeLibraryItems(s) ==
  /\ areq[s].at = "take library items"
  /\ areq[s].ids \cap HeldItems(s) = {}
  /\ AssetGoes(s, [areq[s] EXCEPT !.at = "drop library",
                                !.takenItems = areq[s].ids \cap OfLibrary(areq[s].lib)])
  /\ UNCHANGED <<libs, cats, items, issued>>

(* The library goes and the transaction commits, or it is rolled back when *)
(* there is no such library.                                               *)
DropLibrary(s) ==
  LET l == areq[s].lib IN
  /\ areq[s].at = "drop library"
  /\ IF l \in DOMAIN libs
       THEN /\ libs' = Without(libs, {l})
            /\ cats' = Without(cats, areq[s].takenCats)
            /\ items' = Without(items, areq[s].takenItems)
            /\ AssetGoesPast(s, AssetIdle, DeletingLibrary)
       ELSE UNCHANGED <<libs, cats, items>> /\ AssetGoes(s, AssetIdle)
  /\ UNCHANGED issued
-----------------------------------------------------------------------------
(* The library is not looked up: any id that a client has seen will do. *)
AssetCategoryCreate(s, lib, name, type) ==
  /\ areq[s] = AssetIdle
  /\ AssetGoes(s, AssetRequest("check category", lib, NoId, name, {}, <<[name |-> name, type |-> type]>>))
  /\ UNCHANGED <<libs, cats, items, issued>>

CheckCategory(s) ==
  /\ areq[s].at = "check category"
  /\ AssetGoes(s, IF CategoryNamed(Head(areq[s].todo).name, areq[s].lib) THEN AssetIdle
             ELSE [areq[s] EXCEPT !.at = "insert category", !.overtaken = FALSE])
  /\ UNCHANGED <<libs, cats, items, issued>>

InsertCategory(s) ==
  /\ areq[s].at = "insert category"
  /\ issued.cat < MaxCategories
  /\ LET id == issued.cat + 1
         new == Head(areq[s].todo)
         rest == Tail(areq[s].todo) IN
     /\ cats' = Put(cats, id, CategoryRow(areq[s].lib, new.name, new.type, areq[s].overtaken))
     /\ issued' = [issued EXCEPT !.cat = id]
     /\ AssetGoesPast(s, IF rest = <<>> THEN AssetIdle
                    ELSE [areq[s] EXCEPT !.at = "check category", !.todo = rest],
                 {"insert category"})
  /\ UNCHANGED <<libs, items>>

(* A category takes any name: nothing is compared. *)
AssetCategoryUpdate(s, id, name) ==
  /\ areq[s] = AssetIdle
  /\ id \in DOMAIN cats \ HeldCats(s)
  /\ cats' = [cats EXCEPT ![id].name = name, ![id].renamed = TRUE]
  /\ AssetGoesPast(s, AssetIdle, {"insert category"})
  /\ UNCHANGED <<libs, items, issued>>

(* The first statement of the transaction finds the items of the category, *)
(* of whatever library ...                                                 *)
AssetCategoryDelete(s, id, lib) ==
  /\ areq[s] = AssetIdle
  /\ AssetGoes(s, AssetRequest("take category items", lib, id, DefaultName, OfCategory(id), <<>>))
  /\ UNCHANGED <<libs, cats, items, issued>>

(* ... and takes those that are still in it.                               *)
TakeCategoryItems(s) ==
  /\ areq[s].at = "take category items"
  /\ areq[s].ids \cap HeldItems(s) = {}
  /\ AssetGoes(s, [areq[s] EXCEPT !.at = "drop category",
                                !.takenItems = areq[s].ids \cap OfCategory(areq[s].cat)])
  /\ UNCHANGED <<libs, cats, items, issued>>

(* The category goes if it is in that library and the transaction commits; *)
(* if it is not, the transaction is rolled back.                           *)
DropCategory(s) ==
  LET own == {c \in DOMAIN cats : c = areq[s].cat /\ cats[c].lib = areq[s].lib} IN
  /\ areq[s].at = "drop category"
  /\ own \cap HeldCats(s) = {}
  /\ cats' = Without(cats, own)
  /\ items' = IF own = {} THEN items ELSE Without(items, areq[s].takenItems)
  /\ AssetGoes(s, AssetIdle)
  /\ UNCHANGED <<libs, issued>>
-----------------------------------------------------------------------------
(* The category must exist and be for images; the request's library is     *)
(* stored and compared with nothing.  One item or a batch.                 *)
AssetItemCreate(s, lib, cat, count) ==
  /\ areq[s] = AssetIdle
  /\ cat \in DOMAIN cats /\ cats[cat].type = "image"
  /\ AssetGoes(s, [AssetRequest("insert items", lib, cat, DefaultName, 1..count, <<>>)
                EXCEPT !.home = cats[cat].lib])
  /\ UNCHANGED <<libs, cats, items, issued>>

InsertItems(s) ==
  LET new == {issued.item + k : k \in areq[s].ids}
      row == ItemRow(areq[s].lib, areq[s].cat, areq[s].home) IN
  /\ areq[s].at = "insert items"
  /\ issued.item + Cardinality(areq[s].ids) <= MaxItems
  /\ items' = [i \in DOMAIN items \cup new |-> IF i \in new THEN row ELSE items[i]]
  /\ issued' = [issued EXCEPT !.item = @ + Cardinality(areq[s].ids)]
  /\ AssetGoes(s, AssetIdle)
  /\ UNCHANGED <<libs, cats>>

(* The target category must exist, of whatever type; the target library    *)
(* may be absent, and is written all the same.                             *)
AssetItemBatchMove(s, ids, lib, cat) ==
  /\ areq[s] = AssetIdle
  /\ cat \in DOMAIN cats
  /\ AssetGoes(s, [AssetRequest("move items", lib, cat, DefaultName, ids, <<>>)
                EXCEPT !.home = cats[cat].lib])
  /\ UNCHANGED <<libs, cats, items, issued>>

MoveItems(s) ==
  LET row == ItemRow(areq[s].lib, areq[s].cat, areq[s].home) IN
  /\ areq[s].at = "move items"
  /\ areq[s].ids \cap HeldItems(s) = {}
  /\ items' = [i \in DOMAIN items |-> IF i \in areq[s].ids THEN row ELSE items[i]]
  /\ AssetGoes(s, AssetIdle)
  /\ UNCHANGED <<libs, cats, issued>>

FindByIDs(ids, lib) == {i \in ids \cap DOMAIN items : lib = NoId \/ items[i].lib = lib}

(* One item or several, restricted to a library if one is given. *)
AssetItemBatchDelete(s, ids, lib) ==
  /\ areq[s] = AssetIdle
  /\ FindByIDs(ids, lib) \cap HeldItems(s) = {}
  /\ items' = Without(items, FindByIDs(ids, lib))
  /\ UNCHANGED <<libs, cats, issued, areq>>

(* AssetItemClassify reads: each id that is found (in the library, if one  *)
(* is given) is answered with OK, since every item is an image.            *)
AssetItemClassify(ids, lib) == [i \in ids |-> [ok |-> i \in FindByIDs(ids, lib)]]
-----------------------------------------------------------------------------
AssetNext ==
  \E s \in LibrarySessions :
    \/ AssetCallFails(s)
    \/ \E name \in Names : AssetLibraryCreate(s, name)
    \/ InsertLibrary(s)
    \/ \E l \in LibraryIds, name \in Names : AssetLibraryUpdate(s, l, name)
    \/ RenameLibrary(s)
    \/ \E l \in LibraryIds : AssetLibraryDelete(s, l)
    \/ FindCategories(s)
    \/ TakeCategories(s)
    \/ TakeLibraryItems(s)
    \/ DropLibrary(s)
    \/ \E l \in LibraryIds, name \in Names, t \in CategoryTypes : AssetCategoryCreate(s, l, name, t)
    \/ CheckCategory(s)
    \/ InsertCategory(s)
    \/ \E c \in CategoryIds, name \in Names : AssetCategoryUpdate(s, c, name)
    \/ \E c \in CategoryIds, l \in LibraryIds \cup {NoId} : AssetCategoryDelete(s, c, l)
    \/ TakeCategoryItems(s)
    \/ DropCategory(s)
    \/ \E l \in LibraryIds, c \in CategoryIds, n \in BatchSizes : AssetItemCreate(s, l, c, n)
    \/ InsertItems(s)
    \/ \E ids \in SUBSET ItemIds \ {{}}, l \in LibraryIds \cup {NoId}, c \in CategoryIds :
         AssetItemBatchMove(s, ids, l, c)
    \/ MoveItems(s)
    \/ \E ids \in SUBSET ItemIds, l \in LibraryIds \cup {NoId} : AssetItemBatchDelete(s, ids, l)

AssetSpec == AssetInit /\ [][AssetNext]_assetVars
-----------------------------------------------------------------------------

(* Two libraries have one name only if the one that took it last was       *)
(* overtaken between its check and its write.                              *)
LibraryNamesUnique ==
  \A k, l \in DOMAIN libs :
    k # l /\ libs[k].name = libs[l].name => libs[k].raced \/ libs[l].raced

(* Two categories of a library have one name only if one of them was       *)
(* renamed, whatever else went on, or was overtaken between its check and  *)
(* its insert.                                                             *)
CategoryNamesUnique ==
  \A c, d \in DOMAIN cats :
    c # d /\ cats[c].name = cats[d].name /\ cats[c].lib = cats[d].lib
      => \E e \in {c, d} : cats[e].renamed \/ cats[e].raced

(* A category is left without its library only if it was written when the  *)
(* library was gone, or when the deletion of the library had looked for    *)
(* its categories.                                                         *)
LostCategoriesExplained ==
  \A c \in DOMAIN cats : cats[c].lib \notin DOMAIN libs => cats[c].stray

(* An item is left without its category only if it was written when the    *)
(* category was gone or when the deletion of the category, or of its       *)
(* library, had looked for the items, or if it was filed under a library   *)
(* that is not the category's.                                             *)
LostItemsExplained ==
  \A i \in DOMAIN items :
    items[i].cat \notin DOMAIN cats => items[i].late \/ items[i].lib # items[i].home

(* What a user would not expect of the library, a name that is there twice *)
(* or a row that is left behind.  It comes of requests that overlap, and   *)
(* of three things a lone request may do: rename a category to a name that *)
(* is taken, add one to a library that is gone, and file an item under a   *)
(* library that is not its category's.                                     *)
LibraryExplained ==
  LibraryNamesUnique /\ CategoryNamesUnique /\ LostCategoriesExplained /\ LostItemsExplained

(* The last library goes only through a deletion during which, since it    *)
(* counted, another request has deleted a library.                         *)
LastLibraryStays ==
  [][DOMAIN libs # {} /\ DOMAIN libs' = {}
       => \E s \in LibrarySessions : areq[s].at = "drop library" /\ areq[s].overtaken]_assetVars

=============================================================================
