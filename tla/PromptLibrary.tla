---------------------------- MODULE PromptLibrary ----------------------------
(***************************************************************************)
(* The prompt library: tables prompt_libraries, prompt_categories and      *)
(* prompt_items, and the requests of promptService.  Every statement is a  *)
(* step of its own.  SetActive is a READ COMMITTED transaction of two      *)
(* updates, the deletion of a library one of three DELETEs.  Where such a  *)
(* statement picks rows by a field it takes two steps: it sees the rows    *)
(* committed when it starts, waits for those that another transaction has  *)
(* changed, and looks at them again.  What a transaction has changed is    *)
(* seen by others when it commits, together with its last statement.       *)
(*                                                                         *)
(* Ids are numbers in the order of creation, which is the order of the     *)
(* lists.  Names and texts decide nothing and are left out.                *)
(***************************************************************************)
EXTENDS Naturals, FiniteSets, FiniteSetsExt, Tables

CONSTANTS
  PromptSessions,   \* clients, each with one request at a time
  NoPromptId,       \* the empty id
  MaxPromptLibraries, MaxPromptCategories, MaxPromptItems   \* bounds on the ids handed out

ASSUME PromptLibraryAssumption ==
  /\ NoPromptId \notin Nat
  /\ {MaxPromptLibraries, MaxPromptCategories, MaxPromptItems} \subseteq Nat

VARIABLES
  plibs, pcats, pitems,   \* the tables
  pissued,                \* how many ids of each table were handed out
  preq                    \* the request each session is in

promptVars == <<plibs, pcats, pitems, pissued, preq>>
-----------------------------------------------------------------------------
SystemPromptLibraryID == 0   \* no library ever gets it
PromptLibraryIds == 1..pissued.lib
PromptCategoryIds == 1..pissued.cat
PromptItemIds == 1..pissued.item

(* A request: its next call, its library and category, the category its    *)
(* items fall back to, and the rows its statement has read; for SetActive  *)
(* the libraries it has cleared (their rows are locked) and those that     *)
(* others have marked since it began; for the deletion of a library the    *)
(* categories and items it has taken (locked as well).                     *)
PromptRequest(at, lib, cat, fallback) ==
  [at |-> at, lib |-> lib, cat |-> cat, fallback |-> fallback,
   read |-> {}, cleared |-> {}, since |-> {}, takenCats |-> {}, takenItems |-> {}]
PromptIdle == PromptRequest("idle", NoPromptId, NoPromptId, NoPromptId)
SetActive(lib) == PromptRequest("begin", lib, NoPromptId, NoPromptId)
PromptGoes(s, r) == preq' = [preq EXCEPT ![s] = r]

Active == {l \in DOMAIN plibs : plibs[l].active}
LockedFor(s) == UNION {preq[t].cleared : t \in PromptSessions \ {s}}

HeldPromptCats(s) == UNION {preq[t].takenCats : t \in PromptSessions \ {s}}
HeldPromptItems(s) == UNION {preq[t].takenItems : t \in PromptSessions \ {s}}
PromptsOf(l) == {i \in DOMAIN pitems : pitems[i].lib = l}
PromptsIn(c) == {i \in DOMAIN pitems : pitems[i].cat = c}

(* A deletion of the library has looked for its items, one of the category *)
(* for the items to be moved or deleted.                                   *)
PromptsCleared(l) ==
  \E t \in PromptSessions : preq[t].at \in {"take items", "drop library"} /\ preq[t].lib = l
PromptsMoved(c) ==
  \E t \in PromptSessions :
    \/ preq[t].at \in {"reassign", "delete category"} /\ preq[t].cat = c
    \/ c \in preq[t].takenCats

(* How an item came by its category: it was not there when the item was    *)
(* written (blind), it was of another library (home), or it was being      *)
(* deleted and its items had been looked for (late).  unowned: the item's  *)
(* library was not there, or was being deleted and its items had been      *)
(* looked for.                                                             *)
PromptItemRow(lib, cat) ==
  [lib |-> lib, cat |-> cat,
   blind |-> cat \notin DOMAIN pcats,
   home |-> IF cat \in DOMAIN pcats THEN pcats[cat].lib ELSE NoPromptId,
   late |-> PromptsMoved(cat),
   unowned |-> lib \notin DOMAIN plibs \/ PromptsCleared(lib)]
-----------------------------------------------------------------------------
PromptInit ==
  /\ plibs = <<>> /\ pcats = <<>> /\ pitems = <<>>
  /\ pissued = [lib |-> 0, cat |-> 0, item |-> 0]
  /\ preq = [s \in PromptSessions |-> PromptIdle]

(* A call fails and the request returns the error; an open transaction is  *)
(* rolled back, what was committed before it stays.                        *)
PromptCallFails(s) ==
  /\ preq[s] # PromptIdle
  /\ PromptGoes(s, PromptIdle)
  /\ UNCHANGED <<plibs, pcats, pitems, pissued>>

(* The library is added, and then made the active one. *)
PromptLibraryCreate(s) ==
  /\ preq[s] = PromptIdle
  /\ pissued.lib < MaxPromptLibraries
  /\ LET id == pissued.lib + 1 IN
     /\ plibs' = Put(plibs, id, [active |-> FALSE])
     /\ pissued' = [pissued EXCEPT !.lib = id]
     /\ PromptGoes(s, SetActive(id))
  /\ UNCHANGED <<pcats, pitems>>

(* SetActive, first update: what it sees as active ... *)
ReadActive(s) ==
  /\ preq[s].at = "begin"
  /\ PromptGoes(s, [preq[s] EXCEPT !.at = "clear", !.read = Active])
  /\ UNCHANGED <<plibs, pcats, pitems, pissued>>

(* Fault seeded for the checks: only one mark is cleared. *)
ClearFirstActive(s) ==
  /\ preq[s].at = "clear"
  /\ preq[s].read \cap LockedFor(s) = {}
  /\ PromptGoes(s, [preq[s] EXCEPT !.at = "mark",
       !.cleared = {l \in preq[s].read \cap Active : l = Min(Active)}])
  /\ UNCHANGED <<plibs, pcats, pitems, pissued>>

(* ... is cleared where it still is, once no other transaction holds it. *)
ClearActive(s) ==
  /\ preq[s].at = "clear"
  /\ preq[s].read \cap LockedFor(s) = {}
  /\ PromptGoes(s, [preq[s] EXCEPT !.at = "mark", !.cleared = @ \cup (preq[s].read \cap Active)])
  /\ UNCHANGED <<plibs, pcats, pitems, pissued>>

(* Second update and commit; RowsAffected = 0 rolls everything back. *)
MarkActive(s) ==
  LET l == preq[s].lib IN
  /\ preq[s].at = "mark"
  /\ l \notin LockedFor(s)
  /\ plibs' = IF l \notin DOMAIN plibs THEN plibs
              ELSE [k \in DOMAIN plibs |->
                      [active |-> k = l \/ (plibs[k].active /\ k \notin preq[s].cleared)]]
  /\ preq' = [t \in PromptSessions |->
                IF t = s THEN PromptIdle
                ELSE IF preq[t].at \in {"clear", "mark"} /\ l \in DOMAIN plibs
                       THEN [preq[t] EXCEPT !.since = @ \cup {l}] ELSE preq[t]]
  /\ UNCHANGED <<pcats, pitems, pissued>>

(* The system library stays; any other goes with its categories and items, *)
(* be it the active one.  The transaction begins, and finds the categories *)
(* of the library ...                                                      *)
SystemStays(l) == l # SystemPromptLibraryID
PromptLibraryDelete(s, l) ==
  /\ preq[s] = PromptIdle
  /\ SystemStays(l)
  /\ PromptGoes(s, [PromptRequest("take categories", l, NoPromptId, NoPromptId)
                  EXCEPT !.read = {c \in DOMAIN pcats : pcats[c].lib = l}])
  /\ UNCHANGED <<plibs, pcats, pitems, pissued>>

(* ... takes them and finds its items ...                                  *)
TakePromptCategories(s) ==
  /\ preq[s].at = "take categories"
  /\ preq[s].read \cap HeldPromptCats(s) = {}
  /\ PromptGoes(s, [preq[s] EXCEPT !.at = "take items", !.read = PromptsOf(preq[s].lib),
                                  !.takenCats = preq[s].read \cap DOMAIN pcats])
  /\ UNCHANGED <<plibs, pcats, pitems, pissued>>

(* ... takes those that are still there (an item stays in its library) ... *)
TakePromptItems(s) ==
  /\ preq[s].at = "take items"
  /\ preq[s].read \cap HeldPromptItems(s) = {}
  /\ PromptGoes(s, [preq[s] EXCEPT !.at = "drop library", !.takenItems = preq[s].read \cap DOMAIN pitems])
  /\ UNCHANGED <<plibs, pcats, pitems, pissued>>

(* ... and commits with the library, once no other transaction holds it;   *)
(* RowsAffected = 0 rolls everything back.                                 *)
DropPromptLibrary(s) ==
  LET l == preq[s].lib IN
  /\ preq[s].at = "drop library"
  /\ l \notin LockedFor(s)
  /\ IF l \in DOMAIN plibs
       THEN /\ plibs' = Without(plibs, {l})
            /\ pcats' = Without(pcats, preq[s].takenCats)
            /\ pitems' = Without(pitems, preq[s].takenItems)
       ELSE UNCHANGED <<plibs, pcats, pitems>>
  /\ PromptGoes(s, PromptIdle)
  /\ UNCHANGED pissued
-----------------------------------------------------------------------------
(* The library must exist; the category may be any. *)
PromptItemCreate(s, lib, cat) ==
  /\ preq[s] = PromptIdle
  /\ lib \in DOMAIN plibs
  /\ PromptGoes(s, PromptRequest("insert item", lib, cat, NoPromptId))
  /\ UNCHANGED <<plibs, pcats, pitems, pissued>>

InsertItem(s) ==
  /\ preq[s].at = "insert item"
  /\ pissued.item < MaxPromptItems
  /\ pitems' = Put(pitems, pissued.item + 1, PromptItemRow(preq[s].lib, preq[s].cat))
  /\ pissued' = [pissued EXCEPT !.item = @ + 1]
  /\ PromptGoes(s, SetActive(preq[s].lib))
  /\ UNCHANGED <<plibs, pcats>>

PromptItemUpdate(s, i, cat) ==
  /\ preq[s] = PromptIdle
  /\ i \in DOMAIN pitems \ HeldPromptItems(s)
  /\ pitems' = [pitems EXCEPT ![i] = [PromptItemRow(@.lib, cat) EXCEPT !.unowned = pitems[i].unowned]]
  /\ UNCHANGED <<plibs, pcats, pissued, preq>>

(* One item or several. *)
PromptItemBatchDelete(s, ids) ==
  /\ preq[s] = PromptIdle
  /\ ids \cap HeldPromptItems(s) = {}
  /\ pitems' = Without(pitems, ids)
  /\ UNCHANGED <<plibs, pcats, pissued, preq>>

PromptCategoryCreate(s, lib) ==
  /\ preq[s] = PromptIdle
  /\ pissued.cat < MaxPromptCategories
  /\ pcats' = Put(pcats, pissued.cat + 1, [lib |-> lib])
  /\ pissued' = [pissued EXCEPT !.cat = @ + 1]
  /\ UNCHANGED <<plibs, pitems, preq>>

(* The oldest other category of the library that the request names, or     *)
(* none, takes the items of the one to be deleted.                         *)
Fallback(cat, lib) ==
  LET others == {c \in DOMAIN pcats \ {cat} : pcats[c].lib = lib} IN
  IF others = {} THEN NoPromptId ELSE Min(others)
PromptCategoryDelete(s, cat, lib) ==
  /\ preq[s] = PromptIdle
  /\ PromptGoes(s, PromptRequest("find items", lib, cat, Fallback(cat, lib)))
  /\ UNCHANGED <<plibs, pcats, pitems, pissued>>

(* The update finds the items of the category ... *)
FindPrompts(s) ==
  /\ preq[s].at = "find items"
  /\ PromptGoes(s, [preq[s] EXCEPT !.at = "reassign", !.read = PromptsIn(preq[s].cat)])
  /\ UNCHANGED <<plibs, pcats, pitems, pissued>>

(* Fault seeded for the checks: without a fallback the items stay. *)
ReassignNothing(s) ==
  /\ preq[s].at = "reassign"
  /\ preq[s].read \cap HeldPromptItems(s) = {}
  /\ pitems' = IF preq[s].fallback = NoPromptId THEN pitems
               ELSE [i \in DOMAIN pitems |->
                  IF i \notin preq[s].read \cap PromptsIn(preq[s].cat) THEN pitems[i]
                  ELSE [PromptItemRow(pitems[i].lib, preq[s].fallback)
                          EXCEPT !.unowned = pitems[i].unowned]]
  /\ PromptGoes(s, [preq[s] EXCEPT !.at = "delete category"])
  /\ UNCHANGED <<plibs, pcats, pissued>>

(* ... and moves those that are still in it. *)
ReassignCategory(s) ==
  /\ preq[s].at = "reassign"
  /\ preq[s].read \cap HeldPromptItems(s) = {}
  /\ pitems' = [i \in DOMAIN pitems |->
                  IF i \notin preq[s].read \cap PromptsIn(preq[s].cat) THEN pitems[i]
                  ELSE [PromptItemRow(pitems[i].lib, preq[s].fallback)
                          EXCEPT !.unowned = pitems[i].unowned]]
  /\ PromptGoes(s, [preq[s] EXCEPT !.at = "delete category"])
  /\ UNCHANGED <<plibs, pcats, pissued>>

(* Deleted only if it is in that library. *)
DeleteCategory(s) ==
  LET own == {c \in DOMAIN pcats : c = preq[s].cat /\ pcats[c].lib = preq[s].lib} IN
  /\ preq[s].at = "delete category"
  /\ own \cap HeldPromptCats(s) = {}
  /\ pcats' = Without(pcats, own)
  /\ PromptGoes(s, PromptIdle)
  /\ UNCHANGED <<plibs, pitems, pissued>>

(* The active library that PromptLibraryList answers: the youngest that is *)
(* marked, else the oldest there is.                                       *)
ActiveLibraryID ==
  IF Active # {} THEN Max(Active)
  ELSE IF DOMAIN plibs # {} THEN Min(DOMAIN plibs) ELSE NoPromptId
-----------------------------------------------------------------------------
PromptNext ==
  \E s \in PromptSessions :
    \/ PromptCallFails(s)
    \/ PromptLibraryCreate(s)
    \/ ReadActive(s)
    \/ ClearActive(s)
    \/ MarkActive(s)
    \/ \E l \in PromptLibraryIds \cup {SystemPromptLibraryID} : PromptLibraryDelete(s, l)
    \/ TakePromptCategories(s)
    \/ TakePromptItems(s)
    \/ DropPromptLibrary(s)
    \/ \E l \in PromptLibraryIds, c \in PromptCategoryIds \cup {NoPromptId} : PromptItemCreate(s, l, c)
    \/ InsertItem(s)
    \/ \E i \in PromptItemIds, c \in PromptCategoryIds \cup {NoPromptId} : PromptItemUpdate(s, i, c)
    \/ \E ids \in SUBSET PromptItemIds : PromptItemBatchDelete(s, ids)
    \/ \E l \in PromptLibraryIds : PromptCategoryCreate(s, l)
    \/ \E c \in PromptCategoryIds, l \in PromptLibraryIds \cup {NoPromptId} :
         PromptCategoryDelete(s, c, l)
    \/ FindPrompts(s)
    \/ ReassignCategory(s)
    \/ DeleteCategory(s)

PromptSpec == PromptInit /\ [][PromptNext]_promptVars
-----------------------------------------------------------------------------
(* An item is without its library only if, when it was inserted, the       *)
(* library had gone since the request looked for it, or was being deleted  *)
(* and its items had been looked for.  It is without its category only if  *)
(* the category was not there when the item was written, was of another    *)
(* library, or was being deleted, alone or with its library, and its items *)
(* had been looked for.                                                    *)
PromptLossExplained ==
  \A i \in DOMAIN pitems :
    LET it == pitems[i] IN
    /\ it.lib \notin DOMAIN plibs => it.unowned
    /\ it.cat \notin DOMAIN pcats \cup {NoPromptId} => it.blind \/ it.late \/ it.home # it.lib

(* A SetActive that commits leaves marked its own library and, besides it, *)
(* only libraries that others marked after it had begun; the list answers  *)
(* one of these.                                                           *)
ActiveIsOurs ==
  [][\A s \in PromptSessions :
       MarkActive(s) /\ preq[s].lib \in DOMAIN plibs
       => LET ours == {preq[s].lib} \cup preq[s].since IN
          {l \in DOMAIN plibs' : plibs'[l].active} \subseteq ours /\ ActiveLibraryID' \in ours]_promptVars

=============================================================================
