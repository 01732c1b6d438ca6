----------------------------- MODULE AssetSearch -----------------------------
(***************************************************************************)
(* Searching assets: what a sentence is taken to ask for, which rows match *)
(* it, and how a client that fetches page after page walks through them    *)
(* while assets are uploaded and deleted.  Every page is a query of its    *)
(* own, ordered by the time of creation, newest first; rows of one time    *)
(* come in any order, and in another one for the next page.                *)
(*                                                                         *)
(* Names and sentences are sequences of words; LIKE looks for the whole    *)
(* sentence in the name, which stands for name and description.            *)
(***************************************************************************)
EXTENDS Integers, Sequences, FiniteSets

CONSTANTS
  MaxListed,     \* bound on the number of assets
  MaxPageSize,   \* pages are cut down to this size, 1000 in the code
  PageSizes,     \* sizes a client asks for
  Files,         \* what is uploaded: name, mime, ext, width and height
  Sentences      \* what is searched for

ASSUME SearchAssumption ==
  /\ MaxListed \in Nat /\ MaxPageSize \in Nat \ {0} /\ PageSizes \subseteq Nat \ {0}

VARIABLES
  assets,   \* table assets, a sequence: ids are indexes
  walk,     \* the client's walk through the pages
  came,     \* ids that began to match since the walk began
  left      \* ids that ceased to match since the walk began

searchVars == <<assets, walk, came, left>>
-----------------------------------------------------------------------------
(* The first row that applies. *)
mediaTypeFromFile(mime, ext) ==
  LET rules ==
        <<<<mime = "image", "image">>, <<mime = "video", "video">>,
          <<ext \in {"mp4", "webm", "mov", "mkv", "avi"}, "video">>, <<mime = "audio", "audio">>,
          <<ext \in {"mp3", "wav", "flac", "m4a", "ogg"}, "audio">>,
          <<mime = "application/pdf" \/ ext = "pdf", "pdf">>, <<ext = "json", "json">>,
          <<ext \in {"md", "markdown"}, "markdown">>, <<mime = "text", "text">>, <<TRUE, "other">>>>
  IN Head(SelectSeq(rules, LAMBDA r : r[1]))[2]

(* parseNaturalAssetQuery: the first of image, video, audio, pdf, json and *)
(* markdown that the sentence names, unless it speaks of prompts, or of    *)
(* templates; a size; for videos a resolution, which replaces the height.  *)
(* The sentence as a whole remains the keyword.                            *)
Says(text, word) == \E i \in DOMAIN text : text[i] = word
Kinds == <<"image", "video", "audio", "pdf", "json", "markdown">>
ParsedMedia(text) ==
  IF Says(text, "template") THEN "prompt_template"
  ELSE IF Says(text, "prompt") THEN "prompt"
  ELSE Head(SelectSeq(Kinds, LAMBDA k : Says(text, k)) \o <<"">>)
parseNaturalAssetQuery(text) ==
  LET sized == Says(text, "640x480")
      tall == Says(text, "1080p") /\ ParsedMedia(text) = "video"
  IN [media |-> ParsedMedia(text), deleted |-> Says(text, "deleted"), keyword |-> text,
      width |-> IF sized THEN 640 ELSE 0,
      height |-> IF tall THEN 1080 ELSE IF sized THEN 480 ELSE 0]

Like(name, text) == \E i \in 0..(Len(name) - Len(text)) : SubSeq(name, i + 1, i + Len(text)) = text

(* List: each condition that is given must hold. *)
Matching(q, table) ==
  {i \in DOMAIN table :
     LET row == table[i] IN
     /\ row.deleted = q.deleted
     /\ q.media # "" => row.media = q.media
     /\ q.width > 0 => row.width = q.width
     /\ q.height > 0 => row.height = q.height
     /\ Like(row.name, q.keyword)}

(* The orders a query may return some ids in: each once, newest first.     *)
Orders(ids) ==
  {s \in [1..Cardinality(ids) -> ids] :
     \A i, j \in DOMAIN s : i < j => s[i] # s[j] /\ assets[s[i]].created >= assets[s[j]].created}

Smaller(a, b) == IF a < b THEN a ELSE b
Rows(ordered, offset, limit) == SubSeq(ordered, offset + 1, Smaller(offset + limit, Len(ordered)))

(* Fault seeded for the checks: the offset is that of the size asked for.  *)
ToQueryUncut(ordered, page, size) == Rows(ordered, (page - 1) * size, Smaller(size, MaxPageSize))

(* ToQuery: the page, with the size cut down before the offset is computed. *)
ToQuery(ordered, page, size) ==
  LET limit == Smaller(size, MaxPageSize) IN Rows(ordered, (page - 1) * limit, limit)
-----------------------------------------------------------------------------
NoWalk == [at |-> "idle", text |-> <<>>, size |-> 1, page |-> 1, seen |-> <<>>]
SearchInit == assets = <<>> /\ walk = NoWalk /\ came = {} /\ left = {}

Query == parseNaturalAssetQuery(walk.text)

(* The matches change under a walk. *)
Change(table) ==
  /\ assets' = table
  /\ came' = IF walk.at # "idle" THEN came \cup (Matching(Query, table) \ Matching(Query, assets)) ELSE {}
  /\ left' = IF walk.at # "idle" THEN left \cup (Matching(Query, assets) \ Matching(Query, table)) ELSE {}

Latest == IF assets = <<>> THEN 1 ELSE assets[Len(assets)].created

UploadFile(file, created) ==
  /\ Len(assets) < MaxListed
  /\ Change(Append(assets,
       [name |-> file.name, media |-> mediaTypeFromFile(file.mime, file.ext), width |-> file.width,
        height |-> file.height, created |-> created, deleted |-> FALSE]))
  /\ UNCHANGED walk

DeleteFile(i) ==
  /\ ~assets[i].deleted
  /\ Change([assets EXCEPT ![i].deleted = TRUE])
  /\ UNCHANGED walk

AssetSearch(text, size) ==
  /\ walk.at = "idle"
  /\ walk' = [at |-> "walking", text |-> text, size |-> size, page |-> 1, seen |-> <<>>]
  /\ came' = {} /\ left' = {}
  /\ UNCHANGED assets

(* The next page; an empty one is the end. *)
AssetList ==
  /\ walk.at = "walking"
  /\ \E ordered \in Orders(Matching(Query, assets)) :
       LET page == ToQuery(ordered, walk.page, walk.size) IN
       walk' = IF page = <<>> THEN [walk EXCEPT !.at = "over"]
               ELSE [walk EXCEPT !.page = @ + 1, !.seen = @ \o page]
  /\ UNCHANGED <<assets, came, left>>

SearchNext ==
  \/ \E file \in Files, created \in {Latest, Latest + 1} : UploadFile(file, created)
  \/ \E i \in DOMAIN assets : DeleteFile(i)
  \/ \E text \in Sentences, size \in PageSizes : AssetSearch(text, size)
  \/ AssetList

SearchSpec == SearchInit /\ [][SearchNext]_searchVars
-----------------------------------------------------------------------------
Tied == \E i, j \in DOMAIN assets : i # j /\ assets[i].created = assets[j].created

(* A walk through all pages comes upon every asset that matches from its   *)
(* beginning to its end, unless one that matched ceased to (the others     *)
(* move up a page) or two were created at the same time.  Uploads and      *)
(* sizes above the limit make it miss nothing.                             *)
EveryAssetListed ==
  walk.at = "over" /\ left = {} /\ ~Tied =>
    \A i \in Matching(Query, assets) \ came : \E n \in DOMAIN walk.seen : walk.seen[n] = i

(* It comes upon an asset twice only when one began to match meanwhile     *)
(* (the others move down a page), or two were created at the same time.    *)
ListedOnce ==
  came = {} /\ ~Tied => \A m, n \in DOMAIN walk.seen : m # n => walk.seen[m] # walk.seen[n]

(* The pages of AssetSearch, one after the other, are the list, although   *)
(* each is a query of its own.                                             *)
ListedExactlyOnce == EveryAssetListed /\ ListedOnce
=============================================================================
