---------------------------- MODULE AssetGrouping ----------------------------
(***************************************************************************)
(* Tags and groups of assets: the tables tags, asset_tags, asset_groups    *)
(* and asset_group_members.  replaceAssetTags finds or creates the tags    *)
(* one by one, each in two statements, and then replaces the links of one  *)
(* asset and source in a READ COMMITTED transaction: its delete sees the   *)
(* links that are committed when it starts.  A transaction that wants to   *)
(* delete a link another one is deleting waits for it and then finds the   *)
(* link gone, so the commits come out the same in either order.            *)
(***************************************************************************)
EXTENDS Naturals, Sequences, FiniteSets, Tables

CONSTANTS
  TagSessions,   \* clients, each with one request at a time
  Tagged,        \* assets
  Grouped,       \* assets a group request may name
  TagNames, Sources,
  MaxTags, MaxLinks, MaxGroups   \* bounds on the rows created

ASSUME GroupingAssumption == {MaxTags, MaxLinks, MaxGroups} \subseteq Nat

VARIABLES
  tags,      \* table tags
  links,     \* table asset_tags
  linked,    \* links created so far
  groups,    \* tables asset_groups and asset_group_members: the members of each group
  treq,      \* the request each session is in
  wanted,    \* the names the last replacement of an asset and a source asked for
  blended    \* assets and sources with a replacement that did not see all before it

tagVars == <<tags, links, linked, groups, treq, wanted, blended>>
-----------------------------------------------------------------------------
TagRow == [name : TagNames, source : Sources]
LinkRow(asset, tag, source) == [asset |-> asset, tag |-> tag, source |-> source]
TagIds == 1..Len(tags)
Found(name, source) == {t \in TagIds : tags[t] = [name |-> name, source |-> source]}
LinksOf(asset, source) == {l \in DOMAIN links : links[l].asset = asset /\ links[l].source = source}

(* The tags shown with an asset, those of one source. *)
ListByAssetIDs(asset, source) == {tags[links[l].tag].name : l \in LinksOf(asset, source)}

(* A request: its next call, what it replaces, the names still to be       *)
(* looked up, all of them, the tags found, the links its delete has seen;  *)
(* over: others have created the tag since it was looked up; unseen:       *)
(* others have committed a replacement since its delete.                   *)
TagRequest(asset, source, names) ==
  [at |-> "find tag", asset |-> asset, source |-> source, left |-> names, names |-> names,
   found |-> <<>>, doomed |-> {}, over |-> FALSE, unseen |-> FALSE, group |-> 0]
TagIdle == [at |-> "idle", asset |-> 0, source |-> 0, left |-> <<>>, names |-> <<>>,
            found |-> <<>>, doomed |-> {}, over |-> FALSE, unseen |-> FALSE, group |-> 0]
TagGoes(s, r) == treq' = [treq EXCEPT ![s] = r]
-----------------------------------------------------------------------------
TagInit ==
  /\ tags = <<>> /\ links = <<>> /\ linked = 0 /\ groups = <<>>
  /\ treq = [s \in TagSessions |-> TagIdle]
  /\ wanted = [p \in Tagged \X Sources |-> {}]
  /\ blended = {}

(* A call fails: the request returns the error, an open transaction is     *)
(* rolled back, the tags it created and its group stay.                    *)
TagCallFails(s) ==
  /\ treq[s].at # "idle"
  /\ TagGoes(s, TagIdle)
  /\ UNCHANGED <<tags, links, linked, groups, wanted, blended>>

(* The names of a request are trimmed and the empty ones skipped; a name   *)
(* may come twice.                                                         *)
replaceAssetTags(s, asset, source, names) ==
  /\ treq[s].at = "idle"
  /\ TagGoes(s, TagRequest(asset, source, names))
  /\ UNCHANGED <<tags, links, linked, groups, wanted, blended>>

(* FirstOrCreate, the lookup by name and source: the row with the smallest *)
(* id, and ids are random, so any of them ...                              *)
FindTag(s) ==
  LET r == treq[s] IN
  /\ r.at = "find tag" /\ r.left # <<>>
  /\ \/ \E t \in Found(Head(r.left), r.source) :
          TagGoes(s, [r EXCEPT !.left = Tail(@), !.found = Append(@, t)])
     \/ /\ Found(Head(r.left), r.source) = {}
        /\ TagGoes(s, [r EXCEPT !.at = "create tag"])
  /\ UNCHANGED <<tags, links, linked, groups, wanted, blended>>

(* ... and the create; others that looked the same tag up do not see it. *)
CreateTag(s) ==
  LET r == treq[s]
      row == [name |-> Head(r.left), source |-> r.source]
  IN
  /\ r.at = "create tag"
  /\ Len(tags) < MaxTags
  /\ tags' = Append(tags, row)
  /\ treq' = [t \in TagSessions |->
                IF t = s THEN [r EXCEPT !.at = "find tag", !.left = Tail(@),
                                        !.found = Append(@, Len(tags) + 1), !.over = FALSE]
                ELSE IF treq[t].at = "create tag" /\ Head(treq[t].left) = row.name
                          /\ treq[t].source = row.source
                       THEN [treq[t] EXCEPT !.over = TRUE] ELSE treq[t]]
  /\ UNCHANGED <<links, linked, groups, wanted, blended>>

(* Fault seeded for the checks: the links of every source go. *)
ReplaceDeleteAll(s) ==
  LET r == treq[s] IN
  /\ r.at = "find tag" /\ r.left = <<>>
  /\ TagGoes(s, [r EXCEPT !.at = "commit", !.doomed = {l \in DOMAIN links : links[l].asset = r.asset}])
  /\ UNCHANGED <<tags, links, linked, groups, wanted, blended>>

(* Replace: the delete of the links of this asset and source ... *)
ReplaceDelete(s) ==
  LET r == treq[s] IN
  /\ r.at = "find tag" /\ r.left = <<>>
  /\ TagGoes(s, [r EXCEPT !.at = "commit", !.doomed = LinksOf(r.asset, r.source)])
  /\ UNCHANGED <<tags, links, linked, groups, wanted, blended>>

(* ... and one link per tag, with the commit. *)
ReplaceCommit(s) ==
  LET r == treq[s]
      p == <<r.asset, r.source>>
      kept == Without(links, r.doomed)
      fresh == linked + 1 .. linked + Len(r.found)
  IN
  /\ r.at = "commit"
  /\ linked + Len(r.found) <= MaxLinks
  /\ links' = [l \in DOMAIN kept \cup fresh |->
                 IF l \in fresh THEN LinkRow(r.asset, r.found[l - linked], r.source) ELSE kept[l]]
  /\ linked' = linked + Len(r.found)
  /\ wanted' = [wanted EXCEPT ![p] = {r.names[i] : i \in 1..Len(r.names)}]
  /\ blended' = IF r.unseen THEN blended \cup {p} ELSE blended \ {p}
  /\ treq' = [t \in TagSessions |->
                IF t = s THEN TagIdle
                ELSE IF treq[t].at = "commit" /\ <<treq[t].asset, treq[t].source>> = p
                       THEN [treq[t] EXCEPT !.unseen = TRUE] ELSE treq[t]]
  /\ UNCHANGED <<tags, groups>>
-----------------------------------------------------------------------------
(* AssetGroupCreate adds the group; its assets are not looked up ... *)
AssetGroupCreate(s, members) ==
  /\ treq[s].at = "idle"
  /\ Len(groups) < MaxGroups
  /\ groups' = Append(groups, [asked |-> members, members |-> {}, answered |-> FALSE])
  /\ TagGoes(s, [TagIdle EXCEPT !.at = "add members", !.group = Len(groups) + 1])
  /\ UNCHANGED <<tags, links, linked, wanted, blended>>

(* ... and then its members, all of them in one transaction. *)
BatchAdd(s) ==
  LET g == treq[s].group IN
  /\ treq[s].at = "add members"
  /\ groups' = [groups EXCEPT ![g].members = groups[g].asked, ![g].answered = TRUE]
  /\ TagGoes(s, TagIdle)
  /\ UNCHANGED <<tags, links, linked, wanted, blended>>

TagNext ==
  \E s \in TagSessions :
    \/ TagCallFails(s)
    \/ \E a \in Tagged, src \in Sources, names \in UNION {[1..n -> TagNames] : n \in 0..2} :
         replaceAssetTags(s, a, src, names)
    \/ FindTag(s) \/ CreateTag(s) \/ ReplaceDelete(s) \/ ReplaceCommit(s)
    \/ \E members \in SUBSET Grouped : AssetGroupCreate(s, members)
    \/ BatchAdd(s)

TagSpec == TagInit /\ [][TagNext]_tagVars
-----------------------------------------------------------------------------
(* The tags an asset shows for a source are those the last replacement     *)
(* asked for, whatever was done for other assets and sources in between;   *)
(* more only after two replacements of the same pair overlapped (the       *)
(* delete of the later one did not see the links of the earlier).          *)
TagsAsAsked ==
  \A p \in Tagged \X Sources :
    LET shown == ListByAssetIDs(p[1], p[2]) IN
    IF p \in blended THEN wanted[p] \subseteq shown ELSE shown = wanted[p]

(* A second tag of the same name and source is created only by a request   *)
(* that looked for it before another one created it.                       *)
TagsUnique ==
  \A s \in TagSessions :
    CreateTag(s) => Found(Head(treq[s].left), treq[s].source) = {} \/ treq[s].over

(* A group has all the members its request named or, when the second call  *)
(* failed, none; an answered request means all.                            *)
GroupsWhole ==
  \A g \in 1..Len(groups) :
    groups[g].members = groups[g].asked \/ (groups[g].members = {} /\ ~groups[g].answered)

(* Tags and groups are what the requests asked for, but for replacements   *)
(* and creations that overlap and calls that fail.                         *)
GroupingExplained == [][TagsUnique /\ TagsAsAsked' /\ GroupsWhole']_tagVars
=============================================================================
