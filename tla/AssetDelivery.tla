---------------------------- MODULE AssetDelivery ----------------------------
(***************************************************************************)
(* What is made of assets to be delivered: an archive of several (the      *)
(* download of a canvas), written entry by entry to the client, and the    *)
(* thumbnail of an image.                                                  *)
(*                                                                         *)
(* A name is its stem and the numbers put behind it: "a-2" is stem a with  *)
(* number 2, and another copy of it gets a further number.  A stem is      *)
(* spelled plainly or with slashes around it, which are trimmed.           *)
(***************************************************************************)
EXTENDS Naturals, Sequences, FiniteSets

CONSTANTS
  MaxArchived,    \* bound on the items of a download
  MaxSource,      \* bound on the sides of an image
  MaxSides        \* bounds on the sides of thumbnails

ASSUME DeliveryAssumption == MaxArchived \in Nat /\ MaxSource \in Nat \ {0} /\ MaxSides \subseteq Nat

VARIABLES
  zip,    \* the download: items, entries written so far, and how it stands
  shot    \* the image a thumbnail is made of, and the thumbnail

deliveryVars == <<zip, shot>>
-----------------------------------------------------------------------------
Name(stem, slashed, numbers) == [stem |-> stem, slashed |-> slashed, numbers |-> numbers]
Nameless == Name("", FALSE, <<>>)
ItemNames == {Nameless, Name("a", FALSE, <<>>), Name("a", TRUE, <<>>), Name("a", FALSE, <<2>>)}

(* The name of an item: the one asked for, the asset's, or its number;     *)
(* safeObjectName puts the number in place of blanks and cuts off.         *)
Fallback(index) == Name("asset", FALSE, <<index>>)
ItemName(item, index) ==
  IF item.name # Nameless THEN item.name
  ELSE IF item.asset # Nameless THEN item.asset ELSE Fallback(index)

Trimmed(name) == Name(name.stem, FALSE, name.numbers)

(* used[name] of the code: how often the name was asked for. *)
Times(used, name) == Cardinality({i \in DOMAIN used : used[i] = Trimmed(name)})

(* Fault seeded for the checks: a copy is always the second. *)
uniqueZipNameTwo(used, name) ==
  IF Times(used, name) = 0 THEN Trimmed(name)
  ELSE Name(name.stem, FALSE, Append(name.numbers, 2))

(* uniqueZipName counts how often a name was asked for, not whether the    *)
(* numbered name is taken.                                                 *)
uniqueZipName(used, name) ==
  LET times == Times(used, name) IN
  IF times = 0 THEN Trimmed(name) ELSE Name(name.stem, FALSE, Append(name.numbers, times + 1))
-----------------------------------------------------------------------------
Items == [name : ItemNames, asset : {Nameless, Name("a", FALSE, <<>>)}]
Zip(wanted, used, entries, at) == [items |-> wanted, used |-> used, entries |-> entries, at |-> at]
Shot(w, h, max, dw, dh, at) == [w |-> w, h |-> h, max |-> max, dw |-> dw, dh |-> dh, at |-> at]

DeliveryInit ==
  /\ zip = Zip(<<>>, <<>>, <<>>, "idle")
  /\ shot = Shot(1, 1, 1, 0, 0, "idle")

CanvasAssetDownloadZip(wanted) ==
  /\ zip.at = "idle" /\ shot.at = "idle"
  /\ zip' = IF wanted = <<>> THEN Zip(wanted, <<>>, <<>>, "refused") ELSE Zip(wanted, <<>>, <<>>, "writing")
  /\ UNCHANGED shot

(* The asset is looked up again for every item: it may be gone, deleted or *)
(* its file not there, and then the archive ends before its entry. When    *)
(* addFileToZip fails in the middle of its copy the entry is begun: the    *)
(* archive ends with as much of it as was written.                         *)
ZipAdd ==
  /\ zip.at = "writing" /\ Len(zip.used) < Len(zip.items)
  /\ LET index == Len(zip.used) + 1
         name == ItemName(zip.items[index], index)
         Entered(whole) == [item |-> index, name |-> uniqueZipName(zip.used, name), whole |-> whole]
     IN \/ \E whole \in BOOLEAN :
             zip' = Zip(zip.items, Append(zip.used, Trimmed(name)), Append(zip.entries, Entered(whole)),
                        IF whole THEN "writing" ELSE "failed")
        \/ zip' = [zip EXCEPT !.at = "failed"]
  /\ UNCHANGED shot

ZipClose ==
  /\ zip.at = "writing" /\ Len(zip.used) = Len(zip.items)
  /\ zip' = [zip EXCEPT !.at = "done"]
  /\ UNCHANGED shot

(* Fault seeded for the checks: sides that come out as 0 stay so. *)
writeImageThumbnailZero(w, h, max) ==
  LET large == max > 0 /\ (w > max \/ h > max)
      dw == IF ~large THEN w ELSE IF w >= h THEN max ELSE (max * w) \div h
      dh == IF ~large THEN h ELSE IF w >= h THEN (max * h) \div w ELSE max
  IN /\ zip.at = "idle" /\ shot.at = "idle"
     /\ shot' = Shot(w, h, max, dw, dh, "made")
     /\ UNCHANGED zip

(* writeImageThumbnail: the longer side becomes max, the other follows.    *)
writeImageThumbnail(w, h, max) ==
  LET large == max > 0 /\ (w > max \/ h > max)
      dw == IF ~large THEN w ELSE IF w >= h THEN max ELSE (max * w) \div h
      dh == IF ~large THEN h ELSE IF w >= h THEN (max * h) \div w ELSE max
      AtLeastOne(side) == IF large /\ side = 0 THEN 1 ELSE side
  IN /\ zip.at = "idle" /\ shot.at = "idle"
     /\ shot' = Shot(w, h, max, AtLeastOne(dw), AtLeastOne(dh), "made")
     /\ UNCHANGED zip

(* Where the pixel x of a side of d pixels is taken from. *)
SourcePixel(x, side, d) == (x * side) \div d

DeliveryNext ==
  \/ \E n \in 0..MaxArchived : \E wanted \in [1..n -> Items] : CanvasAssetDownloadZip(wanted)
  \/ ZipAdd \/ ZipClose
  \/ \E w, h \in 1..MaxSource, max \in MaxSides : writeImageThumbnail(w, h, max)

DeliverySpec == DeliveryInit /\ [][DeliveryNext]_deliveryVars
-----------------------------------------------------------------------------
(* No two entries of an archive have one name, however often names are     *)
(* repeated, unless a client or an upload chose a name that is itself a    *)
(* numbered copy of another one in it.                                     *)
EntriesDistinct ==
  LET names == {Trimmed(ItemName(zip.items[i], i)) : i \in DOMAIN zip.items}
  IN (\E i, j \in DOMAIN zip.entries : i # j /\ zip.entries[i].name = zip.entries[j].name)
     => \E n, o \in names : n.stem = o.stem /\ Len(n.numbers) = Len(o.numbers) + 1

(* An archive that ends as it should has every item, whole and in the      *)
(* order asked for; one that is broken off has the items before the one    *)
(* that failed, and of that one nothing or, as its last entry, a part.     *)
ArchiveWhole ==
  /\ \A i \in DOMAIN zip.entries :
       /\ zip.entries[i].item = i
       /\ zip.entries[i].whole \/ (zip.at = "failed" /\ i = Len(zip.entries))
  /\ zip.at = "done" => Len(zip.entries) = Len(zip.items)

(* Who unpacks an archive of AssetDownloadZip has every asset asked for,   *)
(* none over another.                                                      *)
ArchiveComplete == EntriesDistinct /\ ArchiveWhole

(* A thumbnail has at least one pixel each way and at most max, is no      *)
(* larger than the image and has its shape to within a pixel; every pixel  *)
(* is taken from inside the image, the first one from its corner.          *)
ThumbnailFits ==
  shot.at = "made" =>
    /\ shot.dw \in 1..shot.w /\ shot.dh \in 1..shot.h
    /\ shot.max > 0 => shot.dw <= shot.max /\ shot.dh <= shot.max
    /\ IF shot.w >= shot.h
         THEN shot.dw * shot.h \in ((shot.dh - 1) * shot.w + 1)..((shot.dh + 1) * shot.w - 1)
         ELSE shot.dh * shot.w \in ((shot.dw - 1) * shot.h + 1)..((shot.dw + 1) * shot.h - 1)
    /\ \A x \in 0..(shot.dw - 1) : SourcePixel(x, shot.w, shot.dw) < shot.w
    /\ \A y \in 0..(shot.dh - 1) : SourcePixel(y, shot.h, shot.dh) < shot.h
=============================================================================
