----------------------------- MODULE ChunkUpload -----------------------------
(***************************************************************************)
(* Resumable uploads: the directory upload-parts/<checksum> of one file,   *)
(* the requests that write chunks into it, merge and verify them, the      *)
(* requests and the hourly clean-up that remove it.  Nothing locks the     *)
(* directory; requests meet in it through file names and open files only.  *)
(* So files are modelled the way the operating system keeps them: a name   *)
(* refers to an inode, an open file keeps its inode after the name is gone *)
(* or has been given to another inode, os.Create truncates the inode that  *)
(* a name refers to, and os.Rename moves a name.                           *)
(*                                                                         *)
(* The file is a sequence of blocks; SHA-256 is taken to tell different    *)
(* contents apart, so the digest of what was read stands for what was      *)
(* read.  Directories of different checksums are independent.              *)
(***************************************************************************)
EXTENDS Integers, Sequences, FiniteSets

CONSTANTS
  Length,      \* blocks of the file whose checksum names the directory
  ChunkSizes,  \* chunk sizes, in blocks, that clients use
  Uploaders,   \* concurrent part requests
  Completers,  \* concurrent complete requests
  Cancelers,   \* concurrent cancel requests
  Cleaner,     \* the clean-up goroutine
  MaxInodes,   \* bound on files that exist at once
  MaxAssets,   \* bound on assets created
  MaxCrashes   \* bound on crashes of the API server

Removers == Completers \cup Cancelers \cup {Cleaner}

VARIABLES
  dir,      \* the directory exists
  fresh,    \* its modification time is younger than the clean-up TTL
  file,     \* the inode each name in the directory refers to
  data,     \* the content of every inode
  up,       \* part requests in progress
  cp,       \* complete requests in progress
  rm,       \* os.RemoveAll calls in progress: the names still to unlink
  assets,   \* contents of the assets created by complete requests
  crashes,
  shared    \* two part requests with one index have been in progress at once

vars == <<dir, fresh, file, data, up, cp, rm, assets, crashes, shared>>
-----------------------------------------------------------------------------
File == [b \in 1..Length |-> b]
Hole == 0                       \* what a write past the end leaves behind
NoInode == 0
Inodes == 1..MaxInodes
Indexes == 0..(Length - 1)

Smaller(a, b) == IF a < b THEN a ELSE b

(* total_chunks of a request with chunk size k: validateChunkUploadSpec    *)
(* accepts no other.                                                       *)
TotalChunks(k) == (Length + k - 1) \div k

(* The body of the request for chunk i. *)
Chunk(i, k) == SubSeq(File, k * i + 1, Smaller(k * i + k, Length))

ASSUME UploadAssumption ==
  /\ Length \in Nat \ {0} /\ MaxInodes \in Nat /\ MaxAssets \in Nat /\ MaxCrashes \in Nat
  /\ IsFiniteSet(Completers)
  /\ ChunkSizes \subseteq Nat \ {0}
  /\ Cleaner \notin Completers \cup Cancelers
  /\ Completers \cap Cancelers = {}

Tmp(i) == <<"tmp", i>>          \* %06d.part.tmp
Part(i) == <<"part", i>>        \* %06d.part
Merged == <<"merged", 0>>
Names == {Tmp(i) : i \in Indexes} \cup {Part(i) : i \in Indexes} \cup {Merged}

IdleUp == [pc |-> "idle", idx |-> 0, body |-> <<>>, ino |-> NoInode, pos |-> 0]
IdleCp == [pc |-> "idle", size |-> 1, idx |-> 0, out |-> NoInode, in |-> NoInode,
           pos |-> 0, sum |-> <<>>]
IdleRm == [pc |-> "idle", todo |-> {}]
RemoveAll == [pc |-> "list", todo |-> {}]    \* os.RemoveAll has been called

Present == {n \in Names : file[n] # NoInode}

(* An inode lives as long as a name or an open file refers to it. *)
Used == {file[n] : n \in Names} \cup {up[u].ino : u \in Uploaders}
          \cup {cp[c].out : c \in Completers} \cup {cp[c].in : c \in Completers}

SetData(d) == data' = [x \in Inodes |-> IF x \in Used' THEN d[x] ELSE <<>>]

(* The inode that os.Create opens for a name: the one it refers to, emptied, *)
(* or a new one.                                                           *)
HasInode(n) == file[n] # NoInode \/ Inodes \ Used # {}
InodeFor(n) ==
  IF file[n] # NoInode THEN file[n]
  ELSE CHOOSE x \in Inodes : x \notin Used

(* write(2) of one block at an offset; a gap before it reads as zeros. *)
WriteAt(d, pos, b) ==
  [j \in 1..(IF pos < Len(d) THEN Len(d) ELSE pos + 1) |->
     IF j = pos + 1 THEN b ELSE IF j <= Len(d) THEN d[j] ELSE Hole]

(* The next block an open file yields, <<>> at its end. *)
NextBlock(ino, pos) ==
  IF pos < Len(data[ino]) THEN <<data[ino][pos + 1]>> ELSE <<>>
-----------------------------------------------------------------------------
Init ==
  /\ dir = FALSE /\ fresh = FALSE
  /\ file = [n \in Names |-> NoInode]
  /\ data = [x \in Inodes |-> <<>>]
  /\ up = [u \in Uploaders |-> IdleUp]
  /\ cp = [c \in Completers |-> IdleCp]
  /\ rm = [r \in Removers |-> IdleRm]
  /\ assets = <<>>
  /\ crashes = 0 /\ shared = FALSE

(* AssetChunkUploadInit: MkdirAll and Chtimes; the list of parts it answers *)
(* is Uploaded.                                                            *)
ChunkUploadInit ==
  /\ dir' = TRUE /\ fresh' = TRUE
  /\ UNCHANGED <<file, data, up, cp, rm, assets, crashes, shared>>

Uploaded == {i \in Indexes : file[Part(i)] # NoInode}

(* AssetChunkUploadPart of chunk i: MkdirAll makes the directory. *)
PartMkdir(u, i, k) ==
  /\ up[u].pc = "idle"
  /\ i < TotalChunks(k)
  /\ up' = [up EXCEPT ![u] = [IdleUp EXCEPT !.pc = "create", !.idx = i, !.body = Chunk(i, k)]]
  /\ fresh' = (fresh \/ ~dir)
  /\ dir' = TRUE
  /\ shared' = (shared \/ \E v \in Uploaders : up[v].pc # "idle" /\ up[v].idx = i)
  /\ UNCHANGED <<file, data, cp, rm, assets, crashes>>

(* os.Create of the temporary name, or its failure when the directory has  *)
(* been removed meanwhile.                                                 *)
PartCreate(u) ==
  /\ up[u].pc = "create"
  /\ UNCHANGED <<dir, cp, rm, assets, crashes, shared>>
  /\ IF dir
     THEN LET n == Tmp(up[u].idx) IN
          /\ HasInode(n)
          /\ file' = [file EXCEPT ![n] = InodeFor(n)]
          /\ up' = [up EXCEPT ![u].pc = "copy", ![u].ino = InodeFor(n)]
          /\ fresh' = (fresh \/ file[n] = NoInode)
          /\ SetData([data EXCEPT ![InodeFor(n)] = <<>>])
     ELSE /\ up' = [up EXCEPT ![u] = IdleUp]
          /\ UNCHANGED <<file, fresh, data>>

(* io.Copy: one more block of the request body. *)
PartCopy(u) ==
  /\ up[u].pc = "copy"
  /\ up[u].pos < Len(up[u].body)
  /\ up' = [up EXCEPT ![u].pos = @ + 1]
  /\ UNCHANGED <<dir, fresh, file, cp, rm, assets, crashes, shared>>
  /\ SetData([data EXCEPT ![up[u].ino] = WriteAt(@, up[u].pos, up[u].body[up[u].pos + 1])])

(* Fault seeded for the checks: the error path forgets to close the file. *)
PartBreakLeaksFile(u) ==
  /\ up[u].pc = "copy"
  /\ fresh' = (fresh \/ file[Tmp(up[u].idx)] # NoInode)
  /\ file' = [file EXCEPT ![Tmp(up[u].idx)] = NoInode]
  /\ up' = [up EXCEPT ![u].pc = "idle"]
  /\ UNCHANGED <<dir, cp, rm, assets, crashes, shared>>
  /\ SetData(data)

(* The body breaks off, or the close fails: whatever has the temporary     *)
(* name is removed.                                                        *)
PartBreak(u) ==
  /\ up[u].pc = "copy"
  /\ fresh' = (fresh \/ file[Tmp(up[u].idx)] # NoInode)
  /\ file' = [file EXCEPT ![Tmp(up[u].idx)] = NoInode]
  /\ up' = [up EXCEPT ![u] = IdleUp]
  /\ UNCHANGED <<dir, cp, rm, assets, crashes, shared>>
  /\ SetData(data)

(* Fault seeded for the checks: the error of io.Copy is not looked at. *)
PartRenameUnchecked(u) ==
  /\ up[u].pc = "copy"
  /\ LET i == up[u].idx IN
     IF file[Tmp(i)] # NoInode
     THEN /\ file' = [file EXCEPT ![Part(i)] = file[Tmp(i)], ![Tmp(i)] = NoInode]
          /\ up' = [up EXCEPT ![u] = [IdleUp EXCEPT !.pc = "touch"]]
          /\ fresh' = TRUE
     ELSE /\ up' = [up EXCEPT ![u] = IdleUp]
          /\ UNCHANGED <<file, fresh>>
  /\ UNCHANGED <<dir, cp, rm, assets, crashes, shared>>
  /\ SetData(data)

(* The body is complete: Close and Rename.  The rename fails if the        *)
(* temporary name is gone.                                                 *)
PartRename(u) ==
  /\ up[u].pc = "copy"
  /\ up[u].pos = Len(up[u].body)
  /\ LET i == up[u].idx IN
     IF file[Tmp(i)] # NoInode
     THEN /\ file' = [file EXCEPT ![Part(i)] = file[Tmp(i)], ![Tmp(i)] = NoInode]
          /\ up' = [up EXCEPT ![u] = [IdleUp EXCEPT !.pc = "touch"]]
          /\ fresh' = TRUE
     ELSE /\ up' = [up EXCEPT ![u] = IdleUp]
          /\ UNCHANGED <<file, fresh>>
  /\ UNCHANGED <<dir, cp, rm, assets, crashes, shared>>
  /\ SetData(data)

(* touchChunkUploadDir; it fails when the directory is gone. *)
PartTouch(u) ==
  /\ up[u].pc = "touch"
  /\ up' = [up EXCEPT ![u] = IdleUp]
  /\ fresh' = dir
  /\ UNCHANGED <<dir, file, data, cp, rm, assets, crashes, shared>>
-----------------------------------------------------------------------------
(* AssetChunkUploadComplete: os.Create("merged"), which fails without the  *)
(* directory.                                                              *)
CompleteCreate(c, k) ==
  /\ cp[c].pc = "idle" /\ rm[c] = IdleRm
  /\ dir /\ HasInode(Merged)
  /\ file' = [file EXCEPT ![Merged] = InodeFor(Merged)]
  /\ cp' = [cp EXCEPT ![c] = [IdleCp EXCEPT !.pc = "open", !.size = k, !.out = InodeFor(Merged)]]
  /\ fresh' = (fresh \/ file[Merged] = NoInode)
  /\ UNCHANGED <<dir, up, rm, assets, crashes, shared>>
  /\ SetData([data EXCEPT ![InodeFor(Merged)] = <<>>])

(* A complete request gives up: it removes whatever is called merged. *)
GiveUp(c) ==
  /\ cp' = [cp EXCEPT ![c] = IdleCp]
  /\ fresh' = (fresh \/ file[Merged] # NoInode)
  /\ file' = [file EXCEPT ![Merged] = NoInode]
  /\ SetData(data)

(* The next part is opened, or "missing chunk" is answered. *)
CompleteOpen(c) ==
  /\ cp[c].pc = "open"
  /\ cp[c].idx < TotalChunks(cp[c].size)
  /\ UNCHANGED <<dir, up, rm, assets, crashes, shared>>
  /\ IF file[Part(cp[c].idx)] # NoInode
     THEN /\ cp' = [cp EXCEPT ![c].pc = "copy", ![c].in = file[Part(cp[c].idx)], ![c].pos = 0]
          /\ UNCHANGED <<fresh, file, data>>
     ELSE GiveUp(c)

(* io.Copy from the part to merged and to the hash, one block or the end. *)
CompleteCopy(c) ==
  /\ cp[c].pc = "copy"
  /\ UNCHANGED <<dir, fresh, file, up, rm, assets, crashes, shared>>
  /\ LET b == NextBlock(cp[c].in, cp[c].pos) IN
     IF b # <<>>
     THEN /\ cp' = [cp EXCEPT ![c].pos = @ + 1, ![c].sum = @ \o b]
          /\ SetData([data EXCEPT ![cp[c].out] = WriteAt(@, Len(cp[c].sum), b[1])])
     ELSE /\ cp' = [cp EXCEPT ![c].pc = "open", ![c].in = NoInode, ![c].pos = 0, ![c].idx = @ + 1]
          /\ SetData(data)

(* Reading a part or closing a file fails. *)
CompleteBreak(c) ==
  /\ \/ cp[c].pc = "copy"
     \/ cp[c].pc = "open" /\ cp[c].idx = TotalChunks(cp[c].size)
  /\ UNCHANGED <<dir, up, rm, assets, crashes, shared>>
  /\ GiveUp(c)

(* Fault seeded for the checks: only the size is compared. *)
VerifiedSizeOnly(sum) == Len(sum) = Length

(* total = req.Size and actualChecksum = req.Checksum. *)
Verified(sum) == Len(sum) = Length /\ sum = File

(* All parts are merged: size and checksum of what was read are compared   *)
(* with the request.                                                       *)
CompleteCheck(c) ==
  /\ cp[c].pc = "open"
  /\ cp[c].idx = TotalChunks(cp[c].size)
  /\ UNCHANGED <<dir, up, rm, assets, crashes, shared>>
  /\ IF Verified(cp[c].sum)
     THEN /\ cp' = [cp EXCEPT ![c] = [IdleCp EXCEPT !.pc = "reopen"]]
          /\ UNCHANGED <<fresh, file>>
          /\ SetData(data)
     ELSE GiveUp(c)

(* os.Open of merged, by name. *)
CompleteReopen(c) ==
  /\ cp[c].pc = "reopen"
  /\ cp' = [cp EXCEPT ![c] = IF file[Merged] # NoInode
                             THEN [IdleCp EXCEPT !.pc = "read", !.in = file[Merged]]
                             ELSE IdleCp]
  /\ UNCHANGED <<dir, fresh, file, data, up, rm, assets, crashes, shared>>

(* createAssetFromReader copies what it reads into the object file.        *)
CompleteRead(c) ==
  /\ cp[c].pc = "read"
  /\ NextBlock(cp[c].in, cp[c].pos) # <<>>
  /\ cp' = [cp EXCEPT ![c].pos = @ + 1, ![c].sum = @ \o NextBlock(cp[c].in, cp[c].pos)]
  /\ UNCHANGED <<dir, fresh, file, data, up, rm, assets, crashes, shared>>

(* The asset row is written, with the checksum of what was just read, and  *)
(* RemoveAll of the directory starts.                                      *)
CompleteAsset(c) ==
  /\ cp[c].pc = "read"
  /\ NextBlock(cp[c].in, cp[c].pos) = <<>>
  /\ Len(assets) < MaxAssets
  /\ assets' = Append(assets, cp[c].sum)
  /\ cp' = [cp EXCEPT ![c] = IdleCp]
  /\ rm' = [rm EXCEPT ![c] = RemoveAll]
  /\ UNCHANGED <<dir, fresh, file, up, crashes, shared>>
  /\ SetData(data)

(* createAssetFromReader fails: the directory stays. *)
CompleteFail(c) ==
  /\ cp[c].pc = "read"
  /\ cp' = [cp EXCEPT ![c] = IdleCp]
  /\ UNCHANGED <<dir, fresh, file, up, rm, assets, crashes, shared>>
  /\ SetData(data)
-----------------------------------------------------------------------------
(* AssetChunkUploadCancel finds the directory and starts to remove it. *)
CancelStart(r) ==
  /\ rm[r] = IdleRm /\ dir
  /\ rm' = [rm EXCEPT ![r] = RemoveAll]
  /\ UNCHANGED <<dir, fresh, file, data, up, cp, assets, crashes, shared>>

(* cleanupChunkUploadDirs finds the directory older than the TTL; it is    *)
(* removed however young it is by then.                                    *)
CleanupStart ==
  /\ rm[Cleaner] = IdleRm /\ dir /\ ~fresh
  /\ rm' = [rm EXCEPT ![Cleaner] = RemoveAll]
  /\ UNCHANGED <<dir, fresh, file, data, up, cp, assets, crashes, shared>>

(* RemoveAll lists the directory, if it is still there, ...                *)
ListNames(r) ==
  /\ rm[r].pc = "list"
  /\ rm' = [rm EXCEPT ![r] = IF dir THEN [pc |-> "unlink", todo |-> Present] ELSE IdleRm]
  /\ UNCHANGED <<dir, fresh, file, data, up, cp, assets, crashes, shared>>

(* ... unlinks the names it has listed, one by one, ...                    *)
Unlink(r, n) ==
  /\ n \in rm[r].todo
  /\ rm' = [rm EXCEPT ![r].todo = @ \ {n}]
  /\ file' = [file EXCEPT ![n] = NoInode]
  /\ fresh' = (fresh \/ file[n] # NoInode)
  /\ UNCHANGED <<dir, up, cp, assets, crashes, shared>>
  /\ SetData(data)

(* ... and then the directory, unless a new name has appeared in it.  What *)
(* other calls still have to unlink has gone with it.                      *)
Rmdir(r) ==
  /\ rm[r].pc = "unlink" /\ rm[r].todo = {}
  /\ IF Present = {}
     THEN /\ dir' = FALSE /\ fresh' = FALSE
          /\ rm' = [x \in Removers |-> IF x = r THEN IdleRm ELSE [rm[x] EXCEPT !.todo = {}]]
     ELSE /\ rm' = [rm EXCEPT ![r] = IdleRm]
          /\ UNCHANGED <<dir, fresh>>
  /\ UNCHANGED <<file, data, up, cp, assets, crashes, shared>>

(* The TTL passes without a change to the directory. *)
Expire ==
  /\ dir /\ fresh
  /\ fresh' = FALSE
  /\ UNCHANGED <<dir, file, data, up, cp, rm, assets, crashes, shared>>

(* The API server dies with every request in it; the files stay. *)
Crash ==
  /\ crashes < MaxCrashes
  /\ crashes' = crashes + 1
  /\ up' = [u \in Uploaders |-> IdleUp]
  /\ cp' = [c \in Completers |-> IdleCp]
  /\ rm' = [r \in Removers |-> IdleRm]
  /\ UNCHANGED <<dir, fresh, file, assets, shared>>
  /\ SetData(data)

PartStep(u) ==
  \/ \E i \in Indexes, k \in ChunkSizes : PartMkdir(u, i, k)
  \/ PartCreate(u) \/ PartCopy(u) \/ PartBreak(u) \/ PartRename(u) \/ PartTouch(u)

CompleteStep(c) ==
  \/ \E k \in ChunkSizes : CompleteCreate(c, k)
  \/ CompleteOpen(c) \/ CompleteCopy(c) \/ CompleteBreak(c) \/ CompleteCheck(c)
  \/ CompleteReopen(c) \/ CompleteRead(c) \/ CompleteAsset(c) \/ CompleteFail(c)

RemoveStep ==
  \/ \E r \in Cancelers : CancelStart(r)
  \/ CleanupStart
  \/ \E r \in Removers : ListNames(r) \/ Rmdir(r) \/ \E n \in Names : Unlink(r, n)

Next ==
  \/ ChunkUploadInit
  \/ \E u \in Uploaders : PartStep(u)
  \/ \E c \in Completers : CompleteStep(c)
  \/ RemoveStep
  \/ Expire
  \/ Crash

Spec == Init /\ [][Next]_vars
-----------------------------------------------------------------------------
Blocks == 0..Length

(* Every variable keeps its type, and an open file always has an inode.    *)
TypeOK ==
  /\ dir \in BOOLEAN /\ fresh \in BOOLEAN
  /\ file \in [Names -> Inodes \cup {NoInode}]
  /\ data \in [Inodes -> Seq(Blocks)]
  /\ \A u \in Uploaders :
       /\ up[u].pc \in {"idle", "create", "copy", "touch"}
       /\ up[u].idx \in Indexes /\ up[u].body \in Seq(Blocks)
       /\ up[u].pos \in 0..Len(up[u].body)
       /\ up[u].ino \in IF up[u].pc = "copy" THEN Inodes ELSE {NoInode}
  /\ \A c \in Completers :
       /\ cp[c].pc \in {"idle", "open", "copy", "reopen", "read"}
       /\ cp[c].idx \in 0..TotalChunks(cp[c].size) /\ cp[c].sum \in Seq(Blocks)
       /\ cp[c].out \in IF cp[c].pc \in {"open", "copy"} THEN Inodes ELSE {NoInode}
       /\ cp[c].in \in IF cp[c].pc \in {"copy", "read"} THEN Inodes ELSE {NoInode}
       /\ cp[c].pos \in Nat
  /\ rm \in [Removers -> [pc : {"idle", "list", "unlink"}, todo : SUBSET Names]]
  /\ assets \in Seq(Seq(Blocks))
  /\ crashes \in 0..MaxCrashes /\ shared \in BOOLEAN

(* What createAssetFromReader stores is what AssetChunkUploadComplete has  *)
(* verified, although it reads the merged file a second time.              *)
AssetsVerified == \A a \in 1..Len(assets) : assets[a] = File

(* As long as complete requests for one checksum do not overlap, whatever  *)
(* part requests with other chunk sizes, broken bodies, cancellations,     *)
(* clean-ups and crashes do at the same time.                              *)
VerifiedWhenAlone == Cardinality(Completers) = 1 => AssetsVerified

(* Under a final name there is a whole chunk, never a torn one, as long    *)
(* as requests for the same index have not overlapped: so the parts that   *)
(* Init reports need not be sent again.  Temporary files are shared by     *)
(* name, survive crashes and are reused, and directories are removed under *)
(* them.                                                                   *)
PartsWhole ==
  ~shared =>
    \A i \in Uploaded : \E k \in ChunkSizes : data[file[Part(i)]] = Chunk(i, k)

(* platform.go: CompleteAssetChunkUpload "merges chunks, validates the     *)
(* final checksum, creates the asset": with two complete requests at once, *)
(* too, an asset has the checksum that was asked for.                      *)
CompletedAssetsHaveChecksum == AssetsVerified
=============================================================================
