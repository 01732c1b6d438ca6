--------------------------- MODULE ChunkUploadProofs ---------------------------
(* Theorems about ChunkUpload, for any file, any chunk sizes and any number *)
(* of requests.                                                            *)
EXTENDS ChunkUpload, SequenceTheorems, FiniteSetTheorems, TLAPS

InodeOrNone == Inodes \cup {NoInode}

UpTypes ==
  [pc : {"idle", "create", "copy", "touch"}, idx : Indexes, body : Seq(Blocks),
   ino : InodeOrNone, pos : Nat]
CpTypes ==
  [pc : {"idle", "open", "copy", "reopen", "read"}, size : {1} \cup ChunkSizes, idx : Nat,
   out : InodeOrNone, in : InodeOrNone, pos : Nat, sum : Seq(Blocks)]

(* TypeOK as it is kept: requests are records, and a part is only open     *)
(* while there are parts left.                                             *)
Shapes ==
  /\ dir \in BOOLEAN /\ fresh \in BOOLEAN
  /\ file \in [Names -> InodeOrNone]
  /\ data \in [Inodes -> Seq(Blocks)]
  /\ up \in [Uploaders -> UpTypes]
  /\ cp \in [Completers -> CpTypes]
  /\ rm \in [Removers -> [pc : {"idle", "list", "unlink"}, todo : SUBSET Names]]
  /\ assets \in Seq(Seq(Blocks))
  /\ crashes \in 0..MaxCrashes /\ shared \in BOOLEAN
UpOpen(r) ==
  r.pos <= Len(r.body) /\ (r.ino \in Inodes <=> r.pc = "copy") /\ (r.pc = "create" => r.pos = 0)
CpOpen(r) ==
  /\ r.out \in Inodes <=> r.pc \in {"open", "copy"}
  /\ r.in \in Inodes <=> r.pc \in {"copy", "read"}
  /\ r.idx <= TotalChunks(r.size) /\ (r.pc = "copy" => r.idx < TotalChunks(r.size))
Opens == (\A u \in Uploaders : UpOpen(up[u])) /\ (\A c \in Completers : CpOpen(cp[c]))

(* Who is where on the disk: no two names share an inode; a part request   *)
(* never has the merged file open, and a complete request writes to an     *)
(* inode that is called merged or has no name, and that no part request    *)
(* has open.                                                               *)
Writes(c) == cp[c].pc \in {"open", "copy"}
OneName == \A m, n \in Names : file[m] = file[n] /\ file[m] # NoInode => m = n
PartsApart == \A u \in Uploaders : up[u].pc = "copy" => file[Merged] # up[u].ino
MergedApart ==
  \A c \in Completers : Writes(c) =>
    /\ \A n \in Names : file[n] = cp[c].out => n = Merged
    /\ \A u \in Uploaders : up[u].ino # cp[c].out
Disk == OneName /\ PartsApart /\ MergedApart

(* While no two part requests for one index overlap, the file a request    *)
(* writes has its temporary name or none, the name is its file's or        *)
(* nobody's, nobody else has the file open, and what it holds is what has  *)
(* been received of the chunk.                                             *)
InChunk(u) == up[u].pc \in {"create", "copy"}
Received(u) ==
  LET d == data[up[u].ino] IN
  Len(d) = up[u].pos /\ \A j \in 1..up[u].pos : d[j] = up[u].body[j]
OwnIndex == \A u, v \in Uploaders : InChunk(u) /\ InChunk(v) /\ up[u].idx = up[v].idx => u = v
OwnBody ==
  \A u \in Uploaders : InChunk(u) => \E k \in ChunkSizes : up[u].body = Chunk(up[u].idx, k)
OwnFile ==
  \A u \in Uploaders : up[u].pc = "copy" =>
    /\ \A n \in Names : file[n] = up[u].ino => n = Tmp(up[u].idx)
    /\ file[Tmp(up[u].idx)] \in {NoInode, up[u].ino}
    /\ \A v \in Uploaders : up[v].ino = up[u].ino => u = v
    /\ Received(u)
PartsInv == ~shared => OwnIndex /\ OwnBody /\ OwnFile

(* While there is one complete request at a time, what it has read so far  *)
(* is what merged holds, and what it has verified stays there.             *)
MergedFor(c) ==
  /\ Writes(c) => file[Merged] \in {NoInode, cp[c].out} /\ data[cp[c].out] = cp[c].sum
  /\ cp[c].pc = "reopen" /\ file[Merged] # NoInode => data[file[Merged]] = File
  /\ cp[c].pc = "read" =>
       /\ data[cp[c].in] = File /\ cp[c].pos <= Length
       /\ cp[c].sum = SubSeq(File, 1, cp[c].pos)
       /\ \A n \in Names : file[n] = cp[c].in => n = Merged
       /\ \A u \in Uploaders : up[u].ino # cp[c].in
MergedInv == Cardinality(Completers) = 1 => \A c \in Completers : MergedFor(c)
-----------------------------------------------------------------------------
(* The constants, and the request that is not there.                       *)
LEMMA UploadConstants ==
  /\ Length \in Nat /\ Length >= 1 /\ MaxInodes \in Nat /\ MaxCrashes \in Nat
  /\ \A k \in ChunkSizes : k \in Nat /\ k >= 1
  /\ NoInode \notin Inodes /\ 0 \in Indexes /\ Indexes \subseteq Nat
<1>1. Length \in Nat \ {0} /\ MaxInodes \in Nat /\ MaxCrashes \in Nat
  BY UploadAssumption
<1>2. \A k \in ChunkSizes : k \in Nat \ {0}
  BY UploadAssumption
<1>3. Length >= 1 /\ \A k \in ChunkSizes : k \in Nat /\ k >= 1
  BY <1>1, <1>2
<1>4. NoInode \notin Inodes /\ 0 \in Indexes /\ Indexes \subseteq Nat
  BY <1>1 DEF NoInode, Inodes, Indexes
<1> QED BY <1>1, <1>3, <1>4

(* The names in the directory are different names.                         *)
LEMMA NameFacts ==
  /\ Merged \in Names
  /\ \A i \in Indexes : /\ Tmp(i) \in Names /\ Part(i) \in Names
                        /\ Tmp(i) # Merged /\ Part(i) # Merged
  /\ \A i, j \in Indexes : /\ Tmp(i) # Part(j)
                           /\ Tmp(i) = Tmp(j) => i = j
                           /\ Part(i) = Part(j) => i = j
<1>1. /\ Merged \in Names
      /\ \A i \in Indexes : Tmp(i) \in Names /\ Part(i) \in Names
  BY DEF Names
<1>2. \A i, j \in Indexes : /\ Tmp(i) # Merged /\ Part(i) # Merged /\ Tmp(i) # Part(j)
                            /\ Tmp(i) = Tmp(j) => i = j
                            /\ Part(i) = Part(j) => i = j
  BY DEF Tmp, Part, Merged
<1> QED BY <1>1, <1>2

(* A file has at least one chunk and at most one for each of its blocks.   *)
LEMMA ChunkCount ==
  ASSUME NEW k \in Nat, k >= 1
  PROVE  TotalChunks(k) \in 0..Length
<1>1. Length \in Nat /\ Length >= 1
  BY UploadConstants
<1> DEFINE q == (Length + k - 1) \div k
<1>2. q \in Nat /\ k * q <= Length + k - 1
  BY <1>1
<1>3. k * (Length + 1) = k * Length + k /\ k * Length >= Length
  BY <1>1
<1>4. q >= Length + 1 => k * q >= k * (Length + 1)
  BY <1>1, <1>2
<1>5. q <= Length
  BY <1>1, <1>2, <1>3, <1>4
<1> QED BY <1>1, <1>2, <1>5 DEF TotalChunks

(* The blocks of a file, and of its chunks.                                *)
LEMMA FileFacts ==
  /\ File \in Seq(Blocks) /\ Len(File) = Length /\ DOMAIN File = 1..Length
  /\ \A j \in 1..Length : File[j] = j
<1>1. Length \in Nat
  BY UploadConstants
<1>2. File \in [1..Length -> Blocks] /\ \A j \in 1..Length : File[j] = j
  BY <1>1 DEF File, Blocks
<1>3. File \in Seq(Blocks)
  BY <1>1, <1>2
<1> QED BY <1>1, <1>2, <1>3 DEF File

(* The body of a part request is blocks of the file.                       *)
LEMMA ChunkFacts ==
  ASSUME NEW i \in Indexes, NEW k \in ChunkSizes
  PROVE  Chunk(i, k) \in Seq(Blocks)
<1>1. Length \in Nat /\ i \in Nat /\ k \in Nat
  BY UploadConstants
<1> DEFINE m == k * i + 1
           n == Smaller(k * i + k, Length)
<1>2. k * i \in Nat
  BY <1>1
<1>3. m \in Int /\ n \in Int /\ m >= 1 /\ n <= Length
  BY <1>1, <1>2 DEF Smaller
<1>4. \A j \in m..n : File[j] \in Blocks
  <2> SUFFICES ASSUME NEW j \in m..n PROVE File[j] \in Blocks
    OBVIOUS
  <2>1. j \in 1..Length
    BY <1>1, <1>3
  <2> QED BY <1>1, <2>1, FileFacts DEF Blocks
<1> HIDE DEF m, n
<1>5. SubSeq(File, m, n) \in Seq(Blocks)
  BY <1>3, <1>4, SubSeqProperties
<1> QED BY <1>5 DEF Chunk, m, n

(* A block written at the end of a file is appended to it.                 *)
LEMMA WriteFacts ==
  ASSUME NEW d \in Seq(Blocks), NEW pos \in Nat, NEW b \in Blocks
  PROVE  /\ WriteAt(d, pos, b) \in Seq(Blocks)
         /\ Len(d) = pos => WriteAt(d, pos, b) = Append(d, b)
<1> DEFINE n == IF pos < Len(d) THEN Len(d) ELSE pos + 1
           w == [j \in 1..n |-> IF j = pos + 1 THEN b ELSE IF j <= Len(d) THEN d[j] ELSE Hole]
<1>1. Len(d) \in Nat /\ n \in Nat /\ Length \in Nat
  BY UploadConstants, LenProperties
<1>2. w \in [1..n -> Blocks]
  <2>1. Hole \in Blocks
    BY <1>1 DEF Hole, Blocks
  <2>2. \A j \in 1..Len(d) : d[j] \in Blocks
    BY ElementOfSeq
  <2>3. ASSUME NEW j \in 1..n, j <= Len(d) PROVE j \in 1..Len(d)
    BY <1>1, <2>3
  <2> QED BY <2>1, <2>2, <2>3
<1>3. w \in Seq(Blocks)
  BY <1>1, <1>2
<1>4. ASSUME Len(d) = pos PROVE w = Append(d, b)
  <2>1. Append(d, b) \in Seq(Blocks) /\ Len(Append(d, b)) = pos + 1
    BY <1>4, AppendProperties
  <2>2. n = pos + 1 /\ Len(w) = pos + 1
    BY <1>1, <1>4
  <2>3. \A j \in 1..(pos + 1) : w[j] = Append(d, b)[j]
    BY <1>1, <1>4, <2>2, AppendProperties
  <2> HIDE DEF w
  <2> QED BY <1>3, <2>1, <2>2, <2>3, SeqEqual
<1> QED BY <1>3, <1>4 DEF WriteAt

(* What os.Create opens.                                                   *)
LEMMA CreateFacts ==
  ASSUME Shapes, NEW n \in Names, HasInode(n)
  PROVE  /\ InodeFor(n) \in Inodes
         /\ InodeFor(n) = file[n] \/ (file[n] = NoInode /\ InodeFor(n) \notin Used)
<1>1. file[n] \in Inodes \cup {NoInode}
  BY DEF Shapes, InodeOrNone
<1>2. CASE file[n] # NoInode
  BY <1>1, <1>2 DEF InodeFor
<1>3. CASE file[n] = NoInode
  <2>1. \E x \in Inodes : x \notin Used
    BY <1>3 DEF HasInode
  <2>2. InodeFor(n) = CHOOSE x \in Inodes : x \notin Used
    BY <1>3 DEF InodeFor
  <2> QED BY <1>3, <2>1, <2>2
<1> QED BY <1>2, <1>3

(* What is open or has a name is in use.                                   *)
LEMMA UsedFacts ==
  /\ \A n \in Names : file[n] \in Used
  /\ \A u \in Uploaders : up[u].ino \in Used
  /\ \A c \in Completers : cp[c].out \in Used /\ cp[c].in \in Used
  BY DEF Used

(* What is in use keeps what it was given.                                 *)
LEMMA DataFacts ==
  ASSUME NEW d \in [Inodes -> Seq(Blocks)], SetData(d)
  PROVE  /\ data' \in [Inodes -> Seq(Blocks)]
         /\ \A x \in Inodes : x \in Used' => data'[x] = d[x]
<1>1. <<>> \in Seq(Blocks)
  BY EmptySeq
<1> QED BY <1>1 DEF SetData
-----------------------------------------------------------------------------
(* A request goes on with another record.                                  *)
LEMMA UpSet ==
  ASSUME Shapes, Opens, NEW u \in Uploaders, NEW r \in UpTypes, UpOpen(r), up' = [up EXCEPT ![u] = r]
  PROVE  /\ up' \in [Uploaders -> UpTypes] /\ \A v \in Uploaders : UpOpen(up'[v])
         /\ up'[u] = r /\ \A v \in Uploaders \ {u} : up'[v] = up[v]
  BY DEF Shapes, Opens

(* The same for a complete request.                                        *)
LEMMA CpSet ==
  ASSUME Shapes, Opens, NEW c \in Completers, NEW r \in CpTypes, CpOpen(r), cp' = [cp EXCEPT ![c] = r]
  PROVE  /\ cp' \in [Completers -> CpTypes] /\ \A v \in Completers : CpOpen(cp'[v])
         /\ cp'[c] = r /\ \A v \in Completers \ {c} : cp'[v] = cp[v]
  BY DEF Shapes, Opens

(* Requests that have not begun.                                           *)
LEMMA IdleFacts ==
  /\ IdleUp \in UpTypes /\ UpOpen(IdleUp)
  /\ [IdleUp EXCEPT !.pc = "touch"] \in UpTypes /\ UpOpen([IdleUp EXCEPT !.pc = "touch"])
  /\ IdleCp \in CpTypes /\ CpOpen(IdleCp)
<1>1. <<>> \in Seq(Blocks) /\ Len(<<>>) = 0 /\ NoInode \notin Inodes /\ 0 \in Indexes
  BY EmptySeq, UploadConstants
<1>2. NoInode \in InodeOrNone
  BY DEF InodeOrNone
<1>3. 0 <= TotalChunks(1)
  BY ChunkCount
<1>4. IdleUp \in UpTypes /\ [IdleUp EXCEPT !.pc = "touch"] \in UpTypes /\ IdleCp \in CpTypes
  BY <1>1, <1>2 DEF IdleUp, IdleCp, UpTypes, CpTypes
<1>5. UpOpen(IdleUp) /\ UpOpen([IdleUp EXCEPT !.pc = "touch"])
  BY <1>1 DEF IdleUp, UpOpen
<1>6. CpOpen(IdleCp)
  BY <1>1, <1>3 DEF IdleCp, CpOpen
<1> QED BY <1>4, <1>5, <1>6

(* The steps of a part request, by what they leave of it.                  *)
LEMMA PartTypes ==
  ASSUME Shapes, Opens, NEW u \in Uploaders, PartStep(u)
  PROVE  /\ up' \in [Uploaders -> UpTypes] /\ \A v \in Uploaders : UpOpen(up'[v])
         /\ file' \in [Names -> InodeOrNone] /\ data' \in [Inodes -> Seq(Blocks)]
         /\ dir' \in BOOLEAN /\ fresh' \in BOOLEAN /\ shared' \in BOOLEAN
         /\ UNCHANGED <<cp, rm, assets, crashes>>
<1>0. /\ up[u] \in UpTypes /\ up[u].idx \in Indexes /\ up[u].body \in Seq(Blocks) /\ up[u].pos \in Nat
      /\ file \in [Names -> InodeOrNone] /\ data \in [Inodes -> Seq(Blocks)]
      /\ dir \in BOOLEAN /\ fresh \in BOOLEAN /\ shared \in BOOLEAN
      /\ up \in [Uploaders -> UpTypes] /\ UpOpen(up[u])
  BY DEF Shapes, Opens, UpTypes
<1>n. Tmp(up[u].idx) \in Names /\ Part(up[u].idx) \in Names /\ NoInode \in InodeOrNone
  BY <1>0, NameFacts DEF InodeOrNone
<1>1. ASSUME NEW i \in Indexes, NEW k \in ChunkSizes, PartMkdir(u, i, k)
      PROVE  up' \in [Uploaders -> UpTypes] /\ \A v \in Uploaders : UpOpen(up'[v])
  <2> DEFINE r == [IdleUp EXCEPT !.pc = "create", !.idx = i, !.body = Chunk(i, k)]
  <2>1. Chunk(i, k) \in Seq(Blocks) /\ Len(Chunk(i, k)) \in Nat
    BY ChunkFacts, LenProperties
  <2>2. r \in UpTypes
    BY <2>1, IdleFacts DEF UpTypes, IdleUp
  <2>3. UpOpen(r)
    BY <2>1, UploadConstants DEF UpOpen, IdleUp
  <2>4. up' = [up EXCEPT ![u] = r]
    BY <1>1 DEF PartMkdir
  <2> QED BY <2>2, <2>3, <2>4, UpSet
<1>2. ASSUME PartCreate(u), dir
      PROVE  /\ up' \in [Uploaders -> UpTypes] /\ \A v \in Uploaders : UpOpen(up'[v])
             /\ file' \in [Names -> InodeOrNone] /\ data' \in [Inodes -> Seq(Blocks)]
  <2> DEFINE n == Tmp(up[u].idx)
             r == [up[u] EXCEPT !.pc = "copy", !.ino = InodeFor(n)]
  <2>1. InodeFor(n) \in Inodes
    BY <1>2, <1>n, CreateFacts DEF PartCreate
  <2>2. up' = [up EXCEPT ![u] = r]
    BY <1>0, <1>2 DEF PartCreate
  <2>3. r \in UpTypes
    BY <1>0, <2>1 DEF UpTypes, InodeOrNone
  <2>4. UpOpen(r)
    BY <1>0, <2>1 DEF UpOpen, UpTypes
  <2>5. file' \in [Names -> InodeOrNone]
    BY <1>0, <1>2, <2>1 DEF PartCreate, InodeOrNone
  <2>6. [data EXCEPT ![InodeFor(n)] = <<>>] \in [Inodes -> Seq(Blocks)]
    BY <1>0, EmptySeq
  <2>7. data' \in [Inodes -> Seq(Blocks)]
    BY <1>2, <2>6, DataFacts DEF PartCreate
  <2> QED BY <2>2, <2>3, <2>4, <2>5, <2>7, UpSet
<1>3. ASSUME PartCopy(u)
      PROVE  /\ up' \in [Uploaders -> UpTypes] /\ \A v \in Uploaders : UpOpen(up'[v])
             /\ data' \in [Inodes -> Seq(Blocks)]
  <2> DEFINE r == [up[u] EXCEPT !.pos = @ + 1]
             b == up[u].body[up[u].pos + 1]
             d == WriteAt(data[up[u].ino], up[u].pos, b)
  <2>0. up[u].pc = "copy" /\ up[u].pos < Len(up[u].body) /\ up[u].ino \in Inodes /\ Len(up[u].body) \in Nat
    BY <1>0, <1>3, LenProperties DEF PartCopy, UpOpen
  <2>1. up' = [up EXCEPT ![u] = r]
    BY <1>0, <1>3 DEF PartCopy
  <2>p. up[u].pos + 1 \in Nat
    BY <1>0
  <2>2. r \in UpTypes
    BY <1>0, <2>p DEF UpTypes
  <2>3. UpOpen(r)
    BY <1>0, <2>0 DEF UpOpen, UpTypes
  <2>4. up[u].pos + 1 \in 1..Len(up[u].body)
    BY <1>0, <2>0
  <2>5. b \in Blocks
    BY <1>0, <2>4, ElementOfSeq
  <2>6. d \in Seq(Blocks)
    BY <1>0, <2>0, <2>5, WriteFacts
  <2>7. [data EXCEPT ![up[u].ino] = d] \in [Inodes -> Seq(Blocks)]
    BY <1>0, <2>6
  <2>8. SetData([data EXCEPT ![up[u].ino] = d])
    BY <1>3 DEF PartCopy
  <2>9. data' \in [Inodes -> Seq(Blocks)]
    BY <2>7, <2>8, DataFacts
  <2> QED BY <2>1, <2>2, <2>3, <2>9, UpSet
<1>4. ASSUME PartBreak(u) \/ PartRename(u)
      PROVE  /\ up' \in [Uploaders -> UpTypes] /\ \A v \in Uploaders : UpOpen(up'[v])
             /\ file' \in [Names -> InodeOrNone] /\ data' \in [Inodes -> Seq(Blocks)]
  <2>1. file' \in [Names -> InodeOrNone]
    BY <1>0, <1>4, <1>n DEF PartBreak, PartRename
  <2>2. data' \in [Inodes -> Seq(Blocks)]
    BY <1>0, <1>4, DataFacts DEF PartBreak, PartRename
  <2>3. \/ up' = [up EXCEPT ![u] = IdleUp]
        \/ up' = [up EXCEPT ![u] = [IdleUp EXCEPT !.pc = "touch"]]
    BY <1>4 DEF PartBreak, PartRename
  <2> QED BY <2>1, <2>2, <2>3, IdleFacts, UpSet
<1>5. ASSUME up' = [up EXCEPT ![u] = IdleUp]
      PROVE  up' \in [Uploaders -> UpTypes] /\ \A v \in Uploaders : UpOpen(up'[v])
  BY <1>5, IdleFacts, UpSet
<1>6. CASE \E i \in Indexes, k \in ChunkSizes : PartMkdir(u, i, k)
  BY <1>0, <1>1, <1>6 DEF PartMkdir
<1>7. CASE PartCreate(u)
  <2>1. CASE dir
    BY <1>0, <1>2, <1>7, <2>1 DEF PartCreate
  <2>2. CASE ~dir
    BY <1>0, <1>5, <1>7, <2>2 DEF PartCreate
  <2> QED BY <2>1, <2>2
<1>8. CASE PartCopy(u)
  BY <1>0, <1>3, <1>8 DEF PartCopy
<1>9. CASE PartBreak(u) \/ PartRename(u)
  BY <1>0, <1>4, <1>9 DEF PartBreak, PartRename
<1>10. CASE PartTouch(u)
  BY <1>0, <1>5, <1>10 DEF PartTouch
<1> QED BY <1>6, <1>7, <1>8, <1>9, <1>10 DEF PartStep

(* The steps of a complete request.                                        *)
LEMMA CompleteTypes ==
  ASSUME Shapes, Opens, NEW c \in Completers, CompleteStep(c)
  PROVE  /\ cp' \in [Completers -> CpTypes] /\ \A v \in Completers : CpOpen(cp'[v])
         /\ file' \in [Names -> InodeOrNone] /\ data' \in [Inodes -> Seq(Blocks)]
         /\ fresh' \in BOOLEAN /\ assets' \in Seq(Seq(Blocks))
         /\ rm' \in [Removers -> [pc : {"idle", "list", "unlink"}, todo : SUBSET Names]]
         /\ UNCHANGED <<dir, up, crashes, shared>>
<1> DEFINE Cps == cp' \in [Completers -> CpTypes] /\ \A v \in Completers : CpOpen(cp'[v])
           Rms == [Removers -> [pc : {"idle", "list", "unlink"}, todo : SUBSET Names]]
<1>0. /\ file \in [Names -> InodeOrNone] /\ data \in [Inodes -> Seq(Blocks)] /\ fresh \in BOOLEAN
      /\ assets \in Seq(Seq(Blocks)) /\ rm \in Rms /\ cp \in [Completers -> CpTypes]
  BY DEF Shapes
<1>1. /\ cp[c] \in CpTypes /\ CpOpen(cp[c])
      /\ cp[c].idx \in Nat /\ cp[c].pos \in Nat /\ cp[c].sum \in Seq(Blocks)
      /\ cp[c].size \in {1} \cup ChunkSizes /\ cp[c].out \in InodeOrNone /\ cp[c].in \in InodeOrNone
      /\ cp[c].pc \in {"idle", "open", "copy", "reopen", "read"}
  BY DEF Shapes, Opens, CpTypes
<1>2. cp[c].size \in Nat /\ cp[c].size >= 1 /\ TotalChunks(cp[c].size) \in 0..Length /\ Length \in Nat
  BY <1>1, UploadConstants, ChunkCount
<1>n. Merged \in Names /\ NoInode \in InodeOrNone /\ NoInode \notin Inodes
  BY NameFacts, UploadConstants DEF InodeOrNone
<1>i. ASSUME cp' = [cp EXCEPT ![c] = IdleCp] PROVE Cps
  BY <1>i, IdleFacts, CpSet
<1>d. ASSUME SetData(data) PROVE data' \in [Inodes -> Seq(Blocks)]
  BY <1>0, <1>d, DataFacts
<1>g. ASSUME GiveUp(c)
      PROVE  Cps /\ file' \in [Names -> InodeOrNone] /\ data' \in [Inodes -> Seq(Blocks)] /\ fresh' \in BOOLEAN
  BY <1>0, <1>d, <1>g, <1>i, <1>n DEF GiveUp
<1>b. ASSUME NEW ino \in Inodes, NextBlock(ino, cp[c].pos) # <<>>
      PROVE  /\ NextBlock(ino, cp[c].pos) \in Seq(Blocks) /\ NextBlock(ino, cp[c].pos)[1] \in Blocks
             /\ cp[c].sum \o NextBlock(ino, cp[c].pos) \in Seq(Blocks)
  <2>1. data[ino] \in Seq(Blocks) /\ cp[c].pos < Len(data[ino])
    BY <1>0, <1>b DEF NextBlock
  <2>2. Len(data[ino]) \in Nat
    BY <2>1, LenProperties
  <2>3. cp[c].pos + 1 \in 1..Len(data[ino])
    BY <1>1, <2>1, <2>2
  <2>4. data[ino][cp[c].pos + 1] \in Blocks
    BY <2>1, <2>3, ElementOfSeq
  <2>5. NextBlock(ino, cp[c].pos) = <<data[ino][cp[c].pos + 1]>>
    BY <2>1 DEF NextBlock
  <2>6. NextBlock(ino, cp[c].pos) \in Seq(Blocks) /\ NextBlock(ino, cp[c].pos)[1] \in Blocks
    BY <2>4, <2>5
  <2> QED BY <1>1, <2>6, ConcatProperties
<1>3. ASSUME NEW k \in ChunkSizes, CompleteCreate(c, k)
      PROVE  Cps /\ file' \in [Names -> InodeOrNone] /\ data' \in [Inodes -> Seq(Blocks)] /\ fresh' \in BOOLEAN
  <2> DEFINE r == [IdleCp EXCEPT !.pc = "open", !.size = k, !.out = InodeFor(Merged)]
  <2>1. InodeFor(Merged) \in Inodes
    BY <1>3, <1>n, CreateFacts DEF CompleteCreate
  <2>2. r \in CpTypes
    BY <2>1, IdleFacts DEF CpTypes, IdleCp, InodeOrNone
  <2>3. 0 <= TotalChunks(k)
    BY UploadConstants, ChunkCount
  <2>4. CpOpen(r)
    BY <1>n, <2>1, <2>3 DEF CpOpen, IdleCp
  <2>5. cp' = [cp EXCEPT ![c] = r]
    BY <1>3 DEF CompleteCreate
  <2>6. Cps
    BY <2>2, <2>4, <2>5, CpSet
  <2>7. file' \in [Names -> InodeOrNone] /\ fresh' \in BOOLEAN
    BY <1>0, <1>3, <2>1 DEF CompleteCreate, InodeOrNone
  <2>8. [data EXCEPT ![InodeFor(Merged)] = <<>>] \in [Inodes -> Seq(Blocks)]
    BY <1>0, EmptySeq
  <2>9. data' \in [Inodes -> Seq(Blocks)]
    BY <1>3, <2>8, DataFacts DEF CompleteCreate
  <2> QED BY <2>6, <2>7, <2>9
<1>4. ASSUME CompleteOpen(c), file[Part(cp[c].idx)] # NoInode PROVE Cps
  <2> DEFINE r == [cp[c] EXCEPT !.pc = "copy", !.in = file[Part(cp[c].idx)], !.pos = 0]
  <2>0. cp[c].pc = "open" /\ cp[c].idx < TotalChunks(cp[c].size)
    BY <1>4 DEF CompleteOpen
  <2>1. cp[c].idx \in Indexes
    BY <1>1, <1>2, <2>0 DEF Indexes
  <2>2. file[Part(cp[c].idx)] \in Inodes
    BY <1>0, <1>4, <2>1, NameFacts DEF InodeOrNone
  <2>3. cp' = [cp EXCEPT ![c] = r]
    BY <1>0, <1>4 DEF CompleteOpen
  <2>4. r \in CpTypes
    BY <1>1, <2>2 DEF CpTypes, InodeOrNone
  <2>5. CpOpen(r)
    BY <1>1, <1>2, <2>0, <2>2 DEF CpOpen, CpTypes
  <2> QED BY <2>3, <2>4, <2>5, CpSet
<1>5. ASSUME CompleteCopy(c) PROVE Cps /\ data' \in [Inodes -> Seq(Blocks)]
  <2> DEFINE b == NextBlock(cp[c].in, cp[c].pos)
  <2>0. cp[c].pc = "copy" /\ cp[c].in \in Inodes /\ cp[c].out \in Inodes /\ cp[c].idx < TotalChunks(cp[c].size)
    BY <1>1, <1>5 DEF CompleteCopy, CpOpen
  <2>1. CASE b # <<>>
    <3> DEFINE r == [cp[c] EXCEPT !.pos = @ + 1, !.sum = @ \o b]
               d == WriteAt(data[cp[c].out], Len(cp[c].sum), b[1])
    <3>1. b[1] \in Blocks /\ cp[c].sum \o b \in Seq(Blocks) /\ Len(cp[c].sum) \in Nat /\ cp[c].pos + 1 \in Nat
      BY <1>1, <1>b, <2>0, <2>1, LenProperties
    <3>2. cp' = [cp EXCEPT ![c] = r]
      BY <1>0, <1>5, <2>1 DEF CompleteCopy
    <3>3. r \in CpTypes
      BY <1>1, <3>1 DEF CpTypes
    <3>4. CpOpen(r)
      BY <1>1, <2>0 DEF CpOpen, CpTypes
    <3>5. d \in Seq(Blocks)
      BY <1>0, <2>0, <3>1, WriteFacts
    <3>6. SetData([data EXCEPT ![cp[c].out] = d])
      BY <1>5, <2>1 DEF CompleteCopy
    <3>7. [data EXCEPT ![cp[c].out] = d] \in [Inodes -> Seq(Blocks)]
      BY <1>0, <3>5
    <3>8. data' \in [Inodes -> Seq(Blocks)]
      BY <3>6, <3>7, DataFacts
    <3> QED BY <3>2, <3>3, <3>4, <3>8, CpSet
  <2>2. CASE b = <<>>
    <3> DEFINE r == [cp[c] EXCEPT !.pc = "open", !.in = NoInode, !.pos = 0, !.idx = @ + 1]
    <3>1. cp' = [cp EXCEPT ![c] = r] /\ SetData(data)
      BY <1>0, <1>5, <2>2 DEF CompleteCopy
    <3>2. cp[c].idx + 1 \in Nat /\ cp[c].idx + 1 <= TotalChunks(cp[c].size)
      BY <1>1, <1>2, <2>0
    <3>3. r \in CpTypes
      BY <1>1, <1>n, <3>2 DEF CpTypes
    <3>4. CpOpen(r)
      BY <1>1, <1>n, <2>0, <3>2 DEF CpOpen, CpTypes
    <3> QED BY <1>d, <3>1, <3>3, <3>4, CpSet
  <2> QED BY <2>1, <2>2
<1>6. ASSUME cp' = [cp EXCEPT ![c] = [IdleCp EXCEPT !.pc = "reopen"]] PROVE Cps
  <2>1. [IdleCp EXCEPT !.pc = "reopen"] \in CpTypes
    BY IdleFacts DEF CpTypes, IdleCp
  <2>2. CpOpen([IdleCp EXCEPT !.pc = "reopen"])
    BY <1>n, IdleFacts DEF CpOpen, IdleCp
  <2> QED BY <1>6, <2>1, <2>2, CpSet
<1>7. ASSUME CompleteReopen(c), file[Merged] # NoInode PROVE Cps
  <2> DEFINE r == [IdleCp EXCEPT !.pc = "read", !.in = file[Merged]]
  <2>1. file[Merged] \in Inodes
    BY <1>0, <1>7, <1>n DEF InodeOrNone
  <2>2. r \in CpTypes
    BY <2>1, IdleFacts DEF CpTypes, IdleCp, InodeOrNone
  <2>3. CpOpen(r)
    BY <1>n, <2>1, IdleFacts DEF CpOpen, IdleCp
  <2>4. cp' = [cp EXCEPT ![c] = r]
    BY <1>7 DEF CompleteReopen
  <2> QED BY <2>2, <2>3, <2>4, CpSet
<1>8. ASSUME CompleteRead(c) PROVE Cps
  <2> DEFINE b == NextBlock(cp[c].in, cp[c].pos)
             r == [cp[c] EXCEPT !.pos = @ + 1, !.sum = @ \o b]
  <2>1. cp[c].pc = "read" /\ cp[c].in \in Inodes
    BY <1>1, <1>8 DEF CompleteRead, CpOpen
  <2>2. cp[c].sum \o b \in Seq(Blocks) /\ cp[c].pos + 1 \in Nat
    BY <1>1, <1>8, <1>b, <2>1 DEF CompleteRead
  <2>3. r \in CpTypes
    BY <1>1, <2>2 DEF CpTypes
  <2>4. CpOpen(r)
    BY <1>1, <2>1 DEF CpOpen, CpTypes
  <2>5. cp' = [cp EXCEPT ![c] = r]
    BY <1>0, <1>8 DEF CompleteRead
  <2> QED BY <2>3, <2>4, <2>5, CpSet
<1>9. CASE \E k \in ChunkSizes : CompleteCreate(c, k)
  BY <1>0, <1>3, <1>9 DEF CompleteCreate
<1>10. CASE CompleteOpen(c)
  BY <1>0, <1>4, <1>10, <1>g DEF CompleteOpen
<1>11. CASE CompleteCopy(c)
  BY <1>0, <1>5, <1>11 DEF CompleteCopy
<1>12. CASE CompleteBreak(c) \/ CompleteCheck(c)
  <2>1. CASE GiveUp(c)
    BY <1>0, <1>12, <1>g, <2>1 DEF CompleteBreak, CompleteCheck
  <2>2. CASE /\ cp' = [cp EXCEPT ![c] = [IdleCp EXCEPT !.pc = "reopen"]] /\ UNCHANGED <<fresh, file>>
             /\ SetData(data)
    BY <1>0, <1>6, <1>12, <1>d, <2>2 DEF CompleteBreak, CompleteCheck
  <2> QED BY <1>12, <2>1, <2>2 DEF CompleteBreak, CompleteCheck
<1>13. CASE CompleteReopen(c)
  <2>1. CASE file[Merged] # NoInode
    BY <1>0, <1>7, <1>13, <2>1 DEF CompleteReopen
  <2>2. CASE file[Merged] = NoInode
    BY <1>0, <1>13, <1>i, <2>2 DEF CompleteReopen
  <2> QED BY <2>1, <2>2
<1>14. CASE CompleteRead(c)
  BY <1>0, <1>8, <1>14 DEF CompleteRead
<1>15. CASE CompleteAsset(c)
  <2>1. RemoveAll \in [pc : {"idle", "list", "unlink"}, todo : SUBSET Names]
    BY DEF RemoveAll
  <2>2. rm' \in Rms
    BY <1>0, <1>15, <2>1 DEF CompleteAsset
  <2>3. assets' \in Seq(Seq(Blocks))
    BY <1>0, <1>1, <1>15, AppendProperties DEF CompleteAsset
  <2> QED BY <1>0, <1>15, <1>d, <1>i, <2>2, <2>3 DEF CompleteAsset
<1>16. CASE CompleteFail(c)
  BY <1>0, <1>16, <1>d, <1>i DEF CompleteFail
<1> QED BY <1>9, <1>10, <1>11, <1>12, <1>13, <1>14, <1>15, <1>16 DEF CompleteStep

(* Every step keeps the types, and keeps open what is written or read.     *)
LEMMA ShapesStep ==
  ASSUME Shapes, Opens, [Next]_vars
  PROVE  Shapes' /\ Opens'
<1> DEFINE Rms == [Removers -> [pc : {"idle", "list", "unlink"}, todo : SUBSET Names]]
<1>1. ASSUME NEW u \in Uploaders, PartStep(u) PROVE Shapes' /\ Opens'
  BY <1>1, PartTypes DEF Shapes, Opens
<1>2. ASSUME NEW c \in Completers, CompleteStep(c) PROVE Shapes' /\ Opens'
  BY <1>2, CompleteTypes DEF Shapes, Opens
<1>3. CASE RemoveStep
  <2>0. rm \in Rms /\ file \in [Names -> InodeOrNone] /\ data \in [Inodes -> Seq(Blocks)]
        /\ dir \in BOOLEAN /\ fresh \in BOOLEAN /\ NoInode \in InodeOrNone
    BY DEF Shapes, InodeOrNone
  <2>1. IdleRm \in [pc : {"idle", "list", "unlink"}, todo : SUBSET Names]
        /\ RemoveAll \in [pc : {"idle", "list", "unlink"}, todo : SUBSET Names]
        /\ [pc |-> "unlink", todo |-> Present] \in [pc : {"idle", "list", "unlink"}, todo : SUBSET Names]
    BY DEF IdleRm, RemoveAll, Present
  <2>2. ASSUME NEW r \in Removers, CancelStart(r) \/ ListNames(r)
        PROVE  rm' \in Rms
    BY <2>0, <2>1, <2>2 DEF CancelStart, ListNames
  <2>3. CASE CleanupStart
    BY <2>0, <2>1, <2>3 DEF CleanupStart, Shapes, Opens
  <2>4. ASSUME NEW r \in Removers, CancelStart(r) \/ ListNames(r)
        PROVE  Shapes' /\ Opens'
    BY <2>2, <2>4 DEF CancelStart, ListNames, Shapes, Opens
  <2>5. ASSUME NEW r \in Removers, Rmdir(r) PROVE Shapes' /\ Opens'
    <3>0. \A x \in Removers :
            [rm[x] EXCEPT !.todo = {}] \in [pc : {"idle", "list", "unlink"}, todo : SUBSET Names]
      BY <2>0
    <3> DEFINE T == [pc : {"idle", "list", "unlink"}, todo : SUBSET Names]
               g(x) == IF x = r THEN IdleRm ELSE [rm[x] EXCEPT !.todo = {}]
    <3>a. (\A x \in Removers : g(x) \in T) /\ IdleRm \in T /\ rm \in [Removers -> T]
      BY <2>0, <2>1, <3>0
    <3>b. rm' = [x \in Removers |-> g(x)] \/ rm' = [rm EXCEPT ![r] = IdleRm]
      BY <2>5 DEF Rmdir
    <3>c. rm' \in [Removers -> T]
      <4> HIDE DEF T, g
      <4> QED BY <3>a, <3>b
    <3>1. rm' \in Rms
      BY <3>c
    <3> QED BY <2>0, <2>5, <3>1 DEF Rmdir, Shapes, Opens
  <2>6. ASSUME NEW r \in Removers, NEW n \in Names, Unlink(r, n) PROVE Shapes' /\ Opens'
    <3>1. rm' \in Rms
      BY <2>0, <2>6 DEF Unlink
    <3>2. file' \in [Names -> InodeOrNone] /\ fresh' \in BOOLEAN
      BY <2>0, <2>6 DEF Unlink
    <3>3. data' \in [Inodes -> Seq(Blocks)]
      BY <2>0, <2>6, DataFacts DEF Unlink
    <3> QED BY <2>6, <3>1, <3>2, <3>3 DEF Unlink, Shapes, Opens
  <2>7. Cancelers \subseteq Removers
    BY DEF Removers
  <2> QED BY <1>3, <2>3, <2>4, <2>5, <2>6, <2>7 DEF RemoveStep
<1>4. CASE ChunkUploadInit \/ Expire \/ UNCHANGED vars
  BY <1>4 DEF ChunkUploadInit, Expire, vars, Shapes, Opens
<1>5. CASE Crash
  <2>1. IdleRm \in [pc : {"idle", "list", "unlink"}, todo : SUBSET Names]
    BY DEF IdleRm
  <2>2. rm' \in Rms /\ up' \in [Uploaders -> UpTypes] /\ cp' \in [Completers -> CpTypes]
    BY <1>5, <2>1, IdleFacts DEF Crash
  <2>3. Opens'
    BY <1>5, IdleFacts DEF Crash, Opens
  <2>4. data' \in [Inodes -> Seq(Blocks)]
    BY <1>5, DataFacts DEF Crash, Shapes
  <2>5. crashes' \in 0..MaxCrashes
    BY <1>5, UploadConstants DEF Crash, Shapes
  <2> QED BY <1>5, <2>2, <2>3, <2>4, <2>5 DEF Crash, Shapes
<1> QED BY <1>1, <1>2, <1>3, <1>4, <1>5 DEF Next
-----------------------------------------------------------------------------
(* A step that gives no name to an inode and opens no file for writing.    *)
LEMMA DiskElsewhere ==
  ASSUME Shapes, Opens', Disk,
         \A n \in Names : file'[n] \in {file[n], NoInode},
         \A u \in Uploaders : up'[u].pc = "copy" => up[u].pc = "copy" /\ up'[u].ino = up[u].ino,
         \A c \in Completers : Writes(c)' => Writes(c) /\ cp'[c].out = cp[c].out
  PROVE  Disk'
<1>0. NoInode \notin Inodes /\ Merged \in Names
  BY UploadConstants, NameFacts
<1>o. /\ \A u \in Uploaders : up'[u].ino \in Inodes <=> up'[u].pc = "copy"
      /\ \A c \in Completers : Writes(c)' => cp'[c].out \in Inodes
  BY DEF Opens, UpOpen, CpOpen, Writes
<1>1. OneName'
  BY DEF Disk, OneName
<1>2. PartsApart'
  BY <1>0, <1>o DEF Disk, PartsApart
<1>3. MergedApart'
  <2> SUFFICES ASSUME NEW c \in Completers, Writes(c)'
               PROVE  /\ \A n \in Names : file'[n] = cp'[c].out => n = Merged
                      /\ \A u \in Uploaders : up'[u].ino # cp'[c].out
    BY DEF MergedApart
  <2>1. Writes(c) /\ cp'[c].out = cp[c].out /\ cp'[c].out \in Inodes
    BY <1>o
  <2>2. /\ \A n \in Names : file[n] = cp[c].out => n = Merged
        /\ \A u \in Uploaders : up[u].ino # cp[c].out
    BY <2>1 DEF Disk, MergedApart
  <2>3. \A n \in Names : file'[n] = cp'[c].out => n = Merged
    BY <1>0, <2>1, <2>2
  <2>4. \A u \in Uploaders : up'[u].ino # cp'[c].out
    BY <1>o, <2>1, <2>2
  <2> QED BY <2>3, <2>4
<1> QED BY <1>1, <1>2, <1>3 DEF Disk

(* The inode that is created for a name is no other name's, and no         *)
(* request has it open that does not work under that name.                 *)
LEMMA CreateApart ==
  ASSUME Shapes, Opens, Disk, NEW n \in Names, HasInode(n)
  PROVE  /\ InodeFor(n) \in Inodes
         /\ \A m \in Names : file[m] = InodeFor(n) => m = n
         /\ n # Merged => \A c \in Completers : Writes(c) => cp[c].out # InodeFor(n)
         /\ n = Merged => \A u \in Uploaders : up[u].ino # InodeFor(n)
<1>1. /\ InodeFor(n) \in Inodes
      /\ InodeFor(n) = file[n] \/ (file[n] = NoInode /\ InodeFor(n) \notin Used)
  BY CreateFacts
<1>2. NoInode \notin Inodes
  BY UploadConstants
<1>3. \A m \in Names : file[m] = InodeFor(n) => m = n
  BY <1>1, <1>2, UsedFacts DEF Disk, OneName
<1>4. ASSUME n # Merged, NEW c \in Completers, Writes(c) PROVE cp[c].out # InodeFor(n)
  BY <1>1, <1>4, UsedFacts DEF Disk, MergedApart
<1>5. ASSUME n = Merged, NEW u \in Uploaders PROVE up[u].ino # InodeFor(n)
  <2>1. up[u].pc # "copy" => up[u].ino \notin Inodes
    BY DEF Opens, UpOpen
  <2>2. up[u].pc = "copy" => file[Merged] # up[u].ino
    BY DEF Disk, PartsApart
  <2> QED BY <1>1, <1>5, <2>1, <2>2, UsedFacts
<1> QED BY <1>1, <1>3, <1>4, <1>5

(* The temporary file is created or emptied.                               *)
LEMMA PartCreateFacts ==
  ASSUME Shapes, Opens, NEW u \in Uploaders, PartCreate(u), dir
  PROVE  /\ Tmp(up[u].idx) \in Names /\ HasInode(Tmp(up[u].idx))
         /\ \A m \in Names : file'[m] = IF m = Tmp(up[u].idx) THEN InodeFor(m) ELSE file[m]
         /\ up'[u].pc = "copy" /\ up'[u].ino = InodeFor(Tmp(up[u].idx))
         /\ up'[u].idx = up[u].idx /\ up'[u].body = up[u].body /\ up'[u].pos = 0
         /\ \A v \in Uploaders \ {u} : up'[v] = up[v]
         /\ \A x \in Inodes : x \in Used' =>
              data'[x] = IF x = InodeFor(Tmp(up[u].idx)) THEN <<>> ELSE data[x]
<1> DEFINE n == Tmp(up[u].idx)
<1>0. /\ up \in [Uploaders -> UpTypes] /\ up[u].idx \in Indexes
      /\ file \in [Names -> InodeOrNone] /\ data \in [Inodes -> Seq(Blocks)]
  BY DEF Shapes, UpTypes
<1>1. n \in Names /\ HasInode(n)
  BY <1>0, NameFacts DEF PartCreate
<1>2. up'= [up EXCEPT ![u] = [up[u] EXCEPT !.pc = "copy", !.ino = InodeFor(n)]]
  BY <1>0 DEF PartCreate
<1>3. up[u].pc = "create" /\ up[u].pos = 0
  BY DEF PartCreate, Opens, UpOpen
<1>4. up'[u] = [up[u] EXCEPT !.pc = "copy", !.ino = InodeFor(n)] /\ \A v \in Uploaders \ {u} : up'[v] = up[v]
  BY <1>0, <1>2
<1>5. up'[u].pc = "copy" /\ up'[u].ino = InodeFor(n)
      /\ up'[u].idx = up[u].idx /\ up'[u].body = up[u].body /\ up'[u].pos = 0
  BY <1>0, <1>3, <1>4 DEF UpTypes
<1>6. \A m \in Names : file'[m] = IF m = n THEN InodeFor(m) ELSE file[m]
  BY <1>0 DEF PartCreate
<1>7. [data EXCEPT ![InodeFor(n)] = <<>>] \in [Inodes -> Seq(Blocks)] /\ SetData([data EXCEPT ![InodeFor(n)] = <<>>])
  BY <1>0, EmptySeq DEF PartCreate
<1>8. \A x \in Inodes : x \in Used' => data'[x] = [data EXCEPT ![InodeFor(n)] = <<>>][x]
  BY <1>7, DataFacts
<1>9. \A x \in Inodes : [data EXCEPT ![InodeFor(n)] = <<>>][x] = IF x = InodeFor(n) THEN <<>> ELSE data[x]
  BY <1>0
<1> QED BY <1>1, <1>4, <1>5, <1>6, <1>8, <1>9

(* The rename of a temporary name that is there.                           *)
LEMMA PartRenameFacts ==
  ASSUME Shapes, NEW u \in Uploaders, PartRename(u), file[Tmp(up[u].idx)] # NoInode
  PROVE  /\ \A m \in Names : file'[m] = IF m = Part(up[u].idx) THEN file[Tmp(up[u].idx)]
                                        ELSE IF m = Tmp(up[u].idx) THEN NoInode ELSE file[m]
         /\ up'[u].pc = "touch" /\ up'[u].ino = NoInode
         /\ \A v \in Uploaders \ {u} : up'[v] = up[v]
         /\ \A x \in Inodes : x \in Used' => data'[x] = data[x]
<1>0. /\ up \in [Uploaders -> UpTypes] /\ up[u].idx \in Indexes
      /\ file \in [Names -> InodeOrNone] /\ data \in [Inodes -> Seq(Blocks)]
  BY DEF Shapes, UpTypes
<1>1. Tmp(up[u].idx) \in Names /\ Part(up[u].idx) \in Names /\ Tmp(up[u].idx) # Part(up[u].idx)
  BY <1>0, NameFacts
<1>2. up'[u] = [IdleUp EXCEPT !.pc = "touch"] /\ \A v \in Uploaders \ {u} : up'[v] = up[v]
  BY <1>0 DEF PartRename
<1>3. up'[u].pc = "touch" /\ up'[u].ino = NoInode
  BY <1>2 DEF IdleUp
<1>4. \A m \in Names : file'[m] = IF m = Part(up[u].idx) THEN file[Tmp(up[u].idx)]
                                  ELSE IF m = Tmp(up[u].idx) THEN NoInode ELSE file[m]
  BY <1>0, <1>1 DEF PartRename
<1>5. \A x \in Inodes : x \in Used' => data'[x] = data[x]
  BY <1>0, DataFacts DEF PartRename
<1> QED BY <1>2, <1>3, <1>4, <1>5

(* The first step of a complete request.                                   *)
LEMMA CompleteCreateFacts ==
  ASSUME Shapes, NEW c \in Completers, NEW k \in ChunkSizes, CompleteCreate(c, k)
  PROVE  /\ HasInode(Merged)
         /\ \A m \in Names : file'[m] = IF m = Merged THEN InodeFor(Merged) ELSE file[m]
         /\ cp'[c].pc = "open" /\ cp'[c].out = InodeFor(Merged) /\ cp'[c].sum = <<>>
         /\ \A e \in Completers \ {c} : cp'[e] = cp[e]
         /\ up' = up
         /\ \A x \in Inodes : x \in Used' => data'[x] = IF x = InodeFor(Merged) THEN <<>> ELSE data[x]
<1>0. cp \in [Completers -> CpTypes] /\ file \in [Names -> InodeOrNone] /\ data \in [Inodes -> Seq(Blocks)]
  BY DEF Shapes
<1>1. /\ cp'[c] = [IdleCp EXCEPT !.pc = "open", !.size = k, !.out = InodeFor(Merged)]
      /\ \A e \in Completers \ {c} : cp'[e] = cp[e]
  BY <1>0 DEF CompleteCreate
<1>2. cp'[c].pc = "open" /\ cp'[c].out = InodeFor(Merged) /\ cp'[c].sum = <<>>
  BY <1>1 DEF IdleCp
<1>3. \A m \in Names : file'[m] = IF m = Merged THEN InodeFor(Merged) ELSE file[m]
  BY <1>0 DEF CompleteCreate
<1>4. /\ [data EXCEPT ![InodeFor(Merged)] = <<>>] \in [Inodes -> Seq(Blocks)]
      /\ SetData([data EXCEPT ![InodeFor(Merged)] = <<>>])
  BY <1>0, EmptySeq DEF CompleteCreate
<1>5. \A x \in Inodes : x \in Used' => data'[x] = [data EXCEPT ![InodeFor(Merged)] = <<>>][x]
  BY <1>4, DataFacts
<1>6. \A x \in Inodes : [data EXCEPT ![InodeFor(Merged)] = <<>>][x] = IF x = InodeFor(Merged) THEN <<>> ELSE data[x]
  BY <1>0
<1> QED BY <1>1, <1>2, <1>3, <1>5, <1>6 DEF CompleteCreate
-----------------------------------------------------------------------------
(* The steps that only close files, remove names or go on with what is     *)
(* open, seen from the disk and from the part requests.                    *)
Kept(x) == x \in Used' /\ (\A c \in Completers : Writes(c) => cp[c].out # x)
Calm ==
  /\ \A n \in Names : file'[n] \in {file[n], NoInode}
  /\ \A u \in Uploaders : up'[u] = up[u] \/ up'[u].pc \in {"idle", "touch"}
  /\ \A c \in Completers : Writes(c)' => Writes(c) /\ cp'[c].out = cp[c].out
  /\ \A x \in Inodes : Kept(x) => data'[x] = data[x]
  /\ shared' = shared

(* Every step of a complete request but its first.                         *)
LEMMA CompleteCalm ==
  ASSUME Shapes, Opens, NEW c \in Completers, CompleteStep(c), \A k \in ChunkSizes : ~CompleteCreate(c, k)
  PROVE  Calm
<1>0. /\ cp \in [Completers -> CpTypes] /\ file \in [Names -> InodeOrNone] /\ data \in [Inodes -> Seq(Blocks)]
      /\ Merged \in Names
  BY NameFacts DEF Shapes
<1>s. ASSUME SetData(data) PROVE \A x \in Inodes : Kept(x) => data'[x] = data[x]
  BY <1>0, <1>s, DataFacts DEF Kept
<1>i. ASSUME NEW r, cp' = [cp EXCEPT ![c] = r], r.pc \notin {"open", "copy"}
      PROVE  \A e \in Completers : Writes(e)' => Writes(e) /\ cp'[e].out = cp[e].out
  BY <1>0, <1>i DEF Writes
<1>p. IdleCp.pc = "idle" /\ [IdleCp EXCEPT !.pc = "reopen"].pc = "reopen"
      /\ [IdleCp EXCEPT !.pc = "read", !.in = file[Merged]].pc = "read"
  BY DEF IdleCp
<1>g. ASSUME GiveUp(c), UNCHANGED <<up, shared>> PROVE Calm
  BY <1>0, <1>g, <1>i, <1>p, <1>s DEF GiveUp, Calm
<1>1. CASE CompleteOpen(c)
  <2>1. CASE file[Part(cp[c].idx)] # NoInode
    <3>1. cp' = [cp EXCEPT ![c] = [cp[c] EXCEPT !.pc = "copy", !.in = file[Part(cp[c].idx)], !.pos = 0]]
          /\ cp[c].pc = "open" /\ UNCHANGED <<file, data, up, shared>>
      BY <1>0, <1>1, <2>1 DEF CompleteOpen
    <3>2. \A e \in Completers : Writes(e)' => Writes(e) /\ cp'[e].out = cp[e].out
      BY <1>0, <3>1 DEF Writes, CpTypes
    <3> QED BY <3>1, <3>2 DEF Calm
  <2>2. CASE file[Part(cp[c].idx)] = NoInode
    BY <1>1, <1>g, <2>2 DEF CompleteOpen
  <2> QED BY <2>1, <2>2
<1>2. CASE CompleteCopy(c)
  <2> DEFINE b == NextBlock(cp[c].in, cp[c].pos)
  <2>0. cp[c].pc = "copy" /\ Writes(c) /\ UNCHANGED <<file, up, shared>>
    BY <1>2 DEF CompleteCopy, Writes
  <2>1. CASE b # <<>>
    <3>1. cp' = [cp EXCEPT ![c] = [cp[c] EXCEPT !.pos = @ + 1, !.sum = @ \o b]]
      BY <1>0, <1>2, <2>1 DEF CompleteCopy
    <3>2. \A e \in Completers : Writes(e)' => Writes(e) /\ cp'[e].out = cp[e].out
      BY <1>0, <2>0, <3>1 DEF Writes, CpTypes
    <3>3. SetData([data EXCEPT ![cp[c].out] = WriteAt(@, Len(cp[c].sum), b[1])])
      BY <1>2, <2>1 DEF CompleteCopy
    <3>4. \A x \in Inodes : Kept(x) => data'[x] = data[x]
      BY <1>0, <2>0, <3>3 DEF SetData, Kept
    <3> QED BY <2>0, <3>2, <3>4 DEF Calm
  <2>2. CASE b = <<>>
    <3>1. cp' = [cp EXCEPT ![c] = [cp[c] EXCEPT !.pc = "open", !.in = NoInode, !.pos = 0, !.idx = @ + 1]]
          /\ SetData(data)
      BY <1>0, <1>2, <2>2 DEF CompleteCopy
    <3>2. \A e \in Completers : Writes(e)' => Writes(e) /\ cp'[e].out = cp[e].out
      BY <1>0, <2>0, <3>1 DEF Writes, CpTypes
    <3> QED BY <1>s, <2>0, <3>1, <3>2 DEF Calm
  <2> QED BY <2>1, <2>2
<1>3. CASE CompleteBreak(c)
  BY <1>3, <1>g DEF CompleteBreak
<1>4. CASE CompleteCheck(c)
  <2>1. CASE Verified(cp[c].sum)
    <3>1. cp' = [cp EXCEPT ![c] = [IdleCp EXCEPT !.pc = "reopen"]] /\ UNCHANGED <<file, up, shared>> /\ SetData(data)
      BY <1>4, <2>1 DEF CompleteCheck
    <3>2. \A e \in Completers : Writes(e)' => Writes(e) /\ cp'[e].out = cp[e].out
      BY <1>i, <1>p, <3>1
    <3> QED BY <1>s, <3>1, <3>2 DEF Calm
  <2>2. CASE ~Verified(cp[c].sum)
    BY <1>4, <1>g, <2>2 DEF CompleteCheck
  <2> QED BY <2>1, <2>2
<1>5. CASE CompleteReopen(c)
  <2>1. \/ cp' = [cp EXCEPT ![c] = [IdleCp EXCEPT !.pc = "read", !.in = file[Merged]]]
        \/ cp' = [cp EXCEPT ![c] = IdleCp]
    BY <1>5 DEF CompleteReopen
  <2>2. \A e \in Completers : Writes(e)' => Writes(e) /\ cp'[e].out = cp[e].out
    BY <1>i, <1>p, <2>1
  <2> QED BY <1>5, <2>2 DEF CompleteReopen, Calm
<1>6. CASE CompleteRead(c)
  <2>1. cp[c].pc = "read" /\ UNCHANGED <<file, data, up, shared>>
        /\ cp' = [cp EXCEPT ![c] = [cp[c] EXCEPT !.pos = @ + 1, !.sum = @ \o NextBlock(cp[c].in, cp[c].pos)]]
    BY <1>0, <1>6 DEF CompleteRead
  <2>2. \A e \in Completers : Writes(e)' => Writes(e) /\ cp'[e].out = cp[e].out
    BY <1>0, <2>1 DEF Writes, CpTypes
  <2> QED BY <2>1, <2>2 DEF Calm
<1>7. CASE CompleteAsset(c) \/ CompleteFail(c)
  <2>1. \A e \in Completers : Writes(e)' => Writes(e) /\ cp'[e].out = cp[e].out
    BY <1>7, <1>i, <1>p DEF CompleteAsset, CompleteFail
  <2> QED BY <1>7, <1>s, <2>1 DEF CompleteAsset, CompleteFail, Calm
<1> QED BY <1>1, <1>2, <1>3, <1>4, <1>5, <1>6, <1>7 DEF CompleteStep

(* A part request ends, with or without an error.                          *)
PartEnds(u) ==
  \/ PartBreak(u)
  \/ PartTouch(u)
  \/ PartCreate(u) /\ ~dir
  \/ PartRename(u) /\ file[Tmp(up[u].idx)] = NoInode

(* Nothing is written, no name is given and no file is opened.             *)
Quiet ==
  /\ \A n \in Names : file'[n] \in {file[n], NoInode}
  /\ \A u \in Uploaders : up'[u] = up[u] \/ up'[u].pc \in {"idle", "touch"}
  /\ cp' = cp \/ \A c \in Completers : cp'[c] = IdleCp
  /\ \A x \in Inodes : x \in Used' => data'[x] = data[x]
  /\ UNCHANGED <<shared, assets>>

(* Removing the directory, the passing of time, a crash, the end of a part *)
(* request.                                                                *)
LEMMA OtherQuiet ==
  ASSUME Shapes, Opens,
         \/ RemoveStep \/ ChunkUploadInit \/ Expire \/ Crash \/ UNCHANGED vars
         \/ \E u \in Uploaders : PartEnds(u)
  PROVE  Quiet
<1>0. /\ up \in [Uploaders -> UpTypes] /\ file \in [Names -> InodeOrNone] /\ data \in [Inodes -> Seq(Blocks)]
      /\ IdleUp.pc = "idle"
  BY DEF Shapes, IdleUp
<1>s. ASSUME SetData(data) PROVE \A x \in Inodes : x \in Used' => data'[x] = data[x]
  BY <1>0, <1>s, DataFacts
<1>1. CASE RemoveStep
  <2>1. ASSUME NEW r \in Removers, CancelStart(r) \/ ListNames(r) \/ Rmdir(r) PROVE Quiet
    BY <2>1 DEF CancelStart, ListNames, Rmdir, Quiet
  <2>2. CASE CleanupStart
    BY <2>2 DEF CleanupStart, Quiet
  <2>3. ASSUME NEW r \in Removers, NEW n \in Names, Unlink(r, n) PROVE Quiet
    BY <1>0, <1>s, <2>3 DEF Unlink, Quiet
  <2>4. Cancelers \subseteq Removers
    BY DEF Removers
  <2> QED BY <1>1, <2>1, <2>2, <2>3, <2>4 DEF RemoveStep
<1>2. CASE ChunkUploadInit \/ Expire \/ UNCHANGED vars
  BY <1>2 DEF ChunkUploadInit, Expire, vars, Quiet
<1>3. CASE Crash
  BY <1>0, <1>3, <1>s DEF Crash, Quiet
<1>4. ASSUME NEW u \in Uploaders, PartEnds(u) PROVE Quiet
  <2>1. up' = [up EXCEPT ![u] = IdleUp] /\ UNCHANGED <<cp, shared, assets>>
    BY <1>4 DEF PartEnds, PartBreak, PartTouch, PartCreate, PartRename
  <2>2. \A n \in Names : file'[n] \in {file[n], NoInode}
    BY <1>0, <1>4 DEF PartEnds, PartBreak, PartTouch, PartCreate, PartRename
  <2>3. SetData(data) \/ data' = data
    BY <1>4 DEF PartEnds, PartBreak, PartTouch, PartCreate, PartRename
  <2> QED BY <1>0, <1>s, <2>1, <2>2, <2>3 DEF Quiet
<1> QED BY <1>1, <1>2, <1>3, <1>4
-----------------------------------------------------------------------------
(* The steps that are not quiet.                                           *)
Works(u) ==
  \/ \E i \in Indexes, k \in ChunkSizes : PartMkdir(u, i, k)
  \/ PartCreate(u) /\ dir
  \/ PartCopy(u)
  \/ PartRename(u) /\ file[Tmp(up[u].idx)] # NoInode

(* A step is quiet, or one of a part request, or one of a complete request. *)
LEMMA StepOwners ==
  ASSUME Shapes, Opens, [Next]_vars
  PROVE  Quiet \/ (\E u \in Uploaders : Works(u)) \/ (\E c \in Completers : CompleteStep(c))
<1>1. CASE RemoveStep \/ ChunkUploadInit \/ Expire \/ Crash \/ UNCHANGED vars
  BY <1>1, OtherQuiet
<1>2. ASSUME NEW u \in Uploaders, PartStep(u) PROVE Quiet \/ Works(u)
  <2>1. PartEnds(u) \/ Works(u)
    BY <1>2 DEF PartStep, PartEnds, Works
  <2> QED BY <2>1, OtherQuiet
<1> QED BY <1>1, <1>2 DEF Next

(* Of these, the ones that are not calm.                                   *)
LEMMA StepKinds ==
  ASSUME Shapes, Opens, [Next]_vars
  PROVE  \/ Calm
         \/ \E u \in Uploaders : Works(u)
         \/ \E c \in Completers, k \in ChunkSizes : CompleteCreate(c, k)
<1>1. Quiet => Calm
  BY DEF Quiet, Calm, Kept, Writes, IdleCp
<1>2. ASSUME NEW c \in Completers, CompleteStep(c)
      PROVE  Calm \/ \E k \in ChunkSizes : CompleteCreate(c, k)
  BY <1>2, CompleteCalm
<1> QED BY <1>1, <1>2, StepOwners

(* What a part request has open when it copies.                            *)
LEMMA CopyFacts ==
  ASSUME Shapes, Opens, NEW u \in Uploaders, PartCopy(u)
  PROVE  /\ up[u].pc = "copy" /\ up[u].ino \in Inodes /\ up[u].pos + 1 \in 1..Len(up[u].body)
         /\ up[u].body[up[u].pos + 1] \in Blocks
         /\ up'[u].pc = "copy" /\ up'[u].ino = up[u].ino /\ up'[u].idx = up[u].idx
         /\ up'[u].body = up[u].body /\ up'[u].pos = up[u].pos + 1
         /\ \A v \in Uploaders \ {u} : up'[v] = up[v]
         /\ UNCHANGED <<file, cp, shared>>
         /\ \A x \in Inodes : x \in Used' =>
              data'[x] = IF x = up[u].ino
                           THEN WriteAt(data[x], up[u].pos, up[u].body[up[u].pos + 1]) ELSE data[x]
<1>0. /\ up \in [Uploaders -> UpTypes] /\ up[u] \in UpTypes /\ up[u].body \in Seq(Blocks) /\ up[u].pos \in Nat
      /\ data \in [Inodes -> Seq(Blocks)]
  BY DEF Shapes, UpTypes
<1>1. up[u].pc = "copy" /\ up[u].pos < Len(up[u].body) /\ UNCHANGED <<file, cp, shared>>
  BY DEF PartCopy
<1>2. up[u].ino \in Inodes /\ Len(up[u].body) \in Nat
  BY <1>0, <1>1, LenProperties DEF Opens, UpOpen
<1>3. up[u].pos + 1 \in 1..Len(up[u].body)
  BY <1>0, <1>1, <1>2
<1>4. up[u].body[up[u].pos + 1] \in Blocks
  BY <1>0, <1>3, ElementOfSeq
<1>5. up' = [up EXCEPT ![u] = [up[u] EXCEPT !.pos = @ + 1]]
  BY <1>0 DEF PartCopy
<1>6. up'[u] = [up[u] EXCEPT !.pos = @ + 1] /\ \A v \in Uploaders \ {u} : up'[v] = up[v]
  BY <1>0, <1>5
<1>7. up'[u].pc = "copy" /\ up'[u].ino = up[u].ino /\ up'[u].idx = up[u].idx
      /\ up'[u].body = up[u].body /\ up'[u].pos = up[u].pos + 1
  BY <1>0, <1>1, <1>6 DEF UpTypes
<1> DEFINE w == WriteAt(data[up[u].ino], up[u].pos, up[u].body[up[u].pos + 1])
<1>8. w \in Seq(Blocks)
  BY <1>0, <1>2, <1>4, WriteFacts
<1>9. [data EXCEPT ![up[u].ino] = w] \in [Inodes -> Seq(Blocks)]
  BY <1>0, <1>8
<1>10. SetData([data EXCEPT ![up[u].ino] = w])
  BY DEF PartCopy
<1>11. \A x \in Inodes : x \in Used' => data'[x] = [data EXCEPT ![up[u].ino] = w][x]
  BY <1>9, <1>10, DataFacts
<1> HIDE DEF w
<1>12. \A x \in Inodes : [data EXCEPT ![up[u].ino] = w][x] = IF x = up[u].ino THEN w ELSE data[x]
  BY <1>0
<1>13. \A x \in Inodes : x \in Used' => data'[x] = IF x = up[u].ino THEN w ELSE data[x]
  BY <1>11, <1>12
<1> QED BY <1>1, <1>2, <1>3, <1>4, <1>6, <1>7, <1>13 DEF w

(* What a part request is when it begins.                                  *)
LEMMA MkdirFacts ==
  ASSUME Shapes, NEW u \in Uploaders, NEW i \in Indexes, NEW k \in ChunkSizes, PartMkdir(u, i, k)
  PROVE  /\ up[u].pc = "idle" /\ up'[u].pc = "create" /\ up'[u].idx = i /\ up'[u].body = Chunk(i, k)
         /\ up'[u].ino = NoInode
         /\ \A v \in Uploaders \ {u} : up'[v] = up[v]
         /\ UNCHANGED <<file, data, cp>>
         /\ ~shared' => ~shared /\ \A v \in Uploaders : up[v].pc = "idle" \/ up[v].idx # i
<1>1. up'[u] = [IdleUp EXCEPT !.pc = "create", !.idx = i, !.body = Chunk(i, k)]
      /\ \A v \in Uploaders \ {u} : up'[v] = up[v]
  BY DEF PartMkdir, Shapes
<1>2. up'[u].pc = "create" /\ up'[u].idx = i /\ up'[u].body = Chunk(i, k) /\ up'[u].ino = NoInode
  BY <1>1 DEF IdleUp
<1>3. ~shared' => ~shared /\ \A v \in Uploaders : up[v].pc = "idle" \/ up[v].idx # i
  BY DEF PartMkdir
<1> QED BY <1>1, <1>2, <1>3 DEF PartMkdir

(* Every step keeps the files of parts and of the merge apart.             *)
LEMMA DiskStep ==
  ASSUME Shapes, Opens, Opens', Disk, [Next]_vars
  PROVE  Disk'
<1>0. NoInode \notin Inodes /\ Merged \in Names
  BY UploadConstants, NameFacts
<1>t. \A u \in Uploaders : up[u].idx \in Indexes
  BY DEF Shapes, UpTypes
<1>o. /\ \A u \in Uploaders : up'[u].ino \in Inodes <=> up'[u].pc = "copy"
      /\ \A c \in Completers : Writes(c)' => cp'[c].out \in Inodes
  BY DEF Opens, UpOpen, CpOpen, Writes
<1>1. CASE Calm
  <2>1. \A u \in Uploaders : up'[u].pc = "copy" => up[u].pc = "copy" /\ up'[u].ino = up[u].ino
    BY <1>1 DEF Calm
  <2> QED BY <1>1, <2>1, DiskElsewhere DEF Calm
<1>2. ASSUME NEW u \in Uploaders, NEW i \in Indexes, NEW k \in ChunkSizes, PartMkdir(u, i, k) PROVE Disk'
  <2>1. \A v \in Uploaders : up'[v].pc = "copy" => up[v].pc = "copy" /\ up'[v].ino = up[v].ino
    BY <1>2, MkdirFacts
  <2> QED BY <1>2, <2>1, MkdirFacts, DiskElsewhere DEF Writes
<1>3. ASSUME NEW u \in Uploaders, PartCopy(u) PROVE Disk'
  <2>1. \A v \in Uploaders : up'[v].pc = "copy" => up[v].pc = "copy" /\ up'[v].ino = up[v].ino
    BY <1>3, CopyFacts
  <2> QED BY <1>3, <2>1, CopyFacts, DiskElsewhere DEF Writes
<1>4. ASSUME NEW u \in Uploaders, PartCreate(u), dir PROVE Disk'
  <2> DEFINE n == Tmp(up[u].idx)
             x == InodeFor(n)
  <2>1. /\ n \in Names /\ HasInode(n)
        /\ \A m \in Names : file'[m] = IF m = n THEN x ELSE file[m]
        /\ up'[u].ino = x /\ \A v \in Uploaders \ {u} : up'[v] = up[v]
    BY <1>4, PartCreateFacts
  <2>2. n # Merged /\ cp' = cp
    BY <1>4, <1>t, NameFacts DEF PartCreate
  <2>3. x \in Inodes /\ (\A m \in Names : file[m] = x => m = n)
        /\ \A c \in Completers : Writes(c) => cp[c].out # x
    BY <2>1, <2>2, CreateApart
  <2> HIDE DEF n, x
  <2>4. OneName'
    BY <2>1, <2>3 DEF Disk, OneName
  <2>5. PartsApart'
    BY <1>0, <2>1, <2>2, <2>3 DEF Disk, PartsApart
  <2>6. MergedApart'
    BY <1>0, <2>1, <2>2, <2>3 DEF Disk, MergedApart, Writes
  <2> QED BY <2>4, <2>5, <2>6 DEF Disk
<1>5. ASSUME NEW u \in Uploaders, PartRename(u), file[Tmp(up[u].idx)] # NoInode PROVE Disk'
  <2> DEFINE t == Tmp(up[u].idx)
             p == Part(up[u].idx)
  <2>1. /\ \A m \in Names : file'[m] = IF m = p THEN file[t] ELSE IF m = t THEN NoInode ELSE file[m]
        /\ up'[u].ino = NoInode /\ up'[u].pc = "touch" /\ \A v \in Uploaders \ {u} : up'[v] = up[v]
    BY <1>5, PartRenameFacts
  <2>2. p # Merged /\ t # Merged /\ cp' = cp /\ p \in Names /\ t \in Names /\ p # t
    BY <1>5, <1>t, NameFacts DEF PartRename
  <2> HIDE DEF p, t
  <2>4. OneName'
    BY <2>1, <2>2 DEF Disk, OneName
  <2>5. PartsApart'
    BY <1>0, <2>1, <2>2 DEF Disk, PartsApart
  <2>6. MergedApart'
    <3> SUFFICES ASSUME NEW c \in Completers, Writes(c)'
                 PROVE  /\ \A m \in Names : file'[m] = cp'[c].out => m = Merged
                        /\ \A v \in Uploaders : up'[v].ino # cp'[c].out
      BY DEF MergedApart
    <3>1. Writes(c) /\ cp'[c].out = cp[c].out /\ cp[c].out \in Inodes
      BY <1>o, <2>2 DEF Writes
    <3>2. (\A m \in Names : file[m] = cp[c].out => m = Merged) /\ \A v \in Uploaders : up[v].ino # cp[c].out
      BY <3>1 DEF Disk, MergedApart
    <3> QED BY <1>0, <2>1, <2>2, <3>1, <3>2
  <2> QED BY <2>4, <2>5, <2>6 DEF Disk
<1>6. ASSUME NEW c \in Completers, NEW k \in ChunkSizes, CompleteCreate(c, k) PROVE Disk'
  <2> DEFINE x == InodeFor(Merged)
  <2>1. /\ HasInode(Merged) /\ \A m \in Names : file'[m] = IF m = Merged THEN x ELSE file[m]
        /\ cp'[c].pc = "open" /\ cp'[c].out = x /\ (\A e \in Completers \ {c} : cp'[e] = cp[e]) /\ up' = up
    BY <1>6, CompleteCreateFacts
  <2>2. x \in Inodes /\ (\A m \in Names : file[m] = x => m = Merged) /\ \A u \in Uploaders : up[u].ino # x
    BY <1>0, <2>1, CreateApart
  <2> HIDE DEF x
  <2>4. OneName'
    BY <2>1, <2>2 DEF Disk, OneName
  <2>5. PartsApart'
    BY <1>0, <2>1, <2>2 DEF Disk, PartsApart
  <2>6. MergedApart'
    BY <1>0, <2>1, <2>2 DEF Disk, MergedApart, Writes
  <2> QED BY <2>4, <2>5, <2>6 DEF Disk
<1> QED BY <1>1, <1>2, <1>3, <1>4, <1>5, <1>6, StepKinds DEF Works
-----------------------------------------------------------------------------
(* What a calm step leaves to the part requests and to the parts.          *)
LEMMA PartsCalm ==
  ASSUME Shapes, Opens, Opens', Disk, PartsInv, PartsWhole, Calm
  PROVE  PartsInv' /\ PartsWhole'
<1>0. NoInode \notin Inodes /\ file \in [Names -> InodeOrNone]
  BY UploadConstants DEF Shapes
<1> SUFFICES ASSUME ~shared' PROVE OwnIndex' /\ OwnBody' /\ OwnFile' /\ PartsWhole'
  BY DEF PartsInv, PartsWhole
<1>1. OwnIndex /\ OwnBody /\ OwnFile /\ ~shared
  BY DEF PartsInv, Calm
<1>2. \A u \in Uploaders : InChunk(u)' => up'[u] = up[u] /\ InChunk(u)
  BY DEF Calm, InChunk
<1>3. OwnIndex'
  BY <1>1, <1>2 DEF OwnIndex
<1>4. OwnBody'
  BY <1>1, <1>2 DEF OwnBody
<1>5. \A u \in Uploaders : up'[u].ino \in Inodes <=> up'[u].pc = "copy"
  BY DEF Opens, UpOpen
<1>6. OwnFile'
  <2> SUFFICES ASSUME NEW u \in Uploaders, up'[u].pc = "copy"
               PROVE  /\ \A n \in Names : file'[n] = up'[u].ino => n = Tmp(up'[u].idx)
                      /\ file'[Tmp(up'[u].idx)] \in {NoInode, up'[u].ino}
                      /\ \A v \in Uploaders : up'[v].ino = up'[u].ino => u = v
                      /\ Received(u)'
    BY DEF OwnFile
  <2>1. up'[u] = up[u] /\ up[u].pc = "copy" /\ up[u].ino \in Inodes /\ Tmp(up[u].idx) \in Names
    BY <1>2, <1>5, NameFacts DEF InChunk, Shapes, UpTypes
  <2>2. /\ \A n \in Names : file[n] = up[u].ino => n = Tmp(up[u].idx)
        /\ file[Tmp(up[u].idx)] \in {NoInode, up[u].ino}
        /\ \A v \in Uploaders : up[v].ino = up[u].ino => u = v
        /\ Received(u)
    BY <1>1, <2>1 DEF OwnFile
  <2>3. /\ \A n \in Names : file'[n] = up'[u].ino => n = Tmp(up'[u].idx)
        /\ file'[Tmp(up'[u].idx)] \in {NoInode, up'[u].ino}
    BY <1>0, <2>1, <2>2 DEF Calm
  <2>4. \A v \in Uploaders : up'[v].ino = up'[u].ino => u = v
    BY <1>2, <1>5, <2>1, <2>2 DEF InChunk
  <2>5. Kept(up[u].ino)
    <3>1. up'[u].ino \in Used'
      BY DEF Used
    <3>2. \A c \in Completers : Writes(c) => cp[c].out # up[u].ino
      BY DEF Disk, MergedApart
    <3> QED BY <2>1, <3>1, <3>2 DEF Kept
  <2>6. data'[up[u].ino] = data[up[u].ino]
    BY <2>1, <2>5 DEF Calm
  <2>7. Received(u)'
    BY <2>1, <2>2, <2>6 DEF Received
  <2> QED BY <2>3, <2>4, <2>7
<1>7. PartsWhole'
  <2> SUFFICES ASSUME NEW i \in Indexes, file'[Part(i)] # NoInode
               PROVE  \E k \in ChunkSizes : data'[file'[Part(i)]] = Chunk(i, k)
    BY DEF PartsWhole, Uploaded
  <2>1. Part(i) \in Names /\ Part(i) # Merged
    BY NameFacts
  <2>2. file'[Part(i)] = file[Part(i)] /\ file[Part(i)] \in Inodes
    BY <1>0, <2>1 DEF Calm, InodeOrNone
  <2>3. Kept(file[Part(i)])
    <3>1. file'[Part(i)] \in Used'
      BY <2>1 DEF Used
    <3>2. \A c \in Completers : Writes(c) => cp[c].out # file[Part(i)]
      BY <2>1 DEF Disk, MergedApart
    <3> QED BY <2>2, <3>1, <3>2 DEF Kept
  <2>4. data'[file'[Part(i)]] = data[file[Part(i)]]
    BY <2>2, <2>3 DEF Calm
  <2>5. \E k \in ChunkSizes : data[file[Part(i)]] = Chunk(i, k)
    BY <1>1, <2>2, <1>0 DEF PartsWhole, Uploaded
  <2> QED BY <2>4, <2>5
<1> QED BY <1>3, <1>4, <1>6, <1>7

(* What a step leaves to a part request that it is not a step of: it opens *)
(* no file that the request has open, gives it no other name, takes away   *)
(* none but the temporary one, and does not write to it.                   *)
Undisturbed(v) ==
  /\ up'[v] = up[v]
  /\ \A n \in Names : file'[n] = up[v].ino => n = Tmp(up[v].idx)
  /\ file'[Tmp(up[v].idx)] \in {NoInode, up[v].ino}
  /\ \A w \in Uploaders : up'[w].ino = up[v].ino => v = w
  /\ data'[up[v].ino] = data[up[v].ino]

(* Such a request keeps its file.                                          *)
LEMMA UndisturbedKeeps ==
  ASSUME OwnFile, NEW v \in Uploaders, up[v].pc = "copy", Undisturbed(v)
  PROVE  /\ \A n \in Names : file'[n] = up'[v].ino => n = Tmp(up'[v].idx)
         /\ file'[Tmp(up'[v].idx)] \in {NoInode, up'[v].ino}
         /\ \A w \in Uploaders : up'[w].ino = up'[v].ino => v = w
         /\ Received(v)'
<1>1. Received(v)
  BY DEF OwnFile
<1>2. Received(v)'
  BY <1>1 DEF Received, Undisturbed
<1> QED BY <1>2 DEF Undisturbed

(* A part that no step touches stays whole.                                *)
LEMMA PartKeeps ==
  ASSUME Shapes, PartsWhole, ~shared, NEW i \in Indexes, file'[Part(i)] = file[Part(i)],
         file[Part(i)] # NoInode,
         file[Part(i)] \in Inodes /\ file[Part(i)] \in Used' => data'[file[Part(i)]] = data[file[Part(i)]]
  PROVE  \E k \in ChunkSizes : data'[file'[Part(i)]] = Chunk(i, k)
<1>1. Part(i) \in Names
  BY NameFacts
<1>2. file[Part(i)] \in Inodes
  BY <1>1 DEF Shapes, InodeOrNone
<1>3. file'[Part(i)] \in Used'
  BY <1>1 DEF Used
<1> QED BY <1>2, <1>3 DEF PartsWhole, Uploaded

(* A part request begins.                                                  *)
LEMMA PartsMkdir ==
  ASSUME Shapes, Opens, PartsInv, PartsWhole,
         NEW u \in Uploaders, NEW i \in Indexes, NEW k \in ChunkSizes, PartMkdir(u, i, k)
  PROVE  PartsInv' /\ PartsWhole'
<1> SUFFICES ASSUME ~shared' PROVE OwnIndex' /\ OwnBody' /\ OwnFile' /\ PartsWhole'
  BY DEF PartsInv, PartsWhole
<1>1. /\ up[u].pc = "idle" /\ up'[u].pc = "create" /\ up'[u].idx = i /\ up'[u].body = Chunk(i, k)
      /\ up'[u].ino = NoInode
      /\ \A v \in Uploaders \ {u} : up'[v] = up[v]
      /\ UNCHANGED <<file, data, cp>>
      /\ ~shared /\ \A v \in Uploaders : up[v].pc = "idle" \/ up[v].idx # i
  BY MkdirFacts
<1>2. OwnIndex /\ OwnBody /\ OwnFile
  BY <1>1 DEF PartsInv
<1>3. OwnIndex'
  BY <1>1, <1>2 DEF OwnIndex, InChunk
<1>4. OwnBody'
  BY <1>1, <1>2 DEF OwnBody, InChunk
<1>5. OwnFile'
  <2> SUFFICES ASSUME NEW v \in Uploaders, up'[v].pc = "copy"
               PROVE  /\ \A n \in Names : file'[n] = up'[v].ino => n = Tmp(up'[v].idx)
                      /\ file'[Tmp(up'[v].idx)] \in {NoInode, up'[v].ino}
                      /\ \A w \in Uploaders : up'[w].ino = up'[v].ino => v = w
                      /\ Received(v)'
    BY DEF OwnFile
  <2>1. v # u /\ up'[v] = up[v] /\ up[v].pc = "copy"
    BY <1>1
  <2>2. up[v].ino \in Inodes /\ NoInode \notin Inodes
    BY <2>1, UploadConstants DEF Opens, UpOpen
  <2>3. Undisturbed(v)
    BY <1>1, <1>2, <2>1, <2>2 DEF Undisturbed, OwnFile
  <2> QED BY <1>2, <2>1, <2>3, UndisturbedKeeps
<1>6. PartsWhole'
  BY <1>1 DEF PartsWhole, Uploaded
<1> QED BY <1>3, <1>4, <1>5, <1>6

(* The temporary file is created.                                          *)
LEMMA PartsCreate ==
  ASSUME Shapes, Opens, Disk, PartsInv, PartsWhole, NEW u \in Uploaders, PartCreate(u), dir
  PROVE  PartsInv' /\ PartsWhole'
<1> SUFFICES ASSUME ~shared' PROVE OwnIndex' /\ OwnBody' /\ OwnFile' /\ PartsWhole'
  BY DEF PartsInv, PartsWhole
<1> DEFINE i == up[u].idx
           n == Tmp(i)
           x == InodeFor(n)
<1>0. up[u].pc = "create" /\ shared' = shared /\ \A v \in Uploaders : up[v].idx \in Indexes
  BY DEF PartCreate, Shapes, UpTypes
<1>1. /\ n \in Names /\ HasInode(n)
      /\ \A m \in Names : file'[m] = IF m = n THEN x ELSE file[m]
      /\ up'[u].pc = "copy" /\ up'[u].ino = x
      /\ up'[u].idx = i /\ up'[u].body = up[u].body /\ up'[u].pos = 0
      /\ \A v \in Uploaders \ {u} : up'[v] = up[v]
      /\ \A y \in Inodes : y \in Used' => data'[y] = IF y = x THEN <<>> ELSE data[y]
  BY PartCreateFacts
<1>2. OwnIndex /\ OwnBody /\ OwnFile /\ ~shared
  BY <1>0 DEF PartsInv
<1>3. x \in Inodes /\ (\A m \in Names : file[m] = x => m = n) /\ NoInode \notin Inodes
  BY <1>1, CreateApart, UploadConstants
<1>4. \A v \in Uploaders \ {u} : up[v].ino # x /\ (up[v].pc = "copy" => up[v].idx # i)
  <2> SUFFICES ASSUME NEW v \in Uploaders \ {u} PROVE up[v].ino # x /\ (up[v].pc = "copy" => up[v].idx # i)
    OBVIOUS
  <2>1. up[v].pc = "copy" => up[v].idx # i
    BY <1>0, <1>2 DEF OwnIndex, InChunk
  <2>2. up[v].ino \in Inodes => up[v].pc = "copy"
    BY DEF Opens, UpOpen
  <2>3. x = file[n] \/ x \notin Used
    BY <1>1, CreateFacts
  <2>4. up[v].pc = "copy" => (file[n] = up[v].ino => n = Tmp(up[v].idx))
    BY <1>1, <1>2 DEF OwnFile
  <2>5. n = Tmp(up[v].idx) => i = up[v].idx
    BY <1>0, NameFacts
  <2> QED BY <1>3, <2>1, <2>2, <2>3, <2>4, <2>5, UsedFacts
<1>5. OwnIndex'
  BY <1>0, <1>1, <1>2 DEF OwnIndex, InChunk
<1>6. OwnBody'
  BY <1>0, <1>1, <1>2 DEF OwnBody, InChunk
<1>7. OwnFile'
  <2> SUFFICES ASSUME NEW v \in Uploaders, up'[v].pc = "copy"
               PROVE  /\ \A m \in Names : file'[m] = up'[v].ino => m = Tmp(up'[v].idx)
                      /\ file'[Tmp(up'[v].idx)] \in {NoInode, up'[v].ino}
                      /\ \A w \in Uploaders : up'[w].ino = up'[v].ino => v = w
                      /\ Received(v)'
    BY DEF OwnFile
  <2>1. CASE v = u
    <3>1. up'[u].ino \in Used'
      BY DEF Used
    <3>2. data'[x] = <<>>
      BY <1>1, <1>3, <3>1
    <3>3. Received(u)'
      BY <1>1, <3>2 DEF Received
    <3> HIDE DEF x, n, i
    <3>4. \A w \in Uploaders : up'[w].ino = x => u = w
      BY <1>1, <1>4
    <3>5. \A m \in Names : file'[m] = x => m = n
      BY <1>1, <1>3
    <3> QED BY <1>1, <2>1, <3>3, <3>4, <3>5 DEF n
  <2>2. CASE v # u
    <3>0. up'[v] = up[v] /\ up[v].pc = "copy" /\ up[v].ino # x /\ up[v].idx # i
      BY <1>1, <1>4, <2>2
    <3>1. up[v].ino \in Inodes /\ Tmp(up[v].idx) \in Names /\ Tmp(up[v].idx) # n
      BY <1>0, <3>0, NameFacts DEF Opens, UpOpen
    <3>2. up'[v].ino \in Used'
      BY DEF Used
    <3> HIDE DEF x, n, i
    <3>3. data'[up[v].ino] = data[up[v].ino]
      BY <1>1, <3>0, <3>1, <3>2
    <3>4. \A w \in Uploaders : up'[w].ino = up[v].ino => v = w
      BY <1>1, <1>2, <3>0 DEF OwnFile
    <3>5. /\ \A m \in Names : file'[m] = up[v].ino => m = Tmp(up[v].idx)
          /\ file'[Tmp(up[v].idx)] \in {NoInode, up[v].ino}
      BY <1>1, <1>2, <3>0, <3>1 DEF OwnFile
    <3>6. Undisturbed(v)
      BY <3>0, <3>3, <3>4, <3>5 DEF Undisturbed
    <3> QED BY <1>2, <3>0, <3>6, UndisturbedKeeps
  <2> QED BY <2>1, <2>2
<1>8. PartsWhole'
  <2> SUFFICES ASSUME NEW j \in Indexes, file'[Part(j)] # NoInode
               PROVE  \E k \in ChunkSizes : data'[file'[Part(j)]] = Chunk(j, k)
    BY DEF PartsWhole, Uploaded
  <2>1. Part(j) \in Names /\ Part(j) # n
    BY <1>0, NameFacts
  <2>2. file'[Part(j)] = file[Part(j)] /\ file[Part(j)] # x
    BY <1>1, <1>3, <2>1
  <2> QED BY <1>1, <1>2, <2>2, PartKeeps
<1> QED BY <1>5, <1>6, <1>7, <1>8

(* A block is received.                                                    *)
LEMMA PartsCopy ==
  ASSUME Shapes, Opens, PartsInv, PartsWhole, NEW u \in Uploaders, PartCopy(u)
  PROVE  PartsInv' /\ PartsWhole'
<1> SUFFICES ASSUME ~shared' PROVE OwnIndex' /\ OwnBody' /\ OwnFile' /\ PartsWhole'
  BY DEF PartsInv, PartsWhole
<1> DEFINE x == up[u].ino
           b == up[u].body[up[u].pos + 1]
<1>0. \A v \in Uploaders : up[v].idx \in Indexes /\ up[v].pos \in Nat /\ up[v].body \in Seq(Blocks)
  BY DEF Shapes, UpTypes
<1>1. /\ up[u].pc = "copy" /\ x \in Inodes /\ up[u].pos + 1 \in 1..Len(up[u].body) /\ b \in Blocks
      /\ up'[u].pc = "copy" /\ up'[u].ino = x /\ up'[u].idx = up[u].idx
      /\ up'[u].body = up[u].body /\ up'[u].pos = up[u].pos + 1
      /\ \A v \in Uploaders \ {u} : up'[v] = up[v]
      /\ UNCHANGED <<file, cp, shared>>
      /\ \A y \in Inodes : y \in Used' =>
           data'[y] = IF y = x THEN WriteAt(data[y], up[u].pos, b) ELSE data[y]
  BY CopyFacts
<1>2. OwnIndex /\ OwnBody /\ OwnFile /\ ~shared
  BY <1>1 DEF PartsInv
<1>3. OwnIndex'
  BY <1>1, <1>2 DEF OwnIndex, InChunk
<1>4. OwnBody'
  BY <1>1, <1>2 DEF OwnBody, InChunk
<1>5. OwnFile'
  <2> SUFFICES ASSUME NEW v \in Uploaders, up'[v].pc = "copy"
               PROVE  /\ \A m \in Names : file'[m] = up'[v].ino => m = Tmp(up'[v].idx)
                      /\ file'[Tmp(up'[v].idx)] \in {NoInode, up'[v].ino}
                      /\ \A w \in Uploaders : up'[w].ino = up'[v].ino => v = w
                      /\ Received(v)'
    BY DEF OwnFile
  <2>0. up'[v].ino = up[v].ino /\ up'[v].idx = up[v].idx /\ up[v].pc = "copy"
    BY <1>1
  <2>1. /\ \A m \in Names : file'[m] = up'[v].ino => m = Tmp(up'[v].idx)
        /\ file'[Tmp(up'[v].idx)] \in {NoInode, up'[v].ino}
    BY <1>1, <1>2, <2>0 DEF OwnFile
  <2>2. \A w \in Uploaders : up'[w].ino = up'[v].ino => v = w
    <3>1. \A w \in Uploaders : up'[w].ino = up[w].ino
      BY <1>1
    <3> QED BY <1>2, <2>0, <3>1 DEF OwnFile
  <2>3. Received(v)'
    <3>1. CASE v = u
      <4>1. up'[u].ino \in Used'
        BY DEF Used
      <4>2. data[x] \in Seq(Blocks) /\ up[u].pos \in Nat
        BY <1>0, <1>1 DEF Shapes
      <4>3. Len(data[x]) = up[u].pos /\ \A j \in 1..up[u].pos : data[x][j] = up[u].body[j]
        BY <1>1, <1>2 DEF OwnFile, Received
      <4>4. data'[x] = Append(data[x], b)
        BY <1>1, <4>1, <4>2, <4>3, WriteFacts
      <4>5. /\ Len(Append(data[x], b)) = up[u].pos + 1
            /\ \A j \in 1..up[u].pos : Append(data[x], b)[j] = data[x][j]
            /\ Append(data[x], b)[up[u].pos + 1] = b
        BY <1>1, <4>2, <4>3, AppendProperties
      <4>6. \A j \in 1..(up[u].pos + 1) : data'[x][j] = up[u].body[j]
        <5> SUFFICES ASSUME NEW j \in 1..(up[u].pos + 1) PROVE data'[x][j] = up[u].body[j]
          OBVIOUS
        <5>1. j \in 1..up[u].pos \/ j = up[u].pos + 1
          BY <4>2
        <5> QED BY <4>3, <4>4, <4>5, <5>1
      <4> HIDE DEF x
      <4> QED BY <1>1, <3>1, <4>4, <4>5, <4>6 DEF Received
    <3>2. CASE v # u
      <4>1. up[v].ino # x /\ up'[v] = up[v]
        BY <1>1, <1>2, <2>0, <3>2 DEF OwnFile
      <4>2. up'[v].ino \in Used' /\ up[v].ino \in Inodes
        BY <2>0 DEF Used, Opens, UpOpen
      <4>3. data'[up[v].ino] = data[up[v].ino]
        BY <1>1, <4>1, <4>2
      <4> QED BY <1>2, <2>0, <4>1, <4>3 DEF OwnFile, Received
    <3> QED BY <3>1, <3>2
  <2> QED BY <2>1, <2>2, <2>3
<1>6. PartsWhole'
  <2> SUFFICES ASSUME NEW j \in Indexes, file'[Part(j)] # NoInode
               PROVE  \E k \in ChunkSizes : data'[file'[Part(j)]] = Chunk(j, k)
    BY DEF PartsWhole, Uploaded
  <2>1. Part(j) \in Names /\ Part(j) # Tmp(up[u].idx)
    BY <1>0, NameFacts
  <2>2. file'[Part(j)] = file[Part(j)] /\ file[Part(j)] # x
    BY <1>1, <1>2, <2>1 DEF OwnFile
  <2> QED BY <1>1, <1>2, <2>2, PartKeeps
<1> QED BY <1>3, <1>4, <1>5, <1>6

(* The temporary file, which holds the whole chunk, becomes the part.      *)
LEMMA PartsRename ==
  ASSUME Shapes, Opens, Disk, PartsInv, PartsWhole, NEW u \in Uploaders, PartRename(u),
         file[Tmp(up[u].idx)] # NoInode
  PROVE  PartsInv' /\ PartsWhole'
<1> SUFFICES ASSUME ~shared' PROVE OwnIndex' /\ OwnBody' /\ OwnFile' /\ PartsWhole'
  BY DEF PartsInv, PartsWhole
<1> DEFINE i == up[u].idx
           t == Tmp(i)
           p == Part(i)
           x == up[u].ino
<1>0. \A v \in Uploaders : up[v].idx \in Indexes /\ up[v].pos \in Nat /\ up[v].body \in Seq(Blocks)
  BY DEF Shapes, UpTypes
<1>1. /\ \A m \in Names : file'[m] = IF m = p THEN file[t] ELSE IF m = t THEN NoInode ELSE file[m]
      /\ up'[u].pc = "touch" /\ up'[u].ino = NoInode
      /\ \A v \in Uploaders \ {u} : up'[v] = up[v]
      /\ \A y \in Inodes : y \in Used' => data'[y] = data[y]
  BY PartRenameFacts
<1>2. up[u].pc = "copy" /\ up[u].pos = Len(up[u].body) /\ shared' = shared
  BY DEF PartRename
<1>3. OwnIndex /\ OwnBody /\ OwnFile /\ ~shared
  BY <1>2 DEF PartsInv
<1>4. t \in Names /\ p \in Names /\ t # p /\ NoInode \notin Inodes /\ i \in Indexes
  BY <1>0, NameFacts, UploadConstants
<1>5. file[t] = x /\ x \in Inodes /\ \A v \in Uploaders : up[v].ino = x => u = v
  BY <1>2, <1>3 DEF OwnFile, Opens, UpOpen
<1>6. OwnIndex'
  BY <1>1, <1>3 DEF OwnIndex, InChunk
<1>7. OwnBody'
  BY <1>1, <1>3 DEF OwnBody, InChunk
<1>8. OwnFile'
  <2> SUFFICES ASSUME NEW v \in Uploaders, up'[v].pc = "copy"
               PROVE  /\ \A m \in Names : file'[m] = up'[v].ino => m = Tmp(up'[v].idx)
                      /\ file'[Tmp(up'[v].idx)] \in {NoInode, up'[v].ino}
                      /\ \A w \in Uploaders : up'[w].ino = up'[v].ino => v = w
                      /\ Received(v)'
    BY DEF OwnFile
  <2>1. v # u /\ up'[v] = up[v] /\ up[v].pc = "copy" /\ up[v].ino # x
    BY <1>1, <1>5
  <2>2. up[v].ino \in Inodes /\ up'[v].ino \in Used' /\ up[v].idx # i
    BY <1>2, <1>3, <2>1 DEF Opens, UpOpen, Used, OwnIndex, InChunk
  <2>3. Tmp(up[v].idx) \in Names /\ Tmp(up[v].idx) # t /\ Tmp(up[v].idx) # p
    BY <1>0, <1>4, <2>2, NameFacts
  <2> HIDE DEF t, p, x, i
  <2>4. /\ \A m \in Names : file'[m] = up[v].ino => m = Tmp(up[v].idx)
        /\ file'[Tmp(up[v].idx)] \in {NoInode, up[v].ino}
    BY <1>1, <1>3, <1>4, <1>5, <2>1, <2>2, <2>3 DEF OwnFile
  <2>5. \A w \in Uploaders : up'[w].ino = up[v].ino => v = w
    BY <1>1, <1>3, <1>4, <2>1, <2>2 DEF OwnFile
  <2>6. data'[up[v].ino] = data[up[v].ino]
    BY <1>1, <2>1, <2>2
  <2>7. Undisturbed(v)
    BY <2>1, <2>4, <2>5, <2>6 DEF Undisturbed
  <2> QED BY <1>3, <2>1, <2>7, UndisturbedKeeps
<1>9. PartsWhole'
  <2> SUFFICES ASSUME NEW j \in Indexes, file'[Part(j)] # NoInode
               PROVE  \E k \in ChunkSizes : data'[file'[Part(j)]] = Chunk(j, k)
    BY DEF PartsWhole, Uploaded
  <2>1. Part(j) \in Names /\ Part(j) # t /\ (Part(j) = p => j = i)
    BY <1>4, NameFacts
  <2>2. CASE j = i
    <3>1. file'[Part(j)] = x /\ x \in Used'
      <4>1. file'[Part(j)] = x
        BY <1>1, <1>5, <2>1, <2>2
      <4>2. file'[Part(j)] \in Used'
        BY <2>1 DEF Used
      <4> QED BY <4>1, <4>2
    <3>2. data'[x] = data[x]
      BY <1>1, <1>5, <3>1
    <3>3. data[x] \in Seq(Blocks) /\ Len(data[x]) = Len(up[u].body)
          /\ \A l \in 1..Len(data[x]) : data[x][l] = up[u].body[l]
      BY <1>2, <1>3, <1>5 DEF OwnFile, Received, Shapes
    <3>4. data[x] = up[u].body
      BY <1>0, <3>3, SeqEqual
    <3>5. \E k \in ChunkSizes : up[u].body = Chunk(i, k)
      BY <1>2, <1>3 DEF OwnBody, InChunk
    <3> QED BY <2>2, <3>1, <3>2, <3>4, <3>5
  <2>3. CASE j # i
    <3>1. file'[Part(j)] = file[Part(j)]
      BY <1>1, <2>1, <2>3
    <3> QED BY <1>1, <1>3, <3>1, PartKeeps
  <2> QED BY <2>2, <2>3
<1> QED BY <1>6, <1>7, <1>8, <1>9

(* The merged file is created.                                             *)
LEMMA PartsMerged ==
  ASSUME Shapes, Opens, Disk, PartsInv, PartsWhole, NEW c \in Completers, NEW k \in ChunkSizes,
         CompleteCreate(c, k)
  PROVE  PartsInv' /\ PartsWhole'
<1> SUFFICES ASSUME ~shared' PROVE OwnIndex' /\ OwnBody' /\ OwnFile' /\ PartsWhole'
  BY DEF PartsInv, PartsWhole
<1> DEFINE x == InodeFor(Merged)
<1>1. /\ HasInode(Merged)
      /\ \A m \in Names : file'[m] = IF m = Merged THEN x ELSE file[m]
      /\ up' = up /\ shared' = shared
      /\ \A y \in Inodes : y \in Used' => data'[y] = IF y = x THEN <<>> ELSE data[y]
  BY CompleteCreateFacts DEF CompleteCreate
<1>2. OwnIndex /\ OwnBody /\ OwnFile /\ ~shared
  BY <1>1 DEF PartsInv
<1>3. x \in Inodes /\ (\A m \in Names : file[m] = x => m = Merged) /\ (\A u \in Uploaders : up[u].ino # x)
      /\ Merged \in Names /\ \A u \in Uploaders : Tmp(up[u].idx) \in Names /\ Tmp(up[u].idx) # Merged
  BY <1>1, CreateApart, NameFacts DEF Shapes, UpTypes
<1> HIDE DEF x
<1>4. OwnIndex'
  BY <1>1, <1>2 DEF OwnIndex, InChunk
<1>5. OwnBody'
  BY <1>1, <1>2 DEF OwnBody, InChunk
<1>6. OwnFile'
  <2> SUFFICES ASSUME NEW v \in Uploaders, up'[v].pc = "copy"
               PROVE  /\ \A m \in Names : file'[m] = up'[v].ino => m = Tmp(up'[v].idx)
                      /\ file'[Tmp(up'[v].idx)] \in {NoInode, up'[v].ino}
                      /\ \A w \in Uploaders : up'[w].ino = up'[v].ino => v = w
                      /\ Received(v)'
    BY DEF OwnFile
  <2>1. up'[v] = up[v] /\ up[v].pc = "copy"
    BY <1>1
  <2>2. up[v].ino \in Inodes /\ up'[v].ino \in Used'
    BY <2>1 DEF Opens, UpOpen, Used
  <2>3. data'[up[v].ino] = data[up[v].ino]
    BY <1>1, <1>3, <2>1, <2>2
  <2>4. /\ \A m \in Names : file'[m] = up[v].ino => m = Tmp(up[v].idx)
        /\ file'[Tmp(up[v].idx)] \in {NoInode, up[v].ino}
    BY <1>1, <1>2, <1>3, <2>1 DEF OwnFile
  <2>5. \A w \in Uploaders : up'[w].ino = up[v].ino => v = w
    BY <1>1, <1>2, <2>1 DEF OwnFile
  <2>6. Undisturbed(v)
    BY <2>1, <2>3, <2>4, <2>5 DEF Undisturbed
  <2> QED BY <1>2, <2>1, <2>6, UndisturbedKeeps
<1>7. PartsWhole'
  <2> SUFFICES ASSUME NEW j \in Indexes, file'[Part(j)] # NoInode
               PROVE  \E l \in ChunkSizes : data'[file'[Part(j)]] = Chunk(j, l)
    BY DEF PartsWhole, Uploaded
  <2>1. Part(j) \in Names /\ Part(j) # Merged
    BY NameFacts
  <2>2. file'[Part(j)] = file[Part(j)] /\ file[Part(j)] # x
    BY <1>1, <1>3, <2>1
  <2> QED BY <1>1, <1>2, <2>2, PartKeeps
<1> QED BY <1>4, <1>5, <1>6, <1>7

(* Every step keeps the parts whole.                                       *)
LEMMA PartsStep ==
  ASSUME Shapes, Opens, Opens', Disk, PartsInv, PartsWhole, [Next]_vars
  PROVE  PartsInv' /\ PartsWhole'
  BY StepKinds, PartsCalm, PartsMkdir, PartsCreate, PartsCopy, PartsRename, PartsMerged DEF Works
-----------------------------------------------------------------------------
(* A request has read one block more of the file.                          *)
LEMMA ReadFacts ==
  ASSUME NEW p \in Nat
  PROVE  /\ SubSeq(File, 1, 0) = <<>> /\ SubSeq(File, 1, Length) = File
         /\ p < Length => SubSeq(File, 1, p) \o <<File[p + 1]>> = SubSeq(File, 1, p + 1)
<1>0. File \in Seq(Blocks) /\ Len(File) = Length /\ Length \in Nat /\ \A j \in 1..Length : File[j] = j
  BY FileFacts, UploadConstants
<1> HIDE DEF File
<1>1. SubSeq(File, 1, 0) = <<>>
  BY <1>0
<1>2. SubSeq(File, 1, Length) = File
  BY <1>0
<1>3. ASSUME p < Length PROVE SubSeq(File, 1, p) \o <<File[p + 1]>> = SubSeq(File, 1, p + 1)
  <2>1. SubSeq(File, 1, p) \in Seq(Blocks) /\ Len(SubSeq(File, 1, p)) = p
    BY <1>0, <1>3
  <2>2. SubSeq(File, 1, p + 1) \in Seq(Blocks) /\ Len(SubSeq(File, 1, p + 1)) = p + 1
    BY <1>0, <1>3
  <2>3. File[p + 1] \in Blocks
    BY <1>0, <1>3 DEF Blocks
  <2>4. <<File[p + 1]>> \in Seq(Blocks) /\ Len(<<File[p + 1]>>) = 1
    BY <2>3
  <2> DEFINE l == SubSeq(File, 1, p) \o <<File[p + 1]>>
             r == SubSeq(File, 1, p + 1)
  <2>5. l \in Seq(Blocks) /\ Len(l) = p + 1
    BY <2>1, <2>4, ConcatProperties
  <2>6. \A j \in 1..(p + 1) : l[j] = r[j]
    BY <1>0, <1>3, <2>1, <2>2, <2>4
  <2> HIDE DEF l, r
  <2>7. l = r
    BY <2>2, <2>5, <2>6, SeqEqual DEF r
  <2> QED BY <2>7 DEF l, r
<1> QED BY <1>1, <1>2, <1>3

(* The files that a complete request depends on.                           *)
Depends(c) ==
  {x \in Inodes : \/ x = file[Merged]
                  \/ Writes(c) /\ x = cp[c].out
                  \/ cp[c].pc = "read" /\ x = cp[c].in}

(* A step of others leaves the merge alone if it keeps off these files.    *)
LEMMA MergedElsewhere ==
  ASSUME Shapes, Opens, NEW c \in Completers, MergedFor(c), cp' = cp,
         file'[Merged] \in {file[Merged], NoInode},
         \A x \in Depends(c) : x \in Used' => data'[x] = data[x],
         cp[c].pc = "read" => /\ \A n \in Names : file'[n] = cp[c].in => n = Merged
                              /\ \A u \in Uploaders : up'[u].ino # cp[c].in
  PROVE  MergedFor(c)'
<1>0. Merged \in Names /\ file[Merged] \in InodeOrNone /\ NoInode \notin Inodes
  BY NameFacts, UploadConstants DEF Shapes
<1>1. cp[c].out \in Inodes <=> Writes(c)
  BY DEF Opens, CpOpen, Writes
<1>2. cp[c].pc = "read" => cp[c].in \in Inodes
  BY DEF Opens, CpOpen
<1>3. file'[Merged] \in Used' /\ cp[c].out \in Used' /\ cp[c].in \in Used'
  BY <1>0 DEF Used
<1>4. Writes(c) => file'[Merged] \in {NoInode, cp[c].out} /\ data'[cp[c].out] = cp[c].sum
  BY <1>1, <1>3 DEF MergedFor, Depends
<1>5. cp[c].pc = "reopen" /\ file'[Merged] # NoInode => data'[file'[Merged]] = File
  BY <1>0, <1>3 DEF MergedFor, Depends, InodeOrNone
<1>6. cp[c].pc = "read" => data'[cp[c].in] = File
  BY <1>2, <1>3 DEF MergedFor, Depends
<1> QED BY <1>4, <1>5, <1>6 DEF MergedFor, Writes

(* The files the complete request depends on are no part request's.        *)
LEMMA DependsApart ==
  ASSUME Shapes, Opens, Disk, NEW c \in Completers, MergedFor(c), NEW x \in Depends(c)
  PROVE  /\ \A u \in Uploaders : up[u].ino # x
         /\ \A n \in Names : file[n] = x => n = Merged
<1>0. x \in Inodes /\ NoInode \notin Inodes /\ Merged \in Names
  BY NameFacts, UploadConstants DEF Depends
<1>1. CASE x = file[Merged]
  <2>1. \A u \in Uploaders : up[u].ino \in Inodes => up[u].pc = "copy"
    BY DEF Opens, UpOpen
  <2> QED BY <1>0, <1>1, <2>1 DEF Disk, PartsApart, OneName
<1>2. CASE Writes(c) /\ x = cp[c].out
  BY <1>2 DEF Disk, MergedApart
<1>3. CASE cp[c].pc = "read" /\ x = cp[c].in
  BY <1>3 DEF MergedFor
<1> QED BY <1>1, <1>2, <1>3 DEF Depends

(* The steps of part requests, of removals and of time.                    *)
LEMMA MergedOthers ==
  ASSUME Shapes, Opens, Opens', Disk, NEW c \in Completers, MergedFor(c),
         Quiet \/ \E u \in Uploaders : Works(u)
  PROVE  MergedFor(c)' /\ assets' = assets
<1>0. NoInode \notin Inodes /\ Merged \in Names /\ (\A u \in Uploaders : up[u].idx \in Indexes)
      /\ \A u \in Uploaders : up'[u].ino \in Inodes <=> up'[u].pc = "copy"
  BY UploadConstants, NameFacts DEF Shapes, UpTypes, Opens, UpOpen
<1>1. cp[c].pc = "read" => cp[c].in \in Depends(c) /\ cp[c].in \in Inodes
  BY DEF Depends, Opens, CpOpen
<1>2. \A x \in Depends(c) : /\ x \in Inodes
                            /\ \A u \in Uploaders : up[u].ino # x
                            /\ \A n \in Names : file[n] = x => n = Merged
  BY DependsApart DEF Depends
<1>3. CASE Quiet
  <2>1. CASE cp' = cp
    <3>1. cp[c].pc = "read" => \A u \in Uploaders : up'[u].ino # cp[c].in
      BY <1>0, <1>1, <1>2, <1>3 DEF Quiet
    <3>2. cp[c].pc = "read" => \A n \in Names : file'[n] = cp[c].in => n = Merged
      BY <1>0, <1>1, <1>2, <1>3 DEF Quiet
    <3>3. \A x \in Depends(c) : x \in Used' => data'[x] = data[x]
      BY <1>2, <1>3 DEF Quiet
    <3> QED BY <1>0, <1>3, <2>1, <3>1, <3>2, <3>3, MergedElsewhere DEF Quiet
  <2>2. CASE cp'[c] = IdleCp
    BY <1>3, <2>2 DEF Quiet, MergedFor, Writes, IdleCp
  <2> QED BY <1>3, <2>1, <2>2 DEF Quiet
<1>4. ASSUME NEW u \in Uploaders, NEW i \in Indexes, NEW k \in ChunkSizes, PartMkdir(u, i, k)
      PROVE  MergedFor(c)' /\ assets' = assets
  <2>1. /\ up'[u].ino = NoInode /\ (\A v \in Uploaders \ {u} : up'[v] = up[v])
        /\ UNCHANGED <<file, data, cp, assets>>
    BY <1>4, MkdirFacts DEF PartMkdir
  <2>2. cp[c].pc = "read" => \A v \in Uploaders : up'[v].ino # cp[c].in
    BY <1>0, <1>1, <1>2, <2>1
  <2> QED BY <1>1, <1>2, <2>1, <2>2, MergedElsewhere
<1>5. ASSUME NEW u \in Uploaders, PartCreate(u), dir PROVE MergedFor(c)' /\ assets' = assets
  <2> DEFINE n == Tmp(up[u].idx)
             y == InodeFor(n)
  <2>1. /\ n \in Names /\ HasInode(n)
        /\ \A m \in Names : file'[m] = IF m = n THEN y ELSE file[m]
        /\ up'[u].ino = y /\ (\A v \in Uploaders \ {u} : up'[v] = up[v])
        /\ \A x \in Inodes : x \in Used' => data'[x] = IF x = y THEN <<>> ELSE data[x]
        /\ UNCHANGED <<cp, assets>>
    BY <1>5, PartCreateFacts DEF PartCreate
  <2>2. y = file[n] \/ y \notin Used
    BY <2>1, CreateFacts
  <2>n. n # Merged
    BY <1>0, NameFacts
  <2>3. \A x \in Depends(c) : x \in Used
    BY <1>0, UsedFacts DEF Depends
  <2> HIDE DEF n, y
  <2>4. \A x \in Depends(c) : x # y
    BY <1>2, <2>1, <2>2, <2>3, <2>n
  <2>5. cp[c].pc = "read" => /\ \A m \in Names : file'[m] = cp[c].in => m = Merged
                             /\ \A v \in Uploaders : up'[v].ino # cp[c].in
    BY <1>1, <1>2, <2>1, <2>4
  <2>6. \A x \in Depends(c) : x \in Used' => data'[x] = data[x]
    BY <1>2, <2>1, <2>4
  <2>7. file'[Merged] = file[Merged]
    BY <1>0, <2>1, <2>n
  <2> QED BY <2>1, <2>5, <2>6, <2>7, MergedElsewhere
<1>6. ASSUME NEW u \in Uploaders, PartCopy(u) PROVE MergedFor(c)' /\ assets' = assets
  <2>1. /\ up'[u].ino = up[u].ino /\ (\A v \in Uploaders \ {u} : up'[v] = up[v])
        /\ \A x \in Inodes : x \in Used' /\ x # up[u].ino => data'[x] = data[x]
        /\ UNCHANGED <<file, cp, assets>>
    BY <1>6, CopyFacts DEF PartCopy
  <2>2. \A x \in Depends(c) : x \in Used' => data'[x] = data[x]
    BY <1>2, <2>1
  <2>3. cp[c].pc = "read" => \A v \in Uploaders : up'[v].ino # cp[c].in
    BY <1>1, <1>2, <2>1
  <2> QED BY <1>1, <1>2, <2>1, <2>2, <2>3, MergedElsewhere
<1>7. ASSUME NEW u \in Uploaders, PartRename(u), file[Tmp(up[u].idx)] # NoInode
      PROVE  MergedFor(c)' /\ assets' = assets
  <2> DEFINE t == Tmp(up[u].idx)
             p == Part(up[u].idx)
  <2>1. /\ \A m \in Names : file'[m] = IF m = p THEN file[t] ELSE IF m = t THEN NoInode ELSE file[m]
        /\ up'[u].ino = NoInode /\ (\A v \in Uploaders \ {u} : up'[v] = up[v])
        /\ \A x \in Inodes : x \in Used' => data'[x] = data[x]
        /\ UNCHANGED <<cp, assets>>
    BY <1>7, PartRenameFacts DEF PartRename
  <2>2. t \in Names /\ p \in Names /\ t # Merged /\ p # Merged
    BY <1>0, NameFacts
  <2> HIDE DEF t, p
  <2>3. cp[c].pc = "read" => /\ \A m \in Names : file'[m] = cp[c].in => m = Merged
                             /\ \A v \in Uploaders : up'[v].ino # cp[c].in
    BY <1>0, <1>1, <1>2, <2>1, <2>2
  <2>4. file'[Merged] = file[Merged]
    BY <1>0, <2>1, <2>2
  <2>5. \A x \in Depends(c) : x \in Used' => data'[x] = data[x]
    BY <1>2, <2>1
  <2> QED BY <2>1, <2>3, <2>4, <2>5, MergedElsewhere
<1> QED BY <1>3, <1>4, <1>5, <1>6, <1>7 DEF Works

(* The steps of the complete request itself.                               *)
LEMMA MergedOwn ==
  ASSUME Shapes, Opens, Disk, NEW c \in Completers, MergedFor(c), CompleteStep(c)
  PROVE  MergedFor(c)' /\ (AssetsVerified => AssetsVerified')
<1>0. /\ cp \in [Completers -> CpTypes] /\ file \in [Names -> InodeOrNone] /\ data \in [Inodes -> Seq(Blocks)]
      /\ Merged \in Names /\ NoInode \notin Inodes /\ file[Merged] \in InodeOrNone
      /\ cp[c] \in CpTypes /\ cp[c].sum \in Seq(Blocks) /\ cp[c].pos \in Nat
  BY NameFacts, UploadConstants DEF Shapes, CpTypes
<1>1. /\ cp[c].out \in Inodes <=> cp[c].pc \in {"open", "copy"}
      /\ cp[c].in \in Inodes <=> cp[c].pc \in {"copy", "read"}
  BY DEF Opens, CpOpen
<1>2. file'[Merged] \in Used' /\ cp'[c].out \in Used' /\ cp'[c].in \in Used'
  BY <1>0 DEF Used
<1>d. ASSUME SetData(data) PROVE \A x \in Inodes : x \in Used' => data'[x] = data[x]
  BY <1>0, <1>d, DataFacts
<1>i. ASSUME cp' = [cp EXCEPT ![c] = IdleCp] PROVE MergedFor(c)'
  <2>1. cp'[c] = IdleCp
    BY <1>0, <1>i
  <2> QED BY <2>1 DEF MergedFor, Writes, IdleCp
<1>a. ASSUME assets' = assets, AssetsVerified PROVE AssetsVerified'
  BY <1>a DEF AssetsVerified
<1>3. CASE \E k \in ChunkSizes : CompleteCreate(c, k)
  <2> PICK k \in ChunkSizes : CompleteCreate(c, k)
    BY <1>3
  <2> DEFINE x == InodeFor(Merged)
  <2>1. /\ HasInode(Merged) /\ file'[Merged] = x
        /\ cp'[c].pc = "open" /\ cp'[c].out = x /\ cp'[c].sum = <<>>
        /\ \A y \in Inodes : y \in Used' => data'[y] = IF y = x THEN <<>> ELSE data[y]
    BY <1>0, CompleteCreateFacts
  <2>2. x \in Inodes
    BY <1>0, <2>1, CreateFacts
  <2> HIDE DEF x
  <2>3. data'[x] = <<>>
    BY <1>2, <2>1, <2>2
  <2>4. assets' = assets
    BY DEF CompleteCreate
  <2> QED BY <1>a, <2>1, <2>3, <2>4 DEF MergedFor, Writes
<1>4. CASE CompleteOpen(c)
  <2>0. assets' = assets /\ cp[c].pc = "open"
    BY <1>4 DEF CompleteOpen
  <2>1. CASE file[Part(cp[c].idx)] # NoInode
    <3>1. /\ cp' = [cp EXCEPT ![c] = [cp[c] EXCEPT !.pc = "copy", !.in = file[Part(cp[c].idx)], !.pos = 0]]
          /\ UNCHANGED <<file, data>>
      BY <1>0, <1>4, <2>1 DEF CompleteOpen
    <3>2. cp'[c].pc = "copy" /\ cp'[c].out = cp[c].out /\ cp'[c].sum = cp[c].sum
      BY <1>0, <3>1 DEF CpTypes
    <3> QED BY <1>a, <2>0, <3>1, <3>2 DEF MergedFor, Writes
  <2>2. CASE file[Part(cp[c].idx)] = NoInode
    BY <1>4, <1>a, <1>i, <2>0, <2>2 DEF CompleteOpen, GiveUp
  <2> QED BY <2>1, <2>2
<1>5. CASE CompleteCopy(c)
  <2> DEFINE b == NextBlock(cp[c].in, cp[c].pos)
             d == data[cp[c].in]
  <2>0. /\ cp[c].pc = "copy" /\ Writes(c) /\ cp[c].out \in Inodes /\ cp[c].in \in Inodes
        /\ UNCHANGED <<file, assets>>
        /\ file[Merged] \in {NoInode, cp[c].out} /\ data[cp[c].out] = cp[c].sum
    BY <1>1, <1>5 DEF CompleteCopy, Writes, MergedFor
  <2>1. CASE b # <<>>
    <3>1. cp' = [cp EXCEPT ![c] = [cp[c] EXCEPT !.pos = @ + 1, !.sum = @ \o b]]
      BY <1>0, <1>5, <2>1 DEF CompleteCopy
    <3>2. cp'[c].pc = "copy" /\ cp'[c].out = cp[c].out /\ cp'[c].sum = cp[c].sum \o b
      BY <1>0, <2>0, <3>1 DEF CpTypes
    <3>3. d \in Seq(Blocks) /\ Len(d) \in Nat /\ cp[c].pos < Len(d) /\ b = <<d[cp[c].pos + 1]>>
      BY <1>0, <2>0, <2>1, LenProperties DEF NextBlock
    <3>4. cp[c].pos + 1 \in 1..Len(d)
      BY <1>0, <3>3
    <3>5. d[cp[c].pos + 1] \in Blocks
      BY <3>3, <3>4, ElementOfSeq
    <3>6. b[1] = d[cp[c].pos + 1] /\ b[1] \in Blocks /\ b = <<b[1]>> /\ Len(cp[c].sum) \in Nat
      BY <1>0, <3>3, <3>5, LenProperties
    <3> DEFINE w == WriteAt(data[cp[c].out], Len(cp[c].sum), b[1])
    <3> HIDE DEF b
    <3>7. w = Append(cp[c].sum, b[1]) /\ w \in Seq(Blocks)
      BY <1>0, <2>0, <3>6, WriteFacts
    <3>8. Append(cp[c].sum, b[1]) = cp[c].sum \o <<b[1]>>
      BY <1>0, <3>6, AppendIsConcat
    <3>9. SetData([data EXCEPT ![cp[c].out] = w])
      BY <1>5, <2>1 DEF CompleteCopy, b
    <3>10. [data EXCEPT ![cp[c].out] = w] \in [Inodes -> Seq(Blocks)]
      BY <1>0, <3>7
    <3> HIDE DEF w
    <3>11. data'[cp[c].out] = w
      <4>1. data'[cp[c].out] = [data EXCEPT ![cp[c].out] = w][cp[c].out]
        BY <1>2, <2>0, <3>2, <3>9, <3>10, DataFacts
      <4> QED BY <1>0, <2>0, <4>1
    <3>12. data'[cp'[c].out] = cp'[c].sum
      BY <3>2, <3>6, <3>7, <3>8, <3>11
    <3> QED BY <1>a, <2>0, <3>2, <3>12 DEF MergedFor, Writes
  <2>2. CASE b = <<>>
    <3>1. cp' = [cp EXCEPT ![c] = [cp[c] EXCEPT !.pc = "open", !.in = NoInode, !.pos = 0, !.idx = @ + 1]]
          /\ SetData(data)
      BY <1>0, <1>5, <2>2 DEF CompleteCopy
    <3>2. cp'[c].pc = "open" /\ cp'[c].out = cp[c].out /\ cp'[c].sum = cp[c].sum
      BY <1>0, <3>1 DEF CpTypes
    <3>3. data'[cp[c].out] = data[cp[c].out]
      BY <1>2, <1>d, <2>0, <3>1, <3>2
    <3> QED BY <1>a, <2>0, <3>2, <3>3 DEF MergedFor, Writes
  <2> QED BY <2>1, <2>2
<1>6. CASE CompleteBreak(c)
  BY <1>6, <1>a, <1>i DEF CompleteBreak, GiveUp
<1>7. CASE CompleteCheck(c)
  <2>0. assets' = assets /\ cp[c].pc = "open" /\ Writes(c)
    BY <1>7 DEF CompleteCheck, Writes
  <2>1. CASE Verified(cp[c].sum)
    <3>1. cp' = [cp EXCEPT ![c] = [IdleCp EXCEPT !.pc = "reopen"]] /\ file' = file /\ SetData(data)
      BY <1>7, <2>1 DEF CompleteCheck
    <3>2. cp'[c].pc = "reopen"
      BY <1>0, <3>1 DEF IdleCp
    <3>3. file[Merged] # NoInode => data[file[Merged]] = File /\ file[Merged] \in Inodes
      BY <1>1, <2>0, <2>1 DEF MergedFor, Verified
    <3>4. file'[Merged] # NoInode => data'[file'[Merged]] = File
      BY <1>2, <1>d, <3>1, <3>3
    <3> QED BY <1>a, <2>0, <3>2, <3>4 DEF MergedFor, Writes
  <2>2. CASE ~Verified(cp[c].sum)
    BY <1>7, <1>a, <1>i, <2>0, <2>2 DEF CompleteCheck, GiveUp
  <2> QED BY <2>1, <2>2
<1>8. CASE CompleteReopen(c)
  <2>0. UNCHANGED <<file, data, up, assets>> /\ cp[c].pc = "reopen"
    BY <1>8 DEF CompleteReopen
  <2>1. CASE file[Merged] # NoInode
    <3>1. cp'[c] = [IdleCp EXCEPT !.pc = "read", !.in = file[Merged]]
      BY <1>0, <1>8, <2>1 DEF CompleteReopen
    <3>2. cp'[c].pc = "read" /\ cp'[c].in = file[Merged] /\ cp'[c].pos = 0 /\ cp'[c].sum = <<>>
      BY <3>1 DEF IdleCp
    <3>3. file[Merged] \in Inodes
      BY <1>0, <2>1 DEF InodeOrNone
    <3>4. \A u \in Uploaders : up[u].ino # file[Merged]
      BY <3>3 DEF Disk, PartsApart, Opens, UpOpen
    <3>5. \A n \in Names : file[n] = file[Merged] => n = Merged
      BY <1>0, <2>1 DEF Disk, OneName
    <3>6. data[file[Merged]] = File
      BY <2>0, <2>1 DEF MergedFor
    <3>7. 0 <= Length /\ SubSeq(File, 1, 0) = <<>>
      BY UploadConstants, ReadFacts
    <3> QED BY <1>a, <2>0, <3>2, <3>4, <3>5, <3>6, <3>7 DEF MergedFor, Writes
  <2>2. CASE file[Merged] = NoInode
    BY <1>8, <1>a, <1>i, <2>0, <2>2 DEF CompleteReopen
  <2> QED BY <2>1, <2>2
<1>9. CASE CompleteRead(c)
  <2>0. /\ cp[c].pc = "read" /\ NextBlock(cp[c].in, cp[c].pos) # <<>> /\ UNCHANGED <<file, data, up, assets>>
        /\ cp' = [cp EXCEPT ![c] = [cp[c] EXCEPT !.pos = @ + 1, !.sum = @ \o NextBlock(cp[c].in, cp[c].pos)]]
    BY <1>0, <1>9 DEF CompleteRead
  <2>1. /\ data[cp[c].in] = File /\ cp[c].sum = SubSeq(File, 1, cp[c].pos)
        /\ (\A n \in Names : file[n] = cp[c].in => n = Merged)
        /\ \A u \in Uploaders : up[u].ino # cp[c].in
    BY <2>0 DEF MergedFor
  <2>2. cp[c].pos < Length /\ NextBlock(cp[c].in, cp[c].pos) = <<File[cp[c].pos + 1]>>
    BY <2>0, <2>1, FileFacts DEF NextBlock
  <2>3. /\ cp'[c].pc = "read" /\ cp'[c].in = cp[c].in /\ cp'[c].pos = cp[c].pos + 1
        /\ cp'[c].sum = cp[c].sum \o NextBlock(cp[c].in, cp[c].pos)
    BY <1>0, <2>0 DEF CpTypes
  <2>4. cp'[c].sum = SubSeq(File, 1, cp[c].pos + 1)
    BY <1>0, <2>1, <2>2, <2>3, ReadFacts
  <2>5. cp'[c].pos <= Length
    BY <1>0, <2>2, <2>3, UploadConstants
  <2> QED BY <1>a, <2>0, <2>1, <2>3, <2>4, <2>5 DEF MergedFor, Writes
<1>10. CASE CompleteAsset(c)
  <2>0. /\ cp[c].pc = "read" /\ NextBlock(cp[c].in, cp[c].pos) = <<>> /\ cp' = [cp EXCEPT ![c] = IdleCp]
        /\ assets' = Append(assets, cp[c].sum) /\ assets \in Seq(Seq(Blocks))
    BY <1>10 DEF CompleteAsset, Shapes
  <2>1. data[cp[c].in] = File /\ cp[c].sum = SubSeq(File, 1, cp[c].pos) /\ cp[c].pos <= Length
    BY <2>0 DEF MergedFor
  <2>2. ~(cp[c].pos < Length)
    BY <2>0, <2>1, FileFacts DEF NextBlock
  <2>3. cp[c].pos = Length
    BY <1>0, <2>1, <2>2, UploadConstants
  <2>4. cp[c].sum = File
    BY <1>0, <2>1, <2>3, ReadFacts
  <2>5. ASSUME AssetsVerified PROVE AssetsVerified'
    <3>1. /\ Len(assets') = Len(assets) + 1 /\ Len(assets) \in Nat
          /\ \A a \in 1..Len(assets) : assets'[a] = assets[a]
          /\ assets'[Len(assets) + 1] = cp[c].sum
      BY <1>0, <2>0, AppendProperties, LenProperties
    <3> SUFFICES ASSUME NEW a \in 1..Len(assets') PROVE assets'[a] = File
      BY DEF AssetsVerified
    <3>2. a \in 1..Len(assets) \/ a = Len(assets) + 1
      BY <3>1
    <3> QED BY <2>4, <2>5, <3>1, <3>2 DEF AssetsVerified
  <2> QED BY <1>i, <2>0, <2>5
<1>11. CASE CompleteFail(c)
  BY <1>11, <1>a, <1>i DEF CompleteFail
<1> QED BY <1>3, <1>4, <1>5, <1>6, <1>7, <1>8, <1>9, <1>10, <1>11 DEF CompleteStep

(* Every step keeps what the complete request has verified.                *)
LEMMA MergedStep ==
  ASSUME Shapes, Opens, Opens', Disk, MergedInv, VerifiedWhenAlone, [Next]_vars
  PROVE  MergedInv' /\ VerifiedWhenAlone'
<1> SUFFICES ASSUME Cardinality(Completers) = 1
             PROVE  (\A c \in Completers : MergedFor(c)') /\ AssetsVerified'
  BY DEF MergedInv, VerifiedWhenAlone
<1>1. PICK c : Completers = {c}
  BY UploadAssumption, FS_Singleton
<1>2. MergedFor(c) /\ AssetsVerified
  BY <1>1 DEF MergedInv, VerifiedWhenAlone
<1>3. CASE Quiet \/ \E u \in Uploaders : Works(u)
  <2>1. MergedFor(c)' /\ assets' = assets
    BY <1>1, <1>2, <1>3, MergedOthers
  <2> QED BY <1>1, <1>2, <2>1 DEF AssetsVerified
<1>4. CASE CompleteStep(c)
  BY <1>1, <1>2, <1>4, MergedOwn
<1> QED BY <1>1, <1>3, <1>4, StepOwners
-----------------------------------------------------------------------------
(* An upload directory that nobody has asked for yet.                      *)
LEMMA UploadStarts ==
  ASSUME Init
  PROVE  /\ Shapes /\ Opens /\ Disk /\ PartsInv /\ PartsWhole /\ MergedInv /\ VerifiedWhenAlone
<1>0. /\ NoInode \in InodeOrNone /\ NoInode \notin Inodes /\ Merged \in Names /\ MaxCrashes \in Nat
      /\ <<>> \in Seq(Blocks) /\ <<>> \in Seq(Seq(Blocks)) /\ Len(<<>>) = 0
  BY UploadConstants, NameFacts, EmptySeq DEF InodeOrNone
<1>1. IdleRm \in [pc : {"idle", "list", "unlink"}, todo : SUBSET Names]
  BY DEF IdleRm
<1>2. Shapes
  <2>1. up \in [Uploaders -> UpTypes] /\ cp \in [Completers -> CpTypes]
    BY IdleFacts DEF Init
  <2>2. rm \in [Removers -> [pc : {"idle", "list", "unlink"}, todo : SUBSET Names]]
    BY <1>1 DEF Init
  <2>3. file \in [Names -> InodeOrNone] /\ data \in [Inodes -> Seq(Blocks)]
    BY <1>0 DEF Init
  <2>4. dir \in BOOLEAN /\ fresh \in BOOLEAN /\ shared \in BOOLEAN
    BY DEF Init
  <2>5. crashes \in 0..MaxCrashes
    BY <1>0 DEF Init
  <2>6. assets \in Seq(Seq(Blocks))
    BY <1>0 DEF Init
  <2> QED BY <2>1, <2>2, <2>3, <2>4, <2>5, <2>6 DEF Shapes
<1>3. Opens
  BY IdleFacts DEF Init, Opens
<1>4. /\ \A u \in Uploaders : up[u].pc = "idle"
      /\ \A c \in Completers : cp[c].pc = "idle"
      /\ \A n \in Names : file[n] = NoInode
  BY DEF Init, IdleUp, IdleCp
<1>5. Disk
  BY <1>4 DEF Disk, OneName, PartsApart, MergedApart, Writes
<1>6. PartsInv
  BY <1>4 DEF PartsInv, OwnIndex, OwnBody, OwnFile, InChunk
<1>7. PartsWhole
  BY <1>4, NameFacts DEF PartsWhole, Uploaded
<1>8. MergedInv
  BY <1>4 DEF MergedInv, MergedFor, Writes
<1>9. VerifiedWhenAlone
  BY <1>0 DEF Init, VerifiedWhenAlone, AssetsVerified
<1> QED BY <1>2, <1>3, <1>5, <1>6, <1>7, <1>8, <1>9

UploadInv == Shapes /\ Opens /\ Disk /\ PartsInv /\ PartsWhole /\ MergedInv /\ VerifiedWhenAlone

(* The inductive invariant behind the three theorems below.                *)
LEMMA UploadInvariant == Spec => []UploadInv
<1>1. Init => UploadInv
  BY UploadStarts DEF UploadInv
<1>2. UploadInv /\ [Next]_vars => UploadInv'
  <2> SUFFICES ASSUME UploadInv, [Next]_vars PROVE UploadInv'
    OBVIOUS
  <2>1. Shapes' /\ Opens'
    BY ShapesStep DEF UploadInv
  <2>2. Disk'
    BY <2>1, DiskStep DEF UploadInv
  <2>3. PartsInv' /\ PartsWhole'
    BY <2>1, PartsStep DEF UploadInv
  <2>4. MergedInv' /\ VerifiedWhenAlone'
    BY <2>1, MergedStep DEF UploadInv
  <2> QED BY <2>1, <2>2, <2>3, <2>4 DEF UploadInv
<1> QED BY <1>1, <1>2, PTL DEF Spec

(* The types of an upload directory and of the requests in it: a request   *)
(* that copies or reads has a file open, however the directory has been    *)
(* removed, recreated or left behind by a crash under it.                  *)
THEOREM UploadTypes == Spec => []TypeOK
<1>1. UploadInv => TypeOK
  <2> SUFFICES ASSUME Shapes, Opens PROVE TypeOK
    BY DEF UploadInv
  <2>0. NoInode \notin Inodes
    BY UploadConstants
  <2>1. ASSUME NEW u \in Uploaders
        PROVE  /\ up[u].pc \in {"idle", "create", "copy", "touch"}
               /\ up[u].idx \in Indexes /\ up[u].body \in Seq(Blocks)
               /\ up[u].pos \in 0..Len(up[u].body)
               /\ up[u].ino \in IF up[u].pc = "copy" THEN Inodes ELSE {NoInode}
    <3>1. up[u] \in UpTypes /\ UpOpen(up[u])
      BY DEF Shapes, Opens
    <3>2. up[u].pos \in Nat /\ up[u].pos <= Len(up[u].body) /\ Len(up[u].body) \in Nat
      BY <3>1, LenProperties DEF UpTypes, UpOpen
    <3>3. up[u].pos \in 0..Len(up[u].body)
      BY <3>2
    <3> QED BY <3>1, <3>3 DEF UpTypes, UpOpen, InodeOrNone
  <2>2. ASSUME NEW c \in Completers
        PROVE  /\ cp[c].pc \in {"idle", "open", "copy", "reopen", "read"}
               /\ cp[c].idx \in 0..TotalChunks(cp[c].size) /\ cp[c].sum \in Seq(Blocks)
               /\ cp[c].out \in IF cp[c].pc \in {"open", "copy"} THEN Inodes ELSE {NoInode}
               /\ cp[c].in \in IF cp[c].pc \in {"copy", "read"} THEN Inodes ELSE {NoInode}
               /\ cp[c].pos \in Nat
    <3>1. cp[c] \in CpTypes /\ CpOpen(cp[c])
      BY DEF Shapes, Opens
    <3>2. cp[c].idx \in Nat /\ cp[c].size \in Nat /\ cp[c].size >= 1
      BY <3>1, UploadConstants DEF CpTypes
    <3>3. TotalChunks(cp[c].size) \in Nat
      BY <3>2, ChunkCount, UploadConstants
    <3>4. cp[c].idx \in 0..TotalChunks(cp[c].size)
      BY <3>1, <3>2, <3>3 DEF CpOpen
    <3> QED BY <3>1, <3>4 DEF CpTypes, CpOpen, InodeOrNone
  <2>3. /\ dir \in BOOLEAN /\ fresh \in BOOLEAN
        /\ file \in [Names -> Inodes \cup {NoInode}]
        /\ data \in [Inodes -> Seq(Blocks)]
        /\ rm \in [Removers -> [pc : {"idle", "list", "unlink"}, todo : SUBSET Names]]
        /\ assets \in Seq(Seq(Blocks))
        /\ crashes \in 0..MaxCrashes /\ shared \in BOOLEAN
    BY DEF Shapes, InodeOrNone
  <2> QED BY <2>1, <2>2, <2>3 DEF TypeOK
<1> QED BY <1>1, UploadInvariant, PTL

(* Under the name of a part there is a whole chunk, as long as no two part *)
(* requests for one index overlap: for any number of requests, chunk sizes, *)
(* removals under way and crashes, AssetChunkUploadPart never renames a    *)
(* temporary file that it has not filled, though it shares the name with   *)
(* whatever an earlier request has left there.                             *)
THEOREM NoTornPart == Spec => []PartsWhole
<1>1. UploadInv => PartsWhole
  BY DEF UploadInv
<1> QED BY <1>1, UploadInvariant, PTL

(* While complete requests of one checksum do not overlap,                 *)
(* AssetChunkUploadComplete stores the file it was asked for: the second   *)
(* time it opens merged by name, either the name is gone or it is still    *)
(* the file whose checksum it has verified.                                *)
THEOREM StoresWhatItVerified == Spec => []VerifiedWhenAlone
<1>1. UploadInv => VerifiedWhenAlone
  BY DEF UploadInv
<1> QED BY <1>1, UploadInvariant, PTL
=============================================================================
