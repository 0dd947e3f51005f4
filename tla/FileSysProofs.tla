--------------------------- MODULE FileSysProofs ---------------------------
(***************************************************************************)
(* Proofs about the file system, for every size of the card, every depth   *)
(* of the directories and any sequence of calls.                           *)
(*                                                                         *)
(* The inductive invariant FInv describes the card twice.  Good is the     *)
(* card between two calls: the directories are a tree, the inodes in use   *)
(* share no block, and what is free is clear.  Safe is what every single   *)
(* write keeps, and so what a crash leaves.  Each helper of fs.c has a     *)
(* lemma about the history of cards that it extends (Clean: all of them    *)
(* safe), and each call one that puts those together.                      *)
(***************************************************************************)
EXTENDS FileSys, PcbListProofs

\* What the theorems ask of the programs: they do none of what fs.c does not
\* expect (Misuses, but a transfer past the largest offset is harmless here),
\* and the machine does not crash in a behaviour that formats the card again:
\* do_mkfs leaves the old contents in the blocks it frees.
ProgramsBehave ==
    \A c \in Scenarios : c \cap Misuses \subseteq {"past_end"} /\ ~({"mkfs", "crash"} \subseteq c)

-----------------------------------------------------------------------------
(* The inductive invariant *)

Live(d) == Dirs(d) \cup Regular(d)

\* The entries of a directory other than "." and "..".
Entries(d, i) == Used(d, i) \ {0, 1}

Target(d, i, k) == DirBlock(d, i)[k].inode_id

\* A free inode is cleared; one in use is a directory or a file and knows its
\* number.
InodesOK(d) ==
    /\ \A i \in Inodes : i \notin d.inode_map => d.inode[i] = NoInode
    /\ \A i \in d.inode_map : i \in Live(d) /\ d.inode[i].inode_id = i
    /\ \A i \in Regular(d) : d.inode[i].file_num = 0 /\ d.inode[i].size <= MaxSize
    /\ Root \in Dirs(d)

DotsOK(d, i) ==
    /\ DirBlock(d, i)[0] = [type |-> D_DIR, inode_id |-> i, name |-> "."]
    /\ DirBlock(d, i)[1].type = D_DIR /\ DirBlock(d, i)[1].name = ".."
    /\ Target(d, i, 1) \in Dirs(d) /\ (i = Root => Target(d, i, 1) = Root)

\* Entry k of directory i is the name of a file, or of a directory whose ".."
\* leads back to i.
EntryOK(d, i, k) ==
    /\ DirBlock(d, i)[k].name \in Names
    /\ Target(d, i, k) # Root
    /\ \/ /\ DirBlock(d, i)[k].type = D_DIR
          /\ Target(d, i, k) \in Dirs(d) /\ Target(d, Target(d, i, k), 1) = i
       \/ /\ DirBlock(d, i)[k].type \in {D_FILE, D_LINK}
          /\ Target(d, i, k) \in Regular(d)

\* file_num is exact and the names of directory i are distinct.
Counted(d, i) == d.inode[i].file_num = Cardinality(Used(d, i))
NamesDiffer(d, i) ==
    \A k, l \in Used(d, i) :
        k # l /\ DirBlock(d, i)[k].name = DirBlock(d, i)[l].name =>
            DirBlock(d, i)[k].type \cap DirBlock(d, i)[l].type = {}

\* No free slot before an entry holds the inode number of the entry: the slot
\* that delete_dentry finds by number is the entry.
NoStale(d, i) ==
    \A k \in Entries(d, i), j \in Dentries :
        j < k /\ j \notin Used(d, i) => Target(d, i, j) # Target(d, i, k)

\* A directory other than the root has one name, in the directory that its
\* ".." leads to.
OneName(d, i) ==
    /\ \A k, l \in Entries(d, i) :
         Target(d, i, k) = Target(d, i, l) /\ Target(d, i, k) \in Dirs(d) => k = l
    /\ i # Root => \E k \in Entries(d, Target(d, i, 1)) : Target(d, Target(d, i, 1), k) = i

DirOK(d, i) ==
    /\ DotsOK(d, i) /\ Counted(d, i) /\ NamesDiffer(d, i) /\ NoStale(d, i) /\ OneName(d, i)
    /\ \A k \in Entries(d, i) : EntryOK(d, i, k)

LinksOK(d) == \A i \in Regular(d) : Cardinality(NamesOf(d, i)) = d.inode[i].links_count

Tree(d) == InodesOK(d) /\ LinksOK(d) /\ \A i \in Dirs(d) : DirOK(d, i)

\* The inodes of S and their index blocks share no block.
Exclusive(d, S) ==
    /\ \A i \in S : \A r \in Refs(d, i) : r.to \in d.block_map
    /\ \A i, j \in S : \A r \in Refs(d, i), q \in Refs(d, j) : r # q => r.to # q.to
    /\ d.inode[Root].direct[0] = 0 /\ 0 \in d.block_map
    /\ \A i \in S \ {Root} : d.inode[i].direct[0] # 0

\* A free block is cleared, in a scenario c in which it matters.
FreeClear(d, c) ==
    "crash" \in c =>
        \A b \in Blocks : b \notin d.block_map => d.dentry[b] = ZeroDentries /\ d.index[b] = ZeroIndex

\* The card between two calls.
Good(d, c) == d \in CardRecord /\ Tree(d) /\ Exclusive(d, Live(d)) /\ FreeClear(d, c)

\* The card whenever a crash may leave it.
Whole(d) == \A i \in Dirs(d) : \A k \in Used(d, i) : Target(d, i, k) \in d.inode_map
Safe(d) == Whole(d) /\ Root \in Dirs(d) /\ Exclusive(d, Named(d))

FilesOpen == \A f \in Fdescs : fdesc[f].open => fdesc[f].inode_id \in Regular(disk)

FInv ==
    /\ TypeOK
    /\ crashed => Safe(disk)
    /\ ~crashed => Good(disk, scenario) /\ cwd \in Dirs(disk) /\ FilesOpen

-----------------------------------------------------------------------------
(* Cards *)

WithInodeMap(d, S) == [d EXCEPT !.inode_map = S]
WithBlockMap(d, S) == [d EXCEPT !.block_map = S]
InodeTaken(d, i) == WithInodeMap(d, d.inode_map \cup {i})
InodeFreed(d, i) == WithInodeMap(d, d.inode_map \ {i})
BlockTaken(d, b) == WithBlockMap(d, d.block_map \cup {b})
BlockFreed(d, b) == WithBlockMap(d, d.block_map \ {b})
WithInode(d, i, ino) == [d EXCEPT !.inode[i] = ino]
WithEntry(d, b, k, e) == [d EXCEPT !.dentry[b][k] = e]
WithIndex(d, b, k, x) == [d EXCEPT !.index[b][k] = x]
WithData(d, b, x) == [d EXCEPT !.data[b] = x]
WithBlock(d, b, x) == [d EXCEPT !.dentry[b] = x, !.index[b] = ZeroIndex, !.data[b] = ZeroData]

\* Boundaries of the tables.
LEMMA Sizes ==
    /\ Root \in Inodes /\ 0 \in Blocks /\ 0 \in Dentries /\ 1 \in Dentries
    /\ 0 \in 0 .. DIRECT_SIZE - 1 /\ 0 \in Bytes /\ None \notin Inodes
    /\ Inodes \subseteq Nat /\ Blocks \subseteq Nat /\ Dentries \subseteq Nat
    /\ IsFiniteSet(Inodes) /\ IsFiniteSet(Dentries)
<1>1. IsFiniteSet(Inodes) /\ IsFiniteSet(Dentries)
  BY FS_Interval, FileSysAssumption, SMTT(40) DEF Inodes, Dentries
<1> QED
  BY <1>1, FileSysAssumption DEF Inodes, Blocks, Dentries, Root, None

\* The types of entries and inodes, as sets of bits.
LEMMA Bits ==
    /\ D_DIR # D_FILE /\ D_DIR # D_LINK /\ D_FILE # D_LINK
    /\ D_DIR # Unused /\ D_FILE # Unused /\ D_LINK # Unused
    /\ D_DIR \cap D_DIR # {} /\ D_DIR \cap D_LINK # {} /\ D_LINK \cap D_LINK # {} /\ D_DIR \cap D_FILE = {}
    /\ D_FILE \cap D_FILE # {} /\ D_FILE \cap D_LINK # {} /\ D_LINK \cap D_FILE # {} /\ D_FILE \cap D_DIR = {}
    /\ D_LINK \cap D_DIR # {} /\ D_FILE \subseteq D_LINK
BY DEF D_DIR, D_FILE, D_LINK, Unused

\* What is zero has its type.
LEMMA Zeroes ==
    /\ NoDentry \in DentryRecord /\ NoInode \in InodeRecord
    /\ ZeroDentries \in [Dentries -> DentryRecord]
    /\ ZeroIndex \in [0 .. FIRST_BLOCK_SIZE - 1 -> Blocks]
    /\ ZeroData \in [0 .. BLOCK_SIZE - 1 -> Bytes]
<1>1. NoDentry \in DentryRecord
  BY Sizes DEF NoDentry, DentryRecord, Root
<1>2. NoInode \in InodeRecord
  BY Sizes, FileSysAssumption DEF NoInode, InodeRecord, Root
<1> QED
  BY <1>1, <1>2, Sizes DEF ZeroDentries, ZeroIndex, ZeroData

\* The fields of a card.
LEMMA CardFields ==
    ASSUME NEW d \in CardRecord
    PROVE  /\ d.inode_map \in SUBSET Inodes /\ d.block_map \in SUBSET Blocks
           /\ d.inode \in [Inodes -> InodeRecord]
           /\ d.dentry \in [Blocks -> [Dentries -> DentryRecord]]
           /\ d.index \in [Blocks -> [0 .. FIRST_BLOCK_SIZE - 1 -> Blocks]]
           /\ d.data \in [Blocks -> [0 .. BLOCK_SIZE - 1 -> Bytes]]
BY DEF CardRecord

\* The effect of each kind of write.
LEMMA SetInodeMap ==
    ASSUME NEW d \in CardRecord, NEW S \in SUBSET Inodes, NEW e, e = WithInodeMap(d, S)
    PROVE  /\ e \in CardRecord /\ e.inode_map = S /\ e.block_map = d.block_map /\ e.inode = d.inode
           /\ e.dentry = d.dentry /\ e.index = d.index /\ e.data = d.data
BY DEF WithInodeMap, CardRecord

LEMMA SetBlockMap ==
    ASSUME NEW d \in CardRecord, NEW S \in SUBSET Blocks, NEW e, e = WithBlockMap(d, S)
    PROVE  /\ e \in CardRecord /\ e.inode_map = d.inode_map /\ e.block_map = S /\ e.inode = d.inode
           /\ e.dentry = d.dentry /\ e.index = d.index /\ e.data = d.data
BY DEF WithBlockMap, CardRecord

LEMMA SetInode ==
    ASSUME NEW d \in CardRecord, NEW i \in Inodes, NEW ino \in InodeRecord,
           NEW e, e = WithInode(d, i, ino)
    PROVE  /\ e \in CardRecord /\ e.inode_map = d.inode_map /\ e.block_map = d.block_map
           /\ e.dentry = d.dentry /\ e.index = d.index /\ e.data = d.data
           /\ e.inode[i] = ino /\ \A j \in Inodes : j # i => e.inode[j] = d.inode[j]
BY DEF WithInode, CardRecord

LEMMA SetEntry ==
    ASSUME NEW d \in CardRecord, NEW b \in Blocks, NEW k \in Dentries, NEW x \in DentryRecord,
           NEW e, e = WithEntry(d, b, k, x)
    PROVE  /\ e \in CardRecord /\ e.inode_map = d.inode_map /\ e.block_map = d.block_map
           /\ e.inode = d.inode /\ e.index = d.index /\ e.data = d.data
           /\ \A c \in Blocks : c # b => e.dentry[c] = d.dentry[c]
           /\ e.dentry[b][k] = x /\ \A l \in Dentries : l # k => e.dentry[b][l] = d.dentry[b][l]
BY DEF WithEntry, CardRecord

LEMMA SetIndex ==
    ASSUME NEW d \in CardRecord, NEW b \in Blocks, NEW k \in 0 .. FIRST_BLOCK_SIZE - 1,
           NEW x \in Blocks, NEW e, e = WithIndex(d, b, k, x)
    PROVE  /\ e \in CardRecord /\ e.inode_map = d.inode_map /\ e.block_map = d.block_map
           /\ e.inode = d.inode /\ e.dentry = d.dentry /\ e.data = d.data
           /\ \A c \in Blocks : c # b => e.index[c] = d.index[c]
           /\ e.index[b][k] = x
           /\ \A l \in 0 .. FIRST_BLOCK_SIZE - 1 : l # k => e.index[b][l] = d.index[b][l]
BY DEF WithIndex, CardRecord

LEMMA SetData ==
    ASSUME NEW d \in CardRecord, NEW b \in Blocks, NEW x \in [0 .. BLOCK_SIZE - 1 -> Bytes],
           NEW e, e = WithData(d, b, x)
    PROVE  /\ e \in CardRecord /\ e.inode_map = d.inode_map /\ e.block_map = d.block_map
           /\ e.inode = d.inode /\ e.dentry = d.dentry /\ e.index = d.index
BY DEF WithData, CardRecord

LEMMA SetBlock ==
    ASSUME NEW d \in CardRecord, NEW b \in Blocks, NEW x \in [Dentries -> DentryRecord],
           NEW e, e = WithBlock(d, b, x)
    PROVE  /\ e \in CardRecord /\ e.inode_map = d.inode_map /\ e.block_map = d.block_map
           /\ e.inode = d.inode
           /\ e.dentry[b] = x /\ \A c \in Blocks : c # b => e.dentry[c] = d.dentry[c]
           /\ e.index[b] = ZeroIndex /\ \A c \in Blocks : c # b => e.index[c] = d.index[c]
BY Zeroes DEF WithBlock, CardRecord

-----------------------------------------------------------------------------
(* Histories *)

\* A history is clean if a crash may leave each of its cards.
Hist == [log : Seq(CardRecord) \ {<<>>}, ok : BOOLEAN]
Clean(h, c) == h \in Hist /\ ("crash" \in c => \A n \in DOMAIN h.log : Safe(h.log[n]))

LEMMA CardType ==
    ASSUME NEW h \in Hist
    PROVE  Card(h) \in CardRecord
<1>1. h.log \in Seq(CardRecord) /\ h.log # <<>>
  BY DEF Hist
<1>2. Len(h.log) \in 1 .. Len(h.log)
  BY <1>1, EmptySeq, LenProperties
<1> QED
  BY <1>1, <1>2, ElementOfSeq DEF Card

\* sd_write appends a card, unless an assertion has failed.
LEMMA Write ==
    ASSUME NEW c, NEW h, Clean(h, c), NEW e,
           h.ok => e \in CardRecord /\ ("crash" \in c => Safe(e)),
           NEW g, g = sd_write(h, e)
    PROVE  /\ Clean(g, c) /\ (g.ok <=> h.ok) /\ (g.ok => Card(g) = e)
<1>1. CASE ~h.ok
  BY <1>1 DEF sd_write, Clean
<1>2. CASE h.ok
  <2>1. h \in Hist /\ h.log \in Seq(CardRecord) /\ e \in CardRecord
    BY <1>2 DEF Clean, Hist
  <2>2. g.log = Append(h.log, e) /\ g.ok = h.ok /\ g = [log |-> g.log, ok |-> g.ok]
    BY <1>2, <2>1 DEF sd_write, Hist
  <2>3. /\ g.log \in Seq(CardRecord) /\ Len(g.log) = Len(h.log) + 1 /\ g.log[Len(h.log) + 1] = e
        /\ \A n \in 1 .. Len(h.log) : g.log[n] = h.log[n]
        /\ DOMAIN g.log = 1 .. Len(h.log) + 1 /\ DOMAIN h.log = 1 .. Len(h.log) /\ Len(h.log) \in Nat
    BY <2>1, <2>2, AppendProperties
  <2>4. g \in Hist
    BY <2>1, <2>2, <2>3, EmptySeq, SMTT(40) DEF Hist
  <2>5. Card(g) = e
    BY <2>3 DEF Card
  <2>6. ASSUME "crash" \in c, NEW n \in DOMAIN g.log PROVE Safe(g.log[n])
    <3>1. CASE n = Len(h.log) + 1
      BY <1>2, <2>3, <2>6, <3>1
    <3>2. CASE n # Len(h.log) + 1
      <4>1. n \in DOMAIN h.log /\ g.log[n] = h.log[n]
        BY <2>3, <3>2
      <4> QED
        BY <2>6, <4>1 DEF Clean
    <3> QED
      BY <3>1, <3>2
  <2> QED
    BY <2>2, <2>4, <2>5, <2>6 DEF Clean
<1> QED
  BY <1>1, <1>2

\* An assertion that fails stops the history.
LEMMA Check ==
    ASSUME NEW c, NEW h, Clean(h, c), NEW cond \in BOOLEAN, NEW g, g = assert(h, cond)
    PROVE  Clean(g, c) /\ (g.ok <=> h.ok /\ cond) /\ Card(g) = Card(h)
<1>1. h \in Hist
  BY DEF Clean
<1>2. g.log = h.log /\ g.ok = (h.ok /\ cond) /\ g \in Hist
  BY <1>1 DEF assert, Hist
<1> QED
  BY <1>2 DEF Clean, Card

\* What the two allocators return.
LEMMA NewInode ==
    ASSUME NEW h \in Hist
    PROVE  /\ new_inode(h) \in Inodes
           /\ FreeInodes(h) # {} => new_inode(h) \notin Card(h).inode_map
<1>1. FreeInodes(h) \in SUBSET Nat /\ FreeInodes(h) \subseteq Inodes
  BY Sizes DEF FreeInodes
<1>2. FreeInodes(h) # {} => Min(FreeInodes(h)) \in FreeInodes(h)
  BY <1>1, MinIsLeast
<1> QED
  BY <1>1, <1>2, Sizes DEF new_inode, FreeInodes, Root

LEMMA NewBlock ==
    ASSUME NEW h \in Hist
    PROVE  /\ new_block(h) \in Blocks
           /\ FreeBlocks(h) # {} => new_block(h) \notin Card(h).block_map
<1>1. FreeBlocks(h) \in SUBSET Nat /\ FreeBlocks(h) \subseteq Blocks
  BY Sizes DEF FreeBlocks
<1>2. FreeBlocks(h) # {} => Min(FreeBlocks(h)) \in FreeBlocks(h)
  BY <1>1, MinIsLeast
<1> QED
  BY <1>1, <1>2, Sizes DEF new_block, FreeBlocks

\* The helpers, as writes to the card.  Each holds also when an assertion has
\* failed before.
LEMMA WriteInode ==
    ASSUME NEW c, NEW h, Clean(h, c), NEW i \in Inodes, NEW ino, NEW e, e = WithInode(Card(h), i, ino),
           h.ok => ino \in InodeRecord /\ ("crash" \in c => Safe(e)),
           NEW g, g = write_inode(h, i, ino)
    PROVE  Clean(g, c) /\ (g.ok <=> h.ok) /\ (g.ok => Card(g) = e)
<1>1. g = sd_write(h, e)
  BY DEF write_inode, WithInode
<1>2. h.ok => e \in CardRecord
  BY CardType, SetInode DEF Clean
<1> QED
  BY <1>1, <1>2, Write

LEMMA ZeroBlock ==
    ASSUME NEW c, NEW h, Clean(h, c), NEW b \in Blocks,
           NEW e, e = WithBlock(Card(h), b, ZeroDentries),
           h.ok => ("crash" \in c => Safe(e)),
           NEW g, g = zero_block(h, b)
    PROVE  Clean(g, c) /\ (g.ok <=> h.ok) /\ (g.ok => Card(g) = e)
<1>1. g = sd_write(h, e)
  BY DEF zero_block, WithBlock
<1>2. e \in CardRecord
  BY CardType, SetBlock, Zeroes DEF Clean
<1> QED
  BY <1>1, <1>2, Write

LEMMA AllocInode ==
    ASSUME NEW c, NEW h, Clean(h, c), NEW i, i = new_inode(h),
           NEW e, e = InodeTaken(Card(h), i),
           h.ok /\ i \notin Card(h).inode_map => ("crash" \in c => Safe(e)),
           NEW g, g = alloc_inode(h)
    PROVE  Clean(g, c) /\ (g.ok => h.ok /\ i \notin Card(h).inode_map /\ Card(g) = e)
<1> DEFINE f == assert(h, FreeInodes(h) # {})
<1>1. Clean(f, c) /\ (f.ok <=> h.ok /\ FreeInodes(h) # {}) /\ Card(f) = Card(h)
  BY Check
<1>2. h \in Hist /\ Card(h) \in CardRecord
  BY CardType DEF Clean
<1>3. e \in CardRecord
  BY <1>2, NewInode, SetInodeMap, CardFields DEF InodeTaken
<1>4. g = sd_write(f, e)
  BY DEF alloc_inode, InodeTaken, WithInodeMap
<1> HIDE DEF f
<1> QED
  BY <1>1, <1>2, <1>3, <1>4, NewInode, Write

LEMMA AllocBlock ==
    ASSUME NEW c, NEW h, Clean(h, c), NEW b, b = new_block(h),
           NEW e, e = BlockTaken(Card(h), b),
           h.ok /\ b \notin Card(h).block_map => ("crash" \in c => Safe(e)),
           NEW g, g = alloc_block(h)
    PROVE  Clean(g, c) /\ (g.ok => h.ok /\ b \notin Card(h).block_map /\ Card(g) = e)
<1> DEFINE f == assert(h, FreeBlocks(h) # {})
<1>1. Clean(f, c) /\ (f.ok <=> h.ok /\ FreeBlocks(h) # {}) /\ Card(f) = Card(h)
  BY Check
<1>2. h \in Hist /\ Card(h) \in CardRecord
  BY CardType DEF Clean
<1>3. e \in CardRecord
  BY <1>2, NewBlock, SetBlockMap, CardFields DEF BlockTaken
<1>4. g = sd_write(f, e)
  BY DEF alloc_block, BlockTaken, WithBlockMap
<1> HIDE DEF f
<1> QED
  BY <1>1, <1>2, <1>3, <1>4, NewBlock, Write

LEMMA FreeInodeMap ==
    ASSUME NEW c, NEW h, Clean(h, c), NEW i \in Inodes,
           NEW e, e = InodeFreed(Card(h), i),
           h.ok => ("crash" \in c => Safe(e)),
           NEW g, g = free_inode_map(h, i)
    PROVE  Clean(g, c) /\ (g.ok => h.ok /\ Card(g) = e)
<1> DEFINE f == assert(h, i \in Card(h).inode_map)
<1>1. Clean(f, c) /\ (f.ok <=> h.ok /\ i \in Card(h).inode_map) /\ Card(f) = Card(h)
  <2>1. h \in Hist
    BY DEF Clean
  <2>2. f.log = h.log /\ f.ok = (h.ok /\ i \in Card(h).inode_map) /\ f \in Hist
    BY <2>1 DEF assert, Hist
  <2> QED
    BY <2>2 DEF Clean, Card
<1>2. h \in Hist /\ Card(h) \in CardRecord
  BY CardType DEF Clean
<1>3. e \in CardRecord
  BY <1>2, SetInodeMap, CardFields DEF InodeFreed
<1>4. g = sd_write(f, e)
  BY DEF free_inode_map, InodeFreed, WithInodeMap
<1> HIDE DEF f
<1> QED
  BY <1>1, <1>2, <1>3, <1>4, Write

LEMMA ReleaseBlock ==
    ASSUME NEW c, NEW h, Clean(h, c), NEW b \in Blocks,
           NEW e1, e1 = BlockFreed(Card(h), b),
           NEW e2, e2 = WithBlock(e1, b, ZeroDentries),
           h.ok => ("crash" \in c => Safe(e1) /\ Safe(e2)),
           NEW g, g = release_block(h, b)
    PROVE  Clean(g, c) /\ (g.ok => h.ok /\ Card(g) = e2)
<1> DEFINE f == assert(h, b \in Card(h).block_map)
           f1 == sd_write(f, e1)
<1>1. Clean(f, c) /\ (f.ok <=> h.ok /\ b \in Card(h).block_map) /\ Card(f) = Card(h)
  <2>1. h \in Hist
    BY DEF Clean
  <2>2. f.log = h.log /\ f.ok = (h.ok /\ b \in Card(h).block_map) /\ f \in Hist
    BY <2>1 DEF assert, Hist
  <2> QED
    BY <2>2 DEF Clean, Card
<1>2. h \in Hist /\ Card(h) \in CardRecord
  BY CardType DEF Clean
<1>3. e1 \in CardRecord
  BY <1>2, SetBlockMap, CardFields DEF BlockFreed
<1>4. g = zero_block(f1, b)
  BY DEF release_block, BlockFreed, WithBlockMap
<1> HIDE DEF f
<1>5. Clean(f1, c) /\ (f1.ok <=> f.ok) /\ (f1.ok => Card(f1) = e1)
  BY <1>1, <1>3, Write
<1> HIDE DEF f1
<1>6. CASE f1.ok
  BY <1>1, <1>4, <1>5, <1>6, ZeroBlock
<1>7. CASE ~f1.ok
  BY <1>4, <1>5, <1>7, ZeroBlock
<1> QED
  BY <1>6, <1>7

CreatedInode(old, i, b, type) ==
    [old EXCEPT
        !.type = type, !.mode = 3, !.inode_id = i, !.links_count = 1, !.direct[0] = b,
        !.size = IF type = D_DIR THEN BLOCK_SIZE ELSE 0,
        !.file_num = IF type = D_DIR THEN 2 ELSE 0]

\* The inode that create_inode makes of a free one: direct_block[0] is its
\* only pointer.
LEMMA CreatedFields ==
    ASSUME NEW i \in Inodes, NEW b \in Blocks, NEW type \in {D_DIR, D_FILE},
           NEW ino, ino = CreatedInode(NoInode, i, b, type)
    PROVE  /\ ino \in InodeRecord
           /\ ino.type = type /\ ino.inode_id = i /\ ino.links_count = 1
           /\ ino.size = (IF type = D_DIR THEN BLOCK_SIZE ELSE 0)
           /\ ino.file_num = (IF type = D_DIR THEN 2 ELSE 0)
           /\ ino.direct[0] = b /\ \A k \in 0 .. DIRECT_SIZE - 1 : k # 0 => ino.direct[k] = 0
           /\ ino.first = NoInode.first /\ ino.second = NoInode.second
<1>1. 1 \in 0 .. UMOD - 1 /\ 2 \in 0 .. DENTRIES /\ 0 \in 0 .. DENTRIES /\ BLOCK_SIZE \in Nat
  BY FileSysAssumption
<1>2. NoInode \in InodeRecord /\ 0 \in 0 .. DIRECT_SIZE - 1
  BY Zeroes, Sizes
<1>3. \A k \in 0 .. DIRECT_SIZE - 1 : NoInode.direct[k] = 0
  BY DEF NoInode
<1>4. /\ ino.type = type /\ ino.inode_id = i /\ ino.links_count = 1
      /\ ino.size = (IF type = D_DIR THEN BLOCK_SIZE ELSE 0)
      /\ ino.file_num = (IF type = D_DIR THEN 2 ELSE 0)
      /\ ino.direct = [NoInode.direct EXCEPT ![0] = b]
      /\ ino.first = NoInode.first /\ ino.second = NoInode.second
  BY <1>2 DEF CreatedInode, InodeRecord
<1>5. ino \in InodeRecord
  BY <1>1, <1>2, ZenonT(60) DEF CreatedInode, InodeRecord
<1>6. ino.direct[0] = b /\ \A k \in 0 .. DIRECT_SIZE - 1 : k # 0 => ino.direct[k] = 0
  BY <1>2, <1>3, <1>4, ZenonT(60) DEF InodeRecord
<1> QED
  BY <1>4, <1>5, <1>6

LEMMA CreateInode ==
    ASSUME NEW c, NEW h, Clean(h, c), NEW i \in Inodes, NEW b \in Blocks, NEW type \in {D_DIR, D_FILE},
           NEW e, e = WithInode(Card(h), i, CreatedInode(NoInode, i, b, type)),
           h.ok => Card(h).inode[i] = NoInode /\ ("crash" \in c => Safe(e)),
           NEW g, g = create_inode(h, i, b, type)
    PROVE  Clean(g, c) /\ (g.ok => h.ok /\ Card(g) = e)
<1>1. g = write_inode(h, i, CreatedInode(Card(h).inode[i], i, b, type))
  BY DEF create_inode, CreatedInode
<1>2. CreatedInode(NoInode, i, b, type) \in InodeRecord
  BY CreatedFields
<1>3. CASE h.ok
  BY <1>1, <1>2, <1>3, WriteInode
<1>4. CASE ~h.ok
  BY <1>1, <1>4, WriteInode
<1> QED
  BY <1>3, <1>4

\* The block of a new directory.
DirEntries(parent, self) ==
    [ZeroDentries EXCEPT
        ![0] = [type |-> D_DIR, inode_id |-> self, name |-> "."],
        ![1] = [type |-> D_DIR, inode_id |-> parent, name |-> ".."]]

LEMMA DirEntriesFields ==
    ASSUME NEW parent \in Inodes, NEW self \in Inodes, NEW x, x = DirEntries(parent, self)
    PROVE  /\ x \in [Dentries -> DentryRecord]
           /\ x[0] = [type |-> D_DIR, inode_id |-> self, name |-> "."]
           /\ x[1] = [type |-> D_DIR, inode_id |-> parent, name |-> ".."]
           /\ \A k \in Dentries : k # 0 /\ k # 1 => x[k] = NoDentry
<1>1. /\ [type |-> D_DIR, inode_id |-> self, name |-> "."] \in DentryRecord
      /\ [type |-> D_DIR, inode_id |-> parent, name |-> ".."] \in DentryRecord
  BY DEF DentryRecord
<1>2. \A k \in Dentries : ZeroDentries[k] = NoDentry
  BY DEF ZeroDentries
<1> QED
  BY <1>1, <1>2, Zeroes, Sizes DEF DirEntries

LEMMA CreateDirBlock ==
    ASSUME NEW c, NEW h, Clean(h, c), NEW b \in Blocks, NEW parent \in Inodes, NEW self \in Inodes,
           NEW e, e = WithBlock(Card(h), b, DirEntries(parent, self)),
           h.ok => ("crash" \in c => Safe(e)),
           NEW g, g = create_dir_block(h, b, parent, self)
    PROVE  Clean(g, c) /\ (g.ok => h.ok /\ Card(g) = e)
<1>1. Card(h) \in CardRecord /\ DirEntries(parent, self) \in [Dentries -> DentryRecord]
  BY CardType, DirEntriesFields DEF Clean
<1>2. e \in CardRecord
  BY <1>1, SetBlock
<1>3. e = [Card(h) EXCEPT !.index[b] = ZeroIndex, !.data[b] = ZeroData, !.dentry[b] = DirEntries(parent, self)]
  BY <1>1, Zeroes DEF WithBlock, CardRecord
<1>4. g = sd_write(h, e)
  BY <1>3 DEF create_dir_block, DirEntries
<1> QED
  BY <1>2, <1>4, Write

-----------------------------------------------------------------------------
(* Directory entries *)

\* Two inodes that differ in their counts at most.
SameInode(a, b) ==
    /\ a.type = b.type /\ a.inode_id = b.inode_id /\ a.size = b.size
    /\ a.direct = b.direct /\ a.first = b.first /\ a.second = b.second

LEMMA AddedFields ==
    ASSUME NEW ino \in InodeRecord, NEW type, NEW r, r = added_entry(ino, type)
    PROVE  /\ SameInode(r, ino) /\ r.file_num = ino.file_num + 1
           /\ ino.file_num < DENTRIES => r \in InodeRecord
<1>1. \A x \in 0 .. UMOD - 1 : (x + 1) % UMOD \in 0 .. UMOD - 1
  BY FileSysAssumption
<1>2. /\ r.type = ino.type /\ r.inode_id = ino.inode_id /\ r.size = ino.size /\ r.mode = ino.mode
      /\ r.direct = ino.direct /\ r.first = ino.first /\ r.second = ino.second
      /\ r.file_num = ino.file_num + 1
      /\ r.links_count = IF type = D_DIR THEN (ino.links_count + 1) % UMOD ELSE ino.links_count
  BY DEF added_entry, InodeRecord
<1>3. ino.links_count \in 0 .. UMOD - 1 /\ ino.file_num \in 0 .. DENTRIES
  BY DEF InodeRecord
<1>4. r.links_count \in 0 .. UMOD - 1
  BY <1>1, <1>2, <1>3
<1>5. ino.file_num < DENTRIES => r.file_num \in 0 .. DENTRIES
  BY <1>2, <1>3, FileSysAssumption, SMTT(40)
<1>6. DOMAIN r = DOMAIN ino /\ r = [r EXCEPT !.mode = ino.mode]
  BY <1>2 DEF added_entry, InodeRecord
<1>7. r = [type |-> r.type, mode |-> r.mode, inode_id |-> r.inode_id, file_num |-> r.file_num,
           links_count |-> r.links_count, size |-> r.size, direct |-> r.direct,
           first |-> r.first, second |-> r.second]
  BY DEF added_entry, InodeRecord
<1>8. ino.file_num < DENTRIES => r \in InodeRecord
  BY <1>2, <1>4, <1>5, <1>7 DEF InodeRecord
<1> QED
  BY <1>2, <1>8 DEF SameInode

LEMMA RemovedFields ==
    ASSUME NEW ino \in InodeRecord, NEW r, r = removed_entry(ino)
    PROVE  /\ SameInode(r, ino) /\ r.file_num = ino.file_num - 1
           /\ ino.file_num # 0 => r \in InodeRecord
<1>1. \A x \in 0 .. UMOD - 1 : (x - 1) % UMOD \in 0 .. UMOD - 1
  BY FileSysAssumption
<1>2. /\ r.type = ino.type /\ r.inode_id = ino.inode_id /\ r.size = ino.size /\ r.mode = ino.mode
      /\ r.direct = ino.direct /\ r.first = ino.first /\ r.second = ino.second
      /\ r.file_num = ino.file_num - 1 /\ r.links_count = (ino.links_count - 1) % UMOD
  BY DEF removed_entry, InodeRecord
<1>3. ino.links_count \in 0 .. UMOD - 1 /\ ino.file_num \in 0 .. DENTRIES
  BY DEF InodeRecord
<1>4. r.links_count \in 0 .. UMOD - 1
  BY <1>1, <1>2, <1>3
<1>5. ino.file_num # 0 => r.file_num \in 0 .. DENTRIES
  BY <1>2, <1>3, FileSysAssumption, SMTT(40)
<1>6. r = [type |-> r.type, mode |-> r.mode, inode_id |-> r.inode_id, file_num |-> r.file_num,
           links_count |-> r.links_count, size |-> r.size, direct |-> r.direct,
           first |-> r.first, second |-> r.second]
  BY DEF removed_entry, InodeRecord
<1>7. ino.file_num # 0 => r \in InodeRecord
  BY <1>2, <1>4, <1>5, <1>6 DEF InodeRecord
<1> QED
  BY <1>2, <1>7 DEF SameInode

\* The first slot of block b with no entry.
FirstFree(d, b, k) ==
    /\ k \in Dentries /\ d.dentry[b][k].type = Unused
    /\ \A j \in Dentries : j < k => d.dentry[b][j].type # Unused

\* The slot that create_dentry takes.
FreeSlot(d, b) == Min({k \in Dentries : d.dentry[b][k].type = Unused})

DentryDone(g, h, c, d, b, k, e) ==
    Clean(g, c) /\ (g.ok => h.ok /\ FirstFree(d, b, k) /\ Card(g) = e)

LEMMA CreateDentry ==
    ASSUME NEW c, NEW h, Clean(h, c), NEW d, d = Card(h),
           NEW dir \in Inodes, NEW id \in Inodes, NEW name \in Names, NEW type \in {D_DIR, D_FILE, D_LINK},
           NEW b, b = d.inode[dir].direct[0], NEW k, k = FreeSlot(d, b),
           NEW e1, e1 = WithInode(d, dir, added_entry(d.inode[dir], type)),
           NEW e2, e2 = WithEntry(e1, b, k, [type |-> type, inode_id |-> id, name |-> name]),
           h.ok /\ FirstFree(d, b, k) =>
              d.inode[dir].file_num < DENTRIES /\ ("crash" \in c => Safe(e1) /\ Safe(e2)),
           NEW g, g = create_dentry(h, dir, id, name, type)
    PROVE  DentryDone(g, h, c, d, b, k, e2)
<1> DEFINE free == {x \in Dentries : d.dentry[b][x].type = Unused}
           f == assert(h, free # {})
           ino == added_entry(d.inode[dir], type)
           f1 == write_inode(f, dir, ino)
           x == [type |-> type, inode_id |-> id, name |-> name]
<1>1. d \in CardRecord /\ d.inode[dir] \in InodeRecord /\ b \in Blocks
  <2>1. d \in CardRecord
    BY CardType DEF Clean
  <2>2. d.inode[dir] \in InodeRecord
    BY <2>1, CardFields, SMTT(40)
  <2> QED
    BY <2>1, <2>2, Sizes DEF InodeRecord
<1>2. free # {} => FirstFree(d, b, k)
  <2>1. free \in SUBSET Nat
    BY Sizes
  <2>2. free # {} => Min(free) \in free /\ \A j \in free : Min(free) <= j
    <3> HIDE DEF free
    <3> QED BY <2>1, MinIsLeast
  <2>3. k = Min(free)
    BY ZenonT(60) DEF FreeSlot
  <2>4. ASSUME free # {}, NEW j \in Dentries, j < k PROVE j \notin free
    <3> HIDE DEF free
    <3>1. k \in Nat
      BY <2>1, <2>2, <2>3, <2>4
    <3>2. j \in Nat
      BY Sizes
    <3> QED
      BY <2>2, <2>3, <2>4, <3>1, <3>2
  <2> QED
    BY <2>2, <2>3, <2>4, ZenonT(60) DEF FirstFree
<1>3. Clean(f, c) /\ (f.ok <=> h.ok /\ free # {}) /\ Card(f) = d
  <2> HIDE DEF free
  <2> QED BY Check
<1>4. x \in DentryRecord
  BY DEF DentryRecord
<1>5. g = sd_write(f1, WithEntry(Card(f1), b, k, x))
  BY ZenonT(60) DEF create_dentry, WithEntry, FreeSlot
<1> HIDE DEF free, f, x
<1>6. f.ok => ino \in InodeRecord
  BY <1>1, <1>2, <1>3, AddedFields
<1> HIDE DEF ino
<1>7. e1 = WithInode(d, dir, ino) /\ e2 = WithEntry(e1, b, k, x)
  BY SMTT(40) DEF ino, x
<1>8. Clean(f1, c) /\ (f1.ok <=> f.ok) /\ (f1.ok => Card(f1) = e1)
  BY <1>2, <1>3, <1>6, <1>7, WriteInode, SMTT(40)
<1> HIDE DEF f1
<1>9. f1.ok => e1 \in CardRecord /\ e2 \in CardRecord
  <2>1. f1.ok => e1 \in CardRecord
    BY <1>8, CardType, SMTT(40) DEF Clean
  <2>2. f1.ok => k \in Dentries
    BY <1>2, <1>3, <1>8, ZenonT(60) DEF FirstFree
  <2> QED
    BY <1>1, <1>4, <1>7, <2>1, <2>2, SetEntry
<1>10. CASE f1.ok
  BY <1>2, <1>3, <1>5, <1>7, <1>8, <1>9, <1>10, Write, SMTT(40) DEF DentryDone
<1>11. CASE ~f1.ok
  BY <1>5, <1>8, <1>11, Write, SMTT(40) DEF DentryDone
<1> QED
  BY <1>10, <1>11

\* The slot that delete_dentry clears: the first with the inode's number.
FirstWith(d, b, id, k) ==
    /\ k \in Dentries /\ d.dentry[b][k].inode_id = id
    /\ \A j \in Dentries : j < k => d.dentry[b][j].inode_id # id

SlotWith(d, b, id) == Min({k \in Dentries : d.dentry[b][k].inode_id = id})

Vacated(id) == [type |-> Unused, inode_id |-> id, name |-> ""]

LEMMA DeleteDentry ==
    ASSUME NEW c, NEW h, Clean(h, c), NEW d, d = Card(h), NEW dir \in Inodes, NEW id \in Inodes,
           NEW b, b = d.inode[dir].direct[0], NEW k, k = SlotWith(d, b, id),
           NEW e1, e1 = WithInode(d, dir, removed_entry(d.inode[dir])),
           NEW e2, e2 = WithEntry(e1, b, k, Vacated(id)),
           h.ok => d.inode[dir].file_num # 0 /\ ("crash" \in c => Safe(e1)),
           h.ok /\ FirstWith(d, b, id, k) => ("crash" \in c => Safe(e2)),
           NEW g, g = delete_dentry(h, dir, id)
    PROVE  Clean(g, c) /\ (g.ok => h.ok /\ FirstWith(d, b, id, k) /\ Card(g) = e2)
<1> DEFINE with == {x \in Dentries : d.dentry[b][x].inode_id = id}
           ino == removed_entry(d.inode[dir])
           f1 == write_inode(h, dir, ino)
           f == assert(f1, with # {})
           x == Vacated(id)
<1>1. d \in CardRecord /\ d.inode[dir] \in InodeRecord /\ b \in Blocks
  <2>1. d \in CardRecord
    BY CardType DEF Clean
  <2>2. d.inode[dir] \in InodeRecord
    BY <2>1, CardFields
  <2> QED
    BY <2>1, <2>2, Sizes DEF InodeRecord
<1>2. with # {} => FirstWith(d, b, id, k)
  <2>1. with \in SUBSET Nat
    BY Sizes
  <2>2. with # {} => Min(with) \in with /\ \A j \in with : Min(with) <= j
    <3> HIDE DEF with
    <3> QED BY <2>1, MinIsLeast
  <2>3. k = Min(with)
    BY ZenonT(60) DEF SlotWith
  <2>4. ASSUME with # {}, NEW j \in Dentries, j < k PROVE j \notin with
    <3> HIDE DEF with
    <3>1. k \in Nat
      BY <2>1, <2>2, <2>3, <2>4
    <3>2. j \in Nat
      BY Sizes
    <3> QED
      BY <2>2, <2>3, <2>4, <3>1, <3>2
  <2> QED
    BY <2>2, <2>3, <2>4, ZenonT(60) DEF FirstWith
<1>3. x \in DentryRecord
  BY DEF DentryRecord, Vacated
<1>4. g = sd_write(f, WithEntry(Card(f), b, k, x))
  BY ZenonT(60) DEF delete_dentry, WithEntry, SlotWith, Vacated
<1>5. h.ok => ino \in InodeRecord
  BY <1>1, RemovedFields
<1> HIDE DEF with, ino, x
<1>6. e1 = WithInode(d, dir, ino) /\ e2 = WithEntry(e1, b, k, x)
  BY DEF ino, x
<1>7. Clean(f1, c) /\ (f1.ok <=> h.ok) /\ (f1.ok => Card(f1) = e1)
  <2>1. h.ok => ("crash" \in c => Safe(e1))
    OBVIOUS
  <2> QED
    BY <1>5, <1>6, <2>1, WriteInode
<1> HIDE DEF f1
<1>8. Clean(f, c) /\ (f.ok <=> f1.ok /\ with # {}) /\ Card(f) = Card(f1)
  BY <1>7, Check
<1> HIDE DEF f
<1>9. f.ok => e1 \in CardRecord /\ e2 \in CardRecord
  <2>1. f.ok => e1 \in CardRecord
    BY <1>7, <1>8, CardType, SMTT(40) DEF Clean
  <2>2. f.ok => k \in Dentries
    BY <1>2, <1>8, ZenonT(60) DEF FirstWith
  <2> QED
    BY <1>1, <1>3, <1>6, <2>1, <2>2, SetEntry
<1>10. CASE f.ok
  BY <1>2, <1>4, <1>6, <1>7, <1>8, <1>9, <1>10, Write, SMTT(40)
<1>11. CASE ~f.ok
  BY <1>4, <1>8, <1>11, Write, SMTT(40)
<1> QED
  BY <1>10, <1>11

\* destroy, with the four cards it writes.
LEMMA Destroy ==
    ASSUME NEW c, NEW h, Clean(h, c), NEW d, d = Card(h), NEW id \in Inodes,
           NEW b, b = d.inode[id].direct[0],
           NEW e1, e1 = BlockFreed(d, b),
           NEW e2, e2 = WithBlock(e1, b, ZeroDentries),
           NEW e3, e3 = WithInode(e2, id, NoInode),
           NEW e4, e4 = InodeFreed(e3, id),
           h.ok => ("crash" \in c => Safe(e1) /\ Safe(e2) /\ Safe(e3) /\ Safe(e4)),
           NEW g, g = destroy(h, id)
    PROVE  Clean(g, c) /\ (g.ok => h.ok /\ Card(g) = e4)
<1> DEFINE f1 == release_block(h, b)
           f2 == write_inode(f1, id, NoInode)
<1>1. b \in Blocks
  <2>1. d.inode[id] \in InodeRecord
    BY CardType, CardFields DEF Clean
  <2> QED
    BY <2>1, Sizes DEF InodeRecord
<1>2. g = free_inode_map(f2, id)
  BY SMTT(40) DEF destroy
<1>3. Clean(f1, c) /\ (f1.ok => h.ok /\ Card(f1) = e2)
  BY <1>1, ReleaseBlock, SMTT(40)
<1> HIDE DEF f1
<1>4. Clean(f2, c) /\ (f2.ok => f1.ok /\ Card(f2) = e3)
  <2>1. CASE f1.ok
    BY <1>3, <2>1, Zeroes, WriteInode, SMTT(40)
  <2>2. CASE ~f1.ok
    BY <1>3, <2>2, WriteInode, SMTT(40)
  <2> QED
    BY <2>1, <2>2, SMTT(40)
<1> HIDE DEF f2
<1>5. CASE f2.ok
  BY <1>2, <1>3, <1>4, <1>5, FreeInodeMap, SMTT(40)
<1>6. CASE ~f2.ok
  BY <1>2, <1>4, <1>6, FreeInodeMap
<1> QED
  BY <1>5, <1>6, SMTT(40)

-----------------------------------------------------------------------------
(* What a card says of directories and pointers *)

LEMMA CardParts ==
    ASSUME NEW d \in CardRecord
    PROVE  /\ Dirs(d) \subseteq Inodes /\ Regular(d) \subseteq Inodes /\ Live(d) \subseteq Inodes
           /\ Live(d) \subseteq d.inode_map /\ Named(d) \subseteq Live(d)
           /\ Dirs(d) \cap Regular(d) = {}
           /\ \A i \in Inodes : /\ d.inode[i] \in InodeRecord /\ d.inode[i].direct[0] \in Blocks
                                /\ DirBlock(d, i) \in [Dentries -> DentryRecord]
           /\ \A i \in Inodes, k \in Dentries : Target(d, i, k) \in Inodes
<1>1. \A i \in Inodes : d.inode[i] \in InodeRecord
  BY CardFields
<1>2. \A i \in Inodes : d.inode[i].direct[0] \in Blocks
  BY <1>1, Sizes DEF InodeRecord
<1>3. \A i \in Inodes : DirBlock(d, i) \in [Dentries -> DentryRecord]
  BY <1>2, CardFields DEF DirBlock
<1>4. \A i \in Inodes, k \in Dentries : Target(d, i, k) \in Inodes
  BY <1>3 DEF Target, DentryRecord
<1>5. Dirs(d) \subseteq Inodes /\ Regular(d) \subseteq Inodes /\ Live(d) \subseteq d.inode_map
  BY CardFields DEF Dirs, Regular, Live
<1>6. Dirs(d) \cap Regular(d) = {}
  BY DEF Dirs, Regular, D_DIR, D_FILE
<1> QED
  BY <1>1, <1>2, <1>3, <1>4, <1>5, <1>6 DEF Live, Named

\* The pointers of an inode.
LEMMA DirectRef ==
    ASSUME NEW d \in CardRecord, NEW i \in Inodes, NEW b, b = d.inode[i].direct[0], b # 0
    PROVE  [at |-> "direct", of |-> i, k |-> 0, to |-> b] \in Refs(d, i)
<1>1. d.inode[i].direct \in [0 .. DIRECT_SIZE - 1 -> Blocks] /\ 0 \in 0 .. DIRECT_SIZE - 1
  BY CardFields, Sizes DEF InodeRecord
<1>2. [at |-> "direct", of |-> i, k |-> 0, to |-> b] \in Pointers("direct", i, d.inode[i].direct)
  BY <1>1 DEF Pointers
<1> QED
  BY <1>2 DEF Refs

\* Two inodes do not share their first block, and it is not free.
LEMMA Homes ==
    ASSUME NEW d \in CardRecord, NEW S \in SUBSET Inodes, Exclusive(d, S),
           NEW i \in S
    PROVE  /\ d.inode[i].direct[0] \in d.block_map
           /\ \A j \in S : j # i => d.inode[j].direct[0] # d.inode[i].direct[0]
<1> DEFINE b(x) == d.inode[x].direct[0]
           r(x) == [at |-> "direct", of |-> x, k |-> 0, to |-> b(x)]
<1>1. \A x \in S : b(x) # 0 => r(x) \in Refs(d, x)
  BY DirectRef
<1>2. \A x \in S : b(x) = 0 => x = Root
  BY DEF Exclusive
<1>3. d.inode[i].direct[0] \in d.block_map
  <2>1. CASE b(i) = 0
    BY <2>1 DEF Exclusive
  <2>2. CASE b(i) # 0
    <3>1. r(i) \in Refs(d, i) /\ r(i).to = b(i)
      BY <1>1, <2>2
    <3> QED
      BY <3>1 DEF Exclusive
  <2> QED
    BY <2>1, <2>2
<1>4. ASSUME NEW j \in S, j # i PROVE b(j) # b(i)
  <2>1. CASE b(i) = 0 \/ b(j) = 0
    BY <1>2, <1>4, <2>1 DEF Exclusive
  <2>2. CASE b(i) # 0 /\ b(j) # 0
    <3>1. r(i) \in Refs(d, i) /\ r(j) \in Refs(d, j) /\ r(i) # r(j)
      BY <1>1, <1>4, <2>2
    <3>2. r(i).to # r(j).to
      BY <3>1 DEF Exclusive
    <3> QED
      BY <3>2
  <2> QED
    BY <2>1, <2>2
<1> QED
  BY <1>3, <1>4

\* The pointers of inode i depend on its pointer arrays and on the index
\* blocks they lead to.
LEMMA SameRefs ==
    ASSUME NEW d, NEW e, NEW i,
           e.inode[i].direct = d.inode[i].direct,
           e.inode[i].first = d.inode[i].first, e.inode[i].second = d.inode[i].second,
           \A r \in Refs(d, i) : e.index[r.to] = d.index[r.to]
    PROVE  Refs(e, i) = Refs(d, i)
<1> DEFINE first == Pointers("first", i, d.inode[i].first)
           second == Pointers("second", i, d.inode[i].second)
<1>1. first \subseteq Refs(d, i) /\ second \subseteq Refs(d, i) /\ Under(d, second) \subseteq Refs(d, i)
  BY DEF Refs
<1> HIDE DEF first, second
<1>2. \A R : R \subseteq Refs(d, i) => Under(e, R) = Under(d, R)
  <2>1. SUFFICES ASSUME NEW R, R \subseteq Refs(d, i) PROVE Under(e, R) = Under(d, R)
    OBVIOUS
  <2>2. \A r \in R : Pointers("index", r.to, e.index[r.to]) = Pointers("index", r.to, d.index[r.to])
    BY <2>1
  <2>3. {Pointers("index", r.to, e.index[r.to]) : r \in R} = {Pointers("index", r.to, d.index[r.to]) : r \in R}
    BY <2>2
  <2> QED
    BY <2>3 DEF Under
<1>3. Under(e, second) = Under(d, second)
  BY <1>1, <1>2
<1>4. Under(e, first \cup Under(d, second)) = Under(d, first \cup Under(d, second))
  <2>1. first \cup Under(d, second) \subseteq Refs(d, i)
    BY <1>1
  <2> QED
    BY <1>2, <2>1
<1> QED
  BY <1>3, <1>4 DEF Refs, first, second

LEMMA SameIndexRefs ==
    ASSUME NEW d, NEW e, NEW i, e.index = d.index,
           e.inode[i].direct = d.inode[i].direct,
           e.inode[i].first = d.inode[i].first, e.inode[i].second = d.inode[i].second
    PROVE  Refs(e, i) = Refs(d, i)
BY SameRefs

\* Fewer pointers and more blocks in use.
LEMMA ExclusiveFrame ==
    ASSUME NEW d, NEW e, NEW S, NEW T \in SUBSET S, Exclusive(d, S),
           \A i \in T : Refs(e, i) = Refs(d, i),
           d.block_map \subseteq e.block_map,
           e.inode[Root].direct[0] = d.inode[Root].direct[0],
           \A i \in T : e.inode[i].direct[0] = d.inode[i].direct[0]
    PROVE  Exclusive(e, T)
BY DEF Exclusive

LEMMA SafeByLive ==
    ASSUME NEW d \in CardRecord, Whole(d), Root \in Dirs(d), Exclusive(d, Live(d))
    PROVE  Safe(d)
<1>1. Named(d) \subseteq Live(d)
  BY CardParts
<1>2. Exclusive(d, Named(d))
  BY <1>1, ExclusiveFrame
<1> QED
  BY <1>2 DEF Safe

\* A good card is safe.
LEMMA GoodSafe ==
    ASSUME NEW d, NEW c, Good(d, c)
    PROVE  Safe(d)
<1>1. d \in CardRecord /\ Tree(d) /\ Exclusive(d, Live(d)) /\ Root \in Dirs(d)
  BY DEF Good, Tree, InodesOK
<1>2. ASSUME NEW i \in Dirs(d), NEW k \in Used(d, i) PROVE Target(d, i, k) \in d.inode_map
  <2>1. DirOK(d, i) /\ i \in d.inode_map
    BY <1>1 DEF Tree, Dirs
  <2>2. CASE k \in Entries(d, i)
    <3>1. EntryOK(d, i, k)
      BY <2>1, <2>2 DEF DirOK
    <3> QED
      BY <3>1 DEF EntryOK, Dirs, Regular
  <2>3. CASE k = 0
    BY <2>1, <2>3 DEF DirOK, DotsOK, Target
  <2>4. CASE k = 1
    BY <2>1, <2>4 DEF DirOK, DotsOK, Dirs
  <2> QED
    BY <2>2, <2>3, <2>4 DEF Entries
<1> QED
  BY <1>1, <1>2, SafeByLive DEF Whole

-----------------------------------------------------------------------------
(* The cards on the way *)

\* A card that is safe because no inode in use shares a block.
Steady(d) == d \in CardRecord /\ Whole(d) /\ Root \in Dirs(d) /\ Exclusive(d, Live(d))

LEMMA SteadySafe ==
    ASSUME NEW d, Steady(d)
    PROVE  Safe(d)
BY SafeByLive DEF Steady

LEMMA GoodSteady ==
    ASSUME NEW d, NEW c, Good(d, c)
    PROVE  Steady(d)
BY GoodSafe DEF Good, Steady, Safe

\* Inodes that keep type and pointers, and blocks of directories that are not
\* written, keep a card steady.
LEMMA SteadyFrame ==
    ASSUME NEW d, Steady(d), NEW e \in CardRecord,
           Dirs(e) = Dirs(d), Live(e) = Live(d), e.index = d.index,
           d.inode_map \subseteq e.inode_map, d.block_map \subseteq e.block_map,
           \A i \in Live(d) : /\ e.inode[i].direct = d.inode[i].direct
                              /\ e.inode[i].first = d.inode[i].first
                              /\ e.inode[i].second = d.inode[i].second,
           \A i \in Dirs(d) : DirBlock(e, i) = DirBlock(d, i)
    PROVE  Steady(e)
<1>1. \A i \in Live(d) : Refs(e, i) = Refs(d, i)
  BY SameIndexRefs
<1>2. Root \in Live(d)
  BY DEF Steady, Live
<1>3. Exclusive(e, Live(e))
  BY <1>1, <1>2, ExclusiveFrame DEF Steady
<1>4. Whole(e)
  BY DEF Whole, Steady, Used, Target
<1> QED
  BY <1>3, <1>4 DEF Steady

LEMMA SteadyInodeTaken ==
    ASSUME NEW d, Steady(d), NEW i \in Inodes, d.inode[i] = NoInode, NEW e, e = InodeTaken(d, i)
    PROVE  Steady(e) /\ Dirs(e) = Dirs(d) /\ Regular(e) = Regular(d)
<1>1. /\ d \in CardRecord /\ e \in CardRecord /\ e.inode_map = d.inode_map \cup {i}
      /\ e.block_map = d.block_map /\ e.inode = d.inode /\ e.dentry = d.dentry /\ e.index = d.index
  BY SetInodeMap, CardFields DEF Steady, InodeTaken
<1>2. d.inode[i].type = {}
  BY DEF NoInode, Unused
<1>3. Dirs(e) = Dirs(d) /\ Regular(e) = Regular(d)
  BY <1>1, <1>2 DEF Dirs, Regular, D_DIR, D_FILE
<1>4. Live(e) = Live(d) /\ \A j : DirBlock(e, j) = DirBlock(d, j)
  BY <1>1, <1>3 DEF Live, DirBlock
<1> QED
  BY <1>1, <1>3, <1>4, SteadyFrame

LEMMA SteadyCounts ==
    ASSUME NEW d, Steady(d), NEW i \in Inodes, NEW ino \in InodeRecord, SameInode(ino, d.inode[i]),
           NEW e, e = WithInode(d, i, ino)
    PROVE  Steady(e) /\ Dirs(e) = Dirs(d) /\ Regular(e) = Regular(d)
<1>1. /\ d \in CardRecord /\ e \in CardRecord /\ e.inode_map = d.inode_map
      /\ e.block_map = d.block_map /\ e.dentry = d.dentry /\ e.index = d.index
      /\ e.inode[i] = ino /\ \A j \in Inodes : j # i => e.inode[j] = d.inode[j]
  BY SetInode DEF Steady
<1>2. \A j \in Inodes : SameInode(e.inode[j], d.inode[j])
  BY <1>1 DEF SameInode
<1>3. Dirs(e) = Dirs(d) /\ Regular(e) = Regular(d)
  <2>1. d.inode_map \subseteq Inodes
    BY <1>1, CardFields
  <2> QED
    BY <1>1, <1>2, <2>1 DEF Dirs, Regular, SameInode
<1>4. \A j \in Inodes : DirBlock(e, j) = DirBlock(d, j)
  BY <1>1, <1>2 DEF DirBlock, SameInode
<1>5. Live(e) = Live(d) /\ Live(d) \subseteq Inodes /\ Dirs(d) \subseteq Inodes
  BY <1>1, <1>3, CardParts DEF Live
<1> QED
  BY <1>1, <1>2, <1>3, <1>4, <1>5, SteadyFrame DEF SameInode

LEMMA SteadyBlockTaken ==
    ASSUME NEW d, Steady(d), NEW b \in Blocks, NEW e, e = BlockTaken(d, b)
    PROVE  Steady(e) /\ Dirs(e) = Dirs(d) /\ Regular(e) = Regular(d)
<1>1. /\ d \in CardRecord /\ e \in CardRecord /\ e.inode_map = d.inode_map
      /\ e.block_map = d.block_map \cup {b} /\ e.inode = d.inode /\ e.dentry = d.dentry
      /\ e.index = d.index
  BY SetBlockMap, CardFields, SMTT(40) DEF Steady, BlockTaken
<1>2. Dirs(e) = Dirs(d) /\ Regular(e) = Regular(d)
  BY <1>1 DEF Dirs, Regular
<1>3. Live(e) = Live(d) /\ \A j : DirBlock(e, j) = DirBlock(d, j)
  BY <1>1, <1>2, SMTT(40) DEF Live, DirBlock
<1> QED
  BY <1>1, <1>2, <1>3, SteadyFrame

\* An entry for an inode in use, or an entry cleared.
LEMMA SteadyEntry ==
    ASSUME NEW d, Steady(d), NEW dir \in Dirs(d), NEW k \in Dentries, NEW x \in DentryRecord,
           x.type # Unused => x.inode_id \in d.inode_map,
           NEW e, e = WithEntry(d, d.inode[dir].direct[0], k, x)
    PROVE  /\ Steady(e) /\ Dirs(e) = Dirs(d) /\ Regular(e) = Regular(d)
           /\ \A i \in Dirs(d) : i # dir => DirBlock(e, i) = DirBlock(d, i)
           /\ DirBlock(e, dir)[k] = x
           /\ \A l \in Dentries : l # k => DirBlock(e, dir)[l] = DirBlock(d, dir)[l]
<1> DEFINE b == d.inode[dir].direct[0]
<1>1. /\ d \in CardRecord /\ dir \in Inodes /\ b \in Blocks /\ Dirs(d) \subseteq Inodes
      /\ e = WithEntry(d, b, k, x)
  BY CardParts DEF Steady
<1> HIDE DEF b
<1>2. /\ e \in CardRecord /\ e.inode_map = d.inode_map /\ e.block_map = d.block_map
      /\ e.inode = d.inode /\ e.index = d.index
      /\ \A a \in Blocks : a # b => e.dentry[a] = d.dentry[a]
      /\ e.dentry[b][k] = x /\ \A l \in Dentries : l # k => e.dentry[b][l] = d.dentry[b][l]
  BY <1>1, SetEntry, SMTT(40)
<1>3. Dirs(e) = Dirs(d) /\ Regular(e) = Regular(d) /\ Live(e) = Live(d)
  BY <1>2, SMTT(40) DEF Dirs, Regular, Live
<1>4. ASSUME NEW i \in Dirs(d), i # dir PROVE DirBlock(e, i) = DirBlock(d, i)
  <2>1. d.inode[i].direct[0] # b /\ d.inode[i].direct[0] \in Blocks
    <3>1. Live(d) \in SUBSET Inodes /\ i \in Live(d) /\ dir \in Live(d)
      BY <1>1, CardParts DEF Live
    <3> QED
      BY <1>1, <1>4, <3>1, Homes, CardParts DEF Steady, b
  <2> QED
    BY <1>2, <2>1 DEF DirBlock
<1>5. DirBlock(e, dir)[k] = x /\ \A l \in Dentries : l # k => DirBlock(e, dir)[l] = DirBlock(d, dir)[l]
  BY <1>2 DEF DirBlock, b
<1>6. Whole(e)
  <2>1. SUFFICES ASSUME NEW i \in Dirs(d), NEW l \in Used(e, i) PROVE Target(e, i, l) \in d.inode_map
    BY <1>2, <1>3 DEF Whole
  <2>2. CASE i # dir
    BY <1>4, <2>1, <2>2 DEF Used, Target, Steady, Whole
  <2>3. CASE i = dir /\ l = k
    BY <1>5, <2>1, <2>3 DEF Used, Target
  <2>4. CASE i = dir /\ l # k
    BY <1>5, <2>1, <2>4, SMTT(40) DEF Used, Target, Steady, Whole
  <2> QED
    BY <2>2, <2>3, <2>4, SMTT(40)
<1>7. Exclusive(e, Live(e))
  <2>1. \A i : Refs(e, i) = Refs(d, i)
    BY <1>2, SameIndexRefs
  <2> QED
    BY <1>2, <1>3, <2>1, ExclusiveFrame, SMTT(40) DEF Steady
<1> QED
  BY <1>2, <1>3, <1>4, <1>5, <1>6, <1>7 DEF Steady

\* One pointer more, to a block that had none.
LEMMA ExclusiveGrows ==
    ASSUME NEW d, NEW e, NEW S, NEW T, Exclusive(d, S), NEW x, x.to \in e.block_map,
           \A i \in S : \A r \in Refs(d, i) : r.to # x.to,
           \A i \in T : \A r \in Refs(e, i) : r = x \/ (i \in S /\ r \in Refs(d, i)),
           d.block_map \subseteq e.block_map,
           e.inode[Root].direct[0] = 0, \A i \in T \ {Root} : e.inode[i].direct[0] # 0
    PROVE  Exclusive(e, T)
BY DEF Exclusive

\* No pointer of an inode in use leads to b.
Unreferenced(d, b) == b # 0 /\ \A i \in Live(d) : \A r \in Refs(d, i) : r.to # b

LEMMA FreshBlock ==
    ASSUME NEW d, Steady(d), NEW b \in Blocks, b \notin d.block_map, NEW e, e = BlockTaken(d, b)
    PROVE  Unreferenced(e, b)
<1>1. e.index = d.index /\ e.inode = d.inode /\ Live(e) = Live(d)
  <2>1. e.index = d.index /\ e.inode = d.inode
    BY SetBlockMap, CardFields DEF Steady, BlockTaken
  <2> QED
    BY <2>1, SteadyBlockTaken DEF Live
<1>2. \A i : Refs(e, i) = Refs(d, i)
  BY <1>1, SameIndexRefs
<1> QED
  BY <1>1, <1>2 DEF Unreferenced, Steady, Exclusive

\* A new inode points to one block.
LEMMA CreatedRefs ==
    ASSUME NEW e, NEW i \in Inodes, NEW b \in Blocks, NEW type \in {D_DIR, D_FILE},
           e.inode[i] = CreatedInode(NoInode, i, b, type)
    PROVE  \A r \in Refs(e, i) : r = [at |-> "direct", of |-> i, k |-> 0, to |-> b]
<1> DEFINE ino == e.inode[i]
           x == [at |-> "direct", of |-> i, k |-> 0, to |-> b]
<1>1. /\ ino \in InodeRecord /\ ino.direct[0] = b
      /\ \A k \in 0 .. DIRECT_SIZE - 1 : k # 0 => ino.direct[k] = 0
      /\ ino.first = NoInode.first /\ ino.second = NoInode.second
  BY CreatedFields
<1>2. Pointers("first", i, ino.first) = {} /\ Pointers("second", i, ino.second) = {}
  BY <1>1 DEF Pointers, NoInode
<1>3. Under(e, {}) = {}
  BY DEF Under
<1>4. \A r \in Pointers("direct", i, ino.direct) : r = x
  BY <1>1 DEF Pointers, InodeRecord
<1>5. Refs(e, i) = Pointers("direct", i, ino.direct)
  BY <1>2, <1>3 DEF Refs
<1> QED
  BY <1>4, <1>5

LEMMA SteadyCreate ==
    ASSUME NEW d, Steady(d), NEW i \in d.inode_map, d.inode[i] = NoInode,
           NEW b \in d.block_map, Unreferenced(d, b), NEW type \in {D_DIR, D_FILE},
           NEW e, e = WithInode(d, i, CreatedInode(NoInode, i, b, type))
    PROVE  /\ e \in CardRecord /\ Root \in Dirs(e) /\ Exclusive(e, Live(e))
           /\ Dirs(e) = Dirs(d) \cup (IF type = D_DIR THEN {i} ELSE {})
           /\ Regular(e) = Regular(d) \cup (IF type = D_FILE THEN {i} ELSE {})
           /\ d.dentry[b] = ZeroDentries => Steady(e)
<1> DEFINE ino == CreatedInode(NoInode, i, b, type)
           x == [at |-> "direct", of |-> i, k |-> 0, to |-> b]
<1>1. d \in CardRecord /\ i \in Inodes /\ b \in Blocks /\ d.inode_map \subseteq Inodes
  BY CardFields DEF Steady
<1>2. ino \in InodeRecord /\ ino.type = type /\ ino.direct[0] = b
  BY <1>1, CreatedFields
<1> HIDE DEF ino
<1>3. /\ e \in CardRecord /\ e.inode_map = d.inode_map
      /\ e.block_map = d.block_map /\ e.dentry = d.dentry /\ e.index = d.index
      /\ e.inode[i] = ino /\ \A j \in Inodes : j # i => e.inode[j] = d.inode[j]
  BY <1>1, <1>2, SetInode DEF ino
<1>4. d.inode[i].type = Unused /\ i \notin Live(d)
  BY Bits DEF NoInode, Live, Dirs, Regular
<1>5. /\ Dirs(e) = Dirs(d) \cup (IF type = D_DIR THEN {i} ELSE {})
      /\ Regular(e) = Regular(d) \cup (IF type = D_FILE THEN {i} ELSE {})
  <2>1. \A j \in d.inode_map : j # i => e.inode[j].type = d.inode[j].type
    BY <1>1, <1>3
  <2>2. e.inode[i].type = type
    BY <1>2, <1>3
  <2>3. CASE type = D_DIR
    BY <1>3, <1>4, <2>1, <2>2, <2>3, Bits DEF Dirs, Regular
  <2>4. CASE type = D_FILE
    BY <1>3, <1>4, <2>1, <2>2, <2>4, Bits DEF Dirs, Regular
  <2> QED
    BY <2>3, <2>4
<1>6. Live(e) = Live(d) \cup {i} /\ Live(d) \subseteq Inodes /\ Root \in Live(d) /\ Root # i
  <2>1. D_DIR # D_FILE
    BY DEF D_DIR, D_FILE
  <2>2. Live(e) = Live(d) \cup {i}
    BY <1>5, <2>1 DEF Live
  <2>3. Live(d) \subseteq Inodes /\ Root \in Live(d)
    BY <1>1, CardParts DEF Live, Steady
  <2> QED
    BY <1>4, <2>2, <2>3
<1>7. \A r \in Refs(e, i) : r = x
  BY <1>1, <1>3, CreatedRefs DEF ino
<1>8. \A j \in Live(d) : Refs(e, j) = Refs(d, j)
  BY <1>3, <1>4, <1>6, SameIndexRefs
<1>9. Exclusive(e, Live(e))
  <2>1. e.inode[Root].direct[0] = 0 /\ \A j \in Live(e) \ {Root} : e.inode[j].direct[0] # 0
    BY <1>2, <1>3, <1>4, <1>6 DEF Steady, Exclusive, Unreferenced
  <2>2. \A j \in Live(d) : \A r \in Refs(d, j) : r.to # x.to
    BY DEF Unreferenced
  <2>3. \A j \in Live(e) : \A r \in Refs(e, j) : r = x \/ (j \in Live(d) /\ r \in Refs(d, j))
    BY <1>6, <1>7, <1>8
  <2>4. x.to \in e.block_map
    BY <1>3
  <2> HIDE DEF x
  <2> QED
    BY <1>3, <2>1, <2>2, <2>3, <2>4, ExclusiveGrows DEF Steady
<1>10. ASSUME d.dentry[b] = ZeroDentries PROVE Whole(e)
  <2>1. SUFFICES ASSUME NEW j \in Dirs(e), NEW k \in Used(e, j) PROVE Target(e, j, k) \in d.inode_map
    BY <1>3 DEF Whole
  <2>2. CASE j = i
    <3>1. DirBlock(e, j) = ZeroDentries
      BY <1>2, <1>3, <1>10, <2>2 DEF DirBlock
    <3>2. \A l \in Dentries : ZeroDentries[l].type = Unused
      BY DEF ZeroDentries, NoDentry
    <3> QED
      BY <2>1, <3>1, <3>2 DEF Used
  <2>3. CASE j # i
    <3>1. j \in Dirs(d) /\ j \in Inodes
      BY <1>1, <1>5, <2>1, <2>3, CardParts
    <3>2. DirBlock(e, j) = DirBlock(d, j)
      BY <1>3, <2>3, <3>1 DEF DirBlock
    <3> QED
      BY <2>1, <3>1, <3>2 DEF Steady, Whole, Used, Target
  <2> QED
    BY <2>2, <2>3
<1> QED
  BY <1>3, <1>5, <1>9, <1>10 DEF Steady

-----------------------------------------------------------------------------
(* A directory with one entry more *)

\* Facts about the slots of a directory.
LEMMA Slots ==
    ASSUME NEW d \in CardRecord, NEW i \in Inodes
    PROVE  /\ Used(d, i) \subseteq Dentries /\ Entries(d, i) \subseteq Dentries
           /\ IsFiniteSet(Used(d, i)) /\ Cardinality(Used(d, i)) \in Nat
           /\ \A k \in Dentries \ Used(d, i) : Cardinality(Used(d, i)) < DENTRIES
<1>1. Used(d, i) \subseteq Dentries /\ Entries(d, i) \subseteq Dentries
  BY DEF Used, Entries
<1>2. IsFiniteSet(Dentries) /\ Cardinality(Dentries) = DENTRIES
  BY FileSysAssumption, FS_Interval, SMTT(40) DEF Dentries
<1>3. /\ IsFiniteSet(Used(d, i)) /\ Cardinality(Used(d, i)) \in Nat
      /\ Cardinality(Used(d, i)) <= DENTRIES
      /\ Cardinality(Used(d, i)) = DENTRIES => Used(d, i) = Dentries
  BY <1>1, <1>2, FS_Subset, FS_CardinalityType
<1> QED
  BY <1>1, <1>3, FileSysAssumption

\* Entry x is put into slot k of directory dir, the first free one.
EntryAdded(d, e, dir, k, x) ==
    /\ k \in Dentries \ Used(d, dir) /\ \A j \in Dentries : j < k => j \in Used(d, dir)
    /\ DirBlock(e, dir)[k] = x /\ x.type # Unused
    /\ \A l \in Dentries : l # k => DirBlock(e, dir)[l] = DirBlock(d, dir)[l]
    /\ e.inode[dir].file_num = d.inode[dir].file_num + 1
    /\ \A i \in Dirs(d) : i # dir =>
         DirBlock(e, i) = DirBlock(d, i) /\ e.inode[i].file_num = d.inode[i].file_num
    /\ Dirs(d) \subseteq Dirs(e) /\ Regular(d) \subseteq Regular(e)

\* Cards d and e differ in the entries of one name of one directory at most.
OnlyName(d, e, dir, name) ==
    \A j \in Dirs(d) \cap Dirs(e), k \in Dentries :
        \/ DirBlock(e, j)[k] = DirBlock(d, j)[k]
        \/ /\ j = dir
           /\ k \in Used(d, j) => DirBlock(d, j)[k].name = name
           /\ k \in Used(e, j) => DirBlock(e, j)[k].name = name
OneChange(d, e) == \E dir, name : OnlyName(d, e, dir, name)

LEMMA AddedChange ==
    ASSUME NEW d, NEW e, NEW dir, NEW k, NEW x, EntryAdded(d, e, dir, k, x)
    PROVE  OneChange(d, e)
<1>1. OnlyName(d, e, dir, x.name)
  BY DEF EntryAdded, OnlyName
<1> QED
  BY <1>1 DEF OneChange

LEMMA AddedSlots ==
    ASSUME NEW d \in CardRecord, NEW e \in CardRecord, NEW dir \in Dirs(d), NEW k, NEW x,
           DirOK(d, dir), EntryAdded(d, e, dir, k, x)
    PROVE  /\ Used(e, dir) = Used(d, dir) \cup {k} /\ Entries(e, dir) = Entries(d, dir) \cup {k}
           /\ \A i \in Dirs(d) : i # dir => Used(e, i) = Used(d, i) /\ Entries(e, i) = Entries(d, i)
           /\ Target(e, dir, k) = x.inode_id /\ k \in Dentries /\ k # 0 /\ k # 1
           /\ \A l \in Dentries : l # k => Target(e, dir, l) = Target(d, dir, l)
           /\ \A i \in Dirs(d) : i # dir => \A l : Target(e, i, l) = Target(d, i, l)
           /\ \A i \in Dirs(d) : Target(e, i, 1) = Target(d, i, 1)
<1>1. 0 \in Used(d, dir) /\ 1 \in Used(d, dir)
  BY Sizes, Bits DEF DirOK, DotsOK, Used
<1>2. k \in Dentries /\ k # 0 /\ k # 1
  BY <1>1 DEF EntryAdded
<1>3. Used(e, dir) = Used(d, dir) \cup {k}
  BY <1>2 DEF EntryAdded, Used
<1>4. \A i \in Dirs(d) : i # dir => Used(e, i) = Used(d, i) /\ \A l : Target(e, i, l) = Target(d, i, l)
  BY DEF EntryAdded, Used, Target
<1>5. Target(e, dir, k) = x.inode_id /\ \A l \in Dentries : l # k => Target(e, dir, l) = Target(d, dir, l)
  BY DEF EntryAdded, Target
<1> QED
  BY <1>2, <1>3, <1>4, <1>5, Sizes DEF Entries

\* The directories there were are still in order.
LEMMA AddedDirs ==
    ASSUME NEW d \in CardRecord, NEW e \in CardRecord, NEW dir \in Dirs(d), NEW k, NEW x,
           Tree(d), EntryAdded(d, e, dir, k, x),
           x.name \in Names, x.inode_id # Root,
           \A l \in Used(d, dir) : DirBlock(d, dir)[l].name = x.name => DirBlock(d, dir)[l].type \cap x.type = {},
           \/ /\ x.type = D_DIR /\ x.inode_id \in Dirs(e) \ Live(d) /\ Target(e, x.inode_id, 1) = dir
           \/ x.type \in {D_FILE, D_LINK} /\ x.inode_id \in Regular(e)
    PROVE  \A i \in Dirs(d) : DirOK(e, i)
<1>1. /\ \A i \in Dirs(d) : DirOK(d, i)
      /\ Dirs(d) \subseteq Inodes /\ Dirs(e) \subseteq Inodes /\ Dirs(d) \subseteq Dirs(e)
      /\ Regular(d) \subseteq Regular(e) /\ Dirs(e) \cap Regular(e) = {}
  BY CardParts DEF Tree, EntryAdded
<1>2. /\ Used(e, dir) = Used(d, dir) \cup {k} /\ Entries(e, dir) = Entries(d, dir) \cup {k}
      /\ \A i \in Dirs(d) : i # dir => Used(e, i) = Used(d, i) /\ Entries(e, i) = Entries(d, i)
      /\ Target(e, dir, k) = x.inode_id /\ k \in Dentries /\ k # 0 /\ k # 1
      /\ \A l \in Dentries : l # k => Target(e, dir, l) = Target(d, dir, l)
      /\ \A i \in Dirs(d) : i # dir => \A l : Target(e, i, l) = Target(d, i, l)
      /\ \A i \in Dirs(d) : Target(e, i, 1) = Target(d, i, 1)
  BY <1>1, AddedSlots
<1>3. ASSUME NEW i \in Dirs(d) PROVE DotsOK(e, i)
  BY <1>1, <1>2, Sizes DEF DirOK, DotsOK, EntryAdded
<1>4. ASSUME NEW i \in Dirs(d), NEW l \in Entries(d, i) PROVE EntryOK(e, i, l)
  <2>1. EntryOK(d, i, l) /\ l \in Dentries /\ i \in Inodes
    BY <1>1, <1>4, Slots DEF DirOK
  <2>2. i = dir => l # k
    BY <1>4 DEF EntryAdded, Entries
  <2>3. DirBlock(e, i)[l] = DirBlock(d, i)[l] /\ Target(e, i, l) = Target(d, i, l)
    BY <2>1, <2>2 DEF EntryAdded, Target
  <2> QED
    BY <1>1, <1>2, <2>1, <2>3 DEF EntryOK
<1>5. EntryOK(e, dir, k)
  BY <1>2 DEF EntryOK, EntryAdded
<1>6. ASSUME NEW i \in Dirs(d) PROVE OneName(e, i)
  <2>1. \A l \in Entries(d, i) : Target(d, i, l) \in Live(d) /\ (Target(d, i, l) \in Dirs(e) => Target(d, i, l) \in Dirs(d))
    BY <1>1, <1>6 DEF DirOK, EntryOK, Live
  <2>2. ASSUME NEW l \in Entries(e, i), NEW m \in Entries(e, i),
               Target(e, i, l) = Target(e, i, m), Target(e, i, l) \in Dirs(e)
        PROVE  l = m
    <3>1. CASE i # dir
      BY <1>1, <1>2, <1>6, <2>1, <2>2, <3>1 DEF DirOK, OneName
    <3>2. CASE i = dir /\ l # k /\ m # k
      <4>1. l \in Entries(d, i) /\ m \in Entries(d, i) /\ l \in Dentries /\ m \in Dentries
        BY <1>1, <1>2, <1>6, <2>2, <3>2, Slots
      <4> QED
        BY <1>1, <1>2, <1>6, <2>1, <2>2, <3>2, <4>1 DEF DirOK, OneName
    <3>3. CASE i = dir /\ (l = k \/ m = k)
      <4>1. ASSUME NEW a \in Entries(d, i) PROVE Target(e, i, a) # x.inode_id \/ x.inode_id \notin Dirs(e)
        <5>1. a \in Dentries /\ a # k
          BY <1>1, <1>6, <3>3, <4>1, Slots DEF EntryAdded, Entries
        <5> QED
          BY <1>1, <1>2, <2>1, <3>3, <5>1
      <4> QED
        BY <1>2, <2>2, <3>3, <4>1
    <3> QED
      BY <3>1, <3>2, <3>3
  <2>3. ASSUME i # Root PROVE \E l \in Entries(e, Target(e, i, 1)) : Target(e, Target(e, i, 1), l) = i
    <3>1. PICK l \in Entries(d, Target(d, i, 1)) : Target(d, Target(d, i, 1), l) = i
      BY <1>1, <1>6, <2>3 DEF DirOK, OneName
    <3>2. Target(d, i, 1) \in Dirs(d) /\ Target(e, i, 1) = Target(d, i, 1)
      BY <1>1, <1>2, <1>6 DEF DirOK, DotsOK
    <3>3. l \in Dentries /\ (Target(d, i, 1) = dir => l # k)
      BY <1>1, <3>1, <3>2, Slots DEF EntryAdded, Entries
    <3> QED
      BY <1>2, <3>1, <3>2, <3>3
  <2> QED
    BY <2>2, <2>3 DEF OneName
<1>7. ASSUME NEW i \in Dirs(d) PROVE Counted(e, i)
  <2>1. CASE i # dir
    BY <1>1, <1>2, <1>7, <2>1 DEF Counted, DirOK, EntryAdded
  <2>2. CASE i = dir
    <3>1. IsFiniteSet(Used(d, dir)) /\ k \notin Used(d, dir)
      BY <1>1, Slots DEF EntryAdded
    <3>2. Cardinality(Used(d, dir) \cup {k}) = Cardinality(Used(d, dir)) + 1
      BY <3>1, FS_AddElement
    <3> QED
      BY <1>1, <1>2, <2>2, <3>2 DEF Counted, DirOK, EntryAdded
  <2> QED
    BY <2>1, <2>2
<1>8. ASSUME NEW i \in Dirs(d) PROVE NamesDiffer(e, i)
  <2>1. CASE i # dir
    BY <1>1, <1>2, <1>8, <2>1 DEF NamesDiffer, DirOK, EntryAdded
  <2>2. CASE i = dir
    <3>1. \A l \in Used(d, dir) : l # k /\ DirBlock(e, dir)[l] = DirBlock(d, dir)[l]
      BY <1>1, Slots DEF EntryAdded
    <3>2. DirBlock(e, dir)[k] = x /\ NamesDiffer(d, dir)
      BY <1>1 DEF EntryAdded, DirOK
    <3>3. \A l \in Used(d, dir) : DirBlock(d, dir)[l].name = x.name => x.type \cap DirBlock(d, dir)[l].type = {}
      OBVIOUS
    <3> QED
      BY <1>2, <2>2, <3>1, <3>2, <3>3 DEF NamesDiffer
  <2> QED
    BY <2>1, <2>2
<1>9. ASSUME NEW i \in Dirs(d) PROVE NoStale(e, i)
  <2>1. CASE i # dir
    BY <1>1, <1>2, <1>9, <2>1 DEF NoStale, DirOK
  <2>2. CASE i = dir
    <3>1. SUFFICES ASSUME NEW l \in Entries(e, dir), NEW j \in Dentries, j < l, j \notin Used(e, dir)
                   PROVE  Target(e, dir, j) # Target(e, dir, l)
      BY <2>2 DEF NoStale
    <3>2. l # k
      BY <1>2, <3>1 DEF EntryAdded
    <3>3. l \in Entries(d, dir) /\ l \in Dentries /\ j \notin Used(d, dir) /\ j # k
      BY <1>1, <1>2, <3>1, <3>2, Slots
    <3>4. NoStale(d, dir)
      BY <1>1 DEF DirOK
    <3> QED
      BY <1>2, <3>1, <3>2, <3>3, <3>4 DEF NoStale
  <2> QED
    BY <2>1, <2>2
<1> QED
  BY <1>2, <1>3, <1>4, <1>5, <1>6, <1>7, <1>8, <1>9 DEF DirOK

\* The pairs in NamesOf are finitely many.
LEMMA NamesFinite ==
    ASSUME NEW d \in CardRecord, NEW i
    PROVE  IsFiniteSet(NamesOf(d, i)) /\ Cardinality(NamesOf(d, i)) \in Nat
<1>1. IsFiniteSet(Inodes \X Dentries)
  BY Sizes, FS_Product
<1>2. NamesOf(d, i) \subseteq Inodes \X Dentries
  BY CardParts DEF NamesOf
<1> QED
  BY <1>1, <1>2, FS_Subset, FS_CardinalityType

\* A name of inode i is an entry of a directory.
LEMMA NameIs ==
    ASSUME NEW d \in CardRecord, NEW i, NEW j, NEW k
    PROVE  <<j, k>> \in NamesOf(d, i) <=> j \in Dirs(d) /\ k \in Entries(d, j) /\ Target(d, j, k) = i
<1>1. \A a \in Dirs(d) : Entries(d, a) \subseteq Dentries
  BY Slots, CardParts
<1> QED
  BY <1>1 DEF NamesOf, Entries, Target

\* An inode that is not in use has no name.
LEMMA NoName ==
    ASSUME NEW d \in CardRecord, Tree(d), NEW i, i \notin Live(d)
    PROVE  NamesOf(d, i) = {}
<1>1. SUFFICES ASSUME NEW p \in NamesOf(d, i) PROVE FALSE
  OBVIOUS
<1>2. p[1] \in Dirs(d) /\ p[2] \in Entries(d, p[1]) /\ Target(d, p[1], p[2]) = i
  BY DEF NamesOf, Entries, Target
<1>3. EntryOK(d, p[1], p[2])
  BY <1>2 DEF Tree, DirOK
<1> QED
  BY <1>2, <1>3 DEF EntryOK, Live

\* The names with the new entry.
LEMMA AddedNames ==
    ASSUME NEW d \in CardRecord, NEW e \in CardRecord, NEW dir \in Dirs(d), NEW k, NEW x,
           DirOK(d, dir), EntryAdded(d, e, dir, k, x),
           \A i \in Dirs(e) \ Dirs(d) : Entries(e, i) = {}
    PROVE  /\ \A i : i # x.inode_id => NamesOf(e, i) = NamesOf(d, i)
           /\ NamesOf(e, x.inode_id) = NamesOf(d, x.inode_id) \cup {<<dir, k>>}
           /\ \A i : <<dir, k>> \notin NamesOf(d, i)
<1>1. /\ Entries(e, dir) = Entries(d, dir) \cup {k}
      /\ \A i \in Dirs(d) : i # dir => Entries(e, i) = Entries(d, i)
      /\ Target(e, dir, k) = x.inode_id
      /\ \A l \in Dentries : l # k => Target(e, dir, l) = Target(d, dir, l)
      /\ \A i \in Dirs(d) : i # dir => \A l : Target(e, i, l) = Target(d, i, l)
  BY AddedSlots
<1>2. k \notin Entries(d, dir) /\ Entries(d, dir) \subseteq Dentries /\ Dirs(d) \subseteq Dirs(e)
  BY CardParts, Slots DEF EntryAdded, Entries
<1>3. \A i : <<dir, k>> \notin NamesOf(d, i)
  BY <1>2, NameIs
<1>4. ASSUME NEW i, NEW j, NEW l
      PROVE  <<j, l>> \in NamesOf(e, i) <=> \/ <<j, l>> \in NamesOf(d, i)
                                            \/ i = x.inode_id /\ <<j, l>> = <<dir, k>>
  <2>1. CASE j = dir
    BY <1>1, <1>2, <2>1, NameIs
  <2>2. CASE j # dir
    BY <1>1, <1>2, <2>2, NameIs
  <2> QED
    BY <2>1, <2>2
<1>5. \A i : \A p \in NamesOf(e, i) \cup NamesOf(d, i) : p = <<p[1], p[2]>>
  BY DEF NamesOf
<1>6. ASSUME NEW i PROVE NamesOf(e, i) = NamesOf(d, i) \cup (IF i = x.inode_id THEN {<<dir, k>>} ELSE {})
  <2>1. ASSUME NEW p \in NamesOf(e, i) PROVE p \in NamesOf(d, i) \/ (i = x.inode_id /\ p = <<dir, k>>)
    <3>1. p = <<p[1], p[2]>>
      BY <1>5
    <3> QED
      BY <1>4, <2>1, <3>1
  <2>2. ASSUME NEW p \in NamesOf(d, i) PROVE p \in NamesOf(e, i)
    <3>1. p = <<p[1], p[2]>>
      BY <1>5
    <3> QED
      BY <1>4, <2>2, <3>1
  <2>3. i = x.inode_id => <<dir, k>> \in NamesOf(e, i)
    BY <1>4
  <2> QED
    BY <2>1, <2>2, <2>3
<1> QED
  BY <1>3, <1>6

\* "." and ".." are two.
LEMMA Pair == IsFiniteSet({0, 1}) /\ Cardinality({0, 1}) = 2
<1>1. Cardinality({0}) = 1 /\ IsFiniteSet({0})
  BY FS_Singleton, Zenon
<1>2. {0} \cup {1} = {0, 1} /\ 1 \notin {0}
  OBVIOUS
<1>3. IsFiniteSet({0} \cup {1}) /\ Cardinality({0} \cup {1}) = 2
  BY <1>1, <1>2, FS_AddElement
<1> QED
  BY <1>2, <1>3

\* The block of a new, empty directory.
LEMMA EmptyDir ==
    ASSUME NEW e \in CardRecord, NEW id \in Dirs(e), NEW dir \in Dirs(e),
           DirBlock(e, id) = DirEntries(dir, id), e.inode[id].file_num = 2,
           id # Root => \E k \in Entries(e, dir) : Target(e, dir, k) = id,
           id = Root => dir = Root
    PROVE  DirOK(e, id) /\ Entries(e, id) = {} /\ Target(e, id, 1) = dir
<1>1. id \in Inodes /\ dir \in Inodes
  BY CardParts
<1> DEFINE x == DirBlock(e, id)
<1>2. /\ x[0] = [type |-> D_DIR, inode_id |-> id, name |-> "."]
      /\ x[1] = [type |-> D_DIR, inode_id |-> dir, name |-> ".."]
      /\ \A k \in Dentries : k # 0 /\ k # 1 => x[k] = NoDentry
  BY <1>1, DirEntriesFields
<1> HIDE DEF x
<1>3. NoDentry.type = Unused
  BY DEF NoDentry
<1>4. Used(e, id) = {0, 1}
  <2>1. x[0].type = D_DIR /\ x[1].type = D_DIR
    BY <1>2
  <2>2. \A k \in Dentries : k # 0 /\ k # 1 => x[k].type = Unused
    BY <1>2, <1>3
  <2> QED
    BY <2>1, <2>2, Sizes, Bits DEF Used, x
<1>5. Entries(e, id) = {} /\ Target(e, id, 1) = dir
  BY <1>2, <1>4 DEF Entries, Target, x
<1>6. Counted(e, id)
  BY <1>4, Pair DEF Counted
<1>7. DotsOK(e, id)
  BY <1>2, <1>5 DEF DotsOK, x
<1>8. NamesDiffer(e, id)
  BY <1>2, <1>4 DEF NamesDiffer, x
<1>9. OneName(e, id) /\ NoStale(e, id)
  BY <1>5 DEF OneName, NoStale
<1> QED
  BY <1>5, <1>6, <1>7, <1>8, <1>9 DEF DirOK

\* The tree with the new entry.
LEMMA AddedTree ==
    ASSUME NEW d \in CardRecord, NEW e \in CardRecord, NEW dir \in Dirs(d), NEW k, NEW x,
           Tree(d), EntryAdded(d, e, dir, k, x), InodesOK(e),
           x.name \in Names, x.inode_id # Root,
           \A l \in Used(d, dir) : DirBlock(d, dir)[l].name = x.name => DirBlock(d, dir)[l].type \cap x.type = {},
           \/ /\ x.type = D_DIR /\ x.inode_id \in Dirs(e) \ Live(d)
              /\ Dirs(e) = Dirs(d) \cup {x.inode_id}
              /\ DirBlock(e, x.inode_id) = DirEntries(dir, x.inode_id)
              /\ e.inode[x.inode_id].file_num = 2
           \/ /\ x.type \in {D_FILE, D_LINK} /\ x.inode_id \in Regular(e) /\ Dirs(e) = Dirs(d),
           \A i \in Regular(e) : i # x.inode_id => i \in Regular(d) /\ e.inode[i].links_count = d.inode[i].links_count,
           x.inode_id \in Regular(e) =>
              \/ x.inode_id \notin Live(d) /\ e.inode[x.inode_id].links_count = 1
              \/ /\ x.inode_id \in Regular(d)
                 /\ e.inode[x.inode_id].links_count = d.inode[x.inode_id].links_count + 1
    PROVE  Tree(e)
<1> DEFINE id == x.inode_id
<1>1. DirOK(d, dir) /\ Dirs(d) \subseteq Dirs(e) /\ Dirs(d) \subseteq Live(d)
  BY DEF Tree, EntryAdded, Live
<1>2. Entries(e, dir) = Entries(d, dir) \cup {k} /\ Target(e, dir, k) = id
  BY <1>1, AddedSlots
<1>3. ASSUME id \in Dirs(e)
      PROVE  /\ x.type = D_DIR /\ id \notin Live(d) /\ Dirs(e) = Dirs(d) \cup {id}
             /\ DirOK(e, id) /\ Entries(e, id) = {} /\ Target(e, id, 1) = dir
  <2>1. /\ x.type = D_DIR /\ id \notin Live(d) /\ Dirs(e) = Dirs(d) \cup {id}
        /\ DirBlock(e, id) = DirEntries(dir, id) /\ e.inode[id].file_num = 2
    BY <1>3, CardParts
  <2>2. id # Root /\ dir \in Dirs(e) /\ \E l \in Entries(e, dir) : Target(e, dir, l) = id
    BY <1>1, <1>2
  <2> HIDE DEF id
  <2>3. DirOK(e, id) /\ Entries(e, id) = {} /\ Target(e, id, 1) = dir
    BY <1>3, <2>1, <2>2, EmptyDir
  <2> QED
    BY <2>1, <2>3
<1>4. \A i \in Dirs(d) : DirOK(e, i)
  <2>1. \/ x.type = D_DIR /\ id \in Dirs(e) \ Live(d) /\ Target(e, id, 1) = dir
        \/ x.type \in {D_FILE, D_LINK} /\ id \in Regular(e)
    BY <1>3
  <2> QED
    BY <2>1, AddedDirs
<1>5. \A i \in Dirs(e) \ Dirs(d) : i = id
  OBVIOUS
<1>6. \A i \in Dirs(e) : DirOK(e, i)
  BY <1>3, <1>4, <1>5
<1>7. /\ \A i : i # id => NamesOf(e, i) = NamesOf(d, i)
      /\ NamesOf(e, id) = NamesOf(d, id) \cup {<<dir, k>>}
      /\ <<dir, k>> \notin NamesOf(d, id)
  <2>1. \A i \in Dirs(e) \ Dirs(d) : Entries(e, i) = {}
    BY <1>3, <1>5
  <2> QED
    BY <1>1, <2>1, AddedNames
<1>8. ASSUME NEW i \in Regular(e) PROVE Cardinality(NamesOf(e, i)) = e.inode[i].links_count
  <2>1. CASE i # id
    <3>1. i \in Regular(d) /\ e.inode[i].links_count = d.inode[i].links_count
      BY <1>8, <2>1
    <3> QED
      BY <1>7, <2>1, <3>1 DEF Tree, LinksOK
  <2>2. CASE i = id
    <3>1. Cardinality(NamesOf(e, id)) = Cardinality(NamesOf(d, id)) + 1 /\ Cardinality(NamesOf(d, id)) \in Nat
      BY <1>7, NamesFinite, FS_AddElement, ZenonT(60)
    <3>2. CASE id \in Regular(d)
      <4>1. Cardinality(NamesOf(d, id)) = d.inode[id].links_count
        BY <3>2 DEF Tree, LinksOK
      <4> QED
        BY <1>8, <2>2, <3>1, <3>2, <4>1 DEF Live
    <3>3. CASE id \notin Regular(d)
      <4>1. id \notin Live(d) /\ e.inode[id].links_count = 1
        BY <1>8, <2>2, <3>3
      <4>2. NamesOf(d, id) = {}
        BY <4>1, NoName, SMTT(40)
      <4> QED
        BY <2>2, <3>1, <4>1, <4>2, FS_EmptySet
    <3> QED
      BY <3>2, <3>3
  <2> QED
    BY <2>1, <2>2
<1> QED
  BY <1>6, <1>8 DEF Tree, LinksOK

\* The two writes of create_dentry, for an inode in use.
EntryWritten(d, e1, e2, dir, k, x) ==
    /\ Steady(e1) /\ Steady(e2) /\ Dirs(e2) = Dirs(d) /\ Regular(e2) = Regular(d)
    /\ EntryAdded(d, e2, dir, k, x)
    /\ e2.inode_map = d.inode_map /\ e2.block_map = d.block_map /\ e2.index = d.index
    /\ SameInode(e2.inode[dir], d.inode[dir])
    /\ \A i \in Inodes : i # dir => e2.inode[i] = d.inode[i]
    /\ d.inode[dir].direct[0] \in d.block_map
    /\ \A a \in Blocks : a # d.inode[dir].direct[0] => e2.dentry[a] = d.dentry[a]

LEMMA EntryWrites ==
    ASSUME NEW d, Steady(d), NEW dir \in Dirs(d),
           d.inode[dir].file_num < DENTRIES,
           NEW k, FirstFree(d, d.inode[dir].direct[0], k),
           NEW x \in DentryRecord, x.type # Unused, x.inode_id \in d.inode_map,
           NEW e1, e1 = WithInode(d, dir, added_entry(d.inode[dir], x.type)),
           NEW e2, e2 = WithEntry(e1, d.inode[dir].direct[0], k, x)
    PROVE  EntryWritten(d, e1, e2, dir, k, x)
<1> DEFINE b == d.inode[dir].direct[0]
           ino == added_entry(d.inode[dir], x.type)
<1>1. d \in CardRecord /\ dir \in Inodes /\ b \in Blocks /\ d.inode[dir] \in InodeRecord /\ Dirs(d) \subseteq Inodes
  BY CardParts DEF Steady
<1>2. ino \in InodeRecord /\ SameInode(ino, d.inode[dir]) /\ ino.file_num = d.inode[dir].file_num + 1
  BY <1>1, AddedFields
<1> HIDE DEF ino, b
<1>3. e1 = WithInode(d, dir, ino) /\ e2 = WithEntry(e1, b, k, x)
  BY DEF ino, b
<1>4. /\ e1 \in CardRecord /\ e1.inode_map = d.inode_map /\ e1.block_map = d.block_map
      /\ e1.dentry = d.dentry /\ e1.index = d.index
      /\ e1.inode[dir] = ino /\ \A i \in Inodes : i # dir => e1.inode[i] = d.inode[i]
  BY <1>1, <1>2, <1>3, SetInode, SMTT(40)
<1>5. Steady(e1) /\ Dirs(e1) = Dirs(d) /\ Regular(e1) = Regular(d)
  BY <1>1, <1>2, <1>3, SteadyCounts
<1>6. e1.inode[dir].direct[0] = b
  BY <1>2, <1>4 DEF SameInode, b
<1>7. k \in Dentries
  BY DEF FirstFree
<1>8. /\ Steady(e2) /\ Dirs(e2) = Dirs(e1) /\ Regular(e2) = Regular(e1)
      /\ \A i \in Dirs(e1) : i # dir => DirBlock(e2, i) = DirBlock(e1, i)
      /\ DirBlock(e2, dir)[k] = x
      /\ \A l \in Dentries : l # k => DirBlock(e2, dir)[l] = DirBlock(e1, dir)[l]
  BY <1>3, <1>4, <1>5, <1>6, <1>7, SteadyEntry, SMTT(40)
<1>9. /\ e2.inode_map = e1.inode_map /\ e2.block_map = e1.block_map /\ e2.inode = e1.inode
      /\ e2.index = e1.index /\ \A a \in Blocks : a # b => e2.dentry[a] = e1.dentry[a]
  BY <1>1, <1>3, <1>4, <1>7, SetEntry, SMTT(40)
<1>10. \A i \in Inodes : DirBlock(e1, i) = DirBlock(d, i)
  BY <1>2, <1>4, SMTT(40) DEF DirBlock, SameInode
<1>11. EntryAdded(d, e2, dir, k, x)
  <2>1. k \in Dentries \ Used(d, dir) /\ \A j \in Dentries : j < k => j \in Used(d, dir)
    BY SMTT(40) DEF FirstFree, Used, DirBlock
  <2>2. e2.inode[dir].file_num = d.inode[dir].file_num + 1 /\ x.type # Unused
    BY <1>2, <1>4, <1>9, Bits, SMTT(40)
  <2>3. \A i \in Dirs(d) : i # dir => DirBlock(e2, i) = DirBlock(d, i) /\ e2.inode[i].file_num = d.inode[i].file_num
    BY <1>1, <1>4, <1>5, <1>8, <1>9, <1>10
  <2>4. \A l \in Dentries : l # k => DirBlock(e2, dir)[l] = DirBlock(d, dir)[l]
    BY <1>1, <1>8, <1>10
  <2> QED
    BY <1>5, <1>8, <2>1, <2>2, <2>3, <2>4, ZenonT(60) DEF EntryAdded
<1>12. b \in d.block_map
  <2>1. dir \in Live(d) /\ Live(d) \subseteq Inodes
    BY <1>1, CardParts DEF Live
  <2> QED
    BY <1>1, <2>1, Homes DEF Steady, b
<1> QED
  BY <1>2, <1>4, <1>5, <1>8, <1>9, <1>11, <1>12 DEF EntryWritten, b

\* A free slot means that file_num is below the size of the block.
LEMMA RoomLeft ==
    ASSUME NEW d \in CardRecord, NEW dir \in Dirs(d), DirOK(d, dir),
           NEW k, FirstFree(d, d.inode[dir].direct[0], k)
    PROVE  d.inode[dir].file_num < DENTRIES
<1>1. k \in Dentries \ Used(d, dir) /\ dir \in Inodes
  BY CardParts, SMTT(40) DEF FirstFree, Used, DirBlock
<1>2. Cardinality(Used(d, dir)) < DENTRIES
  BY <1>1, Slots
<1> QED
  BY <1>2, SMTT(40) DEF DirOK, Counted

\* The name is not taken.
Untaken(d, dir, name, mask) ==
    \A l \in Used(d, dir) : DirBlock(d, dir)[l].name = name => DirBlock(d, dir)[l].type \cap mask = {}

-----------------------------------------------------------------------------
(* do_mkdir and do_touch *)

\* The entry: the inode is taken first.
Entered(d, e1, e2, e3, dir, k, x) ==
    /\ e1.inode[dir].file_num < DENTRIES
    /\ Steady(e1) /\ Steady(e2) /\ Steady(e3) /\ Dirs(e3) = Dirs(d) /\ Regular(e3) = Regular(d)
    /\ EntryAdded(d, e3, dir, k, x)
    /\ e3.inode_map = d.inode_map \cup {x.inode_id}
    /\ e3.block_map = d.block_map /\ e3.index = d.index
    /\ e3.inode[x.inode_id] = NoInode /\ SameInode(e3.inode[dir], d.inode[dir])
    /\ \A i \in Inodes : i # dir => e3.inode[i] = d.inode[i]
    /\ \A a \in Blocks : a \notin d.block_map => e3.dentry[a] = d.dentry[a]

LEMMA EnterName ==
    ASSUME NEW c, NEW d, Good(d, c), NEW dir \in Dirs(d),
           NEW x \in DentryRecord, x.type # Unused, x.inode_id \notin d.inode_map,
           NEW e1, e1 = InodeTaken(d, x.inode_id),
           NEW k, FirstFree(e1, e1.inode[dir].direct[0], k),
           NEW e2, e2 = WithInode(e1, dir, added_entry(e1.inode[dir], x.type)),
           NEW e3, e3 = WithEntry(e2, e1.inode[dir].direct[0], k, x)
    PROVE  Entered(d, e1, e2, e3, dir, k, x)
<1> DEFINE id == x.inode_id
           b == e1.inode[dir].direct[0]
<1>0. id \in Inodes
  BY DEF DentryRecord
<1> HIDE DEF id
<1>1. d \in CardRecord /\ Steady(d) /\ Tree(d) /\ DirOK(d, dir) /\ d.inode[id] = NoInode /\ dir # id /\ dir \in Inodes
  BY <1>0, GoodSteady, CardParts DEF Good, Tree, InodesOK, Dirs, id
<1>2. /\ e1 \in CardRecord /\ e1.inode_map = d.inode_map \cup {id} /\ e1.block_map = d.block_map
      /\ e1.inode = d.inode /\ e1.dentry = d.dentry /\ e1.index = d.index
  BY <1>0, <1>1, SetInodeMap, CardFields DEF InodeTaken, id
<1>3. Steady(e1) /\ Dirs(e1) = Dirs(d) /\ Regular(e1) = Regular(d)
  BY <1>0, <1>1, SteadyInodeTaken DEF id
<1>4. e1.inode[dir].file_num < DENTRIES
  <2>1. FirstFree(d, d.inode[dir].direct[0], k)
    BY <1>2 DEF FirstFree
  <2> QED
    BY <1>1, <1>2, <2>1, RoomLeft, SMTT(40)
<1>5. EntryWritten(e1, e2, e3, dir, k, x)
  <2>1. dir \in Dirs(e1) /\ x.inode_id \in e1.inode_map
    BY <1>2, <1>3 DEF id
  <2> QED
    BY <1>3, <1>4, <2>1, EntryWrites, ZenonT(60)
<1>6. /\ Steady(e2) /\ Steady(e3) /\ Dirs(e3) = Dirs(e1) /\ Regular(e3) = Regular(e1)
      /\ EntryAdded(e1, e3, dir, k, x)
      /\ e3.inode_map = e1.inode_map /\ e3.block_map = e1.block_map /\ e3.index = e1.index
      /\ SameInode(e3.inode[dir], e1.inode[dir])
      /\ \A i \in Inodes : i # dir => e3.inode[i] = e1.inode[i]
      /\ b \in e1.block_map /\ \A a \in Blocks : a # b => e3.dentry[a] = e1.dentry[a]
  BY <1>5, ZenonT(60) DEF EntryWritten
<1>7. EntryAdded(d, e3, dir, k, x)
  <2>1. \A i : DirBlock(e1, i) = DirBlock(d, i)
    BY <1>2 DEF DirBlock
  <2>2. \A i : Used(e1, i) = Used(d, i)
    BY <2>1 DEF Used
  <2>3. /\ k \in Dentries \ Used(e1, dir) /\ \A j \in Dentries : j < k => j \in Used(e1, dir)
        /\ DirBlock(e3, dir)[k] = x /\ x.type # Unused
        /\ \A l \in Dentries : l # k => DirBlock(e3, dir)[l] = DirBlock(e1, dir)[l]
        /\ e3.inode[dir].file_num = e1.inode[dir].file_num + 1
        /\ \A i \in Dirs(e1) : i # dir =>
             DirBlock(e3, i) = DirBlock(e1, i) /\ e3.inode[i].file_num = e1.inode[i].file_num
        /\ Dirs(e1) \subseteq Dirs(e3) /\ Regular(e1) \subseteq Regular(e3)
    BY <1>6, ZenonT(60) DEF EntryAdded
  <2> QED
    BY <1>2, <1>3, <2>1, <2>2, <2>3, ZenonT(60) DEF EntryAdded
<1>8. \A a \in Blocks : a \notin d.block_map => e3.dentry[a] = d.dentry[a]
  BY <1>2, <1>6, SMTT(40)
<1>9. SameInode(e3.inode[dir], d.inode[dir]) /\ \A i \in Inodes : i # dir => e3.inode[i] = d.inode[i]
  BY <1>2, <1>6, ZenonT(60)
<1>10. e3.inode_map = d.inode_map \cup {id} /\ e3.block_map = d.block_map /\ e3.index = d.index
  BY <1>2, <1>6
<1> QED
  BY <1>0, <1>1, <1>3, <1>4, <1>6, <1>7, <1>8, <1>9, <1>10, ZenonT(60) DEF Entered, id

\* The first block of a new directory or file.
FirstBlock(type, dir, id) == IF type = D_DIR THEN DirEntries(dir, id) ELSE ZeroDentries

\* A new inode with its first block.
Created(d, e4, e5, e6, c, id, type) ==
    /\ e4.inode[id] = NoInode
    /\ Steady(e4) /\ ("crash" \in c => Steady(e5)) /\ Good(e6, c)
    /\ Dirs(d) \subseteq Dirs(e6) /\ Regular(d) \subseteq Regular(e6)
    /\ id \in Live(e6) /\ (type = D_FILE => id \in Regular(e6))
    /\ OneChange(d, e6)

LEMMA Creates ==
    ASSUME NEW c, NEW d, Good(d, c), NEW dir \in Dirs(d), NEW type \in {D_DIR, D_FILE},
           NEW id \in Inodes, id \notin d.inode_map,
           NEW x \in DentryRecord, x.type = type, x.inode_id = id, x.name \in Names,
           Untaken(d, dir, x.name, type),
           NEW k, NEW e1, NEW e2, NEW e3, Entered(d, e1, e2, e3, dir, k, x),
           NEW b \in Blocks, b \notin e3.block_map,
           NEW e4, e4 = BlockTaken(e3, b),
           NEW e5, e5 = WithInode(e4, id, CreatedInode(NoInode, id, b, type)),
           NEW e6, e6 = WithBlock(e5, b, FirstBlock(type, dir, id))
    PROVE  Created(d, e4, e5, e6, c, id, type)
<1> DEFINE ino == CreatedInode(NoInode, id, b, type)
           blk == FirstBlock(type, dir, id)
           ptr == [at |-> "direct", of |-> id, k |-> 0, to |-> b]
<1>1. /\ d \in CardRecord /\ Steady(d) /\ Tree(d) /\ InodesOK(d) /\ Exclusive(d, Live(d)) /\ dir # id /\ dir \in Inodes
      /\ d.inode_map \subseteq Inodes /\ d.inode[id] = NoInode
  BY GoodSteady, CardParts, CardFields DEF Good, Tree, InodesOK, Dirs
<1>2. /\ Steady(e3) /\ Dirs(e3) = Dirs(d) /\ Regular(e3) = Regular(d)
      /\ EntryAdded(d, e3, dir, k, x)
      /\ e3.inode_map = d.inode_map \cup {id} /\ e3.block_map = d.block_map /\ e3.index = d.index
      /\ e3.inode[id] = NoInode /\ SameInode(e3.inode[dir], d.inode[dir])
      /\ \A i \in Inodes : i # dir => e3.inode[i] = d.inode[i]
      /\ \A a \in Blocks : a \notin d.block_map => e3.dentry[a] = d.dentry[a]
  BY DEF Entered
<1>3. /\ e4 \in CardRecord /\ e4.inode_map = e3.inode_map /\ e4.block_map = e3.block_map \cup {b}
      /\ e4.inode = e3.inode /\ e4.dentry = e3.dentry /\ e4.index = e3.index
  BY <1>2, SetBlockMap, CardFields, SMTT(40) DEF BlockTaken, Steady
<1>4. Steady(e4) /\ Dirs(e4) = Dirs(d) /\ Regular(e4) = Regular(d) /\ Unreferenced(e4, b)
  BY <1>2, SteadyBlockTaken, FreshBlock
<1>5. /\ ino \in InodeRecord /\ ino.type = type /\ ino.inode_id = id /\ ino.links_count = 1
      /\ ino.size = (IF type = D_DIR THEN BLOCK_SIZE ELSE 0)
      /\ ino.file_num = (IF type = D_DIR THEN 2 ELSE 0)
      /\ ino.direct[0] = b
  BY CreatedFields
<1>6. blk \in [Dentries -> DentryRecord]
  BY <1>1, DirEntriesFields, Zeroes DEF FirstBlock
<1> HIDE DEF blk
<1>7. /\ e5 \in CardRecord /\ Root \in Dirs(e5) /\ Exclusive(e5, Live(e5))
      /\ Dirs(e5) = Dirs(d) \cup (IF type = D_DIR THEN {id} ELSE {})
      /\ Regular(e5) = Regular(d) \cup (IF type = D_FILE THEN {id} ELSE {})
      /\ e4.dentry[b] = ZeroDentries => Steady(e5)
  <2>1. id \in e4.inode_map /\ e4.inode[id] = NoInode /\ b \in e4.block_map
    BY <1>2, <1>3
  <2> QED
    BY <1>4, <2>1, SteadyCreate
<1>8. e5 = WithInode(e4, id, ino) /\ e6 = WithBlock(e5, b, blk)
  BY DEF blk
<1> HIDE DEF ino
<1>9. /\ e5.inode_map = e4.inode_map /\ e5.block_map = e4.block_map
      /\ e5.dentry = e4.dentry /\ e5.index = e4.index
      /\ e5.inode[id] = ino /\ \A j \in Inodes : j # id => e5.inode[j] = e4.inode[j]
  BY <1>3, <1>5, <1>8, SetInode
<1>10. /\ e6 \in CardRecord /\ e6.inode_map = e5.inode_map /\ e6.block_map = e5.block_map
       /\ e6.inode = e5.inode
       /\ e6.dentry[b] = blk /\ \A a \in Blocks : a # b => e6.dentry[a] = e5.dentry[a]
       /\ e6.index[b] = ZeroIndex /\ \A a \in Blocks : a # b => e6.index[a] = e5.index[a]
  BY <1>6, <1>7, <1>8, SetBlock
<1>11. /\ e6.inode_map = d.inode_map \cup {id} /\ e6.block_map = d.block_map \cup {b}
       /\ e6.inode[id] = ino
       /\ SameInode(e6.inode[dir], d.inode[dir]) /\ e6.inode[dir] = e3.inode[dir]
       /\ \A i \in Inodes : i # dir /\ i # id => e6.inode[i] = d.inode[i]
       /\ \A a \in Blocks : a # b => e6.index[a] = d.index[a] /\ e6.dentry[a] = e3.dentry[a]
  BY <1>1, <1>2, <1>3, <1>9, <1>10
<1>12. Dirs(e6) = Dirs(e5) /\ Regular(e6) = Regular(e5) /\ Live(e6) = Live(d) \cup {id}
  <2>1. Dirs(e6) = Dirs(e5) /\ Regular(e6) = Regular(e5)
    BY <1>10 DEF Dirs, Regular
  <2>2. CASE type = D_DIR
    BY <1>7, <2>1, <2>2, Bits DEF Live
  <2>3. CASE type = D_FILE
    BY <1>7, <2>1, <2>3, Bits DEF Live
  <2> QED
    BY <2>1, <2>2, <2>3
<1>13. "crash" \in c => Steady(e5)
  <2>1. b \notin d.block_map
    BY <1>2
  <2>2. "crash" \in c => e4.dentry[b] = ZeroDentries
    BY <1>2, <1>3, <2>1 DEF Good, FreeClear
  <2> QED
    BY <1>7, <2>2
<1>14. InodesOK(e6)
  <2>1. \A i \in Inodes : i \notin e6.inode_map => e6.inode[i] = NoInode
    BY <1>1, <1>11 DEF InodesOK, Dirs
  <2>2. ASSUME NEW i \in e6.inode_map PROVE i \in Live(e6) /\ e6.inode[i].inode_id = i
    BY <1>1, <1>5, <1>11, <1>12 DEF InodesOK, SameInode
  <2>3. ASSUME NEW i \in Regular(e6) PROVE e6.inode[i].file_num = 0 /\ e6.inode[i].size <= MaxSize
    <3>1. CASE i = id
      <4>1. type = D_FILE
        BY <1>5, <1>11, <2>3, <3>1 DEF Regular
      <4> QED
        BY <1>5, <1>11, <3>1, <4>1, Bits, FileSysAssumption
    <3>2. CASE i # id
      <4>1. i \in Regular(d)
        BY <1>7, <1>12, <2>3, <3>2
      <4>2. i # dir /\ i \in Inodes
        BY <1>1, <4>1, CardParts
      <4> QED
        BY <1>1, <1>11, <3>2, <4>1, <4>2 DEF InodesOK
    <3> QED
      BY <3>1, <3>2
  <2> QED
    BY <1>7, <1>12, <2>1, <2>2, <2>3 DEF InodesOK
<1>15. \A i \in Live(d) : Refs(e6, i) = Refs(d, i) /\ e6.inode[i].direct[0] = d.inode[i].direct[0]
  <2>1. SUFFICES ASSUME NEW i \in Live(d)
                 PROVE  Refs(e6, i) = Refs(d, i) /\ e6.inode[i].direct[0] = d.inode[i].direct[0]
    OBVIOUS
  <2>2. i \in Inodes /\ i # id
    BY <1>1, CardParts
  <2>3. SameInode(e6.inode[i], d.inode[i])
    BY <1>11, <2>2 DEF SameInode
  <2>4. \A r \in Refs(d, i) : r.to # b /\ r.to \in Blocks
    <3>1. \A r \in Refs(d, i) : r.to \in d.block_map
      BY <1>1 DEF Exclusive
    <3> QED
      BY <1>1, <1>2, <3>1, CardFields
  <2> QED
    BY <1>11, <2>3, <2>4, SameRefs DEF SameInode
<1>16. Exclusive(e6, Live(e6))
  <2>1. \A r \in Refs(e6, id) : r = ptr
    BY <1>11, CreatedRefs DEF ino
  <2>2. ptr.to = b
    OBVIOUS
  <2> HIDE DEF ptr
  <2>3. \A i \in Live(d) : \A r \in Refs(d, i) : r.to # ptr.to
    BY <1>1, <1>2, <2>2 DEF Exclusive
  <2>4. \A i \in Live(e6) : \A r \in Refs(e6, i) : r = ptr \/ (i \in Live(d) /\ r \in Refs(d, i))
    BY <1>12, <1>15, <2>1
  <2>5. Root \in Live(d) /\ b # 0
    BY <1>1, <1>2 DEF Steady, Live, Exclusive
  <2>6. e6.inode[Root].direct[0] = 0 /\ \A i \in Live(e6) \ {Root} : e6.inode[i].direct[0] # 0
    BY <1>1, <1>5, <1>11, <1>12, <1>15, <2>5 DEF Exclusive
  <2>7. ptr.to \in e6.block_map /\ d.block_map \subseteq e6.block_map
    BY <1>11, <2>2
  <2> QED
    BY <1>1, <2>3, <2>4, <2>6, <2>7, ExclusiveGrows
<1>17. FreeClear(e6, c)
  BY <1>2, <1>11 DEF FreeClear, Good
<1>18. \A i \in Dirs(d) : DirBlock(e6, i) = DirBlock(e3, i)
  <2>1. SUFFICES ASSUME NEW i \in Dirs(d) PROVE DirBlock(e6, i) = DirBlock(e3, i)
    OBVIOUS
  <2>2. i \in Live(d) /\ i \in Inodes /\ Live(d) \subseteq Inodes
    BY <1>1, CardParts DEF Live
  <2>3. d.inode[i].direct[0] \in d.block_map /\ d.inode[i].direct[0] \in Blocks
    BY <1>1, <2>2, Homes, CardParts
  <2>4. d.inode[i].direct[0] # b /\ e6.inode[i].direct[0] = d.inode[i].direct[0] /\ e3.inode[i].direct[0] = d.inode[i].direct[0]
    BY <1>2, <1>15, <2>2, <2>3 DEF SameInode
  <2> QED
    BY <1>11, <2>3, <2>4 DEF DirBlock
<1>19. EntryAdded(d, e6, dir, k, x)
  <2>1. \A i \in Dirs(d) : e6.inode[i].file_num = e3.inode[i].file_num
    <3>1. \A i \in Dirs(d) : i \in Inodes /\ i # id
      BY <1>1, CardParts DEF Dirs
    <3> QED
      BY <1>2, <1>11, <3>1
  <2>2. Dirs(d) \subseteq Dirs(e6) /\ Regular(d) \subseteq Regular(e6)
    BY <1>7, <1>12
  <2> QED
    BY <1>2, <1>18, <2>1, <2>2 DEF EntryAdded
<1>20. Tree(e6)
  <2>1. id # Root /\ id \notin Live(d)
    BY <1>1, CardParts DEF Steady, Dirs
  <2>2. \A i \in Regular(e6) : i # id => i \in Regular(d) /\ e6.inode[i].links_count = d.inode[i].links_count
    <3>1. \A i \in Regular(e6) : i # id => i \in Regular(d)
      BY <1>7, <1>12
    <3>2. \A i \in Regular(d) : i # dir /\ i \in Inodes
      BY <1>1, CardParts
    <3> QED
      BY <1>11, <3>1, <3>2
  <2>3. e6.inode[id].links_count = 1
    BY <1>5, <1>11
  <2>4. \/ /\ x.type = D_DIR /\ id \in Dirs(e6) \ Live(d) /\ Dirs(e6) = Dirs(d) \cup {id}
           /\ DirBlock(e6, id) = DirEntries(dir, id) /\ e6.inode[id].file_num = 2
        \/ x.type \in {D_FILE, D_LINK} /\ id \in Regular(e6) /\ Dirs(e6) = Dirs(d)
    <3>1. CASE type = D_DIR
      <4>1. DirBlock(e6, id) = DirEntries(dir, id)
        BY <1>5, <1>10, <1>11, <3>1 DEF DirBlock, blk, FirstBlock
      <4> QED
        BY <1>5, <1>7, <1>11, <1>12, <2>1, <3>1, <4>1
    <3>2. CASE type = D_FILE
      BY <1>7, <1>12, <3>2, Bits
    <3> QED
      BY <3>1, <3>2
  <2>5. \A l \in Used(d, dir) : DirBlock(d, dir)[l].name = x.name => DirBlock(d, dir)[l].type \cap x.type = {}
    BY DEF Untaken
  <2> QED
    BY <1>1, <1>10, <1>14, <1>19, <2>1, <2>2, <2>3, <2>4, <2>5, AddedTree
<1> QED
  BY <1>2, <1>3, <1>4, <1>7, <1>10, <1>12, <1>13, <1>16, <1>17, <1>19, <1>20, AddedChange DEF Created, Good

\* mkdir and touch: the history is clean and a call that returns leaves a good card.
CreateDone(g, d, c, id, type) ==
    /\ Clean(g, c)
    /\ g.ok => /\ id \in Inodes /\ Good(Card(g), c)
               /\ Dirs(d) \subseteq Dirs(Card(g)) /\ Regular(d) \subseteq Regular(Card(g))
               /\ type = D_FILE => id \in Regular(Card(g))
               /\ OneChange(d, Card(g))

LEMMA CreateSteps ==
    ASSUME NEW c, NEW h, Clean(h, c), NEW d, d = Card(h), Good(d, c), NEW dir \in Dirs(d),
           NEW name \in Names, NEW type \in {D_DIR, D_FILE}, Untaken(d, dir, name, type),
           NEW id, id = new_inode(h),
           NEW g, g = create_dentry(alloc_inode(h), dir, id, name, type),
           NEW b, b = new_block(g),
           NEW g2, g2 = create_inode(alloc_block(g), id, b, type),
           NEW g3, g3 = IF type = D_DIR THEN create_dir_block(g2, b, dir, id) ELSE zero_block(g2, b)
    PROVE  CreateDone(g3, d, c, id, type)
<1> DEFINE x == [type |-> type, inode_id |-> id, name |-> name]
           f == alloc_inode(h)
           e1 == Card(f)
           k == FreeSlot(e1, e1.inode[dir].direct[0])
           e2 == WithInode(e1, dir, added_entry(e1.inode[dir], type))
           e3 == WithEntry(e2, e1.inode[dir].direct[0], k, x)
           g1 == alloc_block(g)
           e4 == BlockTaken(e3, b)
           e5 == WithInode(e4, id, CreatedInode(NoInode, id, b, type))
           e6 == WithBlock(e5, b, FirstBlock(type, dir, id))
<1>1. /\ h \in Hist /\ d \in CardRecord /\ Steady(d) /\ dir \in Inodes /\ id \in Inodes
      /\ \A i \in Inodes : i \notin d.inode_map => d.inode[i] = NoInode
  BY CardType, GoodSteady, CardParts, NewInode DEF Clean, Good, Tree, InodesOK
<1>2. x \in DentryRecord /\ x.type = type /\ x.inode_id = id /\ x.name = name
  BY <1>1 DEF DentryRecord
<1>3. x.type # Unused
  BY <1>2, Bits
<1> HIDE DEF x
<1>4. id \notin d.inode_map => Steady(InodeTaken(d, id))
  BY <1>1, SteadyInodeTaken
<1>5. Clean(f, c) /\ (f.ok => id \notin d.inode_map /\ e1 = InodeTaken(d, id))
  BY <1>4, SteadySafe, AllocInode
<1>6. ASSUME f.ok, FirstFree(e1, e1.inode[dir].direct[0], k) PROVE Entered(d, e1, e2, e3, dir, k, x)
  <2>1. id \notin d.inode_map
    BY <1>5, <1>6
  <2> HIDE DEF k, e1
  <2>2. e1 = InodeTaken(d, x.inode_id) /\ e2 = WithInode(e1, dir, added_entry(e1.inode[dir], x.type))
    BY <1>2, <1>5, <1>6
  <2>3. e3 = WithEntry(e2, e1.inode[dir].direct[0], k, x)
    OBVIOUS
  <2> HIDE DEF e2, e3
  <2> QED
    BY <1>2, <1>3, <1>6, <2>1, <2>2, <2>3, EnterName
<1> HIDE DEF f, e1, e2, e3, k
<1>7. Clean(g, c) /\ (g.ok => f.ok /\ FirstFree(e1, e1.inode[dir].direct[0], k) /\ Card(g) = e3)
  <2>1. ASSUME f.ok, FirstFree(e1, e1.inode[dir].direct[0], k)
        PROVE  e1.inode[dir].file_num < DENTRIES /\ Safe(e2) /\ Safe(e3)
    BY <1>6, <2>1, SteadySafe DEF Entered
  <2>2. /\ e1 = Card(f) /\ k = FreeSlot(e1, e1.inode[dir].direct[0])
        /\ e2 = WithInode(e1, dir, added_entry(e1.inode[dir], type))
        /\ e3 = WithEntry(e2, e1.inode[dir].direct[0], k, [type |-> type, inode_id |-> id, name |-> name])
        /\ g = create_dentry(f, dir, id, name, type) /\ type \in {D_DIR, D_FILE, D_LINK}
    BY DEF e1, k, e2, e3, x, f
  <2>3. DentryDone(g, f, c, e1, e1.inode[dir].direct[0], k, e3)
    BY <1>1, <1>5, <2>1, <2>2, CreateDentry, ZenonT(60)
  <2> QED
    BY <2>3 DEF DentryDone
<1>8. b \in Blocks
  BY <1>7, NewBlock DEF Clean
<1>9. ASSUME g.ok, b \notin e3.block_map PROVE Created(d, e4, e5, e6, c, id, type)
  <2>1. id \notin d.inode_map /\ Entered(d, e1, e2, e3, dir, k, x)
    BY <1>5, <1>6, <1>7, <1>9
  <2>2. Untaken(d, dir, x.name, type) /\ x.name \in Names
    BY <1>2
  <2> QED
    BY <1>1, <1>2, <1>8, <1>9, <2>1, <2>2, Creates
<1> HIDE DEF e4, e5, e6, g1
<1>10. Clean(g1, c) /\ (g1.ok => g.ok /\ b \notin e3.block_map /\ Card(g1) = e4)
  <2>1. CASE g.ok
    <3>1. b \notin e3.block_map => Safe(e4)
      BY <1>9, <2>1, SteadySafe DEF Created
    <3> QED
      BY <1>7, <2>1, <3>1, AllocBlock DEF e4, g1
  <2>2. CASE ~g.ok
    BY <1>7, <2>2, AllocBlock DEF g1
  <2> QED
    BY <2>1, <2>2
<1>11. Clean(g2, c) /\ (g2.ok => g1.ok /\ Card(g2) = e5)
  <2>1. CASE g1.ok
    <3>1. e4.inode[id] = NoInode /\ ("crash" \in c => Safe(e5))
      BY <1>9, <1>10, <2>1, SteadySafe DEF Created
    <3>2. g2 = create_inode(g1, id, b, type) /\ Card(g1) = e4 /\ e5 = WithInode(Card(g1), id, CreatedInode(NoInode, id, b, type))
      BY <1>10, <2>1 DEF g1, e5
    <3> QED
      BY <1>1, <1>8, <1>10, <2>1, <3>1, <3>2, CreateInode
  <2>2. CASE ~g1.ok
    <3>1. g2 = create_inode(g1, id, b, type)
      BY DEF g1
    <3> QED
      BY <1>1, <1>8, <1>10, <2>2, <3>1, CreateInode
  <2> QED
    BY <2>1, <2>2
<1>12. g2.ok => Created(d, e4, e5, e6, c, id, type) /\ Safe(e6)
  BY <1>9, <1>10, <1>11, GoodSafe DEF Created
<1>13. Clean(g3, c) /\ (g3.ok => g2.ok /\ Card(g3) = e6)
  <2>1. CASE type = D_DIR
    <3>1. g3 = create_dir_block(g2, b, dir, id) /\ e6 = WithBlock(e5, b, DirEntries(dir, id))
      BY <2>1 DEF e6, FirstBlock
    <3>2. CASE g2.ok
      BY <1>1, <1>8, <1>11, <1>12, <3>1, <3>2, CreateDirBlock
    <3>3. CASE ~g2.ok
      BY <1>1, <1>8, <1>11, <3>1, <3>3, CreateDirBlock
    <3> QED
      BY <3>2, <3>3
  <2>2. CASE type # D_DIR
    <3>1. g3 = zero_block(g2, b) /\ e6 = WithBlock(e5, b, ZeroDentries)
      BY <2>2 DEF e6, FirstBlock
    <3>2. CASE g2.ok
      BY <1>8, <1>11, <1>12, <3>1, <3>2, ZeroBlock
    <3>3. CASE ~g2.ok
      BY <1>8, <1>11, <3>1, <3>3, ZeroBlock
    <3> QED
      BY <3>2, <3>3
  <2> QED
    BY <2>1, <2>2
<1> QED
  BY <1>1, <1>12, <1>13 DEF CreateDone, Created

-----------------------------------------------------------------------------
(* do_ln *)

\* A call that returns leaves a good card with the same directories and files.
KeepsTree(g, d, c) ==
    /\ Clean(g, c)
    /\ g.ok => /\ Good(Card(g), c) /\ Dirs(Card(g)) = Dirs(d) /\ Regular(Card(g)) = Regular(d)
               /\ OneChange(d, Card(g))

LEMMA LinkedFields ==
    ASSUME NEW ino \in InodeRecord, ino.links_count < UMOD - 1,
           NEW r, r = [ino EXCEPT !.links_count = @ + 1]
    PROVE  /\ r \in InodeRecord /\ SameInode(r, ino) /\ r.file_num = ino.file_num
           /\ r.links_count = ino.links_count + 1
<1>1. ino.links_count \in 0 .. UMOD - 1
  BY DEF InodeRecord
<1>2. ino.links_count + 1 \in 0 .. UMOD - 1
  BY <1>1, FileSysAssumption, SMTT(40)
<1>3. r = [ino EXCEPT !.links_count = ino.links_count + 1]
  OBVIOUS
<1> QED
  BY <1>2, <1>3 DEF InodeRecord, SameInode

LEMMA LinkGood ==
    ASSUME NEW c, NEW d, Good(d, c), NEW dir \in Dirs(d), NEW id \in Regular(d),
           NEW ino \in InodeRecord, SameInode(ino, d.inode[id]), ino.file_num = d.inode[id].file_num,
           ino.links_count = d.inode[id].links_count + 1,
           NEW x \in DentryRecord, x.type = D_LINK, x.inode_id = id, x.name \in Names,
           Untaken(d, dir, x.name, D_LINK), NEW k,
           NEW a, a = WithInode(d, id, ino), NEW e1, NEW e2, EntryWritten(a, e1, e2, dir, k, x)
    PROVE  Good(e2, c) /\ Dirs(e2) = Dirs(d) /\ Regular(e2) = Regular(d) /\ OneChange(d, e2)
<1>1. /\ d \in CardRecord /\ Steady(d) /\ Tree(d) /\ InodesOK(d) /\ id \in Inodes /\ dir \in Inodes
      /\ dir # id /\ d.inode_map \subseteq Inodes
  BY GoodSteady, CardParts, CardFields DEF Good, Tree
<1>2. /\ a \in CardRecord /\ a.inode_map = d.inode_map /\ a.block_map = d.block_map
      /\ a.dentry = d.dentry /\ a.index = d.index
      /\ a.inode[id] = ino /\ \A j \in Inodes : j # id => a.inode[j] = d.inode[j]
  BY <1>1, SetInode
<1>3. Steady(a) /\ Dirs(a) = Dirs(d) /\ Regular(a) = Regular(d)
  BY <1>1, SteadyCounts
<1>4. /\ Steady(e2) /\ Dirs(e2) = Dirs(d) /\ Regular(e2) = Regular(d)
      /\ EntryAdded(a, e2, dir, k, x)
      /\ e2.inode_map = d.inode_map /\ e2.block_map = d.block_map /\ e2.index = d.index
      /\ SameInode(e2.inode[dir], a.inode[dir])
      /\ \A i \in Inodes : i # dir => e2.inode[i] = a.inode[i]
      /\ a.inode[dir].direct[0] \in d.block_map
      /\ \A b \in Blocks : b # a.inode[dir].direct[0] => e2.dentry[b] = d.dentry[b]
  BY <1>2, <1>3 DEF EntryWritten
<1>5. EntryAdded(d, e2, dir, k, x)
  <2>1. \A i \in Dirs(d) : DirBlock(a, i) = DirBlock(d, i) /\ a.inode[i].file_num = d.inode[i].file_num
    <3>1. \A i \in Dirs(d) : i \in Inodes /\ i # id
      BY <1>1, CardParts
    <3> QED
      BY <1>2, <3>1 DEF DirBlock
  <2>2. Used(a, dir) = Used(d, dir)
    BY <2>1 DEF Used
  <2>3. /\ k \in Dentries \ Used(a, dir) /\ \A j \in Dentries : j < k => j \in Used(a, dir)
        /\ DirBlock(e2, dir)[k] = x /\ x.type # Unused
        /\ \A l \in Dentries : l # k => DirBlock(e2, dir)[l] = DirBlock(a, dir)[l]
        /\ e2.inode[dir].file_num = a.inode[dir].file_num + 1
        /\ \A i \in Dirs(a) : i # dir =>
             DirBlock(e2, i) = DirBlock(a, i) /\ e2.inode[i].file_num = a.inode[i].file_num
    BY <1>4 DEF EntryAdded
  <2> QED
    BY <1>3, <1>4, <2>1, <2>2, <2>3 DEF EntryAdded
<1>6. /\ \A i \in Inodes : SameInode(e2.inode[i], d.inode[i])
      /\ \A i \in Inodes : i # dir => e2.inode[i].file_num = d.inode[i].file_num
      /\ \A i \in Inodes : i # dir /\ i # id => e2.inode[i] = d.inode[i]
  BY <1>1, <1>2, <1>4 DEF SameInode
<1>7. InodesOK(e2)
  <2>1. \A i \in Inodes : i \notin e2.inode_map => e2.inode[i] = NoInode
    <3>1. dir \in d.inode_map /\ id \in d.inode_map
      BY DEF Dirs, Regular
    <3> QED
      BY <1>1, <1>4, <1>6, <3>1 DEF InodesOK
  <2>2. \A i \in e2.inode_map : i \in Live(e2) /\ e2.inode[i].inode_id = i
    BY <1>1, <1>4, <1>6 DEF InodesOK, SameInode, Live
  <2>3. \A i \in Regular(e2) : e2.inode[i].file_num = 0 /\ e2.inode[i].size <= MaxSize
    <3>1. \A i \in Regular(e2) : i \in Inodes /\ i # dir
      BY <1>1, <1>4, CardParts
    <3> QED
      BY <1>1, <1>4, <1>6, <3>1 DEF InodesOK, SameInode
  <2> QED
    BY <1>1, <1>4, <2>1, <2>2, <2>3 DEF InodesOK
<1>8. Tree(e2)
  <2>1. id # Root /\ id \in Regular(e2) /\ id \in Live(d)
    BY <1>1, <1>4, CardParts DEF Steady, Live
  <2>2. \A i \in Regular(e2) : i # id => i \in Regular(d) /\ e2.inode[i].links_count = d.inode[i].links_count
    <3>1. \A i \in Regular(e2) : i \in Inodes /\ i # dir
      BY <1>1, <1>4, CardParts
    <3> QED
      BY <1>4, <1>6, <3>1
  <2>3. e2.inode[id].links_count = d.inode[id].links_count + 1
    BY <1>1, <1>2, <1>4
  <2>4. \A l \in Used(d, dir) : DirBlock(d, dir)[l].name = x.name => DirBlock(d, dir)[l].type \cap x.type = {}
    BY DEF Untaken
  <2>5. e2 \in CardRecord
    BY <1>4 DEF Steady
  <2> QED
    BY <1>1, <1>4, <1>5, <1>7, <2>1, <2>2, <2>3, <2>4, <2>5, AddedTree
<1>9. FreeClear(e2, c)
  <2>1. \A b \in Blocks : b \notin d.block_map => e2.dentry[b] = d.dentry[b]
    BY <1>4
  <2> QED
    BY <1>4, <2>1 DEF FreeClear, Good
<1> QED
  BY <1>4, <1>5, <1>8, <1>9, AddedChange DEF Good, Steady

LEMMA LinkSteps ==
    ASSUME NEW c, NEW h, Clean(h, c), h.ok, NEW d, d = Card(h), Good(d, c),
           NEW dir \in Dirs(d), NEW id \in Regular(d), d.inode[id].links_count < UMOD - 1,
           NEW name \in Names, Untaken(d, dir, name, D_LINK),
           NEW g, g = create_dentry(write_inode(h, id, [d.inode[id] EXCEPT !.links_count = @ + 1]),
                                    dir, id, name, D_LINK)
    PROVE  KeepsTree(g, d, c)
<1> DEFINE x == [type |-> D_LINK, inode_id |-> id, name |-> name]
           ino == [d.inode[id] EXCEPT !.links_count = @ + 1]
           a == WithInode(d, id, ino)
           f == write_inode(h, id, ino)
           k == FreeSlot(a, a.inode[dir].direct[0])
           e1 == WithInode(a, dir, added_entry(a.inode[dir], D_LINK))
           e2 == WithEntry(e1, a.inode[dir].direct[0], k, x)
<1>1. /\ h \in Hist /\ d \in CardRecord /\ Steady(d) /\ dir \in Inodes /\ id \in Inodes /\ dir # id
      /\ d.inode[id] \in InodeRecord /\ id \in d.inode_map /\ DirOK(d, dir)
  BY CardType, GoodSteady, CardParts DEF Clean, Good, Tree, Regular
<1>2. x \in DentryRecord /\ x.type = D_LINK /\ x.inode_id = id /\ x.name = name
  BY <1>1 DEF DentryRecord
<1> HIDE DEF x
<1>3. /\ ino \in InodeRecord /\ SameInode(ino, d.inode[id]) /\ ino.file_num = d.inode[id].file_num
      /\ ino.links_count = d.inode[id].links_count + 1
  BY <1>1, LinkedFields
<1>4. g = create_dentry(f, dir, id, name, D_LINK)
  OBVIOUS
<1> HIDE DEF ino
<1>5. Steady(a) /\ Dirs(a) = Dirs(d) /\ Regular(a) = Regular(d)
  BY <1>1, <1>3, SteadyCounts
<1>6. /\ a.inode_map = d.inode_map /\ a.dentry = d.dentry /\ a.inode[dir] = d.inode[dir]
  BY <1>1, <1>3, SetInode, SMTT(40)
<1>7. Clean(f, c) /\ f.ok /\ Card(f) = a
  BY <1>1, <1>3, <1>5, SteadySafe, WriteInode, SMTT(40)
<1>8. ASSUME FirstFree(a, a.inode[dir].direct[0], k)
      PROVE  a.inode[dir].file_num < DENTRIES /\ EntryWritten(a, e1, e2, dir, k, x)
  <2>1. a.inode[dir].file_num < DENTRIES
    <3>1. FirstFree(d, d.inode[dir].direct[0], k)
      BY <1>6, <1>8 DEF FirstFree
    <3> QED
      BY <1>1, <1>6, <3>1, RoomLeft
  <2>2. e1 = WithInode(a, dir, added_entry(a.inode[dir], x.type)) /\ e2 = WithEntry(e1, a.inode[dir].direct[0], k, x)
    BY <1>2
  <2>3. dir \in Dirs(a) /\ x.type # Unused /\ x.inode_id \in a.inode_map
    BY <1>1, <1>2, <1>5, <1>6, Bits, SMTT(40)
  <2> HIDE DEF a, e1, e2, k
  <2> QED
    BY <1>2, <1>5, <1>8, <2>1, <2>2, <2>3, EntryWrites
<1> HIDE DEF f, e1, e2, k, a
<1>9. DentryDone(g, f, c, a, a.inode[dir].direct[0], k, e2)
  <2>1. ASSUME FirstFree(a, a.inode[dir].direct[0], k)
        PROVE  a.inode[dir].file_num < DENTRIES /\ Safe(e1) /\ Safe(e2)
    BY <1>8, <2>1, SteadySafe DEF EntryWritten
  <2>2. /\ a = Card(f) /\ k = FreeSlot(a, a.inode[dir].direct[0])
        /\ e1 = WithInode(a, dir, added_entry(a.inode[dir], D_LINK))
        /\ e2 = WithEntry(e1, a.inode[dir].direct[0], k, [type |-> D_LINK, inode_id |-> id, name |-> name])
    BY <1>7 DEF k, e1, e2, x
  <2> QED
    BY <1>1, <1>4, <1>7, <2>1, <2>2, CreateDentry
<1>10. FirstFree(a, a.inode[dir].direct[0], k) =>
          Good(e2, c) /\ Dirs(e2) = Dirs(d) /\ Regular(e2) = Regular(d) /\ OneChange(d, e2)
  <2>1. Untaken(d, dir, x.name, D_LINK) /\ x.name \in Names /\ a = WithInode(d, id, ino)
    BY <1>2 DEF a
  <2> QED
    BY <1>2, <1>3, <1>8, <2>1, LinkGood
<1> QED
  BY <1>9, <1>10 DEF DentryDone, KeepsTree

-----------------------------------------------------------------------------
(* A directory with one entry less *)

\* Slot k of directory dir, the only name of inode id, is vacated and the
\* inode is gone.
EntryRemoved(d, e, dir, k, id) ==
    /\ k \in Entries(d, dir) /\ Target(d, dir, k) = id /\ NamesOf(d, id) = {<<dir, k>>}
    /\ DirBlock(e, dir)[k].type = Unused /\ DirBlock(e, dir)[k].inode_id = id
    /\ \A l \in Dentries : l # k => DirBlock(e, dir)[l] = DirBlock(d, dir)[l]
    /\ e.inode[dir].file_num = d.inode[dir].file_num - 1
    /\ \A i \in Dirs(d) : i # dir /\ i # id =>
         DirBlock(e, i) = DirBlock(d, i) /\ e.inode[i].file_num = d.inode[i].file_num
    /\ dir # id /\ id # Root /\ (id \in Dirs(d) => Entries(d, id) = {})
    /\ Dirs(e) = Dirs(d) \ {id} /\ Regular(e) = Regular(d) \ {id}

LEMMA RemovedChange ==
    ASSUME NEW d, NEW e, NEW dir, NEW k, NEW id, EntryRemoved(d, e, dir, k, id)
    PROVE  OnlyName(d, e, dir, DirBlock(d, dir)[k].name)
<1>1. k \notin Used(e, dir)
  BY DEF EntryRemoved, Used
<1>2. \A j \in Dirs(d) \cap Dirs(e) : j # dir => DirBlock(e, j) = DirBlock(d, j)
  BY DEF EntryRemoved
<1>3. \A l \in Dentries : l # k => DirBlock(e, dir)[l] = DirBlock(d, dir)[l]
  BY DEF EntryRemoved
<1> QED
  BY <1>1, <1>2, <1>3 DEF OnlyName

LEMMA RemovedSlots ==
    ASSUME NEW d \in CardRecord, NEW e \in CardRecord, NEW dir \in Dirs(d), NEW k, NEW id,
           EntryRemoved(d, e, dir, k, id)
    PROVE  /\ Used(e, dir) = Used(d, dir) \ {k} /\ Entries(e, dir) = Entries(d, dir) \ {k}
           /\ \A i \in Dirs(e) : i # dir => Used(e, i) = Used(d, i) /\ Entries(e, i) = Entries(d, i)
           /\ k \in Dentries /\ k # 0 /\ k # 1 /\ k \in Used(d, dir)
           /\ Target(e, dir, k) = id
           /\ \A l \in Dentries : l # k => Target(e, dir, l) = Target(d, dir, l)
           /\ \A i \in Dirs(e) : i # dir => \A l : Target(e, i, l) = Target(d, i, l)
           /\ \A i \in Dirs(e) : Target(e, i, 1) = Target(d, i, 1)
<1>1. k \in Dentries /\ k # 0 /\ k # 1 /\ k \in Used(d, dir)
  BY DEF EntryRemoved, Entries, Used
<1>2. Used(e, dir) = Used(d, dir) \ {k}
  BY <1>1 DEF EntryRemoved, Used
<1>3. \A i \in Dirs(e) : i # dir => Used(e, i) = Used(d, i) /\ \A l : Target(e, i, l) = Target(d, i, l)
  BY DEF EntryRemoved, Used, Target
<1>4. Target(e, dir, k) = id /\ \A l \in Dentries : l # k => Target(e, dir, l) = Target(d, dir, l)
  BY DEF EntryRemoved, Target
<1> QED
  BY <1>1, <1>2, <1>3, <1>4, Sizes DEF Entries

\* No other entry names id, and no directory has it for its parent.
LEMMA RemovedAlone ==
    ASSUME NEW d \in CardRecord, NEW e \in CardRecord, NEW dir \in Dirs(d), NEW k, NEW id,
           Tree(d), EntryRemoved(d, e, dir, k, id)
    PROVE  /\ \A i \in Dirs(d) : \A l \in Entries(d, i) : Target(d, i, l) = id => i = dir /\ l = k
           /\ \A i \in Dirs(d) : Target(d, i, 1) # id
<1>1. ASSUME NEW i \in Dirs(d), NEW l \in Entries(d, i), Target(d, i, l) = id PROVE i = dir /\ l = k
  <2>1. <<i, l>> \in NamesOf(d, id)
    BY <1>1, NameIs
  <2> QED
    BY <2>1 DEF EntryRemoved
<1>2. ASSUME NEW i \in Dirs(d), Target(d, i, 1) = id PROVE FALSE
  <2>1. DotsOK(d, i) /\ OneName(d, i)
    BY DEF Tree, DirOK
  <2>2. id \in Dirs(d) /\ Entries(d, id) = {} /\ i # Root
    BY <1>2, <2>1 DEF DotsOK, EntryRemoved
  <2> QED
    BY <1>2, <2>1, <2>2 DEF OneName
<1> QED
  BY <1>1, <1>2

LEMMA RemovedDirs ==
    ASSUME NEW d \in CardRecord, NEW e \in CardRecord, NEW dir \in Dirs(d), NEW k, NEW id,
           Tree(d), EntryRemoved(d, e, dir, k, id)
    PROVE  \A i \in Dirs(e) : DirOK(e, i)
<1>1. /\ \A i \in Dirs(d) : DirOK(d, i)
      /\ Dirs(d) \subseteq Inodes /\ Dirs(e) = Dirs(d) \ {id} /\ Regular(e) = Regular(d) \ {id}
      /\ dir \in Dirs(e) /\ id # Root
  BY CardParts DEF Tree, EntryRemoved
<1>2. /\ Used(e, dir) = Used(d, dir) \ {k} /\ Entries(e, dir) = Entries(d, dir) \ {k}
      /\ \A i \in Dirs(e) : i # dir => Used(e, i) = Used(d, i) /\ Entries(e, i) = Entries(d, i)
      /\ k \in Dentries /\ k # 0 /\ k # 1 /\ k \in Used(d, dir)
      /\ Target(e, dir, k) = id
      /\ \A l \in Dentries : l # k => Target(e, dir, l) = Target(d, dir, l)
      /\ \A i \in Dirs(e) : i # dir => \A l : Target(e, i, l) = Target(d, i, l)
      /\ \A i \in Dirs(e) : Target(e, i, 1) = Target(d, i, 1)
  BY RemovedSlots
<1>3. /\ \A i \in Dirs(d) : \A l \in Entries(d, i) : Target(d, i, l) = id => i = dir /\ l = k
      /\ \A i \in Dirs(d) : Target(d, i, 1) # id
  BY RemovedAlone
<1>4. \A i \in Dirs(d) : Entries(d, i) \subseteq Dentries /\ Used(d, i) \subseteq Dentries
  BY <1>1, Slots
<1>5. ASSUME NEW i \in Dirs(e) PROVE DotsOK(e, i)
  <2>1. DotsOK(d, i)
    BY <1>1, <1>5 DEF DirOK
  <2>2. DirBlock(e, i)[0] = DirBlock(d, i)[0] /\ DirBlock(e, i)[1] = DirBlock(d, i)[1]
    BY <1>1, <1>2, <1>5, Sizes DEF EntryRemoved
  <2> QED
    BY <1>1, <1>2, <1>3, <1>5, <2>1, <2>2 DEF DotsOK
<1>6. ASSUME NEW i \in Dirs(e), NEW l \in Entries(e, i)
      PROVE  /\ l \in Entries(d, i) /\ DirBlock(e, i)[l] = DirBlock(d, i)[l]
             /\ Target(e, i, l) = Target(d, i, l) /\ Target(e, i, l) # id
  <2>1. CASE i = dir
    <3>1. l \in Entries(d, i) /\ l # k /\ l \in Dentries
      BY <1>1, <1>2, <1>4, <1>6, <2>1
    <3> QED
      BY <1>1, <1>2, <1>3, <2>1, <3>1 DEF EntryRemoved
  <2>2. CASE i # dir
    BY <1>1, <1>2, <1>3, <1>6, <2>2 DEF EntryRemoved
  <2> QED
    BY <2>1, <2>2
<1>7. ASSUME NEW i \in Dirs(e), NEW l \in Entries(e, i) PROVE EntryOK(e, i, l)
  <2>1. EntryOK(d, i, l)
    BY <1>1, <1>6, <1>7 DEF DirOK
  <2> QED
    BY <1>1, <1>2, <1>6, <1>7, <2>1 DEF EntryOK
<1>8. ASSUME NEW i \in Dirs(e) PROVE OneName(e, i)
  <2>1. OneName(d, i) /\ DotsOK(d, i)
    BY <1>1, <1>8 DEF DirOK
  <2>2. ASSUME NEW l \in Entries(e, i), NEW m \in Entries(e, i),
               Target(e, i, l) = Target(e, i, m), Target(e, i, l) \in Dirs(e)
        PROVE  l = m
    BY <1>1, <1>6, <1>8, <2>1, <2>2 DEF OneName
  <2>3. ASSUME i # Root PROVE \E l \in Entries(e, Target(e, i, 1)) : Target(e, Target(e, i, 1), l) = i
    <3>1. PICK l \in Entries(d, Target(d, i, 1)) : Target(d, Target(d, i, 1), l) = i
      BY <2>1, <2>3 DEF OneName
    <3>2. Target(d, i, 1) \in Dirs(e) /\ Target(e, i, 1) = Target(d, i, 1)
      BY <1>1, <1>2, <1>3, <1>8, <2>1 DEF DotsOK
    <3>3. l \in Dentries /\ (Target(d, i, 1) = dir => l # k)
      BY <1>1, <1>4, <1>8, <3>1, <3>2 DEF EntryRemoved
    <3> QED
      BY <1>2, <3>1, <3>2, <3>3
  <2> QED
    BY <2>2, <2>3 DEF OneName
<1>9. ASSUME NEW i \in Dirs(e) PROVE Counted(e, i)
  <2>1. Counted(d, i)
    BY <1>1, <1>9 DEF DirOK
  <2>2. CASE i # dir
    BY <1>1, <1>2, <1>9, <2>1, <2>2 DEF Counted, EntryRemoved
  <2>3. CASE i = dir
    <3>1. IsFiniteSet(Used(d, dir))
      BY <1>1, Slots
    <3>2. Cardinality(Used(d, dir) \ {k}) = Cardinality(Used(d, dir)) - 1
      BY <1>2, <3>1, FS_RemoveElement
    <3> QED
      BY <1>2, <2>1, <2>3, <3>2 DEF Counted, EntryRemoved
  <2> QED
    BY <2>2, <2>3
<1>10. ASSUME NEW i \in Dirs(e) PROVE NamesDiffer(e, i)
  <2>1. NamesDiffer(d, i)
    BY <1>1, <1>10 DEF DirOK
  <2>2. CASE i # dir
    BY <1>1, <1>2, <1>10, <2>1, <2>2 DEF NamesDiffer, EntryRemoved
  <2>3. CASE i = dir
    <3>1. \A l \in Used(e, dir) : l \in Used(d, dir) /\ DirBlock(e, dir)[l] = DirBlock(d, dir)[l]
      BY <1>1, <1>2, <1>4 DEF EntryRemoved
    <3> QED
      BY <2>1, <2>3, <3>1 DEF NamesDiffer
  <2> QED
    BY <2>2, <2>3
<1>11. ASSUME NEW i \in Dirs(e) PROVE NoStale(e, i)
  <2>1. NoStale(d, i)
    BY <1>1, <1>11 DEF DirOK
  <2>2. CASE i # dir
    BY <1>2, <1>11, <2>1, <2>2 DEF NoStale
  <2>3. CASE i = dir
    <3>1. SUFFICES ASSUME NEW l \in Entries(e, dir), NEW j \in Dentries, j < l, j \notin Used(e, dir)
                   PROVE  Target(e, dir, j) # Target(e, dir, l)
      BY <2>3 DEF NoStale
    <3>2. l \in Entries(d, dir) /\ Target(e, dir, l) = Target(d, dir, l) /\ Target(e, dir, l) # id
      BY <1>1, <1>6, <3>1
    <3>3. CASE j = k
      BY <1>2, <3>2, <3>3
    <3>4. CASE j # k
      BY <1>2, <2>1, <2>3, <3>1, <3>2, <3>4 DEF NoStale
    <3> QED
      BY <3>3, <3>4
  <2> QED
    BY <2>2, <2>3
<1> QED
  BY <1>5, <1>7, <1>8, <1>9, <1>10, <1>11 DEF DirOK

LEMMA RemovedTree ==
    ASSUME NEW d \in CardRecord, NEW e \in CardRecord, NEW dir \in Dirs(d), NEW k, NEW id,
           Tree(d), EntryRemoved(d, e, dir, k, id), InodesOK(e),
           \A i \in Regular(e) : e.inode[i].links_count = d.inode[i].links_count
    PROVE  Tree(e)
<1>1. \A i \in Dirs(e) : DirOK(e, i)
  BY RemovedDirs
<1>2. /\ Entries(e, dir) = Entries(d, dir) \ {k}
      /\ \A i \in Dirs(e) : i # dir => Entries(e, i) = Entries(d, i)
      /\ \A l \in Dentries : l # k => Target(e, dir, l) = Target(d, dir, l)
      /\ \A i \in Dirs(e) : i # dir => \A l : Target(e, i, l) = Target(d, i, l)
  BY RemovedSlots
<1>3. Dirs(e) = Dirs(d) \ {id} /\ (id \in Dirs(d) => Entries(d, id) = {}) /\ Target(d, dir, k) = id
  BY DEF EntryRemoved
<1>4. Entries(d, dir) \subseteq Dentries
  BY CardParts, Slots
<1>5. ASSUME NEW i, i # id, NEW j, NEW l PROVE <<j, l>> \in NamesOf(e, i) <=> <<j, l>> \in NamesOf(d, i)
  <2>1. CASE j = dir
    BY <1>2, <1>3, <1>4, <1>5, <2>1, NameIs DEF EntryRemoved
  <2>2. CASE j # dir
    BY <1>2, <1>3, <1>5, <2>2, NameIs
  <2> QED
    BY <2>1, <2>2
<1>6. ASSUME NEW i, i # id PROVE NamesOf(e, i) = NamesOf(d, i)
  <2>1. \A p \in NamesOf(e, i) \cup NamesOf(d, i) : p = <<p[1], p[2]>>
    BY DEF NamesOf
  <2>2. \A p \in NamesOf(e, i) \cup NamesOf(d, i) : p \in NamesOf(e, i) <=> p \in NamesOf(d, i)
    <3>1. TAKE p \in NamesOf(e, i) \cup NamesOf(d, i)
    <3>2. p = <<p[1], p[2]>>
      BY <2>1
    <3>3. <<p[1], p[2]>> \in NamesOf(e, i) <=> <<p[1], p[2]>> \in NamesOf(d, i)
      BY <1>5, <1>6
    <3> QED
      BY <3>2, <3>3
  <2> QED
    BY <2>2
<1>7. LinksOK(e)
  <2>1. \A i \in Regular(e) : i \in Regular(d) /\ i # id
    BY DEF EntryRemoved
  <2> QED
    BY <1>6, <2>1 DEF LinksOK, Tree
<1> QED
  BY <1>1, <1>7 DEF Tree

-----------------------------------------------------------------------------
(* do_rmdir and do_rm *)

\* Entry k of dir names an inode that do_rmdir or do_rm may destroy.
Victim(d, dir, k, id) ==
    /\ k \in Entries(d, dir) /\ Target(d, dir, k) = id
    /\ \/ id \in Dirs(d) /\ Deletable(d, id)
       \/ id \in Regular(d) /\ d.inode[id].links_count = 1

\* It has no other name and holds nothing, and its slot is the first with its
\* number.
LEMMA VictimAlone ==
    ASSUME NEW d \in CardRecord, Tree(d), NEW dir \in Dirs(d), NEW k, NEW id, Victim(d, dir, k, id)
    PROVE  /\ NamesOf(d, id) = {<<dir, k>>} /\ dir # id /\ id # Root /\ id \in Live(d)
           /\ (id \in Dirs(d) => Entries(d, id) = {})
           /\ d.inode[dir].file_num # 0
           /\ \A m : FirstWith(d, d.inode[dir].direct[0], id, m) => m = k
<1>1. /\ DirOK(d, dir) /\ EntryOK(d, dir, k) /\ k \in Dentries /\ dir \in Inodes
      /\ k \in Entries(d, dir) /\ Target(d, dir, k) = id
  BY CardParts, Slots DEF Tree, DirOK, Victim
<1>2. id # Root /\ id \in Live(d) /\ id \in Inodes
  <2>1. id # Root /\ id \in Live(d)
    BY <1>1 DEF EntryOK, Live
  <2> QED
    BY <2>1, CardParts
<1>3. ASSUME id \in Dirs(d) PROVE Entries(d, id) = {} /\ Target(d, id, 1) = dir
  <2>1. DirOK(d, id) /\ d.inode[id].file_num = 2 /\ id \notin Regular(d)
    BY <1>3, CardParts DEF Tree, Victim, Deletable
  <2>2. {0, 1} \subseteq Used(d, id) /\ Cardinality(Used(d, id)) = 2
    BY <2>1, Sizes, Bits DEF DirOK, DotsOK, Counted, Used
  <2>3. Used(d, id) = {0, 1}
    <3>1. IsFiniteSet(Used(d, id))
      BY <1>2, Slots
    <3> QED
      BY <2>2, <3>1, Pair, FS_Subset
  <2>4. Target(d, id, 1) = dir
    BY <1>1, <2>1 DEF EntryOK
  <2> QED
    BY <2>3, <2>4 DEF Entries
<1>4. dir # id
  BY <1>1, <1>3
<1>5. <<dir, k>> \in NamesOf(d, id)
  BY <1>1, NameIs
<1>6. ASSUME NEW p \in NamesOf(d, id) PROVE p = <<dir, k>>
  <2>1. CASE id \in Dirs(d)
    <3>1. p[1] \in Dirs(d) /\ p[2] \in Entries(d, p[1]) /\ Target(d, p[1], p[2]) = id /\ p = <<p[1], p[2]>>
      BY <1>6 DEF NamesOf, Entries, Target
    <3>2. EntryOK(d, p[1], p[2]) /\ id \notin Regular(d)
      BY <2>1, <3>1, CardParts DEF Tree, DirOK
    <3>3. p[1] = dir
      BY <1>3, <2>1, <3>1, <3>2 DEF EntryOK
    <3>4. p[2] = k
      BY <1>1, <2>1, <3>1, <3>3 DEF DirOK, OneName
    <3> QED
      BY <3>1, <3>3, <3>4
  <2>2. CASE id \notin Dirs(d)
    <3>1. id \in Regular(d) /\ d.inode[id].links_count = 1
      BY <2>2 DEF Victim
    <3>2. Cardinality(NamesOf(d, id)) = 1 /\ IsFiniteSet(NamesOf(d, id))
      BY <3>1, NamesFinite DEF Tree, LinksOK
    <3>3. PICK q : NamesOf(d, id) = {q}
      BY <3>2, FS_Singleton, Zenon
    <3> QED
      BY <1>5, <1>6, <3>3
  <2> QED
    BY <2>1, <2>2
<1>7. NamesOf(d, id) = {<<dir, k>>}
  BY <1>5, <1>6
<1>8. d.inode[dir].file_num # 0
  <2>1. 0 \in Used(d, dir) /\ IsFiniteSet(Used(d, dir))
    BY <1>1, Slots, Sizes, Bits DEF DirOK, DotsOK, Used
  <2>2. Cardinality(Used(d, dir)) # 0
    BY <2>1, FS_EmptySet
  <2> QED
    BY <1>1, <2>2 DEF DirOK, Counted
<1>9. ASSUME NEW m, FirstWith(d, d.inode[dir].direct[0], id, m) PROVE m = k
  <2>1. m \in Dentries /\ Target(d, dir, m) = id /\ ~(k < m)
    BY <1>1, <1>9 DEF FirstWith, Target, DirBlock
  <2>2. CASE m \in Entries(d, dir)
    <3>1. <<dir, m>> \in NamesOf(d, id)
      BY <2>1, <2>2, NameIs
    <3> QED
      BY <1>7, <3>1
  <2>3. CASE m \notin Used(d, dir)
    <3>1. m \in Nat /\ k \in Nat
      BY <1>1, <2>1, Sizes
    <3>2. m = k \/ m < k
      BY <2>1, <3>1
    <3> QED
      BY <1>1, <2>1, <2>3, <3>2 DEF DirOK, NoStale
  <2>4. CASE m = 0
    BY <1>1, <1>4, <2>1, <2>4 DEF DirOK, DotsOK, Target
  <2>5. CASE m = 1
    <3>1. id \in Dirs(d)
      BY <1>1, <2>1, <2>5 DEF DirOK, DotsOK
    <3>2. CASE dir = Root
      BY <1>1, <1>2, <2>1, <2>5, <3>2 DEF DirOK, DotsOK
    <3>3. CASE dir # Root
      BY <1>1, <1>3, <2>1, <2>5, <3>1, <3>3 DEF DirOK, OneName
    <3> QED
      BY <3>2, <3>3
  <2> QED
    BY <2>2, <2>3, <2>4, <2>5, SMTT(40) DEF Entries
<1> QED
  BY <1>2, <1>3, <1>4, <1>7, <1>8, <1>9

\* A card on which id is on its way out.
Detached(d, id) ==
    /\ d \in CardRecord /\ Whole(d) /\ Root \in Dirs(d)
    /\ NamesOf(d, id) = {} /\ id # Root /\ Exclusive(d, Live(d) \ {id})

LEMMA DetachedSafe ==
    ASSUME NEW d, NEW id, Detached(d, id)
    PROVE  Safe(d)
<1>1. Named(d) \in SUBSET (Live(d) \ {id})
  BY CardParts DEF Detached, Named
<1>2. Exclusive(d, Named(d))
  BY <1>1, ExclusiveFrame DEF Detached
<1> QED
  BY <1>2 DEF Safe, Detached

\* The same directory blocks and entries.
LEMMA SameNames ==
    ASSUME NEW d, NEW e, Dirs(e) \subseteq Dirs(d), NEW i,
           \A j \in Dirs(e) : Used(e, j) \subseteq Used(d, j)
              /\ \A k \in Used(e, j) : Target(e, j, k) = Target(d, j, k)
    PROVE  NamesOf(e, i) \subseteq NamesOf(d, i)
BY SMTT(40) DEF NamesOf, Target

\* The two writes of delete_dentry.
EntryCleared(d, e1, e2, dir, k, id) ==
    /\ Steady(e1) /\ Steady(e2) /\ Dirs(e2) = Dirs(d) /\ Regular(e2) = Regular(d)
    /\ NamesOf(e2, id) = {}
    /\ DirBlock(e2, dir)[k].type = Unused /\ DirBlock(e2, dir)[k].inode_id = id
    /\ \A l \in Dentries : l # k => DirBlock(e2, dir)[l] = DirBlock(d, dir)[l]
    /\ \A i \in Dirs(d) : i # dir => DirBlock(e2, i) = DirBlock(d, i)
    /\ e2.inode[dir].file_num = d.inode[dir].file_num - 1 /\ SameInode(e2.inode[dir], d.inode[dir])
    /\ \A i \in Inodes : i # dir => e2.inode[i] = d.inode[i]
    /\ e2.inode_map = d.inode_map /\ e2.block_map = d.block_map /\ e2.index = d.index
    /\ d.inode[dir].direct[0] \in d.block_map
    /\ \A a \in Blocks : a # d.inode[dir].direct[0] => e2.dentry[a] = d.dentry[a]

LEMMA EntryClears ==
    ASSUME NEW d, Steady(d), Tree(d), NEW dir \in Dirs(d), NEW k, NEW id, Victim(d, dir, k, id),
           NEW e1, e1 = WithInode(d, dir, removed_entry(d.inode[dir])),
           NEW e2, e2 = WithEntry(e1, d.inode[dir].direct[0], k, Vacated(id))
    PROVE  EntryCleared(d, e1, e2, dir, k, id)
<1> DEFINE b == d.inode[dir].direct[0]
           ino == removed_entry(d.inode[dir])
           x == Vacated(id)
<1>1. d \in CardRecord /\ dir \in Inodes /\ b \in Blocks /\ d.inode[dir] \in InodeRecord /\ Dirs(d) \subseteq Inodes
  BY CardParts DEF Steady
<1>2. /\ NamesOf(d, id) = {<<dir, k>>} /\ dir # id /\ id # Root /\ d.inode[dir].file_num # 0
      /\ k \in Entries(d, dir) /\ k \in Dentries /\ id \in Inodes
  <2>1. /\ NamesOf(d, id) = {<<dir, k>>} /\ dir # id /\ id # Root /\ d.inode[dir].file_num # 0 /\ id \in Live(d)
    BY <1>1, VictimAlone
  <2> QED
    BY <1>1, <2>1, Slots, CardParts DEF Victim
<1>3. ino \in InodeRecord /\ SameInode(ino, d.inode[dir]) /\ ino.file_num = d.inode[dir].file_num - 1
  BY <1>1, <1>2, RemovedFields
<1>4. x \in DentryRecord /\ x.type = Unused /\ x.inode_id = id
  BY <1>2 DEF DentryRecord, Vacated
<1> HIDE DEF ino, b, x
<1>5. e1 = WithInode(d, dir, ino) /\ e2 = WithEntry(e1, b, k, x)
  BY DEF ino, b, x
<1>6. /\ e1 \in CardRecord /\ e1.inode_map = d.inode_map /\ e1.block_map = d.block_map
      /\ e1.dentry = d.dentry /\ e1.index = d.index
      /\ e1.inode[dir] = ino /\ \A i \in Inodes : i # dir => e1.inode[i] = d.inode[i]
  BY <1>1, <1>3, <1>5, SetInode, SMTT(40)
<1>7. Steady(e1) /\ Dirs(e1) = Dirs(d) /\ Regular(e1) = Regular(d)
  BY <1>1, <1>3, <1>5, SteadyCounts
<1>8. e1.inode[dir].direct[0] = b
  BY <1>3, <1>6 DEF SameInode, b
<1>9. /\ Steady(e2) /\ Dirs(e2) = Dirs(e1) /\ Regular(e2) = Regular(e1)
      /\ \A i \in Dirs(e1) : i # dir => DirBlock(e2, i) = DirBlock(e1, i)
      /\ DirBlock(e2, dir)[k] = x
      /\ \A l \in Dentries : l # k => DirBlock(e2, dir)[l] = DirBlock(e1, dir)[l]
  BY <1>2, <1>4, <1>5, <1>6, <1>7, <1>8, SteadyEntry, SMTT(40)
<1>10. /\ e2.inode_map = e1.inode_map /\ e2.block_map = e1.block_map /\ e2.inode = e1.inode
       /\ e2.index = e1.index /\ \A a \in Blocks : a # b => e2.dentry[a] = e1.dentry[a]
  BY <1>1, <1>2, <1>4, <1>5, <1>6, SetEntry
<1>11. \A i \in Inodes : DirBlock(e1, i) = DirBlock(d, i)
  BY <1>3, <1>6 DEF DirBlock, SameInode
<1>12. /\ \A i \in Dirs(d) : i # dir => DirBlock(e2, i) = DirBlock(d, i)
       /\ \A l \in Dentries : l # k => DirBlock(e2, dir)[l] = DirBlock(d, dir)[l]
  BY <1>1, <1>7, <1>9, <1>11
<1>13. b \in d.block_map
  <2>1. dir \in Live(d) /\ Live(d) \subseteq Inodes
    BY <1>1, CardParts DEF Live
  <2> QED
    BY <1>1, <2>1, Homes DEF Steady, b
<1>14. NamesOf(e2, id) = {}
  <2>1. k \notin Used(e2, dir)
    BY <1>4, <1>9 DEF Used
  <2>2. \A j \in Dirs(e2) : /\ Used(e2, j) \subseteq Used(d, j)
                            /\ \A l \in Used(e2, j) : Target(e2, j, l) = Target(d, j, l)
    <3>1. SUFFICES ASSUME NEW j \in Dirs(d), NEW l \in Used(e2, j)
                   PROVE  l \in Used(d, j) /\ Target(e2, j, l) = Target(d, j, l)
      BY <1>7, <1>9
    <3>2. DirBlock(e2, j)[l] = DirBlock(d, j)[l] /\ l \in Dentries
      BY <1>12, <2>1, <3>1 DEF Used
    <3> QED
      BY <3>1, <3>2 DEF Used, Target
  <2>3. NamesOf(e2, id) \subseteq {<<dir, k>>}
    BY <1>2, <1>7, <1>9, <2>2, SameNames, SMTT(40)
  <2>4. <<dir, k>> \notin NamesOf(e2, id)
    BY <1>9, <2>1, NameIs DEF Steady, Entries
  <2> QED
    BY <2>3, <2>4
<1> QED
  BY <1>3, <1>4, <1>6, <1>7, <1>9, <1>10, <1>12, <1>13, <1>14 DEF EntryCleared, b

\* The four writes of destroy: the block leaves the map and is cleared, then
\* the inode is cleared and leaves the map.
Destroyed(d, c, e1, e2, e3, e4, dir, k, id) ==
    /\ Safe(e1) /\ Safe(e2) /\ Safe(e3) /\ Good(e4, c)
    /\ Dirs(e4) = Dirs(d) \ {id} /\ Regular(e4) = Regular(d) \ {id}
    /\ OnlyName(d, e4, dir, DirBlock(d, dir)[k].name)

Home(d, i) == d.inode[i].direct[0]

LEMMA Destroys ==
    ASSUME NEW c, NEW d, Good(d, c), NEW dir \in Dirs(d), NEW k, NEW id, Victim(d, dir, k, id),
           NEW a1, NEW a, EntryCleared(d, a1, a, dir, k, id),
           NEW b, b = Home(a, id),
           NEW e1, e1 = BlockFreed(a, b), NEW e2, e2 = WithBlock(e1, b, ZeroDentries),
           NEW e3, e3 = WithInode(e2, id, NoInode), NEW e4, e4 = InodeFreed(e3, id)
    PROVE  Destroyed(d, c, e1, e2, e3, e4, dir, k, id)
<1> DEFINE S == Live(a) \ {id}
           IM == a.inode_map \ {id}
           BM == a.block_map \ {b}
<1>1. /\ d \in CardRecord /\ Tree(d) /\ InodesOK(d) /\ DirOK(d, dir) /\ dir \in Inodes
      /\ d.inode_map \subseteq Inodes
  BY CardParts, CardFields DEF Good, Tree
<1>2. /\ NamesOf(d, id) = {<<dir, k>>} /\ dir # id /\ id # Root /\ id \in Live(d)
      /\ (id \in Dirs(d) => Entries(d, id) = {})
  BY <1>1, VictimAlone
<1>3. /\ Steady(a) /\ Dirs(a) = Dirs(d) /\ Regular(a) = Regular(d)
      /\ NamesOf(a, id) = {}
      /\ DirBlock(a, dir)[k].type = Unused /\ DirBlock(a, dir)[k].inode_id = id
      /\ \A l \in Dentries : l # k => DirBlock(a, dir)[l] = DirBlock(d, dir)[l]
      /\ \A i \in Dirs(d) : i # dir => DirBlock(a, i) = DirBlock(d, i)
      /\ a.inode[dir].file_num = d.inode[dir].file_num - 1 /\ SameInode(a.inode[dir], d.inode[dir])
      /\ \A i \in Inodes : i # dir => a.inode[i] = d.inode[i]
      /\ a.inode_map = d.inode_map /\ a.block_map = d.block_map /\ a.index = d.index
      /\ d.inode[dir].direct[0] \in d.block_map
      /\ \A x \in Blocks : x # d.inode[dir].direct[0] => a.dentry[x] = d.dentry[x]
  BY SMTT(40) DEF EntryCleared
<1>4. /\ a \in CardRecord /\ Live(a) = Live(d) /\ id \in Live(a) /\ id \in Inodes /\ Live(a) \subseteq Inodes
      /\ Exclusive(a, Live(a)) /\ Whole(a) /\ Root \in Dirs(a) /\ b \in Blocks /\ Dirs(a) \subseteq Inodes
  BY <1>2, <1>3, CardParts, SMTT(40) DEF Steady, Live, Home
<1>5. b \in a.block_map /\ b # 0 /\ \A i \in S : a.inode[i].direct[0] # b
  BY <1>2, <1>4, Homes DEF Exclusive, Home
<1>6. \A i \in S : \A r \in Refs(a, i) : r.to # b /\ r.to \in a.block_map /\ r.to \in Blocks
  <2>1. SUFFICES ASSUME NEW i \in S, NEW r \in Refs(a, i) PROVE r.to # b /\ r.to \in a.block_map /\ r.to \in Blocks
    OBVIOUS
  <2>2. [at |-> "direct", of |-> id, k |-> 0, to |-> b] \in Refs(a, id)
    BY <1>4, <1>5, DirectRef DEF Home
  <2>3. ASSUME r = [at |-> "direct", of |-> id, k |-> 0, to |-> b] PROVE FALSE
    <3>1. \A q \in Refs(a, i) : q.at = "direct" => q.of = i
      <4>1. \A q \in Pointers("direct", i, a.inode[i].direct) : q.of = i
        BY DEF Pointers
      <4>2. /\ \A q \in Pointers("first", i, a.inode[i].first) : q.at = "first"
            /\ \A q \in Pointers("second", i, a.inode[i].second) : q.at = "second"
            /\ \A R : \A q \in Under(a, R) : q.at = "index"
        BY DEF Pointers, Under
      <4> QED
        BY <4>1, <4>2 DEF Refs
    <3> QED
      BY <2>1, <2>3, <3>1
  <2>4. r.to # b
    BY <1>4, <2>1, <2>2, <2>3 DEF Exclusive
  <2>5. r.to \in a.block_map
    BY <1>4, <2>1 DEF Exclusive
  <2> QED
    BY <1>4, <2>4, <2>5, CardFields
<1> HIDE DEF S, IM, BM
<1>7. Root \in S /\ S \subseteq Live(a) /\ S \subseteq Inodes /\ id \notin S
  BY <1>2, <1>4 DEF S, Live
<1>8. /\ e1 \in CardRecord /\ e1.inode_map = a.inode_map /\ e1.block_map = BM /\ e1.inode = a.inode
      /\ e1.dentry = a.dentry /\ e1.index = a.index
  BY <1>4, SetBlockMap, CardFields DEF BlockFreed, BM
<1>9. /\ e2 \in CardRecord /\ e2.inode_map = a.inode_map /\ e2.block_map = BM /\ e2.inode = a.inode
      /\ e2.dentry[b] = ZeroDentries /\ \A x \in Blocks : x # b => e2.dentry[x] = a.dentry[x]
      /\ e2.index[b] = ZeroIndex /\ \A x \in Blocks : x # b => e2.index[x] = a.index[x]
  <2>1. /\ e2 \in CardRecord /\ e2.inode_map = e1.inode_map /\ e2.block_map = e1.block_map
        /\ e2.inode = e1.inode
        /\ e2.dentry[b] = ZeroDentries /\ \A x \in Blocks : x # b => e2.dentry[x] = e1.dentry[x]
        /\ e2.index[b] = ZeroIndex /\ \A x \in Blocks : x # b => e2.index[x] = e1.index[x]
    BY <1>4, <1>8, SetBlock, Zeroes
  <2> QED
    BY <1>8, <2>1
<1>10. /\ e3 \in CardRecord /\ e3.inode_map = a.inode_map /\ e3.block_map = BM
       /\ e3.dentry = e2.dentry /\ e3.index = e2.index
       /\ e3.inode[id] = NoInode /\ \A j \in Inodes : j # id => e3.inode[j] = a.inode[j]
  <2>1. /\ e3 \in CardRecord /\ e3.inode_map = e2.inode_map /\ e3.block_map = e2.block_map
        /\ e3.dentry = e2.dentry /\ e3.index = e2.index
        /\ e3.inode[id] = NoInode /\ \A j \in Inodes : j # id => e3.inode[j] = e2.inode[j]
    BY <1>4, <1>9, SetInode, Zeroes
  <2> QED
    BY <1>9, <2>1
<1>11. /\ e4 \in CardRecord /\ e4.inode_map = IM /\ e4.block_map = BM
       /\ e4.dentry = e2.dentry /\ e4.index = e2.index /\ e4.inode = e3.inode
  <2>1. e4 = WithInodeMap(e3, e3.inode_map \ {id}) /\ e3.inode_map \ {id} \in SUBSET Inodes
    BY <1>10, CardFields DEF InodeFreed
  <2>2. /\ e4 \in CardRecord /\ e4.inode_map = e3.inode_map \ {id} /\ e4.block_map = e3.block_map
        /\ e4.inode = e3.inode /\ e4.dentry = e3.dentry /\ e4.index = e3.index
    BY <1>10, <2>1, SetInodeMap
  <2>3. e3.inode_map \ {id} = IM
    BY <1>10 DEF IM
  <2> QED
    BY <1>10, <2>2, <2>3
\* What a later card e shares with a.
<1> DEFINE Near(e) == /\ e \in CardRecord /\ e.block_map = BM
                      /\ \A x \in Blocks : x # b => e.dentry[x] = a.dentry[x] /\ e.index[x] = a.index[x]
                      /\ \A i \in S : e.inode[i] = a.inode[i]
                      /\ \A i \in Dirs(e) : i \in Dirs(a) /\ (i # id => i \in S)
                      /\ Root \in Dirs(e) /\ Live(e) \subseteq Live(a)
<1>12. ASSUME NEW e, Near(e) PROVE Exclusive(e, S) /\ \A i \in Dirs(e) : i # id => DirBlock(e, i) = DirBlock(a, i)
  <2>1. \A i \in S : Refs(e, i) = Refs(a, i)
    BY <1>6, <1>12, SameRefs
  <2>2. Exclusive(a, S)
    BY <1>4, <1>7, ExclusiveFrame
  <2>3. Exclusive(e, S)
    BY <1>5, <1>6, <1>7, <1>12, <2>1, <2>2 DEF Exclusive, BM
  <2>4. \A i \in Dirs(e) : i # id => DirBlock(e, i) = DirBlock(a, i)
    <3>1. \A i \in S : a.inode[i].direct[0] \in Blocks /\ a.inode[i].direct[0] # b
      BY <1>4, <1>5, <1>7, CardParts
    <3> QED
      BY <1>12, <3>1 DEF DirBlock
  <2> QED
    BY <2>3, <2>4
<1>13. ASSUME NEW e, Near(e), IM \subseteq e.inode_map,
              id \in Dirs(e) => a.inode_map \subseteq e.inode_map /\ DirBlock(e, id) \in {DirBlock(a, id), ZeroDentries},
              e.inode_map # a.inode_map => \A i \in Dirs(e) : \A l \in Used(a, i) : Target(a, i, l) # id
       PROVE  Safe(e)
  <2>1. \A i \in Dirs(e) : i # id => DirBlock(e, i) = DirBlock(a, i)
    BY <1>12, <1>13
  <2>2. \A l \in Dentries : ZeroDentries[l].type = Unused
    BY DEF ZeroDentries, NoDentry
  <2>3. ASSUME NEW j \in Dirs(e), NEW l \in Used(e, j) PROVE l \in Used(a, j) /\ Target(e, j, l) = Target(a, j, l)
    <3>1. CASE j # id
      BY <2>1, <2>3, <3>1 DEF Used, Target
    <3>2. CASE j = id
      <4>1. DirBlock(e, id) = DirBlock(a, id)
        BY <1>13, <2>2, <2>3, <3>2 DEF Used
      <4> QED
        BY <2>3, <3>2, <4>1 DEF Used, Target
    <3> QED
      BY <3>1, <3>2
  <2>4. Whole(e)
    <3>1. SUFFICES ASSUME NEW j \in Dirs(e), NEW l \in Used(e, j) PROVE Target(e, j, l) \in e.inode_map
      BY DEF Whole
    <3>2. Target(a, j, l) \in a.inode_map
      BY <1>4, <1>13, <2>3, <3>1 DEF Whole
    <3> QED
      BY <1>13, <2>3, <3>1, <3>2 DEF IM
  <2>5. NamesOf(e, id) = {}
    BY <1>3, <1>13, <2>3, SameNames
  <2>6. Live(e) \ {id} \subseteq S
    BY <1>13 DEF S
  <2>7. Exclusive(e, Live(e) \ {id})
    BY <1>12, <1>13, <2>6, ExclusiveFrame
  <2>8. Detached(e, id)
    BY <1>2, <1>13, <2>4, <2>5, <2>7 DEF Detached
  <2> QED
    BY <2>8, DetachedSafe
<1>14. Near(e1) /\ Safe(e1)
  <2>1. Dirs(e1) = Dirs(a) /\ Live(e1) = Live(a) /\ DirBlock(e1, id) = DirBlock(a, id)
    BY <1>8 DEF Dirs, Regular, Live, DirBlock
  <2>2. Near(e1)
    BY <1>4, <1>8, <2>1 DEF S, Live
  <2> HIDE DEF Near
  <2> QED
    BY <1>8, <1>13, <2>1, <2>2 DEF IM
<1>15. Near(e2) /\ Safe(e2)
  <2>1. Dirs(e2) = Dirs(a) /\ Live(e2) = Live(a) /\ DirBlock(e2, id) = ZeroDentries
    BY <1>9 DEF Dirs, Regular, Live, DirBlock, Home
  <2>2. Near(e2)
    BY <1>4, <1>9, <2>1 DEF S, Live
  <2> HIDE DEF Near
  <2> QED
    BY <1>9, <1>13, <2>1, <2>2, SMTT(40) DEF IM
<1>16. NoInode.type = Unused
  BY DEF NoInode
<1>17. /\ Dirs(e3) = Dirs(a) \ {id} /\ Regular(e3) = Regular(a) \ {id}
       /\ Dirs(e4) = Dirs(a) \ {id} /\ Regular(e4) = Regular(a) \ {id}
  <2>1. \A i \in a.inode_map : i \in Inodes
    BY <1>4, CardFields
  <2> QED
    BY <1>10, <1>11, <1>16, <2>1, Bits DEF Dirs, Regular, IM
<1>18. Near(e3) /\ Safe(e3)
  <2>1. \A i \in S : e3.inode[i] = a.inode[i]
    BY <1>7, <1>10
  <2>2. Near(e3)
    BY <1>2, <1>4, <1>9, <1>10, <1>17, <2>1 DEF S, Live
  <2> HIDE DEF Near
  <2> QED
    BY <1>10, <1>13, <1>17, <2>2 DEF IM
<1>19. Near(e4)
  <2>1. \A i \in S : e4.inode[i] = a.inode[i]
    BY <1>7, <1>10, <1>11
  <2> QED
    BY <1>2, <1>4, <1>9, <1>11, <1>17, <2>1 DEF S, Live
<1>20. Exclusive(e4, Live(e4)) /\ \A i \in Dirs(e4) : DirBlock(e4, i) = DirBlock(a, i)
  <2>1. Live(e4) = S
    BY <1>17 DEF S, Live
  <2> HIDE DEF Near
  <2> QED
    BY <1>12, <1>17, <1>19, <2>1
<1> HIDE DEF Near
<1>21. /\ \A i \in Inodes : i # id /\ i # dir => e4.inode[i] = d.inode[i]
       /\ e4.inode[dir] = a.inode[dir] /\ e4.inode[id] = NoInode
  BY <1>1, <1>2, <1>3, <1>10, <1>11
<1>22. InodesOK(e4)
  <2>1. \A i \in Inodes : i \notin e4.inode_map => e4.inode[i] = NoInode
    <3>1. dir \in d.inode_map
      BY DEF Dirs
    <3> QED
      BY <1>1, <1>3, <1>11, <1>21, <3>1 DEF InodesOK, IM
  <2>2. \A i \in e4.inode_map : i \in Live(e4) /\ e4.inode[i].inode_id = i
    <3>1. \A i \in e4.inode_map : i \in d.inode_map /\ i # id
      BY <1>3, <1>11 DEF IM
    <3> QED
      BY <1>1, <1>3, <1>17, <1>21, <3>1 DEF InodesOK, SameInode, Live
  <2>3. \A i \in Regular(e4) : e4.inode[i].file_num = 0 /\ e4.inode[i].size <= MaxSize
    <3>1. \A i \in Regular(e4) : i \in Regular(d) /\ i # id /\ i # dir /\ i \in Inodes
      BY <1>1, <1>3, <1>17, CardParts
    <3> QED
      BY <1>1, <1>21, <3>1 DEF InodesOK
  <2> QED
    BY <1>2, <1>4, <1>17, <2>1, <2>2, <2>3 DEF InodesOK
<1>23. EntryRemoved(d, e4, dir, k, id)
  <2>1. dir \in Dirs(e4)
    BY <1>2, <1>3, <1>17
  <2>2. \A i \in Dirs(d) : i # dir /\ i # id => DirBlock(e4, i) = DirBlock(d, i) /\ e4.inode[i].file_num = d.inode[i].file_num
    <3>1. \A i \in Dirs(d) : i \in Inodes /\ (i # id => i \in Dirs(e4))
      BY <1>1, <1>3, <1>17, CardParts
    <3> QED
      BY <1>3, <1>20, <1>21, <3>1
  <2>3. k \in Entries(d, dir) /\ Target(d, dir, k) = id
    BY DEF Victim
  <2> QED
    BY <1>2, <1>3, <1>17, <1>20, <1>21, <2>1, <2>2, <2>3 DEF EntryRemoved
<1>24. Tree(e4)
  <2>1. \A i \in Regular(e4) : e4.inode[i].links_count = d.inode[i].links_count
    <3>1. \A i \in Regular(e4) : i \in Regular(d) /\ i # id /\ i # dir /\ i \in Inodes
      BY <1>1, <1>3, <1>17, CardParts
    <3> QED
      BY <1>21, <3>1
  <2> QED
    BY <1>1, <1>11, <1>22, <1>23, <2>1, RemovedTree
<1>25. FreeClear(e4, c)
  <2>1. SUFFICES ASSUME "crash" \in c, NEW x \in Blocks, x \notin e4.block_map
                 PROVE  e4.dentry[x] = ZeroDentries /\ e4.index[x] = ZeroIndex
    BY DEF FreeClear
  <2>2. CASE x = b
    BY <1>9, <1>11, <2>2
  <2>3. CASE x # b
    <3>1. x \notin d.block_map /\ x # d.inode[dir].direct[0]
      BY <1>3, <1>11, <2>1, <2>3 DEF BM
    <3>2. d.dentry[x] = ZeroDentries /\ d.index[x] = ZeroIndex
      BY <2>1, <3>1 DEF Good, FreeClear
    <3> QED
      BY <1>3, <1>9, <1>11, <2>1, <2>3, <3>1, <3>2
  <2> QED
    BY <2>2, <2>3
<1> QED
  BY <1>3, <1>11, <1>14, <1>15, <1>17, <1>18, <1>20, <1>23, <1>24, <1>25, RemovedChange DEF Destroyed, Good

\* do_rmdir and do_rm: the history is clean and a call that returns leaves a
\* good card without the inode.
RemoveDone(g, d, c, dir, name, id) ==
    /\ Clean(g, c)
    /\ g.ok => /\ Good(Card(g), c) /\ Dirs(Card(g)) = Dirs(d) \ {id} /\ Regular(Card(g)) = Regular(d) \ {id}
               /\ OnlyName(d, Card(g), dir, name) /\ OneChange(d, Card(g))

LEMMA RemoveSteps ==
    ASSUME NEW c, NEW h, Clean(h, c), h.ok, NEW d, d = Card(h), Good(d, c),
           NEW dir \in Dirs(d), NEW l, NEW id, Victim(d, dir, l, id),
           NEW cond, cond = TRUE, NEW g, g = destroy(assert(delete_dentry(h, dir, id), cond), id)
    PROVE  RemoveDone(g, d, c, dir, DirBlock(d, dir)[l].name, id)
<1> DEFINE f == delete_dentry(h, dir, id)
           k == SlotWith(d, d.inode[dir].direct[0], id)
           a1 == WithInode(d, dir, removed_entry(d.inode[dir]))
           a == WithEntry(a1, d.inode[dir].direct[0], k, Vacated(id))
           b == Home(Card(f), id)
           e1 == BlockFreed(Card(f), b)
           e2 == WithBlock(e1, b, ZeroDentries)
           e3 == WithInode(e2, id, NoInode)
           e4 == InodeFreed(e3, id)
<1>1. /\ h \in Hist /\ d \in CardRecord /\ Steady(d) /\ Tree(d) /\ dir \in Inodes
  BY CardType, GoodSteady, CardParts DEF Clean, Good
<1>2. /\ id \in Live(d) /\ id \in Inodes /\ d.inode[dir].file_num # 0
      /\ \A m : FirstWith(d, d.inode[dir].direct[0], id, m) => m = l
  <2>1. /\ id \in Live(d) /\ d.inode[dir].file_num # 0
        /\ \A m : FirstWith(d, d.inode[dir].direct[0], id, m) => m = l
    <3>1. d \in CardRecord /\ Tree(d) /\ dir \in Dirs(d) /\ Victim(d, dir, l, id)
      BY <1>1
    <3>2. /\ NamesOf(d, id) = {<<dir, l>>} /\ dir # id /\ id # Root /\ id \in Live(d)
          /\ (id \in Dirs(d) => Entries(d, id) = {})
          /\ d.inode[dir].file_num # 0
          /\ \A m : FirstWith(d, d.inode[dir].direct[0], id, m) => m = l
      BY ONLY <3>1, VictimAlone, ZenonT(60)
    <3> QED
      BY <3>2, Zenon
  <2> QED
    BY <1>1, <2>1, CardParts
<1>3. Safe(a1)
  <2>1. EntryCleared(d, a1, WithEntry(a1, d.inode[dir].direct[0], l, Vacated(id)), dir, l, id)
    BY <1>1, EntryClears, SMTT(40)
  <2> QED
    BY <2>1, SteadySafe, ZenonT(60) DEF EntryCleared
<1>4. ASSUME FirstWith(d, d.inode[dir].direct[0], id, k) PROVE k = l /\ EntryCleared(d, a1, a, dir, l, id) /\ Safe(a)
  <2>1. k = l
    BY <1>2, <1>4
  <2> HIDE DEF k, a1
  <2>2. EntryCleared(d, a1, a, dir, l, id)
    BY <1>1, <2>1, EntryClears DEF a1
  <2> QED
    BY <2>1, <2>2, SteadySafe, ZenonT(60) DEF EntryCleared
<1>5. Clean(f, c) /\ (f.ok => FirstWith(d, d.inode[dir].direct[0], id, k) /\ Card(f) = a)
  <2> HIDE DEF k, a1, a, f
  <2>1. /\ k = SlotWith(d, d.inode[dir].direct[0], id)
        /\ a1 = WithInode(d, dir, removed_entry(d.inode[dir]))
        /\ a = WithEntry(a1, d.inode[dir].direct[0], k, Vacated(id))
        /\ f = delete_dentry(h, dir, id)
    BY DEF k, a1, a, f
  <2> QED
    BY <1>1, <1>2, <1>3, <1>4, <2>1, DeleteDentry
<1> HIDE DEF f, k, a1, a
<1>6. ASSUME f.ok PROVE Destroyed(d, c, e1, e2, e3, e4, dir, l, id)
  <2>1. EntryCleared(d, a1, Card(f), dir, l, id)
    BY <1>4, <1>5, <1>6
  <2> HIDE DEF b, e1, e2, e3, e4
  <2>2. /\ b = Home(Card(f), id) /\ e1 = BlockFreed(Card(f), b) /\ e2 = WithBlock(e1, b, ZeroDentries)
        /\ e3 = WithInode(e2, id, NoInode) /\ e4 = InodeFreed(e3, id)
    BY SMTT(40) DEF b, e1, e2, e3, e4
  <2> QED
    BY <2>1, <2>2, Destroys
<1> HIDE DEF b, e1, e2, e3, e4
<1>7. Clean(g, c) /\ (g.ok => f.ok /\ Card(g) = e4)
  <2>1. /\ b = Card(f).inode[id].direct[0] /\ e1 = BlockFreed(Card(f), b) /\ e2 = WithBlock(e1, b, ZeroDentries)
        /\ e3 = WithInode(e2, id, NoInode) /\ e4 = InodeFreed(e3, id) /\ g = destroy(assert(f, cond), id)
    BY DEF b, e1, e2, e3, e4, f, Home
  <2>3. assert(f, cond) = f
    BY <1>5 DEF Clean, Hist, assert
  <2>2. f.ok => Safe(e1) /\ Safe(e2) /\ Safe(e3) /\ Safe(e4)
    BY <1>6, GoodSafe DEF Destroyed
  <2> QED
    BY <1>2, <1>5, <2>1, <2>2, <2>3, Destroy
<1> QED
  BY <1>6, <1>7 DEF Destroyed, RemoveDone, OneChange

-----------------------------------------------------------------------------
(* Searching *)

LEMMA SearchTyped ==
    ASSUME NEW d \in CardRecord, NEW dir \in Inodes \cup {None}, NEW name, NEW mask
    PROVE  search_dentry(d, dir, name, mask) \in Inodes \cup {None}
<1> DEFINE M == Matches(d, dir, name, mask)
<1>1. CASE dir = None \/ M = {}
  BY <1>1 DEF search_dentry
<1>2. CASE dir # None /\ M # {}
  <2>1. M \subseteq Dentries
    BY DEF Matches
  <2> HIDE DEF M
  <2>2. Min(M) \in Dentries
    BY <1>2, <2>1, Sizes, MinIsLeast
  <2>3. search_dentry(d, dir, name, mask) = Target(d, dir, Min(M))
    BY <1>2 DEF search_dentry, Target, M
  <2> QED
    BY <1>2, <2>2, <2>3, CardParts
<1> QED
  BY <1>1, <1>2

\* What a search of a directory says: file_num is exact, so that the scan sees
\* every entry.
FoundAs(d, dir, name, mask, id) ==
    \E k \in Used(d, dir) : /\ Target(d, dir, k) = id /\ DirBlock(d, dir)[k].name = name
                            /\ DirBlock(d, dir)[k].type \cap mask # {}

LEMMA Searched ==
    ASSUME NEW d \in CardRecord, NEW dir \in Dirs(d), Counted(d, dir), NEW name, NEW mask,
           NEW r, r = search_dentry(d, dir, name, mask)
    PROVE  /\ r = None => Untaken(d, dir, name, mask)
           /\ r # None => FoundAs(d, dir, name, mask, r)
<1> DEFINE M == Matches(d, dir, name, mask)
<1>1. dir \in Inodes /\ dir # None
  BY CardParts, Sizes
<1>2. M \subseteq Used(d, dir) /\ Used(d, dir) \subseteq Dentries
  BY DEF Matches, Used, Unused
<1>3. ASSUME NEW k \in Used(d, dir), DirBlock(d, dir)[k].name = name, DirBlock(d, dir)[k].type \cap mask # {}
      PROVE  k \in M
  <2>1. ASSUME NEW j \in 0 .. k - 1 PROVE Seen(d, dir, j) # d.inode[dir].file_num
    <3> DEFINE T == {i \in 0 .. j : DirBlock(d, dir)[i].type # Unused}
    <3>1. k \in 0 .. DENTRIES - 1 /\ k \in Used(d, dir)
      BY <1>2, <1>3 DEF Dentries
    <3>2. 0 .. j \subseteq Dentries /\ k \notin 0 .. j
      BY <2>1, <3>1, FileSysAssumption DEF Dentries
    <3>3. T \subseteq Used(d, dir) /\ k \notin T
      BY <3>2 DEF Used
    <3>4. Seen(d, dir, j) = Cardinality(T)
      BY DEF Seen
    <3> HIDE DEF T
    <3>5. IsFiniteSet(Used(d, dir))
      BY <1>1, Slots
    <3>6. Cardinality(T) # Cardinality(Used(d, dir))
      BY <1>3, <3>3, <3>5, FS_Subset
    <3> QED
      BY <3>4, <3>6 DEF Counted
  <2> QED
    BY <1>2, <1>3, <2>1 DEF Matches
<1>4. ASSUME r # None PROVE FoundAs(d, dir, name, mask, r)
  <2>1. M # {} /\ r = Target(d, dir, Min(M))
    BY <1>1, <1>4 DEF search_dentry, Target
  <2>2. Min(M) \in M
    <3>1. M \in SUBSET Nat
      BY <1>2, Sizes
    <3> HIDE DEF M
    <3> QED
      BY <2>1, <3>1, MinIsLeast
  <2>3. \A k \in M : DirBlock(d, dir)[k].name = name /\ DirBlock(d, dir)[k].type \cap mask # {}
    BY DEF Matches
  <2> HIDE DEF M
  <2> QED
    BY <1>2, <2>1, <2>2, <2>3 DEF FoundAs
<1>5. ASSUME r = None PROVE Untaken(d, dir, name, mask)
  <2>1. M = {}
    <3>1. CASE M # {}
      <4>1. r = Target(d, dir, Min(M))
        BY <1>1, <3>1 DEF search_dentry, Target
      <4>2. Min(M) \in Dentries
        <5>1. M \in SUBSET Nat /\ M \subseteq Dentries
          BY <1>2, Sizes
        <5> HIDE DEF M
        <5> QED
          BY <3>1, <5>1, MinIsLeast
      <4> HIDE DEF M
      <4>3. r \in Inodes
        BY <1>1, <4>1, <4>2, CardParts
      <4> QED
        BY <1>5, <4>3, Sizes
    <3> QED
      BY <3>1
  <2> QED
    BY <1>3, <2>1 DEF Untaken
<1> QED
  BY <1>4, <1>5

\* The inodes that the loop over the directories of a path goes through.
LEMMA WalkRounds ==
    ASSUME NEW d, NEW dirs, Len(dirs) \in Nat
    PROVE  \E g : /\ g[0] = cwd
                  /\ \A n \in 0 .. Len(dirs) - 1 : g[n + 1] = search_dentry(d, g[n], dirs[n + 1], D_DIR)
                  /\ Walk(d, dirs) = g[Len(dirs)]
<1> DEFINE Next1(x, n) == search_dentry(d, x, dirs[n], D_DIR)
           Round(g, N) == g = [n \in 0 .. N |-> IF n = 0 THEN cwd ELSE Next1(g[n - 1], n)]
           A == {N \in Nat : \E g : Round(g, N)}
           h == CHOOSE g : Round(g, Len(dirs))
<1>1. Walk(d, dirs) = h[Len(dirs)]
  BY DEF Walk
<1> HIDE DEF Next1
<1>2. 0 \in A
  <2>1. Round([n \in 0 .. 0 |-> cwd], 0)
    OBVIOUS
  <2> QED
    BY <2>1
<1>3. ASSUME NEW N \in Nat, N \in A PROVE N + 1 \in A
  <2>1. PICK g : Round(g, N)
    BY <1>3
  <2> DEFINE k == [n \in 0 .. N + 1 |-> IF n = N + 1 THEN Next1(g[N], N + 1) ELSE g[n]]
  <2>2. \A n \in 0 .. N : k[n] = g[n] /\ g[n] = IF n = 0 THEN cwd ELSE Next1(g[n - 1], n)
    BY <2>1
  <2>3. k[N + 1] = Next1(g[N], N + 1)
    OBVIOUS
  <2>4. \A n \in 0 .. N + 1 : k[n] = IF n = 0 THEN cwd ELSE Next1(k[n - 1], n)
    <3> HIDE DEF k
    <3>1. ASSUME NEW n \in 0 .. N PROVE k[n] = IF n = 0 THEN cwd ELSE Next1(k[n - 1], n)
      <4>1. n # 0 => n - 1 \in 0 .. N
        OBVIOUS
      <4> QED
        BY <2>2, <4>1
    <3>2. k[N] = g[N] /\ (N + 1) - 1 = N /\ N + 1 # 0
      BY <2>2
    <3>3. k[N + 1] = Next1(k[(N + 1) - 1], N + 1)
      BY <2>3, <3>2
    <3> QED
      BY <3>1, <3>2, <3>3, SMTT(40)
  <2>5. k = [n \in 0 .. N + 1 |-> k[n]]
    OBVIOUS
  <2> HIDE DEF k
  <2>6. Round(k, N + 1)
    BY <2>4, <2>5
  <2> QED
    BY <2>6
<1>4. Len(dirs) \in A
  <2> HIDE DEF A
  <2> QED BY <1>2, <1>3, Steps, SMTT(40)
<1>5. Round(h, Len(dirs))
  BY <1>4
<1> HIDE DEF h
<1>6. h[0] = cwd
  BY <1>5
<1>7. ASSUME NEW n \in 0 .. Len(dirs) - 1 PROVE h[n + 1] = Next1(h[n], n + 1)
  <2>1. n + 1 \in 0 .. Len(dirs) /\ n + 1 # 0 /\ (n + 1) - 1 = n
    OBVIOUS
  <2> QED
    BY <1>5, <2>1
<1> QED
  BY <1>1, <1>6, <1>7 DEF Next1

LEMMA WalkTyped ==
    ASSUME NEW d \in CardRecord, cwd \in Inodes, NEW dirs, Len(dirs) \in Nat
    PROVE  Walk(d, dirs) \in Inodes \cup {None}
<1>1. PICK g : /\ g[0] = cwd
               /\ \A n \in 0 .. Len(dirs) - 1 : g[n + 1] = search_dentry(d, g[n], dirs[n + 1], D_DIR)
               /\ Walk(d, dirs) = g[Len(dirs)]
  BY WalkRounds
<1> DEFINE A == {n \in 0 .. Len(dirs) : g[n] \in Inodes \cup {None}}
<1>2. 0 \in A
  BY <1>1
<1>3. ASSUME NEW n \in 0 .. Len(dirs) - 1, n \in A PROVE n + 1 \in A
  <2>1. g[n + 1] \in Inodes \cup {None}
    BY <1>1, <1>3, SearchTyped
  <2> QED
    BY <2>1
<1>4. Len(dirs) \in A
  <2> HIDE DEF A
  <2>1. \A n \in 0 .. Len(dirs) - 1 : n \in A => n + 1 \in A
    BY <1>3
  <2>2. \A n \in 0 .. Len(dirs) : n \in A
    BY <1>2, <2>1, Steps
  <2> QED
    BY <2>2
<1> QED
  BY <1>1, <1>4

-----------------------------------------------------------------------------
(* do_mkfs *)

\* What does not fail.
LEMMA StaysOk ==
    ASSUME NEW h \in Hist, h.ok
    PROVE  /\ \A e : sd_write(h, e).ok
           /\ FreeInodes(h) # {} => alloc_inode(h).ok
           /\ FreeBlocks(h) # {} => alloc_block(h).ok
           /\ \A i, b, type : create_inode(h, i, b, type).ok
           /\ \A b, parent, self : create_dir_block(h, b, parent, self).ok
<1>1. \A e : sd_write(h, e).ok
  BY DEF sd_write, Hist
<1>2. \A S : S # {} => assert(h, S # {}) \in Hist /\ assert(h, S # {}).ok
  BY DEF assert, Hist
<1>3. \A f \in Hist : f.ok => \A e : sd_write(f, e).ok
  BY DEF sd_write, Hist
<1>4. FreeInodes(h) # {} => alloc_inode(h).ok
  BY <1>2, <1>3 DEF alloc_inode
<1>5. FreeBlocks(h) # {} => alloc_block(h).ok
  BY <1>2, <1>3 DEF alloc_block
<1>6. \A i, b, type : create_inode(h, i, b, type).ok
  BY <1>1 DEF create_inode, write_inode
<1> QED
  BY <1>1, <1>4, <1>5, <1>6 DEF create_dir_block

\* A pointer in use leads somewhere.
LEMMA NonZero ==
    ASSUME NEW d, NEW i, NEW r \in Refs(d, i)
    PROVE  r.to # 0
<1>1. \A at, of, array : \A q \in Pointers(at, of, array) : q.to # 0
  BY DEF Pointers
<1>2. \A R : \A q \in Under(d, R) : q.to # 0
  BY <1>1 DEF Under
<1> QED
  BY <1>1, <1>2 DEF Refs

NoInodes == [i \in Inodes |-> NoInode]
WithInodes(d, x) == [d EXCEPT !.inode = x]

\* The card with the root directory and nothing else.
LEMMA NewRoot ==
    ASSUME NEW c, NEW d \in CardRecord, d.inode_map = {}, d.block_map = {},
           \A i \in Inodes : d.inode[i] = NoInode,
           "crash" \in c => \A b \in Blocks : d.dentry[b] = ZeroDentries /\ d.index[b] = ZeroIndex,
           NEW e1, e1 = InodeTaken(d, Root), NEW e2, e2 = BlockTaken(e1, 0),
           NEW e3, e3 = WithInode(e2, Root, CreatedInode(NoInode, Root, 0, D_DIR)),
           NEW e4, e4 = WithBlock(e3, 0, DirEntries(Root, Root))
    PROVE  Good(e4, c)
<1> DEFINE ino == CreatedInode(NoInode, Root, 0, D_DIR)
<1>1. Root \in Inodes /\ 0 \in Blocks
  BY Sizes
<1>2. /\ e1 \in CardRecord /\ e1.inode_map = {Root} /\ e1.block_map = {}
      /\ e1.inode = d.inode /\ e1.dentry = d.dentry /\ e1.index = d.index
  BY <1>1, SetInodeMap DEF InodeTaken
<1>3. /\ e2 \in CardRecord /\ e2.inode_map = {Root} /\ e2.block_map = {0}
      /\ e2.inode = d.inode /\ e2.dentry = d.dentry /\ e2.index = d.index
  BY <1>1, <1>2, SetBlockMap DEF BlockTaken
<1>4. /\ ino \in InodeRecord /\ ino.type = D_DIR /\ ino.inode_id = Root /\ ino.file_num = 2 /\ ino.direct[0] = 0
  BY <1>1, CreatedFields
<1> HIDE DEF ino
<1>5. /\ e3 \in CardRecord /\ e3.inode_map = {Root} /\ e3.block_map = {0}
      /\ e3.dentry = d.dentry /\ e3.index = d.index
      /\ e3.inode[Root] = ino /\ \A j \in Inodes : j # Root => e3.inode[j] = NoInode
  <2>1. e3 = WithInode(e2, Root, ino)
    BY DEF ino
  <2> QED
    BY <1>1, <1>3, <1>4, <2>1, SetInode
<1>6. DirEntries(Root, Root) \in [Dentries -> DentryRecord]
  BY <1>1, DirEntriesFields
<1>7. /\ e4 \in CardRecord /\ e4.inode_map = {Root} /\ e4.block_map = {0} /\ e4.inode = e3.inode
      /\ e4.dentry[0] = DirEntries(Root, Root)
      /\ \A b \in Blocks : b # 0 => e4.dentry[b] = d.dentry[b] /\ e4.index[b] = d.index[b]
  BY <1>1, <1>5, <1>6, SetBlock
<1>8. Dirs(e4) = {Root} /\ Regular(e4) = {} /\ Live(e4) = {Root}
  BY <1>4, <1>5, <1>7, Bits DEF Dirs, Regular, Live
<1>9. InodesOK(e4)
  BY <1>4, <1>5, <1>7, <1>8 DEF InodesOK
<1>10. DirOK(e4, Root)
  <2>1. DirBlock(e4, Root) = DirEntries(Root, Root)
    BY <1>4, <1>5, <1>7 DEF DirBlock
  <2> QED
    BY <1>4, <1>5, <1>7, <1>8, <2>1, EmptyDir
<1>11. \A r \in Refs(e4, Root) : FALSE
  <2>1. \A r \in Refs(e4, Root) : r = [at |-> "direct", of |-> Root, k |-> 0, to |-> 0]
    BY <1>1, <1>5, <1>7, CreatedRefs DEF ino
  <2> QED
    BY <2>1, NonZero
<1>12. Exclusive(e4, Live(e4))
  BY <1>4, <1>5, <1>7, <1>8, <1>11 DEF Exclusive
<1>13. FreeClear(e4, c)
  BY <1>7 DEF FreeClear
<1>14. Tree(e4)
  BY <1>8, <1>9, <1>10 DEF Tree, LinksOK
<1> QED
  BY <1>7, <1>12, <1>13, <1>14 DEF Good

LEMMA MkfsSteps ==
    ASSUME NEW c, NEW h \in Hist, h.ok,
           "crash" \in c => \A b \in Blocks : Card(h).dentry[b] = ZeroDentries /\ Card(h).index[b] = ZeroIndex,
           NEW g, g = mkfs(h)
    PROVE  g \in Hist /\ g.ok /\ Good(Card(g), c)
<1> DEFINE d == Card(h)
           d1 == WithInodeMap(d, {})
           h1 == sd_write(h, d1)
           d2 == WithBlockMap(Card(h1), {})
           h2 == sd_write(h1, d2)
           d3 == WithInodes(Card(h2), NoInodes)
           h3 == sd_write(h2, d3)
           h4 == alloc_inode(h3)
           e1 == InodeTaken(d3, Root)
           h5 == alloc_block(h4)
           e2 == BlockTaken(e1, 0)
           h6 == create_inode(h5, Root, 0, D_DIR)
           e3 == WithInode(e2, Root, CreatedInode(NoInode, Root, 0, D_DIR))
           h7 == create_dir_block(h6, 0, Root, Root)
           e4 == WithBlock(e3, 0, DirEntries(Root, Root))
<1>1. g = LET i == new_inode(h3)
              b == new_block(h4)
          IN  create_dir_block(create_inode(h5, i, b, D_DIR), b, i, i)
  BY DEF mkfs, WithInodeMap, WithBlockMap, WithInodes, NoInodes
<1>2. Clean(h, {}) /\ d \in CardRecord
  BY CardType DEF Clean
<1>3. d1 \in CardRecord /\ d1.inode_map = {} /\ d1.dentry = d.dentry /\ d1.index = d.index
  BY <1>2, SetInodeMap
<1> HIDE DEF d1
<1>4. Clean(h1, {}) /\ h1.ok /\ Card(h1) = d1
  BY <1>2, <1>3, Write
<1> HIDE DEF h1
<1>5. d2 \in CardRecord /\ d2.inode_map = {} /\ d2.block_map = {} /\ d2.dentry = d.dentry /\ d2.index = d.index
  BY <1>3, <1>4, SetBlockMap
<1> HIDE DEF d2
<1>6. Clean(h2, {}) /\ h2.ok /\ Card(h2) = d2
  BY <1>4, <1>5, Write
<1> HIDE DEF h2
<1>7. /\ d3 \in CardRecord /\ d3.inode_map = {} /\ d3.block_map = {} /\ d3.dentry = d.dentry /\ d3.index = d.index
      /\ \A i \in Inodes : d3.inode[i] = NoInode
  <2>1. NoInodes \in [Inodes -> InodeRecord] /\ \A i \in Inodes : NoInodes[i] = NoInode
    BY Zeroes DEF NoInodes
  <2> QED
    BY <1>5, <1>6, <2>1 DEF WithInodes, CardRecord
<1> HIDE DEF d3
<1>8. Clean(h3, {}) /\ h3.ok /\ Card(h3) = d3
  BY <1>6, <1>7, Write
<1> HIDE DEF h3
<1>9. FreeInodes(h3) # {} /\ new_inode(h3) = Root
  <2>1. FreeInodes(h3) = Inodes /\ Inodes # {} /\ Inodes \in SUBSET Nat /\ Root \in Inodes
    BY <1>7, <1>8, Sizes DEF FreeInodes
  <2>2. Min(Inodes) \in Nat /\ Min(Inodes) <= Root
    BY <2>1, MinIsLeast
  <2>3. new_inode(h3) = Min(Inodes)
    BY <2>1 DEF new_inode
  <2> QED
    BY <2>1, <2>2, <2>3 DEF Root
<1>10. Clean(h4, {}) /\ h4.ok /\ Card(h4) = e1
  <2>1. h4.ok
    BY <1>8, <1>9, StaysOk DEF Clean
  <2>2. Clean(h4, {}) /\ (h4.ok => h3.ok /\ Root \notin Card(h3).inode_map /\ Card(h4) = e1)
    BY <1>8, <1>9, AllocInode
  <2> QED
    BY <2>1, <2>2
<1>11. e1 \in CardRecord /\ e1.block_map = {}
  BY <1>7, SetInodeMap, Sizes DEF InodeTaken
<1> HIDE DEF h4, e1
<1>12. FreeBlocks(h4) # {} /\ new_block(h4) = 0
  <2>1. FreeBlocks(h4) = Blocks /\ Blocks # {} /\ Blocks \in SUBSET Nat /\ 0 \in Blocks
    BY <1>10, <1>11, Sizes DEF FreeBlocks
  <2>2. Min(Blocks) \in Nat /\ Min(Blocks) <= 0
    BY <2>1, MinIsLeast
  <2>3. new_block(h4) = Min(Blocks)
    BY <2>1 DEF new_block
  <2> QED
    BY <2>1, <2>2, <2>3
<1>13. Clean(h5, {}) /\ h5.ok /\ Card(h5) = e2
  <2>1. h5.ok
    BY <1>10, <1>12, StaysOk DEF Clean
  <2>2. Clean(h5, {}) /\ (h5.ok => h4.ok /\ 0 \notin Card(h4).block_map /\ Card(h5) = e2)
    BY <1>10, <1>12, AllocBlock
  <2> QED
    BY <2>1, <2>2
<1>14. e2.inode[Root] = NoInode
  <2>1. e1.inode[Root] = NoInode
    BY <1>7, SetInodeMap, Sizes DEF InodeTaken, e1
  <2> QED
    BY <1>11, <2>1, SetBlockMap, Sizes DEF BlockTaken
<1> HIDE DEF h5, e2
<1>15. Clean(h6, {}) /\ h6.ok /\ Card(h6) = e3
  <2>1. h6.ok
    BY <1>13, StaysOk DEF Clean
  <2>2. Clean(h6, {}) /\ (h6.ok => h5.ok /\ Card(h6) = e3)
    BY <1>13, <1>14, CreateInode, Sizes
  <2> QED
    BY <2>1, <2>2
<1> HIDE DEF h6, e3
<1>16. Clean(h7, {}) /\ h7.ok /\ Card(h7) = e4
  <2>1. h7.ok
    BY <1>15, StaysOk DEF Clean
  <2>2. Clean(h7, {}) /\ (h7.ok => h6.ok /\ Card(h7) = e4)
    BY <1>15, CreateDirBlock, Sizes
  <2> QED
    BY <2>1, <2>2
<1>17. g = h7
  BY <1>1, <1>9, <1>12 DEF h6
<1>18. Good(e4, c)
  <2>1. "crash" \in c => \A b \in Blocks : d3.dentry[b] = ZeroDentries /\ d3.index[b] = ZeroIndex
    BY <1>7
  <2> QED
    BY <1>7, <2>1, NewRoot DEF e1, e2, e3
<1> QED
  BY <1>16, <1>17, <1>18 DEF Clean

-----------------------------------------------------------------------------
(* The blocks of files *)

\* Card e has the directories and files of card d, and the same entries.
SameTree(e, d) ==
    /\ Dirs(e) = Dirs(d) /\ Regular(e) = Regular(d)
    /\ \A i \in Dirs(d) : DirBlock(e, i) = DirBlock(d, i)

LEMMA SameTreeChange ==
    ASSUME NEW d, NEW e, SameTree(e, d)
    PROVE  OneChange(d, e)
BY DEF SameTree, OneChange, OnlyName

LEMMA SameTreeTwice ==
    ASSUME NEW d, NEW e, NEW f, SameTree(f, e), SameTree(e, d)
    PROVE  SameTree(f, d)
BY DEF SameTree

\* Two inodes that differ in size and pointers at most.
SameFile(a, b) ==
    a.type = b.type /\ a.inode_id = b.inode_id /\ a.file_num = b.file_num /\ a.links_count = b.links_count

\* The tree does not depend on the sizes and blocks of files.
LEMMA TreeFrame ==
    ASSUME NEW d \in CardRecord, Tree(d), NEW e \in CardRecord, e.inode_map = d.inode_map,
           \A i \in d.inode_map : SameFile(e.inode[i], d.inode[i]),
           \A i \in Inodes : i \notin d.inode_map => e.inode[i] = d.inode[i],
           \A i \in Dirs(d) : DirBlock(e, i) = DirBlock(d, i),
           \A i \in Regular(d) : e.inode[i].size <= MaxSize
    PROVE  Tree(e) /\ Dirs(e) = Dirs(d) /\ Regular(e) = Regular(d)
<1>1. Dirs(e) = Dirs(d) /\ Regular(e) = Regular(d)
  BY DEF Dirs, Regular, SameFile
<1>2. Live(e) = Live(d) /\ Dirs(d) \subseteq d.inode_map /\ Regular(d) \subseteq d.inode_map
  BY <1>1 DEF Live, Dirs, Regular
<1>3. InodesOK(e)
  BY <1>1, <1>2 DEF InodesOK, SameFile, Tree
<1>4. \A i \in Dirs(d) : Used(e, i) = Used(d, i) /\ \A k : Target(e, i, k) = Target(d, i, k)
  BY DEF Used, Target
<1>5. \A i : NamesOf(e, i) = NamesOf(d, i)
  BY <1>1, <1>4 DEF NamesOf
<1>6. LinksOK(e)
  BY <1>1, <1>2, <1>5 DEF LinksOK, SameFile, Tree
<1>7. ASSUME NEW i \in Dirs(d) PROVE DirOK(e, i)
  <2>1. DirOK(d, i) /\ DirBlock(e, i) = DirBlock(d, i) /\ Entries(e, i) = Entries(d, i)
    BY <1>4 DEF Tree, Entries
  <2>2. DotsOK(e, i)
    BY <1>1, <2>1 DEF DirOK, DotsOK, Target
  <2>3. Counted(e, i)
    BY <1>2, <1>4, <2>1 DEF DirOK, Counted, SameFile
  <2>4. NamesDiffer(e, i) /\ NoStale(e, i)
    BY <1>4, <2>1 DEF DirOK, NamesDiffer, NoStale
  <2>5. Target(d, i, 1) \in Dirs(d)
    BY <2>1 DEF DirOK, DotsOK
  <2>6. OneName(e, i)
    <3>1. Entries(e, Target(d, i, 1)) = Entries(d, Target(d, i, 1))
      BY <1>4, <2>5 DEF Entries
    <3> QED
      BY <1>1, <1>4, <2>1, <2>5, <3>1 DEF DirOK, OneName
  <2>7. ASSUME NEW k \in Entries(d, i) PROVE EntryOK(e, i, k)
    <3>1. EntryOK(d, i, k)
      BY <2>1 DEF DirOK
    <3> QED
      BY <1>1, <1>4, <2>1, <3>1 DEF EntryOK
  <2> QED
    BY <2>1, <2>2, <2>3, <2>4, <2>6, <2>7 DEF DirOK
<1> QED
  BY <1>1, <1>3, <1>6, <1>7 DEF Tree

\* Where one pointer x is new, and leads to a cleared block.
LEMMA RefsGrow ==
    ASSUME NEW v, NEW w, NEW i, NEW x,
           Pointers("direct", i, w.inode[i].direct) \subseteq Pointers("direct", i, v.inode[i].direct) \cup {x},
           Pointers("first", i, w.inode[i].first) \subseteq Pointers("first", i, v.inode[i].first) \cup {x},
           Pointers("second", i, w.inode[i].second) \subseteq Pointers("second", i, v.inode[i].second) \cup {x},
           Pointers("index", x.to, w.index[x.to]) = {},
           \A r \in Refs(v, i) : Pointers("index", r.to, w.index[r.to])
                                   \subseteq Pointers("index", r.to, v.index[r.to]) \cup {x}
    PROVE  \A r \in Refs(w, i) : r = x \/ r \in Refs(v, i)
<1> DEFINE P(d, r) == Pointers("index", r.to, d.index[r.to])
           first(d) == Pointers("first", i, d.inode[i].first)
           second(d) == Pointers("second", i, d.inode[i].second)
<1>1. /\ Under(v, second(v)) \subseteq Refs(v, i) /\ first(v) \subseteq Refs(v, i) /\ second(v) \subseteq Refs(v, i)
      /\ Under(v, first(v) \cup Under(v, second(v))) \subseteq Refs(v, i)
      /\ Pointers("direct", i, v.inode[i].direct) \subseteq Refs(v, i)
  BY DEF Refs
<1>2. /\ first(w) \subseteq first(v) \cup {x} /\ second(w) \subseteq second(v) \cup {x}
      /\ P(w, x) = {} /\ \A r \in Refs(v, i) : P(w, r) \subseteq P(v, r) \cup {x}
  OBVIOUS
<1>3. \A d, R, r : r \in Under(d, R) <=> \E q \in R : r \in P(d, q)
  BY DEF Under
<1>4. Refs(w, i) = Pointers("direct", i, w.inode[i].direct) \cup first(w) \cup second(w)
                     \cup Under(w, second(w)) \cup Under(w, first(w) \cup Under(w, second(w)))
  BY DEF Refs
<1> HIDE DEF P, first, second
<1>5. ASSUME NEW R, NEW Q, R \subseteq Refs(v, i), Q \subseteq R \cup {x}
      PROVE  Under(w, Q) \subseteq Under(v, R) \cup {x}
  <2>1. SUFFICES ASSUME NEW r \in Under(w, Q) PROVE r \in Under(v, R) \cup {x}
    OBVIOUS
  <2>2. PICK q \in Q : r \in P(w, q)
    BY <1>3
  <2>3. q \in R
    BY <1>2, <1>5, <2>2
  <2>4. r \in P(v, q) \cup {x}
    BY <1>2, <1>5, <2>2, <2>3
  <2> QED
    BY <1>3, <2>3, <2>4
<1>6. Under(w, second(w)) \subseteq Under(v, second(v)) \cup {x}
  BY <1>1, <1>2, <1>5
<1>7. Under(w, first(w) \cup Under(w, second(w))) \subseteq Under(v, first(v) \cup Under(v, second(v))) \cup {x}
  <2>1. /\ first(v) \cup Under(v, second(v)) \subseteq Refs(v, i)
        /\ first(w) \cup Under(w, second(w)) \subseteq (first(v) \cup Under(v, second(v))) \cup {x}
    BY <1>1, <1>2, <1>6
  <2> QED
    BY <1>5, <2>1
<1> QED
  BY <1>1, <1>2, <1>4, <1>6, <1>7

\* Card w is card v with one pointer more, x, to block b, which was free and
\* holds no pointers.
NewPointer(v, w, b, x) ==
    /\ w \in CardRecord /\ w.inode_map = v.inode_map
    /\ b \in Blocks \ v.block_map /\ w.block_map = v.block_map \cup {b} /\ x.to = b
    /\ w.index[b] = ZeroIndex
    /\ \A a \in Blocks : a # b =>
         /\ w.dentry[a] = v.dentry[a]
         /\ Pointers("index", a, w.index[a]) \subseteq Pointers("index", a, v.index[a]) \cup {x}
    /\ \A a \in Blocks : a \notin w.block_map => w.index[a] = v.index[a]
    /\ \A i \in Inodes : i \notin v.inode_map => w.inode[i] = v.inode[i]
    /\ \A i \in v.inode_map :
         /\ SameFile(w.inode[i], v.inode[i]) /\ w.inode[i].size = v.inode[i].size
         /\ w.inode[i].direct[0] = v.inode[i].direct[0]
         /\ Pointers("direct", i, w.inode[i].direct) \subseteq Pointers("direct", i, v.inode[i].direct) \cup {x}
         /\ Pointers("first", i, w.inode[i].first) \subseteq Pointers("first", i, v.inode[i].first) \cup {x}
         /\ Pointers("second", i, w.inode[i].second) \subseteq Pointers("second", i, v.inode[i].second) \cup {x}

LEMMA NoPointers ==
    ASSUME NEW at, NEW of
    PROVE  Pointers(at, of, ZeroIndex) = {}
BY DEF Pointers, ZeroIndex

LEMMA GoodGrows ==
    ASSUME NEW c, NEW v, Good(v, c), NEW w, NEW b, NEW x, NewPointer(v, w, b, x)
    PROVE  Good(w, c) /\ SameTree(w, v)
<1>1. /\ v \in CardRecord /\ Tree(v) /\ InodesOK(v) /\ Exclusive(v, Live(v)) /\ FreeClear(v, c)
      /\ Live(v) \subseteq v.inode_map /\ Live(v) \in SUBSET Inodes /\ Root \in Live(v)
      /\ Dirs(v) \subseteq Live(v) /\ Regular(v) \subseteq Live(v) /\ v.block_map \subseteq Blocks
  BY CardParts, CardFields DEF Good, Tree, InodesOK, Live
<1>2. w \in CardRecord /\ w.inode_map = v.inode_map /\ b \in Blocks \ v.block_map
      /\ w.block_map = v.block_map \cup {b} /\ x.to = b /\ w.index[b] = ZeroIndex
  BY DEF NewPointer
<1>3. ASSUME NEW i \in Dirs(v) PROVE DirBlock(w, i) = DirBlock(v, i)
  <2>1. v.inode[i].direct[0] \in v.block_map
    BY <1>1, Homes
  <2>2. w.inode[i].direct[0] = v.inode[i].direct[0]
    BY <1>1 DEF NewPointer
  <2>3. v.inode[i].direct[0] \in Blocks /\ v.inode[i].direct[0] # b
    BY <1>1, <1>2, <2>1
  <2> QED
    BY <2>2, <2>3 DEF NewPointer, DirBlock
<1>4. Tree(w) /\ Dirs(w) = Dirs(v) /\ Regular(w) = Regular(v)
  <2>1. \A i \in Regular(v) : w.inode[i].size <= MaxSize
    BY <1>1 DEF NewPointer, InodesOK
  <2>2. /\ \A i \in v.inode_map : SameFile(w.inode[i], v.inode[i])
        /\ \A i \in Inodes : i \notin v.inode_map => w.inode[i] = v.inode[i]
    BY DEF NewPointer
  <2> QED
    BY <1>1, <1>2, <1>3, <2>1, <2>2, TreeFrame
<1>5. ASSUME NEW i \in Live(v) PROVE \A r \in Refs(w, i) : r = x \/ r \in Refs(v, i)
  <2>1. \A r \in Refs(v, i) : r.to \in v.block_map
    BY <1>1 DEF Exclusive
  <2>2. \A r \in Refs(v, i) : Pointers("index", r.to, w.index[r.to])
                                   \subseteq Pointers("index", r.to, v.index[r.to]) \cup {x}
    <3>1. \A r \in Refs(v, i) : r.to \in Blocks /\ r.to # b
      BY <1>1, <1>2, <2>1
    <3> QED
      BY <3>1 DEF NewPointer
  <2>3. Pointers("index", x.to, w.index[x.to]) = {}
    BY <1>2, NoPointers
  <2>4. /\ Pointers("direct", i, w.inode[i].direct) \subseteq Pointers("direct", i, v.inode[i].direct) \cup {x}
        /\ Pointers("first", i, w.inode[i].first) \subseteq Pointers("first", i, v.inode[i].first) \cup {x}
        /\ Pointers("second", i, w.inode[i].second) \subseteq Pointers("second", i, v.inode[i].second) \cup {x}
    BY <1>1 DEF NewPointer
  <2> QED
    BY <2>2, <2>3, <2>4, RefsGrow
<1>6. Exclusive(w, Live(w))
  <2>1. Live(w) = Live(v)
    BY <1>4 DEF Live
  <2>2. \A i \in Live(v) : \A r \in Refs(v, i) : r.to # x.to
    BY <1>1, <1>2 DEF Exclusive
  <2>3. \A i \in Live(v) : w.inode[i].direct[0] = v.inode[i].direct[0]
    BY <1>1 DEF NewPointer
  <2>4. w.inode[Root].direct[0] = 0 /\ \A i \in Live(v) \ {Root} : w.inode[i].direct[0] # 0
    BY <1>1, <2>3 DEF Exclusive
  <2> QED
    BY <1>1, <1>2, <1>5, <2>1, <2>2, <2>4, ExclusiveGrows
<1>7. FreeClear(w, c)
  BY <1>1, <1>2 DEF FreeClear, NewPointer
<1> QED
  BY <1>2, <1>3, <1>4, <1>6, <1>7 DEF Good, SameTree

\* Inode new has the pointers of inode old and perhaps more.
Extends(new, old) ==
    /\ SameFile(new, old) /\ old.direct[0] = new.direct[0]
    /\ \A k \in 0 .. DIRECT_SIZE - 1 : old.direct[k] \in {0, new.direct[k]}
    /\ \A k \in 0 .. FIRST_BLOCK_NUM - 1 : old.first[k] \in {0, new.first[k]}
    /\ \A k \in 0 .. SECOND_BLOCK_NUM - 1 : old.second[k] \in {0, new.second[k]}

\* Cards that differ in inode i and in data at most.
SameButInode(e, v, i) ==
    /\ e \in CardRecord /\ e.inode_map = v.inode_map /\ e.block_map = v.block_map
    /\ e.dentry = v.dentry /\ e.index = v.index
    /\ \A j \in Inodes : j # i => e.inode[j] = v.inode[j]

\* The card stays steady while its inode i is not yet written back.
LEMMA Behind ==
    ASSUME NEW v, Steady(v), NEW i \in Live(v), NEW e, SameButInode(e, v, i),
           Extends(v.inode[i], e.inode[i])
    PROVE  Steady(e) /\ Dirs(e) = Dirs(v) /\ Regular(e) = Regular(v)
<1> DEFINE old == e.inode[i]
<1>1. /\ v \in CardRecord /\ i \in Inodes /\ v.inode[i] \in InodeRecord
      /\ v.inode_map \subseteq Inodes /\ Live(v) \subseteq Inodes /\ Dirs(v) \subseteq Inodes
  BY CardParts, CardFields DEF Steady
<1>2. /\ e \in CardRecord /\ e.inode_map = v.inode_map /\ e.block_map = v.block_map
      /\ e.dentry = v.dentry /\ e.index = v.index /\ old \in InodeRecord
      /\ e.inode[i] = old /\ \A j \in Inodes : j # i => e.inode[j] = v.inode[j]
      /\ Extends(v.inode[i], old)
  BY <1>1, CardParts DEF SameButInode
<1> HIDE DEF old
<1>3. Dirs(e) = Dirs(v) /\ Regular(e) = Regular(v)
  <2>1. \A j \in v.inode_map : e.inode[j].type = v.inode[j].type
    BY <1>1, <1>2, SMTT(40) DEF Extends, SameFile
  <2> QED
    BY <1>2, <2>1 DEF Dirs, Regular
<1>4. \A j \in Inodes : e.inode[j].direct[0] = v.inode[j].direct[0] /\ DirBlock(e, j) = DirBlock(v, j)
  BY <1>1, <1>2 DEF Extends, DirBlock
<1>5. Refs(e, i) \subseteq Refs(v, i)
  <2> DEFINE first(d) == Pointers("first", i, d.inode[i].first)
             second(d) == Pointers("second", i, d.inode[i].second)
             direct(d) == Pointers("direct", i, d.inode[i].direct)
  <2>1. /\ DOMAIN old.direct = 0 .. DIRECT_SIZE - 1 /\ DOMAIN v.inode[i].direct = 0 .. DIRECT_SIZE - 1
        /\ DOMAIN old.first = 0 .. FIRST_BLOCK_NUM - 1 /\ DOMAIN v.inode[i].first = 0 .. FIRST_BLOCK_NUM - 1
        /\ DOMAIN old.second = 0 .. SECOND_BLOCK_NUM - 1 /\ DOMAIN v.inode[i].second = 0 .. SECOND_BLOCK_NUM - 1
    BY <1>1, <1>2 DEF InodeRecord
  <2>2. direct(e) \subseteq direct(v) /\ first(e) \subseteq first(v) /\ second(e) \subseteq second(v)
    <3>1. direct(e) \subseteq direct(v)
      <4>1. \A k \in DOMAIN v.inode[i].direct : old.direct[k] \in {0, v.inode[i].direct[k]}
        BY <1>2, <2>1 DEF Extends
      <4>2. Pointers("direct", i, old.direct) \subseteq Pointers("direct", i, v.inode[i].direct)
        BY <2>1, <4>1 DEF Pointers
      <4> QED
        BY <1>2, <4>2
    <3>2. first(e) \subseteq first(v)
      <4>1. \A k \in DOMAIN v.inode[i].first : old.first[k] \in {0, v.inode[i].first[k]}
        BY <1>2, <2>1 DEF Extends
      <4>2. Pointers("first", i, old.first) \subseteq Pointers("first", i, v.inode[i].first)
        BY <2>1, <4>1 DEF Pointers
      <4> QED
        BY <1>2, <4>2
    <3>3. second(e) \subseteq second(v)
      <4>1. \A k \in DOMAIN v.inode[i].second : old.second[k] \in {0, v.inode[i].second[k]}
        BY <1>2, <2>1 DEF Extends
      <4>2. Pointers("second", i, old.second) \subseteq Pointers("second", i, v.inode[i].second)
        BY <2>1, <4>1 DEF Pointers
      <4> QED
        BY <1>2, <4>2
    <3> QED
      BY <3>1, <3>2, <3>3
  <2>3. \A d : Refs(d, i) = direct(d) \cup first(d) \cup second(d) \cup Under(d, second(d))
                              \cup Under(d, first(d) \cup Under(d, second(d)))
    BY DEF Refs
  <2> HIDE DEF direct, first, second
  <2>4. \A R, Q : R \subseteq Q => Under(e, R) \subseteq Under(v, Q)
    <3>1. \A R : Under(e, R) = Under(v, R)
      BY <1>2 DEF Under
    <3>2. \A R, r : r \in Under(v, R) <=> \E q \in R : r \in Pointers("index", q.to, v.index[q.to])
      BY DEF Under
    <3> QED
      BY <3>1, <3>2
  <2>5. Under(e, second(e)) \subseteq Under(v, second(v))
    BY <2>2, <2>4
  <2>6. first(e) \cup Under(e, second(e)) \subseteq first(v) \cup Under(v, second(v))
    BY <2>2, <2>5
  <2>7. Under(e, first(e) \cup Under(e, second(e))) \subseteq Under(v, first(v) \cup Under(v, second(v)))
    BY <2>4, <2>6
  <2> QED
    BY <2>2, <2>3, <2>5, <2>7
<1>6. \A j \in Live(v) : Refs(e, j) \subseteq Refs(v, j)
  <2>1. \A j \in Live(v) : j # i => Refs(e, j) = Refs(v, j)
    BY <1>1, <1>2, SameIndexRefs
  <2> QED
    BY <1>5, <2>1
<1>7. Exclusive(e, Live(e))
  <2>1. Live(e) = Live(v) /\ Root \in Inodes
    BY <1>3, Sizes DEF Live
  <2> QED
    BY <1>1, <1>2, <1>4, <1>6, <2>1 DEF Exclusive, Steady
<1>8. Whole(e)
  BY <1>1, <1>2, <1>3, <1>4 DEF Whole, Steady, Used, Target
<1> QED
  BY <1>2, <1>3, <1>7, <1>8 DEF Steady

LEMMA ExtendsTwice ==
    ASSUME NEW x, NEW y, NEW z, Extends(x, y), Extends(y, z)
    PROVE  Extends(x, z)
BY DEF Extends, SameFile

\* While a call changes the blocks of file i it holds the inode ino in memory.
\* The card with that inode in its place is good, and the inode on the card
\* has no other pointers.
Held(h, ino, c, i, d0) ==
    /\ Clean(h, c)
    /\ h.ok =>
         /\ ino \in InodeRecord /\ Extends(ino, Card(h).inode[i])
         /\ Good(WithInode(Card(h), i, ino), c)
         /\ SameTree(WithInode(Card(h), i, ino), d0)

LEMMA HeldCard ==
    ASSUME NEW c, NEW d0, NEW i \in Regular(d0), NEW h, NEW ino, Held(h, ino, c, i, d0), h.ok,
           NEW d, d = Card(h), NEW v, v = WithInode(d, i, ino)
    PROVE  /\ i \in Inodes /\ d \in CardRecord /\ Good(v, c) /\ i \in Live(v) /\ i # Root
           /\ ino \in InodeRecord /\ v.inode[i] = ino /\ SameButInode(v, d, i)
           /\ v \in CardRecord /\ Steady(v)
           /\ Extends(ino, d.inode[i]) /\ SameTree(v, d0)
<1>1. /\ d \in CardRecord /\ Good(v, c) /\ ino \in InodeRecord /\ Extends(ino, d.inode[i])
      /\ SameTree(v, d0)
  BY CardType DEF Held, Clean
<1>2. i \in Live(v) /\ i \in Inodes /\ v \in CardRecord /\ i # Root
  BY <1>1, CardParts DEF Good, Live, Tree, InodesOK, SameTree
<1>3. v.inode[i] = ino /\ SameButInode(v, d, i)
  BY <1>1, <1>2, SetInode DEF SameButInode
<1> QED
  BY <1>1, <1>2, <1>3, GoodSteady

\* The inode with the new block b at a pointer x that was 0.
Linked(linked, ino, i, b, x) ==
    /\ linked \in InodeRecord /\ Extends(linked, ino) /\ linked.size = ino.size /\ x.to = b
    /\ Pointers("direct", i, linked.direct) \subseteq Pointers("direct", i, ino.direct) \cup {x}
    /\ Pointers("first", i, linked.first) \subseteq Pointers("first", i, ino.first) \cup {x}
    /\ Pointers("second", i, linked.second) \subseteq Pointers("second", i, ino.second) \cup {x}

LEMMA InodePointer ==
    ASSUME NEW c, NEW v, Good(v, c), NEW i \in Live(v), NEW b \in Blocks, b \notin v.block_map,
           NEW linked, NEW x, Linked(linked, v.inode[i], i, b, x), NEW w \in CardRecord,
           w.inode_map = v.inode_map, w.block_map = v.block_map \cup {b},
           w.index[b] = ZeroIndex,
           \A a \in Blocks : a # b => w.dentry[a] = v.dentry[a] /\ w.index[a] = v.index[a],
           w.inode[i] = linked, \A j \in Inodes : j # i => w.inode[j] = v.inode[j]
    PROVE  NewPointer(v, w, b, x)
<1>1. v.inode_map \subseteq Inodes /\ i \in v.inode_map
  BY CardParts, CardFields DEF Good
<1>2. ASSUME NEW j \in v.inode_map
      PROVE  /\ SameFile(w.inode[j], v.inode[j]) /\ w.inode[j].size = v.inode[j].size
             /\ w.inode[j].direct[0] = v.inode[j].direct[0]
             /\ Pointers("direct", j, w.inode[j].direct) \subseteq Pointers("direct", j, v.inode[j].direct) \cup {x}
             /\ Pointers("first", j, w.inode[j].first) \subseteq Pointers("first", j, v.inode[j].first) \cup {x}
             /\ Pointers("second", j, w.inode[j].second) \subseteq Pointers("second", j, v.inode[j].second) \cup {x}
  <2>1. CASE j = i
    BY <2>1 DEF Linked, Extends
  <2>2. CASE j # i
    BY <1>1, <2>2 DEF SameFile
  <2> QED
    BY <2>1, <2>2
<1> QED
  BY <1>1, <1>2 DEF NewPointer, Linked

LEMMA BlockPointer ==
    ASSUME NEW v \in CardRecord, NEW b \in Blocks, b \notin v.block_map,
           NEW id \in v.block_map, NEW k \in 0 .. FIRST_BLOCK_SIZE - 1, NEW w \in CardRecord,
           NEW x, x = [at |-> "index", of |-> id, k |-> k, to |-> b],
           w.inode_map = v.inode_map, w.block_map = v.block_map \cup {b},
           \A j \in Inodes : w.inode[j] = v.inode[j],
           w.index[b] = ZeroIndex,
           \A a \in Blocks : a # b => w.dentry[a] = v.dentry[a],
           \A a \in Blocks : a # b /\ a # id => w.index[a] = v.index[a],
           w.index[id][k] = b, \A l \in 0 .. FIRST_BLOCK_SIZE - 1 : l # k => w.index[id][l] = v.index[id][l]
    PROVE  NewPointer(v, w, b, x)
<1>1. v.inode_map \subseteq Inodes /\ v.block_map \subseteq Blocks /\ x.to = b /\ id \in Blocks
  BY CardFields
<1>2. Pointers("index", id, w.index[id]) \subseteq Pointers("index", id, v.index[id]) \cup {x}
  <2>1. DOMAIN w.index[id] = 0 .. FIRST_BLOCK_SIZE - 1 /\ DOMAIN v.index[id] = 0 .. FIRST_BLOCK_SIZE - 1
    BY <1>1, CardFields
  <2> QED
    BY <2>1 DEF Pointers
<1>3. \A a \in Blocks : a # b =>
         Pointers("index", a, w.index[a]) \subseteq Pointers("index", a, v.index[a]) \cup {x}
  BY <1>2
<1>4. \A j \in v.inode_map : w.inode[j] = v.inode[j]
  BY <1>1
<1>5. \A a \in Blocks : a \notin w.block_map => w.index[a] = v.index[a]
  OBVIOUS
<1> QED
  BY <1>1, <1>3, <1>4, <1>5 DEF NewPointer, SameFile

\* The allocation of a block.
Taken(e, d, b) ==
    /\ Steady(e) /\ e \in CardRecord /\ e.inode_map = d.inode_map
    /\ e.block_map = d.block_map \cup {b} /\ e.inode = d.inode /\ e.dentry = d.dentry
    /\ e.index = d.index

LEMMA HeldTaken ==
    ASSUME NEW c, NEW d0, NEW i \in Regular(d0), NEW h, NEW ino, Held(h, ino, c, i, d0), h.ok,
           NEW d, d = Card(h), NEW b \in Blocks, NEW e, e = BlockTaken(d, b)
    PROVE  Taken(e, d, b)
<1> DEFINE v == WithInode(d, i, ino)
           v1 == BlockTaken(v, b)
<1>1. /\ i \in Inodes /\ d \in CardRecord /\ i \in Live(v) /\ ino \in InodeRecord /\ v.inode[i] = ino
      /\ SameButInode(v, d, i) /\ v \in CardRecord /\ Steady(v) /\ Extends(ino, d.inode[i])
  BY HeldCard
<1>2. /\ e \in CardRecord /\ e.inode_map = d.inode_map /\ e.block_map = d.block_map \cup {b}
      /\ e.inode = d.inode /\ e.dentry = d.dentry /\ e.index = d.index
  <2>1. d.block_map \cup {b} \in SUBSET Blocks /\ e = WithBlockMap(d, d.block_map \cup {b})
    BY <1>1, CardFields DEF BlockTaken
  <2> QED
    BY <1>1, <2>1, SetBlockMap
<1> HIDE DEF v
<1>3. /\ v1 \in CardRecord /\ v1.inode_map = v.inode_map /\ v1.block_map = v.block_map \cup {b}
      /\ v1.inode = v.inode /\ v1.dentry = v.dentry /\ v1.index = v.index
  BY <1>1, SetBlockMap, CardFields DEF BlockTaken
<1>4. Steady(v1) /\ Live(v1) = Live(v)
  BY <1>1, SteadyBlockTaken DEF Live
<1> HIDE DEF v1
<1>5. SameButInode(e, v1, i) /\ e.inode[i] = d.inode[i] /\ v1.inode[i] = ino
  BY <1>1, <1>2, <1>3 DEF SameButInode
<1> QED
  BY <1>1, <1>2, <1>4, <1>5, Behind DEF Taken

\* The card before the inode is written back is steady once the new card is good.
LEMMA HeldSteady ==
    ASSUME NEW c, NEW w, Good(w, c), NEW i \in Live(w), NEW e \in CardRecord,
           w = WithInode(e, i, w.inode[i]), Extends(w.inode[i], e.inode[i])
    PROVE  Steady(e)
<1>1. w \in CardRecord /\ i \in Inodes /\ w.inode[i] \in InodeRecord /\ Steady(w)
  BY CardParts, GoodSteady DEF Good
<1>2. SameButInode(e, w, i)
  BY <1>1, SetInode DEF SameButInode
<1> QED
  BY <1>1, <1>2, Behind

\* What inode_ptr and block_ptr return.
PtrDone(s, ino, id, c, i, d0) ==
    /\ s = [h |-> s.h, ino |-> ino, id |-> id] /\ Held(s.h, ino, c, i, d0)
    /\ s.h.ok => id \in Blocks \ {0}

LEMMA InodePtr ==
    ASSUME NEW c, NEW d0, NEW i \in Regular(d0), NEW h, NEW ino, NEW id0, Held(h, ino, c, i, d0),
           NEW r, r = [h |-> h, ino |-> ino, id |-> id0],
           NEW old, h.ok => old \in Blocks, NEW linked, NEW b, b = new_block(h), NEW x,
           h.ok /\ old = 0 => Linked(linked, ino, i, b, x),
           NEW s, s = inode_ptr(r, old, linked)
    PROVE  PtrDone(s, IF old = 0 THEN linked ELSE ino, IF old = 0 THEN b ELSE old, c, i, d0)
<1>1. CASE old # 0
  <2>1. s = [h |-> h, ino |-> ino, id |-> old]
    BY <1>1 DEF inode_ptr
  <2> QED
    BY <1>1, <2>1 DEF PtrDone
<1>2. CASE old = 0
  <2> DEFINE d == Card(h)
             v == WithInode(d, i, ino)
             g == alloc_block(h)
             e1 == BlockTaken(d, b)
             e2 == WithBlock(e1, b, ZeroDentries)
             w == WithInode(e2, i, linked)
  <2>1. s.h = zero_block(g, b) /\ s = [h |-> s.h, ino |-> linked, id |-> b]
    BY <1>2 DEF inode_ptr
  <2>2. Clean(h, c) /\ h \in Hist /\ b \in Blocks /\ d \in CardRecord
    BY NewBlock, CardType DEF Held, Clean
  <2>3. ASSUME h.ok, b \notin d.block_map
        PROVE  /\ Steady(e1) /\ Steady(e2) /\ Card(h).inode[i] = e2.inode[i] /\ b # 0
               /\ linked \in InodeRecord /\ Extends(linked, e2.inode[i])
               /\ Good(w, c) /\ SameTree(w, d0)
    <3>1. /\ i \in Inodes /\ Good(v, c) /\ i \in Live(v) /\ ino \in InodeRecord /\ v.inode[i] = ino
          /\ SameButInode(v, d, i) /\ v \in CardRecord /\ Extends(ino, d.inode[i])
          /\ SameTree(v, d0)
      BY <2>3, HeldCard
    <3>2. /\ Steady(e1) /\ e1 \in CardRecord /\ e1.inode_map = d.inode_map
          /\ e1.block_map = d.block_map \cup {b} /\ e1.inode = d.inode /\ e1.dentry = d.dentry
          /\ e1.index = d.index
      <4>1. Taken(e1, d, b)
        BY <2>2, <2>3, HeldTaken
      <4> HIDE DEF e1, d
      <4> QED
        BY <4>1 DEF Taken
    <3> HIDE DEF v, e1, d
    <3>3. /\ e2 \in CardRecord /\ e2.inode_map = e1.inode_map /\ e2.block_map = e1.block_map
          /\ e2.inode = e1.inode
          /\ e2.index[b] = ZeroIndex
          /\ \A a \in Blocks : a # b => e2.dentry[a] = e1.dentry[a] /\ e2.index[a] = e1.index[a]
      <4>1. e2 = WithBlock(e1, b, ZeroDentries) /\ ZeroDentries \in [Dentries -> DentryRecord]
        BY Zeroes
      <4> HIDE DEF e2
      <4> QED
        BY <2>2, <3>2, <4>1, SetBlock
    <3> HIDE DEF e2
    <3>4. Linked(linked, v.inode[i], i, b, x) /\ linked \in InodeRecord /\ Extends(linked, ino)
      BY <1>2, <2>3, <3>1 DEF Linked
    <3>5. /\ w \in CardRecord /\ w.inode_map = e2.inode_map /\ w.block_map = e2.block_map
          /\ w.dentry = e2.dentry /\ w.index = e2.index
          /\ w.inode[i] = linked /\ \A j \in Inodes : j # i => w.inode[j] = e2.inode[j]
          /\ w = WithInode(e2, i, linked)
      BY <3>1, <3>3, <3>4, SetInode, SMTT(40)
    <3> HIDE DEF w
    <3>6. /\ w.inode_map = v.inode_map /\ w.block_map = v.block_map \cup {b} /\ b \notin v.block_map
          /\ w.index[b] = ZeroIndex
          /\ \A a \in Blocks : a # b => w.dentry[a] = v.dentry[a] /\ w.index[a] = v.index[a]
          /\ \A j \in Inodes : j # i => w.inode[j] = v.inode[j]
      BY <2>3, <3>1, <3>2, <3>3, <3>5 DEF SameButInode
    <3>7. NewPointer(v, w, b, x)
      BY <2>2, <3>1, <3>4, <3>5, <3>6, InodePointer, ZenonT(60)
    <3>8. Good(w, c) /\ SameTree(w, d0) /\ SameTree(w, v)
      BY <3>1, <3>7, GoodGrows, SameTreeTwice
    <3>9. Extends(linked, e2.inode[i]) /\ d.inode[i] = e2.inode[i]
      BY <3>1, <3>2, <3>3, <3>4, ExtendsTwice
    <3>10. i \in Live(w) /\ b # 0
      BY <2>3, <3>1, <3>6, <3>8 DEF Live, Good, Exclusive, SameTree
    <3>11. Steady(e2)
      BY <3>3, <3>5, <3>8, <3>9, <3>10, HeldSteady
    <3> QED
      BY <3>2, <3>4, <3>8, <3>9, <3>10, <3>11 DEF d
  <2>4. Clean(g, c) /\ (g.ok => h.ok /\ b \notin d.block_map /\ Card(g) = e1)
    <3>1. h.ok /\ b \notin d.block_map => Safe(e1)
      BY <2>3, SteadySafe
    <3> HIDE DEF e1
    <3> QED
      BY <2>2, <3>1, AllocBlock DEF e1
  <2>5. Clean(s.h, c) /\ (s.h.ok <=> g.ok) /\ (s.h.ok => Card(s.h) = e2)
    <3>1. g.ok => Safe(WithBlock(Card(g), b, ZeroDentries)) /\ WithBlock(Card(g), b, ZeroDentries) = e2
      BY <2>3, <2>4, SteadySafe
    <3> HIDE DEF e2, g
    <3> QED
      BY <2>1, <2>2, <2>4, <3>1, ZeroBlock
  <2>6. Held(s.h, linked, c, i, d0)
    BY <2>3, <2>4, <2>5 DEF Held
  <2> QED
    BY <1>2, <2>1, <2>2, <2>3, <2>4, <2>5, <2>6 DEF PtrDone
<1> QED
  BY <1>1, <1>2

BlockPtrDone(s, h, ino, id, k, c, i, d0) ==
    PtrDone(s, ino, s.id, c, i, d0) /\ (s.h.ok => h.ok /\ s.id = Card(s.h).index[id][k])

LEMMA BlockPtr ==
    ASSUME NEW c, NEW d0, NEW i \in Regular(d0), NEW h, NEW ino, NEW id, Held(h, ino, c, i, d0),
           NEW r, r = [h |-> h, ino |-> ino, id |-> id], h.ok => id \in Card(h).block_map,
           NEW k \in 0 .. FIRST_BLOCK_SIZE - 1,
           NEW s, s = block_ptr(r, k)
    PROVE  BlockPtrDone(s, h, ino, id, k, c, i, d0)
<1> DEFINE old == Card(h).index[id][k]
           b == new_block(h)
<1>1. CASE old # 0
  <2>1. s = [h |-> h, ino |-> ino, id |-> old]
    BY <1>1 DEF block_ptr
  <2>2. h.ok => old \in Blocks
    <3>1. h.ok => Card(h) \in CardRecord
      BY CardType DEF Held, Clean
    <3>2. h.ok => id \in Blocks /\ Card(h).index \in [Blocks -> [0 .. FIRST_BLOCK_SIZE - 1 -> Blocks]]
      BY <3>1, CardFields
    <3> QED
      BY <3>2
  <2> QED
    BY <1>1, <2>1, <2>2 DEF PtrDone, BlockPtrDone
<1>2. CASE old = 0
  <2> DEFINE d == Card(h)
             v == WithInode(d, i, ino)
             g == alloc_block(h)
             e1 == BlockTaken(d, b)
             e2 == WithIndex(e1, id, k, b)
             g2 == sd_write(g, WithIndex(Card(g), id, k, b))
             e3 == WithBlock(e2, b, ZeroDentries)
             x == [at |-> "index", of |-> id, k |-> k, to |-> b]
             w2 == WithInode(e2, i, ino)
             w3 == WithInode(e3, i, ino)
  <2>1. s.h = zero_block(g2, b) /\ s = [h |-> s.h, ino |-> ino, id |-> b]
    BY <1>2 DEF block_ptr, WithIndex
  <2>2. Clean(h, c) /\ h \in Hist /\ b \in Blocks /\ d \in CardRecord
    BY NewBlock, CardType DEF Held, Clean
  <2> HIDE DEF b
  <2>3. ASSUME h.ok, b \notin d.block_map
        PROVE  /\ Steady(e1) /\ e2 \in CardRecord /\ ("crash" \in c => Steady(e2)) /\ Steady(e3)
               /\ b # 0 /\ e3.index[id][k] = b
               /\ ino \in InodeRecord /\ Extends(ino, e3.inode[i])
               /\ Good(w3, c) /\ SameTree(w3, d0)
    <3>1. /\ i \in Inodes /\ Good(v, c) /\ i \in Live(v) /\ ino \in InodeRecord /\ v.inode[i] = ino
          /\ SameButInode(v, d, i) /\ v \in CardRecord /\ Extends(ino, d.inode[i])
          /\ SameTree(v, d0)
      BY <2>3, HeldCard
    <3>2. /\ Steady(e1) /\ e1 \in CardRecord /\ e1.inode_map = d.inode_map
          /\ e1.block_map = d.block_map \cup {b} /\ e1.inode = d.inode /\ e1.dentry = d.dentry
          /\ e1.index = d.index
      <4>1. Taken(e1, d, b)
        BY <2>2, <2>3, HeldTaken
      <4> HIDE DEF e1, d
      <4> QED
        BY <4>1 DEF Taken
    <3>3. id \in d.block_map /\ id \in v.block_map /\ id \in Blocks /\ id # b /\ v.block_map = d.block_map
      BY <2>2, <2>3, <3>1, CardFields DEF SameButInode
    <3> HIDE DEF v, e1, d
    <3>4. /\ e2 \in CardRecord /\ e2.inode_map = e1.inode_map /\ e2.block_map = e1.block_map
          /\ e2.inode = e1.inode /\ e2.dentry = e1.dentry
          /\ \A a \in Blocks : a # id => e2.index[a] = e1.index[a]
          /\ e2.index[id][k] = b
          /\ \A l \in 0 .. FIRST_BLOCK_SIZE - 1 : l # k => e2.index[id][l] = e1.index[id][l]
      <4>1. e2 = WithIndex(e1, id, k, b)
        OBVIOUS
      <4> HIDE DEF e2
      <4> QED
        BY <2>2, <3>2, <3>3, <4>1 DEF WithIndex, CardRecord
    <3>5. /\ e3 \in CardRecord /\ e3.inode_map = e2.inode_map /\ e3.block_map = e2.block_map
          /\ e3.inode = e2.inode /\ e3.index[b] = ZeroIndex
          /\ \A a \in Blocks : a # b => e3.dentry[a] = e2.dentry[a] /\ e3.index[a] = e2.index[a]
      <4>1. e3 = WithBlock(e2, b, ZeroDentries) /\ ZeroDentries \in [Dentries -> DentryRecord]
        BY Zeroes
      <4> HIDE DEF e2, e3
      <4> QED
        BY <2>2, <3>4, <4>1, SetBlock
    <3> HIDE DEF e2, e3
    <3>6. ASSUME NEW e \in CardRecord, e.inode = d.inode, e.inode_map = d.inode_map,
                 e.block_map = d.block_map \cup {b}, e.index[b] = ZeroIndex,
                 \A a \in Blocks : a # b => e.dentry[a] = d.dentry[a],
                 \A a \in Blocks : a # b /\ a # id => e.index[a] = d.index[a],
                 e.index[id][k] = b,
                 \A l \in 0 .. FIRST_BLOCK_SIZE - 1 : l # k => e.index[id][l] = d.index[id][l],
                 NEW w, w = WithInode(e, i, ino)
          PROVE  Steady(e) /\ Good(w, c) /\ SameTree(w, d0) /\ b # 0
      <4>1. /\ w \in CardRecord /\ w.inode_map = e.inode_map /\ w.block_map = e.block_map
            /\ w.dentry = e.dentry /\ w.index = e.index
            /\ w.inode[i] = ino /\ \A j \in Inodes : j # i => w.inode[j] = e.inode[j]
        BY <3>1, <3>6, SetInode
      <4>2. /\ w.inode_map = v.inode_map /\ w.block_map = v.block_map \cup {b} /\ b \notin v.block_map
            /\ w.index[b] = ZeroIndex
            /\ \A a \in Blocks : a # b => w.dentry[a] = v.dentry[a]
            /\ \A a \in Blocks : a # b /\ a # id => w.index[a] = v.index[a]
            /\ w.index[id][k] = b
            /\ \A l \in 0 .. FIRST_BLOCK_SIZE - 1 : l # k => w.index[id][l] = v.index[id][l]
            /\ \A j \in Inodes : w.inode[j] = v.inode[j]
        BY <2>3, <3>1, <3>6, <4>1 DEF SameButInode
      <4>3. NewPointer(v, w, b, x)
        BY <2>2, <3>1, <3>3, <4>1, <4>2, BlockPointer
      <4> HIDE DEF x
      <4>4. Good(w, c) /\ SameTree(w, d0) /\ SameTree(w, v)
        BY <3>1, <4>3, GoodGrows, SameTreeTwice
      <4>5. i \in Live(w) /\ b # 0
        BY <3>1, <4>2, <4>4 DEF Live, Good, Exclusive, SameTree
      <4>6. Extends(w.inode[i], e.inode[i]) /\ w = WithInode(e, i, w.inode[i])
        BY <3>1, <3>6, <4>1
      <4> QED
        BY <3>6, <4>4, <4>5, <4>6, HeldSteady
    <3>7. Steady(e3) /\ Good(w3, c) /\ SameTree(w3, d0) /\ b # 0
      <4>1. w3 = WithInode(e3, i, ino)
        OBVIOUS
      <4>2. /\ e3.inode = d.inode /\ e3.inode_map = d.inode_map /\ e3.block_map = d.block_map \cup {b}
            /\ \A a \in Blocks : a # b => e3.dentry[a] = d.dentry[a]
            /\ \A a \in Blocks : a # b /\ a # id => e3.index[a] = d.index[a]
            /\ e3.index[id][k] = b
            /\ \A l \in 0 .. FIRST_BLOCK_SIZE - 1 : l # k => e3.index[id][l] = d.index[id][l]
        BY <3>2, <3>3, <3>4, <3>5
      <4> HIDE DEF w3
      <4> QED
        BY <3>5, <3>6, <4>1, <4>2
    <3>8. ASSUME "crash" \in c PROVE Steady(e2)
      <4>1. e2.index[b] = ZeroIndex
        <5>1. d.index[b] = ZeroIndex
          BY <2>2, <2>3, <3>1, <3>8 DEF Good, FreeClear, SameButInode
        <5> QED
          BY <2>2, <3>2, <3>3, <3>4, <5>1
      <4>2. /\ e2.inode = d.inode /\ e2.inode_map = d.inode_map /\ e2.block_map = d.block_map \cup {b}
            /\ \A a \in Blocks : a # b => e2.dentry[a] = d.dentry[a]
            /\ \A a \in Blocks : a # b /\ a # id => e2.index[a] = d.index[a]
            /\ e2.index[id][k] = b
            /\ \A l \in 0 .. FIRST_BLOCK_SIZE - 1 : l # k => e2.index[id][l] = d.index[id][l]
        BY <3>2, <3>3, <3>4
      <4>3. w2 = WithInode(e2, i, ino)
        OBVIOUS
      <4> HIDE DEF w2
      <4> QED
        BY <3>4, <3>6, <4>1, <4>2, <4>3
    <3>9. Extends(ino, e3.inode[i]) /\ e3.index[id][k] = b
      BY <3>1, <3>2, <3>3, <3>4, <3>5
    <3> QED
      BY <3>1, <3>2, <3>4, <3>7, <3>8, <3>9
  <2>4. Clean(g, c) /\ (g.ok => h.ok /\ b \notin d.block_map /\ Card(g) = e1)
    <3>1. h.ok /\ b \notin d.block_map => Safe(e1)
      BY <2>3, SteadySafe
    <3> HIDE DEF e1
    <3> QED
      BY <2>2, <3>1, AllocBlock DEF e1, b
  <2>5. Clean(g2, c) /\ (g2.ok <=> g.ok) /\ (g2.ok => Card(g2) = e2)
    <3>1. g.ok => WithIndex(Card(g), id, k, b) = e2 /\ e2 \in CardRecord /\ ("crash" \in c => Safe(e2))
      BY <2>3, <2>4, SteadySafe
    <3> HIDE DEF e2, g
    <3> QED
      BY <2>4, <3>1, Write
  <2>6. Clean(s.h, c) /\ (s.h.ok <=> g2.ok) /\ (s.h.ok => Card(s.h) = e3)
    <3>1. g2.ok => Safe(WithBlock(Card(g2), b, ZeroDentries)) /\ WithBlock(Card(g2), b, ZeroDentries) = e3
      BY <2>3, <2>4, <2>5, SteadySafe
    <3> HIDE DEF e3, g2
    <3> QED
      BY <2>1, <2>2, <2>5, <3>1, ZeroBlock
  <2>7. Held(s.h, ino, c, i, d0)
    BY <2>3, <2>4, <2>5, <2>6 DEF Held
  <2> HIDE DEF e1, e2, e3, g, g2, d, w2, w3
  <2> QED
    BY <2>1, <2>2, <2>3, <2>4, <2>5, <2>6, <2>7 DEF PtrDone, BlockPtrDone
<1> QED
  BY <1>1, <1>2

\* The pointers of a page are within their arrays.
LEMMA Quotient ==
    ASSUME NEW a \in Nat, NEW b \in Nat \ {0}, NEW n \in Nat, a < n * b
    PROVE  a \div b \in 0 .. n - 1
<1>1. a \div b \in Nat
  OBVIOUS
<1>2. a \div b < n
  OBVIOUS
<1> QED
  BY <1>1, <1>2

LEMMA Remainder ==
    ASSUME NEW a \in Nat, NEW b \in Nat \ {0}
    PROVE  a % b \in 0 .. b - 1
OBVIOUS

LEMMA BelowModulus ==
    ASSUME NEW n \in 0 .. UMOD - 1, n < UMOD - 1
    PROVE  (n + 1) % UMOD = n + 1
<1>1. UMOD \in Nat \ {0}
  BY FileSysAssumption
<1>2. n + 1 \in Nat /\ n + 1 < UMOD
  BY <1>1
<1> DEFINE m == n + 1
<1> HIDE DEF m
<1>3. m \in Nat /\ m < UMOD
  BY <1>2 DEF m
<1>4. m % UMOD = m
  BY <1>1, <1>3
<1> QED
  BY <1>4 DEF m

LEMMA UnsignedRange ==
    ASSUME NEW n \in Int
    PROVE  Unsigned(n) \in 0 .. MaxSize
<1>1. MaxSize + 1 \in Nat \ {0} /\ MaxSize \in Nat
  BY FileSysAssumption
<1>2. n % (MaxSize + 1) \in 0 .. (MaxSize + 1) - 1
  BY <1>1
<1> QED
  BY <1>1, <1>2 DEF Unsigned

Page1(page) == page - DIRECT_SIZE
Page2(page) == Page1(page) - FIRST_BLOCK_NUM * FIRST_BLOCK_SIZE
Square == FIRST_BLOCK_SIZE * FIRST_BLOCK_SIZE

LEMMA PageRange ==
    ASSUME NEW page \in 0 .. MaxSize \div BLOCK_SIZE, NEW p1, p1 = Page1(page), NEW p2, p2 = Page2(page)
    PROVE  /\ p1 < 0 => page \in 0 .. DIRECT_SIZE - 1
           /\ ~(p1 < 0) /\ p2 < 0 =>
                /\ p1 \div FIRST_BLOCK_SIZE \in 0 .. FIRST_BLOCK_NUM - 1
                /\ p1 % FIRST_BLOCK_SIZE \in 0 .. FIRST_BLOCK_SIZE - 1
           /\ ~(p1 < 0) /\ ~(p2 < 0) =>
                /\ p2 \div Square \in 0 .. SECOND_BLOCK_NUM - 1
                /\ (p2 % Square) \div FIRST_BLOCK_SIZE \in 0 .. FIRST_BLOCK_SIZE - 1
                /\ p2 % FIRST_BLOCK_SIZE \in 0 .. FIRST_BLOCK_SIZE - 1
<1> DEFINE F == FIRST_BLOCK_SIZE
           A == FIRST_BLOCK_NUM * F
           B == SECOND_BLOCK_NUM * Square
           M == MaxSize \div BLOCK_SIZE
<1>1. /\ F \in Nat \ {0} /\ DIRECT_SIZE \in Nat \ {0} /\ FIRST_BLOCK_NUM \in Nat /\ SECOND_BLOCK_NUM \in Nat
      /\ MaxSize \in Nat /\ BLOCK_SIZE \in Nat \ {0} /\ M < DIRECT_SIZE + A + B
      /\ p1 = page - DIRECT_SIZE /\ p2 = p1 - A
  BY FileSysAssumption DEF Page1, Page2, Square
<1>2. Square \in Nat \ {0}
  <2>1. F > 0
    BY <1>1
  <2>2. F * F > 0
    BY <1>1, <2>1
  <2> QED
    BY <1>1, <2>2 DEF Square
<1>3. A \in Nat /\ B \in Nat /\ M \in Nat /\ A = FIRST_BLOCK_NUM * F /\ B = SECOND_BLOCK_NUM * Square
  BY <1>1, <1>2
<1>4. page \in 0 .. M
  OBVIOUS
<1> HIDE DEF A, B, M
<1>5. /\ page \in Nat /\ p1 \in Int /\ p2 \in Int /\ (p1 < 0 => page \in 0 .. DIRECT_SIZE - 1)
      /\ (~(p1 < 0) => p1 \in Nat) /\ (p2 < 0 => p1 < A)
      /\ (~(p2 < 0) => p2 \in Nat /\ p2 < B)
  BY <1>1, <1>3, <1>4
<1>6. ASSUME ~(p1 < 0), p2 < 0
      PROVE  p1 \div F \in 0 .. FIRST_BLOCK_NUM - 1 /\ p1 % F \in 0 .. F - 1
  <2>1. p1 \in Nat /\ p1 < FIRST_BLOCK_NUM * F
    BY <1>3, <1>5, <1>6
  <2> QED
    BY <1>1, <2>1, Quotient, Remainder
<1>7. ASSUME ~(p1 < 0), ~(p2 < 0)
      PROVE  /\ p2 \div Square \in 0 .. SECOND_BLOCK_NUM - 1
             /\ (p2 % Square) \div F \in 0 .. F - 1 /\ p2 % F \in 0 .. F - 1
  <2>1. p2 \in Nat /\ p2 < SECOND_BLOCK_NUM * Square
    BY <1>3, <1>5, <1>7
  <2>2. p2 % Square \in 0 .. Square - 1
    BY <1>2, <2>1, Remainder
  <2>3. p2 % Square \in Nat /\ p2 % Square < F * F
    BY <1>2, <2>2 DEF Square
  <2> HIDE DEF F
  <2>4. p2 \div Square \in 0 .. SECOND_BLOCK_NUM - 1
    BY <1>1, <1>2, <2>1, Quotient
  <2>5. (p2 % Square) \div F \in 0 .. F - 1
    BY <1>1, <2>3, Quotient
  <2>6. p2 % F \in 0 .. F - 1
    BY <1>1, <2>1, Remainder
  <2> QED
    BY <2>4, <2>5, <2>6
<1> QED
  BY <1>5, <1>6, <1>7

\* The three kinds of pointers of an inode.
LEMMA LinkedDirect ==
    ASSUME NEW ino \in InodeRecord, NEW i, NEW k \in 0 .. DIRECT_SIZE - 1, ino.direct[k] = 0,
           ino.direct[0] # 0, NEW b \in Blocks, NEW linked, linked = [ino EXCEPT !.direct[k] = b]
    PROVE  Linked(linked, ino, i, b, [at |-> "direct", of |-> i, k |-> k, to |-> b])
<1>1. /\ linked \in InodeRecord /\ linked.size = ino.size /\ linked.first = ino.first
      /\ linked.second = ino.second /\ linked.direct = [ino.direct EXCEPT ![k] = b]
      /\ SameFile(linked, ino)
  BY ZenonT(60) DEF InodeRecord, SameFile
<1>2. ino.direct \in [0 .. DIRECT_SIZE - 1 -> Blocks] /\ 0 \in 0 .. DIRECT_SIZE - 1
  BY Sizes DEF InodeRecord
<1>3. Extends(linked, ino)
  BY <1>1, <1>2 DEF Extends
<1>4. Pointers("direct", i, linked.direct) \subseteq
        Pointers("direct", i, ino.direct) \cup {[at |-> "direct", of |-> i, k |-> k, to |-> b]}
  BY <1>1, <1>2 DEF Pointers
<1> QED
  BY <1>1, <1>3, <1>4 DEF Linked

LEMMA LinkedFirst ==
    ASSUME NEW ino \in InodeRecord, NEW i, NEW k \in 0 .. FIRST_BLOCK_NUM - 1, ino.first[k] = 0,
           NEW b \in Blocks, NEW linked, linked = [ino EXCEPT !.first[k] = b],
           NEW x, x = [at |-> "first", of |-> i, k |-> k, to |-> b]
    PROVE  Linked(linked, ino, i, b, x)
<1>1. /\ linked \in InodeRecord /\ linked.size = ino.size /\ linked.direct = ino.direct
      /\ linked.second = ino.second /\ linked.first = [ino.first EXCEPT ![k] = b]
      /\ SameFile(linked, ino)
  BY ZenonT(60) DEF InodeRecord, SameFile
<1>2. ino.first \in [0 .. FIRST_BLOCK_NUM - 1 -> Blocks]
  BY DEF InodeRecord
<1>3. Extends(linked, ino)
  BY <1>1, <1>2 DEF Extends
<1>4. Pointers("first", i, linked.first) \subseteq
        Pointers("first", i, ino.first) \cup {[at |-> "first", of |-> i, k |-> k, to |-> b]}
  BY <1>1, <1>2 DEF Pointers
<1> QED
  BY <1>1, <1>2, <1>3, <1>4 DEF Linked

LEMMA LinkedSecond ==
    ASSUME NEW ino \in InodeRecord, NEW i, NEW k \in 0 .. SECOND_BLOCK_NUM - 1, ino.second[k] = 0,
           NEW b \in Blocks, NEW linked, linked = [ino EXCEPT !.second[k] = b],
           NEW x, x = [at |-> "second", of |-> i, k |-> k, to |-> b]
    PROVE  Linked(linked, ino, i, b, x)
<1>1. /\ linked \in InodeRecord /\ linked.size = ino.size /\ linked.direct = ino.direct
      /\ linked.first = ino.first /\ linked.second = [ino.second EXCEPT ![k] = b]
      /\ SameFile(linked, ino)
  BY ZenonT(60) DEF InodeRecord, SameFile
<1>2. ino.second \in [0 .. SECOND_BLOCK_NUM - 1 -> Blocks]
  BY DEF InodeRecord
<1>3. Extends(linked, ino)
  BY <1>1, <1>2 DEF Extends
<1>4. Pointers("second", i, linked.second) \subseteq
        Pointers("second", i, ino.second) \cup {[at |-> "second", of |-> i, k |-> k, to |-> b]}
  BY <1>1, <1>2 DEF Pointers
<1> QED
  BY <1>1, <1>2, <1>3, <1>4 DEF Linked

\* The index blocks of a file are in use.
LEMMA FirstUsed ==
    ASSUME NEW e \in CardRecord, NEW S \in SUBSET Inodes, Exclusive(e, S), NEW i \in S,
           NEW k \in 0 .. FIRST_BLOCK_NUM - 1, NEW id, id = e.inode[i].first[k], id # 0
    PROVE  id \in e.block_map
<1>1. e.inode[i].first \in [0 .. FIRST_BLOCK_NUM - 1 -> Blocks]
  BY CardFields DEF InodeRecord
<1> DEFINE x == [at |-> "first", of |-> i, k |-> k, to |-> id]
<1>2. x \in Pointers("first", i, e.inode[i].first) /\ x.to = id
  BY <1>1 DEF Pointers
<1> HIDE DEF x
<1>3. x \in Refs(e, i)
  BY <1>2 DEF Refs
<1> QED
  BY <1>2, <1>3 DEF Exclusive

LEMMA SecondUsed ==
    ASSUME NEW e \in CardRecord, NEW S \in SUBSET Inodes, Exclusive(e, S), NEW i \in S,
           NEW k \in 0 .. SECOND_BLOCK_NUM - 1, NEW id, id = e.inode[i].second[k], id # 0
    PROVE  /\ id \in e.block_map
           /\ \A l \in 0 .. FIRST_BLOCK_SIZE - 1 : e.index[id][l] # 0 => e.index[id][l] \in e.block_map
<1>1. e.inode[i].second \in [0 .. SECOND_BLOCK_NUM - 1 -> Blocks] /\ e.block_map \subseteq Blocks
  BY CardFields DEF InodeRecord
<1> DEFINE x == [at |-> "second", of |-> i, k |-> k, to |-> id]
           second == Pointers("second", i, e.inode[i].second)
<1>2. x \in second /\ x.to = id
  BY <1>1 DEF Pointers
<1>3. second \subseteq Refs(e, i) /\ Under(e, second) \subseteq Refs(e, i)
  BY DEF Refs
<1> HIDE DEF x, second
<1>4. id \in e.block_map
  BY <1>2, <1>3 DEF Exclusive
<1>5. ASSUME NEW l \in 0 .. FIRST_BLOCK_SIZE - 1, e.index[id][l] # 0 PROVE e.index[id][l] \in e.block_map
  <2> DEFINE y == [at |-> "index", of |-> id, k |-> l, to |-> e.index[id][l]]
  <2>1. DOMAIN e.index[id] = 0 .. FIRST_BLOCK_SIZE - 1
    BY <1>1, <1>4, CardFields, SMTT(40)
  <2>2. y \in Pointers("index", x.to, e.index[x.to]) /\ y.to = e.index[id][l]
    BY <1>2, <1>5, <2>1 DEF Pointers
  <2> HIDE DEF y
  <2>3. y \in Under(e, second)
    BY <1>2, <2>2 DEF Under
  <2>4. y.to \in e.block_map
    BY <1>3, <2>3 DEF Exclusive
  <2> QED
    BY <2>2, <2>4
<1> QED
  BY <1>4, <1>5

LEMMA Rewritten ==
    ASSUME NEW d \in CardRecord, NEW i \in Inodes
    PROVE  WithInode(d, i, d.inode[i]) = d
<1>1. /\ d = [inode_map |-> d.inode_map, block_map |-> d.block_map, inode |-> d.inode,
              dentry |-> d.dentry, index |-> d.index, data |-> d.data]
      /\ d.inode \in [Inodes -> InodeRecord]
  BY DEF CardRecord
<1>2. [d.inode EXCEPT ![i] = d.inode[i]] = d.inode
  BY <1>1
<1>3. WithInode(d, i, d.inode[i]) = [d EXCEPT !.inode = [d.inode EXCEPT ![i] = d.inode[i]]]
  BY <1>1 DEF WithInode
<1> QED
  BY <1>1, <1>2, <1>3

\* The inode is written back.
LEMMA WriteBack ==
    ASSUME NEW c, NEW d0, NEW i \in Regular(d0), NEW h, NEW ino, Held(h, ino, c, i, d0),
           NEW g, g = write_inode(h, i, ino)
    PROVE  /\ Held(g, ino, c, i, d0) /\ KeepsTree(g, d0, c) /\ (g.ok <=> h.ok)
           /\ (g.ok => Card(g) = WithInode(Card(h), i, ino) /\ Card(g).inode[i] = ino)
<1> DEFINE d == Card(h)
           v == WithInode(d, i, ino)
<1>1. Clean(h, c)
  BY DEF Held
<1>2. CASE ~h.ok
  <2>1. g = h
    BY <1>2 DEF write_inode, sd_write
  <2> QED
    BY <1>1, <1>2, <2>1 DEF Held, KeepsTree
<1>3. CASE h.ok
  <2>1. /\ i \in Inodes /\ d \in CardRecord /\ Good(v, c) /\ ino \in InodeRecord /\ v.inode[i] = ino
        /\ v \in CardRecord /\ Steady(v) /\ SameTree(v, d0)
    BY <1>3, HeldCard
  <2>2. Clean(g, c) /\ g.ok /\ Card(g) = v
    BY <1>1, <1>3, <2>1, SteadySafe, WriteInode
  <2>3. WithInode(v, i, ino) = v /\ Extends(ino, v.inode[i])
    BY <2>1, Rewritten DEF Extends, SameFile
  <2>4. Dirs(v) = Dirs(d0) /\ Regular(v) = Regular(d0) /\ OneChange(d0, v)
    BY <2>1, SameTreeChange DEF SameTree
  <2> HIDE DEF v
  <2> QED
    BY <1>3, <2>1, <2>2, <2>3, <2>4 DEF Held, KeepsTree, v
<1> QED
  BY <1>2, <1>3

\* The block that a page is in has been found or taken.
Located(s, c, i, d0) ==
    /\ s = [h |-> s.h, ino |-> s.ino, id |-> s.id] /\ Held(s.h, s.ino, c, i, d0)
    /\ s.h.ok => s.id \in Blocks

LEMMA PtrLocated ==
    ASSUME NEW c, NEW d0, NEW i, NEW s, NEW ino, NEW id, PtrDone(s, ino, id, c, i, d0)
    PROVE  Located(s, c, i, d0) /\ s.ino = ino /\ s.id = id
<1>1. s = [h |-> s.h, ino |-> ino, id |-> id]
  BY DEF PtrDone
<1>2. s.ino = ino /\ s.id = id
  BY <1>1
<1> QED
  BY <1>1, <1>2 DEF PtrDone, Located

LEMMA LocateDirect ==
    ASSUME NEW c, NEW d0, NEW i \in Regular(d0), NEW h, NEW ino, Held(h, ino, c, i, d0),
           NEW r, r = [h |-> h, ino |-> ino, id |-> 0], NEW k \in 0 .. DIRECT_SIZE - 1,
           NEW s, s = inode_ptr(r, ino.direct[k], [ino EXCEPT !.direct[k] = new_block(h)])
    PROVE  Located(s, c, i, d0)
<1> DEFINE old == ino.direct[k]
           b == new_block(h)
           linked == [ino EXCEPT !.direct[k] = b]
           x == [at |-> "direct", of |-> i, k |-> k, to |-> b]
<1>1. b \in Blocks
  BY NewBlock DEF Held, Clean
<1>2. h.ok => ino \in InodeRecord /\ ino.direct[0] # 0
  <2>1. ASSUME h.ok, NEW v, v = WithInode(Card(h), i, ino)
        PROVE  ino \in InodeRecord /\ ino.direct[0] # 0
    <3>1. Good(v, c) /\ i \in Live(v) /\ ino \in InodeRecord /\ v.inode[i] = ino /\ i # Root
      BY <2>1, HeldCard
    <3> QED
      BY <3>1 DEF Good, Exclusive
  <2> QED
    BY <2>1
<1>3. h.ok => old \in Blocks
  BY <1>2 DEF InodeRecord
<1>4. h.ok /\ old = 0 => Linked(linked, ino, i, b, x)
  BY <1>1, <1>2, LinkedDirect
<1>5. s = inode_ptr(r, old, linked)
  OBVIOUS
<1> HIDE DEF x, linked, old
<1>6. PtrDone(s, IF old = 0 THEN linked ELSE ino, IF old = 0 THEN b ELSE old, c, i, d0)
  BY <1>3, <1>4, <1>5, InodePtr
<1> QED
  BY <1>6, PtrLocated

LEMMA LocateFirst ==
    ASSUME NEW c, NEW d0, NEW i \in Regular(d0), NEW h, NEW ino, Held(h, ino, c, i, d0),
           NEW r, r = [h |-> h, ino |-> ino, id |-> 0], NEW k \in 0 .. FIRST_BLOCK_NUM - 1,
           NEW s, s = inode_ptr(r, ino.first[k], [ino EXCEPT !.first[k] = new_block(h)])
    PROVE  Located(s, c, i, d0) /\ (s.h.ok => s.id \in Card(s.h).block_map)
<1> DEFINE old == ino.first[k]
           b == new_block(h)
           linked == [ino EXCEPT !.first[k] = b]
           x == [at |-> "first", of |-> i, k |-> k, to |-> b]
           ino2 == IF old = 0 THEN linked ELSE ino
           id2 == IF old = 0 THEN b ELSE old
<1>1. b \in Blocks
  BY NewBlock DEF Held, Clean
<1>2. h.ok => ino \in InodeRecord
  BY DEF Held
<1>3. h.ok => old \in Blocks
  BY <1>2 DEF InodeRecord
<1>4. h.ok /\ old = 0 => Linked(linked, ino, i, b, x) /\ linked.first[k] = b
  <2>1. linked = [ino EXCEPT !.first[k] = b] /\ (old = 0 => ino.first[k] = 0)
    OBVIOUS
  <2> HIDE DEF linked, b, old
  <2>2. ASSUME h.ok, old = 0 PROVE Linked(linked, ino, i, b, x) /\ linked.first[k] = b
    <3>1. ino \in InodeRecord /\ ino.first[k] = 0
      BY <1>2, <2>1, <2>2
    <3>2. Linked(linked, ino, i, b, x)
      BY <1>1, <2>1, <3>1, LinkedFirst
    <3> QED
      BY <2>1, <3>1, <3>2 DEF InodeRecord
  <2> QED
    BY <2>2
<1>5. s = inode_ptr(r, old, linked)
  OBVIOUS
<1> HIDE DEF x, linked, b
<1>6. PtrDone(s, ino2, id2, c, i, d0)
  <2> HIDE DEF old
  <2> QED BY <1>3, <1>4, <1>5, InodePtr, ZenonT(60) DEF b
<1>7. h.ok => ino2.first[k] = id2
  BY <1>4
<1>8. s.h.ok => h.ok
  <2>1. CASE old # 0
    BY <1>5, <2>1 DEF inode_ptr
  <2>2. CASE old = 0
    <3>1. s.h = zero_block(alloc_block(h), b)
      BY <1>5, <2>2 DEF inode_ptr, b
    <3>2. h \in Hist
      BY DEF Held, Clean
    <3> QED
      BY <3>1, <3>2 DEF zero_block, alloc_block, sd_write, assert, Hist
  <2> QED
    BY <2>1, <2>2
<1> HIDE DEF ino2, id2
<1>9. Located(s, c, i, d0) /\ s.ino = ino2 /\ s.id = id2
  BY <1>6, PtrLocated
<1>10. ASSUME s.h.ok PROVE s.id \in Card(s.h).block_map
  <2> DEFINE d == Card(s.h)
             v == WithInode(d, i, ino2)
  <2>1. Held(s.h, ino2, c, i, d0) /\ id2 # 0
    BY <1>6, <1>10 DEF PtrDone
  <2>2. /\ Good(v, c) /\ i \in Live(v) /\ v.inode[i] = ino2 /\ SameButInode(v, d, i) /\ v \in CardRecord
    BY <1>10, <2>1, HeldCard
  <2> HIDE DEF v
  <2>3. Exclusive(v, Live(v)) /\ Live(v) \in SUBSET Inodes
    BY <2>2, CardParts DEF Good
  <2>4. id2 = v.inode[i].first[k]
    BY <1>7, <1>8, <1>10, <2>2
  <2>5. id2 \in v.block_map
    BY <2>1, <2>2, <2>3, <2>4, FirstUsed
  <2> QED
    BY <1>9, <2>2, <2>5 DEF SameButInode
<1> QED
  BY <1>9, <1>10

LocatedSecond(s, k, c, i, d0) ==
    Located(s, c, i, d0) /\ (s.h.ok => s.id = s.ino.second[k] /\ s.id # 0)

LEMMA LocateSecond ==
    ASSUME NEW c, NEW d0, NEW i \in Regular(d0), NEW h, NEW ino, Held(h, ino, c, i, d0),
           NEW r, r = [h |-> h, ino |-> ino, id |-> 0], NEW k \in 0 .. SECOND_BLOCK_NUM - 1,
           NEW s, s = inode_ptr(r, ino.second[k], [ino EXCEPT !.second[k] = new_block(h)])
    PROVE  LocatedSecond(s, k, c, i, d0)
<1> DEFINE old == ino.second[k]
           b == new_block(h)
           linked == [ino EXCEPT !.second[k] = b]
           x == [at |-> "second", of |-> i, k |-> k, to |-> b]
           ino2 == IF old = 0 THEN linked ELSE ino
           id2 == IF old = 0 THEN b ELSE old
<1>1. b \in Blocks
  BY NewBlock DEF Held, Clean
<1>2. h.ok => ino \in InodeRecord
  BY DEF Held
<1>3. h.ok => old \in Blocks
  BY <1>2 DEF InodeRecord
<1>4. h.ok /\ old = 0 => Linked(linked, ino, i, b, x) /\ linked.second[k] = b
  <2>1. linked = [ino EXCEPT !.second[k] = b] /\ (old = 0 => ino.second[k] = 0)
    OBVIOUS
  <2> HIDE DEF linked, b, old
  <2>2. ASSUME h.ok, old = 0 PROVE Linked(linked, ino, i, b, x) /\ linked.second[k] = b
    <3>1. ino \in InodeRecord /\ ino.second[k] = 0
      BY <1>2, <2>1, <2>2
    <3>2. Linked(linked, ino, i, b, x)
      BY <1>1, <2>1, <3>1, LinkedSecond
    <3> QED
      BY <2>1, <3>1, <3>2 DEF InodeRecord
  <2> QED
    BY <2>2
<1>5. s = inode_ptr(r, old, linked)
  OBVIOUS
<1> HIDE DEF x, linked, b
<1>6. PtrDone(s, ino2, id2, c, i, d0)
  <2> HIDE DEF old
  <2> QED BY <1>3, <1>4, <1>5, InodePtr DEF b
<1>7. h.ok => ino2.second[k] = id2
  BY <1>4
<1>8. s.h.ok => h.ok
  <2>1. CASE old # 0
    BY <1>5, <2>1 DEF inode_ptr
  <2>2. CASE old = 0
    <3>1. s.h = zero_block(alloc_block(h), b)
      BY <1>5, <2>2 DEF inode_ptr, b
    <3>2. h \in Hist
      BY DEF Held, Clean
    <3> QED
      BY <3>1, <3>2 DEF zero_block, alloc_block, sd_write, assert, Hist
  <2> QED
    BY <2>1, <2>2
<1> HIDE DEF ino2, id2
<1>9. Located(s, c, i, d0) /\ s.ino = ino2 /\ s.id = id2
  BY <1>6, PtrLocated
<1> QED
  BY <1>6, <1>7, <1>8, <1>9 DEF PtrDone, LocatedSecond

LEMMA ByteLocate ==
    ASSUME NEW c, NEW d0, NEW i \in Regular(d0), NEW h, NEW ino, Held(h, ino, c, i, d0),
           NEW page \in 0 .. MaxSize \div BLOCK_SIZE,
           NEW g, g = byte_locate(h, i, ino, page)
    PROVE  Located(g, c, i, d0)
<1> DEFINE r == [h |-> h, ino |-> ino, id |-> 0]
           b == new_block(h)
           p1 == Page1(page)
           p2 == Page2(page)
           F == FIRST_BLOCK_SIZE
           k1 == p1 \div F
           k2 == p2 \div Square
           direct == inode_ptr(r, ino.direct[page], [ino EXCEPT !.direct[page] = b])
           first == inode_ptr(r, ino.first[k1], [ino EXCEPT !.first[k1] = b])
           second == inode_ptr(r, ino.second[k2], [ino EXCEPT !.second[k2] = b])
           middle == block_ptr(second, (p2 % Square) \div F)
           located == IF p1 < 0 THEN direct
                      ELSE IF p2 < 0 THEN block_ptr(first, p1 % F)
                      ELSE block_ptr(middle, p2 % F)
<1>1. g = [located EXCEPT !.h = write_inode(located.h, i, located.ino)]
  BY DEF byte_locate, Page1, Page2, Square
<1>2. /\ p1 < 0 => page \in 0 .. DIRECT_SIZE - 1
      /\ ~(p1 < 0) /\ p2 < 0 => k1 \in 0 .. FIRST_BLOCK_NUM - 1 /\ p1 % F \in 0 .. F - 1
      /\ ~(p1 < 0) /\ ~(p2 < 0) =>
           k2 \in 0 .. SECOND_BLOCK_NUM - 1 /\ (p2 % Square) \div F \in 0 .. F - 1 /\ p2 % F \in 0 .. F - 1
  BY PageRange
<1> HIDE DEF p1, p2, F, k1, k2
<1>3. ASSUME NEW s, Located(s, c, i, d0), s.h.ok => s.id \in Card(s.h).block_map,
             NEW k \in 0 .. F - 1, NEW t, t = block_ptr(s, k)
      PROVE  /\ Located(t, c, i, d0) /\ t.ino = s.ino
             /\ t.h.ok => s.h.ok /\ t.id = Card(t.h).index[s.id][k] /\ t.id # 0
  <2>1. s = [h |-> s.h, ino |-> s.ino, id |-> s.id] /\ Held(s.h, s.ino, c, i, d0)
    BY <1>3 DEF Located
  <2>2. PtrDone(t, s.ino, t.id, c, i, d0) /\ (t.h.ok => s.h.ok /\ t.id = Card(t.h).index[s.id][k])
    <3>1. BlockPtrDone(t, s.h, s.ino, s.id, k, c, i, d0)
      BY <1>3, <2>1, BlockPtr DEF F
    <3> QED
      BY <3>1 DEF BlockPtrDone
  <2>3. t.h.ok => t.id # 0
    BY <2>2 DEF PtrDone
  <2>4. Located(t, c, i, d0) /\ t.ino = s.ino
    BY <2>2, PtrLocated
  <2> QED
    BY <2>2, <2>3, <2>4
<1>4. Located(located, c, i, d0)
  <2>1. CASE p1 < 0
    <3>1. Located(direct, c, i, d0)
      BY <1>2, <2>1, LocateDirect
    <3> QED
      BY <2>1, <3>1
  <2>2. CASE ~(p1 < 0) /\ p2 < 0
    <3>1. Located(first, c, i, d0) /\ (first.h.ok => first.id \in Card(first.h).block_map)
      BY <1>2, <2>2, LocateFirst
    <3> HIDE DEF first
    <3>2. Located(block_ptr(first, p1 % F), c, i, d0)
      BY <1>2, <1>3, <2>2, <3>1
    <3> QED
      BY <2>2, <3>2
  <2>3. CASE ~(p1 < 0) /\ ~(p2 < 0)
    <3> DEFINE l == (p2 % Square) \div F
    <3>1. Located(second, c, i, d0) /\ (second.h.ok => second.id = second.ino.second[k2] /\ second.id # 0)
      <4>1. /\ k2 \in 0 .. SECOND_BLOCK_NUM - 1
            /\ second = inode_ptr(r, ino.second[k2], [ino EXCEPT !.second[k2] = new_block(h)])
        BY <1>2, <2>3
      <4> HIDE DEF second, r
      <4>2. LocatedSecond(second, k2, c, i, d0)
        BY <4>1, LocateSecond DEF r
      <4> QED
        BY <4>2 DEF LocatedSecond
    <3> HIDE DEF second
    <3>2. ASSUME NEW s, Located(s, c, i, d0), s.h.ok, s.ino.second[k2] # 0
          PROVE  /\ s.ino.second[k2] \in Card(s.h).block_map
                 /\ \A n \in 0 .. F - 1 : Card(s.h).index[s.ino.second[k2]][n] # 0 =>
                                          Card(s.h).index[s.ino.second[k2]][n] \in Card(s.h).block_map
      <4> DEFINE d == Card(s.h)
                 v == WithInode(d, i, s.ino)
      <4>1. /\ Good(v, c) /\ i \in Live(v) /\ v.inode[i] = s.ino /\ SameButInode(v, d, i) /\ v \in CardRecord
        BY <3>2, HeldCard DEF Located
      <4> HIDE DEF v, d
      <4>2. Exclusive(v, Live(v)) /\ Live(v) \in SUBSET Inodes
        BY <4>1, CardParts DEF Good
      <4>3. /\ s.ino.second[k2] \in v.block_map
            /\ \A n \in 0 .. F - 1 : v.index[s.ino.second[k2]][n] # 0 => v.index[s.ino.second[k2]][n] \in v.block_map
        BY <1>2, <2>3, <3>2, <4>1, <4>2, SecondUsed DEF F
      <4> QED
        BY <4>1, <4>3 DEF SameButInode, d
    <3>3. second.h.ok => second.id \in Card(second.h).block_map
      BY <3>1, <3>2
    <3>4. /\ Located(middle, c, i, d0) /\ middle.ino = second.ino
          /\ (middle.h.ok => second.h.ok /\ middle.id = Card(middle.h).index[second.id][l] /\ middle.id # 0)
      BY <1>2, <1>3, <2>3, <3>1, <3>3
    <3>5. l \in 0 .. F - 1
      BY <1>2, <2>3
    <3> HIDE DEF middle, l
    <3>6. middle.h.ok => middle.id \in Card(middle.h).block_map
      BY <3>1, <3>2, <3>4, <3>5
    <3>7. Located(block_ptr(middle, p2 % F), c, i, d0)
      BY <1>2, <1>3, <2>3, <3>4, <3>6
    <3> QED
      BY <2>3, <3>7
  <2> QED
    BY <2>1, <2>2, <2>3
<1> HIDE DEF located
<1>5. /\ g.h = write_inode(located.h, i, located.ino) /\ g.ino = located.ino /\ g.id = located.id
      /\ g = [h |-> g.h, ino |-> g.ino, id |-> g.id]
  BY <1>1, <1>4 DEF Located
<1> QED
  BY <1>4, <1>5, WriteBack, SMTT(40) DEF Located

-----------------------------------------------------------------------------
(* do_fread, do_fwrite and do_lseek *)

\* Sizes and data do not matter.
LEMMA GoodFrame ==
    ASSUME NEW c, NEW v, Good(v, c), NEW w \in CardRecord,
           w.inode_map = v.inode_map, w.block_map = v.block_map, w.dentry = v.dentry, w.index = v.index,
           \A i \in v.inode_map :
              /\ SameFile(w.inode[i], v.inode[i]) /\ w.inode[i].direct = v.inode[i].direct
              /\ w.inode[i].first = v.inode[i].first /\ w.inode[i].second = v.inode[i].second,
           \A i \in Inodes : i \notin v.inode_map => w.inode[i] = v.inode[i],
           \A i \in Regular(v) : w.inode[i].size <= MaxSize
    PROVE  Good(w, c) /\ SameTree(w, v)
<1>1. /\ v \in CardRecord /\ Tree(v) /\ InodesOK(v) /\ Exclusive(v, Live(v)) /\ FreeClear(v, c)
      /\ Live(v) \subseteq v.inode_map /\ Root \in Live(v) /\ Dirs(v) \subseteq Live(v)
  BY CardParts DEF Good, Tree, InodesOK, Live
<1>2. \A i \in Dirs(v) : DirBlock(w, i) = DirBlock(v, i)
  BY <1>1 DEF DirBlock
<1>3. Tree(w) /\ Dirs(w) = Dirs(v) /\ Regular(w) = Regular(v)
  BY <1>1, <1>2, TreeFrame
<1>4. Live(w) = Live(v) /\ \A i \in Live(v) : Refs(w, i) = Refs(v, i)
  BY <1>1, <1>3, SameIndexRefs DEF Live
<1>5. Exclusive(w, Live(w))
  BY <1>1, <1>4, ExclusiveFrame
<1>6. FreeClear(w, c)
  BY <1>1 DEF FreeClear
<1> QED
  BY <1>2, <1>3, <1>5, <1>6 DEF Good, SameTree

\* The bytes of a block are written.
LEMMA DataWritten ==
    ASSUME NEW c, NEW d0, NEW i \in Regular(d0), NEW h, NEW ino, Held(h, ino, c, i, d0),
           NEW b, h.ok => b \in Blocks, NEW x, h.ok => x \in [0 .. BLOCK_SIZE - 1 -> Bytes],
           NEW g, g = sd_write(h, WithData(Card(h), b, x))
    PROVE  Held(g, ino, c, i, d0) /\ (g.ok <=> h.ok)
<1> DEFINE d == Card(h)
           v == WithInode(d, i, ino)
           e == WithData(d, b, x)
           w == WithInode(e, i, ino)
<1>1. Clean(h, c)
  BY DEF Held
<1>2. ASSUME h.ok
      PROVE  /\ e \in CardRecord /\ Steady(e) /\ Good(w, c) /\ SameTree(w, d0)
             /\ ino \in InodeRecord /\ Extends(ino, e.inode[i])
  <2>1. /\ i \in Inodes /\ d \in CardRecord /\ Good(v, c) /\ i \in Live(v) /\ ino \in InodeRecord
        /\ v.inode[i] = ino /\ SameButInode(v, d, i) /\ v \in CardRecord
        /\ Extends(ino, d.inode[i]) /\ SameTree(v, d0)
    BY <1>2, HeldCard
  <2> HIDE DEF v, d
  <2>2. /\ e \in CardRecord /\ e.inode_map = d.inode_map /\ e.block_map = d.block_map
        /\ e.inode = d.inode /\ e.dentry = d.dentry /\ e.index = d.index
    BY <1>2, <2>1, SetData
  <2> HIDE DEF e
  <2>3. /\ w \in CardRecord /\ w.inode_map = e.inode_map /\ w.block_map = e.block_map
        /\ w.dentry = e.dentry /\ w.index = e.index /\ w = WithInode(e, i, ino)
        /\ w.inode[i] = ino /\ \A j \in Inodes : j # i => w.inode[j] = e.inode[j]
    BY <2>1, <2>2, SetInode
  <2> HIDE DEF w
  <2>4. /\ w.inode_map = v.inode_map /\ w.block_map = v.block_map /\ w.dentry = v.dentry /\ w.index = v.index
        /\ \A j \in Inodes : w.inode[j] = v.inode[j]
    BY <2>1, <2>2, <2>3 DEF SameButInode
  <2>5. v.inode_map \subseteq Inodes /\ \A j \in Regular(v) : j \in Inodes /\ v.inode[j].size <= MaxSize
    BY <2>1, CardFields, CardParts DEF Good, Tree, InodesOK
  <2>6. Good(w, c) /\ SameTree(w, v)
    BY <2>1, <2>3, <2>4, <2>5, GoodFrame DEF SameFile
  <2>7. i \in Live(w) /\ Extends(w.inode[i], e.inode[i]) /\ w = WithInode(e, i, w.inode[i])
    BY <2>1, <2>2, <2>3, <2>6 DEF Live, SameTree
  <2>8. Steady(e)
    BY <2>2, <2>6, <2>7, HeldSteady
  <2> QED
    BY <2>1, <2>2, <2>3, <2>6, <2>7, <2>8, SameTreeTwice
<1>3. Clean(g, c) /\ (g.ok <=> h.ok) /\ (g.ok => Card(g) = e)
  BY <1>1, <1>2, SteadySafe, Write
<1> HIDE DEF e
<1> QED
  BY <1>2, <1>3 DEF Held

\* A call begins with the card as it is.
LEMMA Begins ==
    ASSUME NEW c, Good(disk, c)
    PROVE  Clean(Begin, c) /\ Begin.ok /\ Card(Begin) = disk
<1>1. disk \in CardRecord /\ Safe(disk)
  BY GoodSafe DEF Good
<1>2. Begin.log = <<disk>> /\ Begin.ok = TRUE /\ Begin = [log |-> <<disk>>, ok |-> TRUE]
  BY DEF Begin
<1>3. <<disk>> \in Seq(CardRecord) /\ <<disk>> # <<>> /\ Len(<<disk>>) = 1 /\ DOMAIN <<disk>> = {1} /\ <<disk>>[1] = disk
  BY <1>1
<1>4. Begin \in Hist
  BY <1>2, <1>3 DEF Hist
<1>5. Card(Begin) = disk
  BY <1>2, <1>3 DEF Card
<1>6. \A n \in DOMAIN Begin.log : Safe(Begin.log[n])
  BY <1>1, <1>2, <1>3
<1> QED
  BY <1>2, <1>4, <1>5, <1>6 DEF Clean

LEMMA HeldBegin ==
    ASSUME NEW c, Good(disk, c), NEW i \in Regular(disk)
    PROVE  Held(Begin, disk.inode[i], c, i, disk)
<1>1. Clean(Begin, c) /\ Begin.ok /\ Card(Begin) = disk
  BY Begins
<1>2. disk \in CardRecord /\ i \in Inodes /\ disk.inode[i] \in InodeRecord
  BY CardParts DEF Good
<1>3. /\ WithInode(disk, i, disk.inode[i]) = disk /\ Extends(disk.inode[i], disk.inode[i])
      /\ SameTree(disk, disk)
  BY <1>2, Rewritten DEF Extends, SameFile, SameTree
<1> QED
  BY <1>1, <1>2, <1>3 DEF Held

\* The loop over the pages.
Moved(bs, o, d, b, page) ==
    [x \in 0 .. BLOCK_SIZE - 1 |->
        LET at == Unsigned(page * BLOCK_SIZE + x - o) + 1
        IN  IF at \in DOMAIN bs THEN bs[at] ELSE d.data[b][x]]

PageDone(x, i, o, bs, page) ==
    LET r == byte_locate(x.h, i, x.ino, page)
    IN  IF bs = <<>> THEN r
        ELSE [r EXCEPT !.h = sd_write(r.h, WithData(Card(r.h), r.id, Moved(bs, o, Card(r.h), r.id, page)))]

LEMMA TransferRounds ==
    ASSUME NEW i, NEW o, NEW n, NEW bs, NEW pages, pages = PagesOf(o, n), Len(pages) \in Nat
    PROVE  \E g : /\ g[0] = [h |-> Begin, ino |-> disk.inode[i], id |-> 0]
                  /\ \A k \in 0 .. Len(pages) - 1 : g[k + 1] = PageDone(g[k], i, o, bs, pages[k + 1])
                  /\ transfer(i, o, n, bs) = g[Len(pages)]
<1> DEFINE first == [h |-> Begin, ino |-> disk.inode[i], id |-> 0]
           Next1(x, k) == PageDone(x, i, o, bs, pages[k])
           Round(g, N) == g = [k \in 0 .. N |-> IF k = 0 THEN first ELSE Next1(g[k - 1], k)]
           A == {N \in Nat : \E g : Round(g, N)}
           h == CHOOSE g : Round(g, Len(pages))
<1>1. transfer(i, o, n, bs) = h[Len(pages)]
  BY DEF transfer, PageDone, Moved, WithData
<1> HIDE DEF Next1, first
<1>2. 0 \in A
  <2>1. Round([k \in 0 .. 0 |-> first], 0)
    OBVIOUS
  <2> QED
    BY <2>1
<1>3. ASSUME NEW N \in Nat, N \in A PROVE N + 1 \in A
  <2>1. PICK g : Round(g, N)
    BY <1>3
  <2> DEFINE f == [k \in 0 .. N + 1 |-> IF k = N + 1 THEN Next1(g[N], N + 1) ELSE g[k]]
  <2>2. \A k \in 0 .. N : f[k] = g[k] /\ g[k] = IF k = 0 THEN first ELSE Next1(g[k - 1], k)
    BY <2>1
  <2>3. f[N + 1] = Next1(g[N], N + 1)
    OBVIOUS
  <2>4. \A k \in 0 .. N + 1 : f[k] = IF k = 0 THEN first ELSE Next1(f[k - 1], k)
    <3> HIDE DEF f
    <3>1. ASSUME NEW k \in 0 .. N PROVE f[k] = IF k = 0 THEN first ELSE Next1(f[k - 1], k)
      <4>1. k # 0 => k - 1 \in 0 .. N
        OBVIOUS
      <4> QED
        BY <2>2, <4>1
    <3>2. f[N] = g[N] /\ (N + 1) - 1 = N /\ N + 1 # 0
      BY <2>2
    <3>3. f[N + 1] = Next1(f[(N + 1) - 1], N + 1)
      BY <2>3, <3>2
    <3> QED
      BY <3>1, <3>2, <3>3
  <2>5. f = [k \in 0 .. N + 1 |-> f[k]]
    OBVIOUS
  <2> HIDE DEF f
  <2>6. Round(f, N + 1)
    BY <2>4, <2>5
  <2> QED
    BY <2>6
<1>4. Len(pages) \in A
  <2> HIDE DEF A
  <2>1. \A N \in 0 .. Len(pages) - 1 : N \in A => N + 1 \in A
    BY <1>3
  <2>2. \A N \in 0 .. Len(pages) : N \in A
    BY <1>2, <2>1, Steps
  <2> QED
    BY <2>2
<1>5. Round(h, Len(pages))
  BY <1>4
<1> HIDE DEF h
<1>6. h[0] = first
  BY <1>5
<1>7. ASSUME NEW k \in 0 .. Len(pages) - 1 PROVE h[k + 1] = Next1(h[k], k + 1)
  <2>1. k + 1 \in 0 .. Len(pages) /\ k + 1 # 0 /\ (k + 1) - 1 = k
    OBVIOUS
  <2> QED
    BY <1>5, <2>1
<1> QED
  BY <1>1, <1>6, <1>7 DEF Next1, first

\* The pages of a transfer; one beyond the largest offset begins again with
\* the first page.
LEMMA PagesBounded ==
    ASSUME NEW o \in Nat, NEW n \in Nat \ {0}, NEW pages, pages = PagesOf(o, n)
    PROVE  /\ Len(pages) \in Nat
           /\ \A k \in 1 .. Len(pages) : pages[k] \in 0 .. MaxSize \div BLOCK_SIZE
<1> DEFINE B == BLOCK_SIZE
           last == o + n - 1
           low == o \div B
           high == last \div B
           m == high - low + 1
           M == MaxSize \div B
<1>1. B \in Nat \ {0} /\ MaxSize \in Nat
  BY FileSysAssumption
<1>2. last \in Nat /\ o <= last
  BY <1>1
<1> HIDE DEF last
<1>3. low \in Nat /\ high \in Nat /\ M \in Nat
  BY <1>1, <1>2
<1>4. low <= high
  BY <1>1, <1>2
<1>6. pages = [k \in 1 .. m |-> (low + k - 1) % (M + 1)]
  BY DEF PagesOf, last
<1> HIDE DEF low, high, M
<1>5. \A k \in 1 .. m : (low + k - 1) % (M + 1) \in 0 .. M
  <2> SUFFICES ASSUME NEW k \in 1 .. m PROVE (low + k - 1) % (M + 1) \in 0 .. M
    OBVIOUS
  <2>1. low + k - 1 \in Nat /\ M + 1 \in Nat \ {0}
    BY <1>3, <1>4
  <2>2. (low + k - 1) % (M + 1) \in 0 .. (M + 1) - 1
    BY <2>1, Remainder
  <2> QED
    BY <1>3, <2>2
<1>7. m \in Nat /\ pages \in [1 .. m -> 0 .. M]
  BY <1>3, <1>4, <1>5, <1>6
<1>8. pages \in Seq(0 .. M) /\ DOMAIN pages = 1 .. m
  BY <1>7, SeqDef
<1>9. Len(pages) = m
  BY <1>7, <1>8, LenProperties
<1> QED
  BY <1>7, <1>9 DEF M

LEMMA PageLocated ==
    ASSUME NEW c, NEW d0, NEW i \in Regular(d0), NEW x, Located(x, c, i, d0), NEW o, NEW bs \in Seq(Bytes),
           NEW page \in 0 .. MaxSize \div BLOCK_SIZE, NEW s, s = PageDone(x, i, o, bs, page)
    PROVE  Located(s, c, i, d0)
<1> DEFINE r == byte_locate(x.h, i, x.ino, page)
           d == Card(r.h)
           y == Moved(bs, o, d, r.id, page)
           g == sd_write(r.h, WithData(d, r.id, y))
<1>1. Located(r, c, i, d0)
  BY ByteLocate DEF Located
<1>2. CASE bs = <<>>
  <2>1. s = r
    BY <1>2 DEF PageDone
  <2> QED
    BY <1>1, <2>1
<1>3. CASE bs # <<>>
  <2>1. s = [r EXCEPT !.h = g]
    BY <1>3 DEF PageDone
  <2> HIDE DEF r
  <2>2. r = [h |-> r.h, ino |-> r.ino, id |-> r.id] /\ Held(r.h, r.ino, c, i, d0) /\ (r.h.ok => r.id \in Blocks)
    BY <1>1 DEF Located
  <2>3. r.h.ok => y \in [0 .. BLOCK_SIZE - 1 -> Bytes]
    <3>1. SUFFICES ASSUME r.h.ok PROVE y \in [0 .. BLOCK_SIZE - 1 -> Bytes]
      OBVIOUS
    <3>2. d \in CardRecord
      BY <2>2, CardType DEF Held, Clean
    <3> HIDE DEF d
    <3>3. d.data[r.id] \in [0 .. BLOCK_SIZE - 1 -> Bytes]
      BY <2>2, <3>1, <3>2, CardFields
    <3>4. \A at \in DOMAIN bs : bs[at] \in Bytes
      BY ElementOfSeq, LenProperties
    <3> QED
      BY <3>3, <3>4 DEF Moved
  <2> HIDE DEF y
  <2>4. Held(g, r.ino, c, i, d0) /\ (g.ok <=> r.h.ok)
    BY <2>2, <2>3, DataWritten, SMTT(40)
  <2> HIDE DEF g
  <2>5. s.h = g /\ s.ino = r.ino /\ s.id = r.id /\ s = [h |-> s.h, ino |-> s.ino, id |-> s.id]
    BY <2>1, <2>2
  <2> QED
    BY <2>2, <2>4, <2>5 DEF Located
<1> QED
  BY <1>2, <1>3

LEMMA Transfer ==
    ASSUME NEW c, Good(disk, c), NEW i \in Regular(disk), NEW o \in Nat, NEW n \in Nat \ {0},
           NEW bs \in Seq(Bytes), NEW r, r = transfer(i, o, n, bs)
    PROVE  Located(r, c, i, disk)
<1> DEFINE pages == PagesOf(o, n)
<1>1. Len(pages) \in Nat /\ \A k \in 1 .. Len(pages) : pages[k] \in 0 .. MaxSize \div BLOCK_SIZE
  BY PagesBounded
<1> HIDE DEF pages
<1>2. PICK g : /\ g[0] = [h |-> Begin, ino |-> disk.inode[i], id |-> 0]
               /\ \A k \in 0 .. Len(pages) - 1 : g[k + 1] = PageDone(g[k], i, o, bs, pages[k + 1])
               /\ r = g[Len(pages)]
  BY <1>1, TransferRounds, SMTT(40) DEF pages
<1> DEFINE A == {k \in 0 .. Len(pages) : Located(g[k], c, i, disk)}
<1>3. 0 \in A
  <2>1. Held(Begin, disk.inode[i], c, i, disk)
    BY HeldBegin
  <2>2. Located(g[0], c, i, disk)
    BY <1>2, <2>1, Sizes DEF Located
  <2> QED
    BY <1>1, <2>2
<1>4. ASSUME NEW k \in 0 .. Len(pages) - 1, k \in A PROVE k + 1 \in A
  <2>1. k + 1 \in 1 .. Len(pages) /\ Located(g[k], c, i, disk)
    BY <1>1, <1>4
  <2>2. pages[k + 1] \in 0 .. MaxSize \div BLOCK_SIZE /\ g[k + 1] = PageDone(g[k], i, o, bs, pages[k + 1])
    BY <1>1, <1>2, <1>4, <2>1
  <2>3. Located(g[k + 1], c, i, disk)
    BY <2>1, <2>2, PageLocated
  <2> QED
    BY <1>1, <2>1, <2>3
<1>5. Len(pages) \in A
  <2> HIDE DEF A
  <2>1. \A k \in 0 .. Len(pages) - 1 : k \in A => k + 1 \in A
    BY <1>4
  <2>2. \A k \in 0 .. Len(pages) : k \in A
    BY <1>1, <1>3, <2>1, Steps
  <2> QED
    BY <1>1, <2>2
<1> QED
  BY <1>2, <1>5

\* What a read returns.
LEMMA BlockOfTyped ==
    ASSUME NEW d \in CardRecord, NEW ino \in InodeRecord, NEW page \in 0 .. MaxSize \div BLOCK_SIZE
    PROVE  BlockOf(d, ino, page) \in Blocks
<1> DEFINE p1 == Page1(page)
           p2 == Page2(page)
           F == FIRST_BLOCK_SIZE
           index(b, k) == IF b = 0 THEN 0 ELSE d.index[b][k]
<1>1. BlockOf(d, ino, page) =
        IF p1 < 0 THEN ino.direct[page]
        ELSE IF p2 < 0 THEN index(ino.first[p1 \div F], p1 % F)
        ELSE index(index(ino.second[p2 \div Square], (p2 % Square) \div F), p2 % F)
  BY DEF BlockOf, Page1, Page2, Square
<1>2. /\ p1 < 0 => page \in 0 .. DIRECT_SIZE - 1
      /\ ~(p1 < 0) /\ p2 < 0 => p1 \div F \in 0 .. FIRST_BLOCK_NUM - 1 /\ p1 % F \in 0 .. F - 1
      /\ ~(p1 < 0) /\ ~(p2 < 0) =>
           p2 \div Square \in 0 .. SECOND_BLOCK_NUM - 1 /\ (p2 % Square) \div F \in 0 .. F - 1 /\ p2 % F \in 0 .. F - 1
  BY PageRange
<1>3. \A b \in Blocks, k \in 0 .. F - 1 : index(b, k) \in Blocks
  <2>1. d.index \in [Blocks -> [0 .. F - 1 -> Blocks]] /\ 0 \in Blocks
    BY CardFields, Sizes
  <2> QED
    BY <2>1
<1>4. /\ ino.direct \in [0 .. DIRECT_SIZE - 1 -> Blocks] /\ ino.first \in [0 .. FIRST_BLOCK_NUM - 1 -> Blocks]
      /\ ino.second \in [0 .. SECOND_BLOCK_NUM - 1 -> Blocks]
  BY DEF InodeRecord
<1> HIDE DEF p1, p2, F, index
<1>5. CASE p1 < 0
  BY <1>1, <1>2, <1>4, <1>5
<1>6. CASE ~(p1 < 0) /\ p2 < 0
  BY <1>1, <1>2, <1>3, <1>4, <1>6, ZenonT(60)
<1>7. CASE ~(p1 < 0) /\ ~(p2 < 0)
  <2>1. ino.second[p2 \div Square] \in Blocks
    BY <1>2, <1>4, <1>7
  <2> QED
    BY <1>1, <1>2, <1>3, <1>7, <2>1
<1> QED
  BY <1>5, <1>6, <1>7

LEMMA ByteTyped ==
    ASSUME NEW d \in CardRecord, NEW ino \in InodeRecord, NEW o \in Nat, o <= MaxSize
    PROVE  ByteAt(d, ino, o) \in Bytes
<1> DEFINE page == o \div BLOCK_SIZE
           b == BlockOf(d, ino, page)
<1>1. BLOCK_SIZE \in Nat \ {0} /\ MaxSize \in Nat
  BY FileSysAssumption
<1>2. page \in Nat /\ page <= MaxSize \div BLOCK_SIZE /\ MaxSize \div BLOCK_SIZE \in Nat
  BY <1>1
<1> HIDE DEF page
<1>3. b \in Blocks
  BY <1>2, BlockOfTyped
<1>4. o % BLOCK_SIZE \in 0 .. BLOCK_SIZE - 1
  BY <1>1, Remainder
<1>5. ByteAt(d, ino, o) = IF b = 0 THEN 0 ELSE d.data[b][o % BLOCK_SIZE]
  BY DEF ByteAt, page
<1> HIDE DEF b
<1>6. d.data \in [Blocks -> [0 .. BLOCK_SIZE - 1 -> Bytes]] /\ 0 \in Bytes
  BY CardFields, Sizes
<1>7. d.data[b][o % BLOCK_SIZE] \in Bytes
  BY <1>3, <1>4, <1>6
<1> QED
  BY <1>5, <1>6, <1>7

\* A file grows up to MaxSize.
LEMMA GrownHeld ==
    ASSUME NEW c, NEW d0, NEW i \in Regular(d0), NEW h, NEW ino, Held(h, ino, c, i, d0),
           NEW end \in 0 .. MaxSize, NEW new, new = grown(ino, end)
    PROVE  Held(h, new, c, i, d0)
<1> DEFINE d == Card(h)
           v == WithInode(d, i, ino)
           w == WithInode(d, i, new)
<1>1. SUFFICES ASSUME h.ok
               PROVE  /\ new \in InodeRecord /\ Extends(new, d.inode[i])
                      /\ Good(w, c) /\ SameTree(w, d0)
  BY DEF Held
<1>2. /\ i \in Inodes /\ d \in CardRecord /\ Good(v, c) /\ i \in Live(v) /\ ino \in InodeRecord
      /\ v.inode[i] = ino /\ SameButInode(v, d, i) /\ v \in CardRecord
      /\ Extends(ino, d.inode[i]) /\ SameTree(v, d0)
  BY <1>1, HeldCard
<1> HIDE DEF d, v
<1>3. v.inode_map \subseteq Inodes /\ \A j \in Regular(v) : j \in Inodes /\ v.inode[j].size <= MaxSize
  BY <1>2, CardFields, CardParts DEF Good, Tree, InodesOK
<1>4. ino.size \in Nat /\ ino.size <= MaxSize /\ MaxSize \in Nat /\ end \in Nat /\ end <= MaxSize
  <2>1. i \in Regular(v)
    BY <1>2 DEF SameTree
  <2>2. ino.size <= MaxSize
    BY <1>2, <1>3, <2>1
  <2>3. ino.size \in Nat
    BY <1>2 DEF InodeRecord
  <2>4. MaxSize \in Nat
    BY FileSysAssumption
  <2> QED
    BY <2>2, <2>3, <2>4
<1> DEFINE size == IF ino.size < end THEN end ELSE ino.size
<1>5. size \in Nat /\ size <= MaxSize /\ new = [ino EXCEPT !.size = size]
  BY <1>4 DEF grown
<1> HIDE DEF size
<1>6. /\ new \in InodeRecord /\ SameFile(new, ino) /\ new.direct = ino.direct /\ new.first = ino.first
      /\ new.second = ino.second /\ new.size <= MaxSize
  BY <1>2, <1>5 DEF InodeRecord, SameFile
<1>7. Extends(new, d.inode[i])
  BY <1>2, <1>6 DEF Extends, SameFile
<1>8. /\ w \in CardRecord /\ w.inode_map = d.inode_map /\ w.block_map = d.block_map
      /\ w.dentry = d.dentry /\ w.index = d.index
      /\ w.inode[i] = new /\ \A j \in Inodes : j # i => w.inode[j] = d.inode[j]
  BY <1>2, <1>6, SetInode, SMTT(40)
<1> HIDE DEF w
<1>9. /\ w.inode_map = v.inode_map /\ w.block_map = v.block_map /\ w.dentry = v.dentry /\ w.index = v.index
      /\ \A j \in Inodes : j # i => w.inode[j] = v.inode[j]
  BY <1>2, <1>8 DEF SameButInode
<1>10. ASSUME NEW j \in v.inode_map
       PROVE  /\ SameFile(w.inode[j], v.inode[j]) /\ w.inode[j].direct = v.inode[j].direct
              /\ w.inode[j].first = v.inode[j].first /\ w.inode[j].second = v.inode[j].second
  <2>1. CASE j = i
    BY <1>2, <1>6, <1>8, <2>1
  <2>2. CASE j # i
    BY <1>3, <1>9, <2>2 DEF SameFile
  <2> QED
    BY <2>1, <2>2
<1>11. \A j \in Inodes : j \notin v.inode_map => w.inode[j] = v.inode[j]
  BY <1>2, <1>9, CardParts
<1>12. \A j \in Regular(v) : w.inode[j].size <= MaxSize
  BY <1>3, <1>6, <1>8, <1>9
<1>13. Good(w, c) /\ SameTree(w, v)
  BY <1>2, <1>8, <1>9, <1>10, <1>11, <1>12, GoodFrame
<1> QED
  BY <1>2, <1>6, <1>7, <1>13, SameTreeTwice

-----------------------------------------------------------------------------
(* The invariant *)

\* What a call does to the names, unless the machine goes down.
NamesStep == ~crashed /\ (crashed' \/ disk' = Card(mkfs(Begin)) \/ OneChange(disk, disk'))

LEMMA Unchanged ==
    ASSUME NEW d
    PROVE  OneChange(d, d)
BY DEF OneChange, OnlyName

\* A call that returns, and a crash.
LEMMA Returned ==
    ASSUME FInv, ~crashed, NEW h, NEW newcwd, NEW newfdesc, NEW newout,
           Returns(h, newcwd, newfdesc, newout),
           Clean(h, scenario), h.ok => Good(Card(h), scenario) /\ newcwd \in Dirs(Card(h)),
           newfdesc \in [Fdescs -> FdescRecord],
           h.ok => \A f \in Fdescs : newfdesc[f].open => newfdesc[f].inode_id \in Regular(Card(h)),
           h.ok => \A k \in DOMAIN newout : newout[k] \in Bytes,
           h.ok => Card(h) = Card(mkfs(Begin)) \/ OneChange(disk, Card(h))
    PROVE  FInv' /\ NamesStep
<1>1. /\ h.ok /\ disk' = Card(h) /\ cwd' = newcwd /\ fdesc' = newfdesc /\ out' = newout
      /\ scenario' = scenario /\ crashed' = crashed
  BY DEF Returns
<1>2. Card(h) \in CardRecord /\ newcwd \in Inodes
  BY <1>1, CardParts DEF Good
<1>3. TypeOK'
  BY <1>1, <1>2 DEF TypeOK, FInv
<1>4. Good(disk', scenario') /\ cwd' \in Dirs(disk')
  BY <1>1
<1>5. FilesOpen'
  BY <1>1 DEF FilesOpen
<1> QED
  BY <1>1, <1>3, <1>4, <1>5 DEF FInv, NamesStep

LEMMA ClosedTyped ==
    /\ Closed \in [Fdescs -> FdescRecord] /\ \A f \in Fdescs : ~Closed[f].open
    /\ NoFdesc \in FdescRecord /\ ~NoFdesc.open
<1>1. NoFdesc \in FdescRecord /\ ~NoFdesc.open
  BY Sizes, FileSysAssumption DEF NoFdesc, FdescRecord, Root
<1> QED
  BY <1>1 DEF Closed

LEMMA Crashed ==
    ASSUME FInv, ~crashed, NEW h, Crashes(h), Clean(h, scenario)
    PROVE  FInv' /\ NamesStep
<1>1. /\ "crash" \in scenario /\ cwd' = Root /\ fdesc' = Closed /\ out' = <<>> /\ crashed' = TRUE
      /\ scenario' = scenario
  BY DEF Crashes
<1>2. PICK n \in DOMAIN h.log : disk' = h.log[n]
  BY DEF Crashes
<1>3. Safe(disk')
  BY <1>1, <1>2 DEF Clean
<1>4. disk' \in CardRecord
  <2>1. h.log \in Seq(CardRecord)
    BY DEF Clean, Hist
  <2> QED
    BY <1>2, <2>1, LenProperties, ElementOfSeq
<1>5. TypeOK'
  <2>1. \A k \in DOMAIN <<>> : <<>>[k] \in Bytes
    OBVIOUS
  <2> QED
    BY <1>1, <1>4, <2>1, Sizes, ClosedTyped DEF TypeOK, FInv
<1> QED
  BY <1>1, <1>3, <1>5 DEF FInv, NamesStep

\* A call that changes no descriptor.
LEMMA Ended ==
    ASSUME FInv, ~crashed, NEW h, Ends(h), Clean(h, scenario),
           h.ok => Good(Card(h), scenario) /\ cwd \in Dirs(Card(h)),
           h.ok => \A f \in Fdescs : fdesc[f].open => fdesc[f].inode_id \in Regular(Card(h)),
           h.ok => OneChange(disk, Card(h))
    PROVE  FInv' /\ NamesStep
<1>1. CASE Crashes(h)
  BY <1>1, Crashed
<1>2. CASE Returns(h, cwd, fdesc, <<>>)
  <2>1. fdesc \in [Fdescs -> FdescRecord] /\ \A k \in DOMAIN <<>> : <<>>[k] \in Bytes
    BY DEF FInv, TypeOK
  <2> QED
    BY <1>2, <2>1, Returned
<1> QED
  BY <1>1, <1>2 DEF Ends

\* Between two calls.
LEMMA Between ==
    ASSUME FInv, ~crashed
    PROVE  /\ Good(disk, scenario) /\ disk \in CardRecord /\ cwd \in Dirs(disk) /\ cwd \in Inodes
           /\ fdesc \in [Fdescs -> FdescRecord] /\ scenario \in Scenarios
           /\ Clean(Begin, scenario) /\ Begin.ok /\ Card(Begin) = disk
           /\ \A f \in Fdescs : fdesc[f].open => fdesc[f].inode_id \in Regular(disk)
           /\ \A i \in Dirs(disk) : DirOK(disk, i)
           /\ \A i \in Live(disk) : i \in disk.inode_map /\ disk.inode[i].inode_id = i
           /\ \A i \in Regular(disk) : disk.inode[i].file_num = 0
<1>1. Good(disk, scenario) /\ cwd \in Dirs(disk) /\ FilesOpen /\ TypeOK
  BY DEF FInv
<1>2. Clean(Begin, scenario) /\ Begin.ok /\ Card(Begin) = disk
  BY <1>1, Begins
<1>3. disk \in CardRecord /\ Tree(disk) /\ InodesOK(disk)
  BY <1>1 DEF Good, Tree
<1>4. \A i \in Live(disk) : i \in disk.inode_map
  BY <1>3, CardParts
<1> QED
  BY <1>1, <1>2, <1>3, <1>4 DEF FilesOpen, TypeOK, Tree, InodesOK

\* The programs do nothing that fs.c does not expect.
LEMMA Behaves ==
    ASSUME ProgramsBehave, FInv
    PROVE  /\ ~May("unlink") /\ ~May("ln_dir") /\ ~May("rmdir_dots") /\ ~May("rmdir_cwd")
           /\ ~May("not_dir") /\ ~May("rm_open") /\ ~May("mkfs_open")
<1>1. scenario \in Scenarios
  BY DEF FInv, TypeOK
<1>2. scenario \cap Misuses \subseteq {"past_end"}
  BY <1>1 DEF ProgramsBehave
<1> QED
  BY <1>2 DEF May, Misuses

\* A path leads to a directory.
LEMMA PathLength ==
    ASSUME NEW dirs \in Paths
    PROVE  Len(dirs) \in Nat
<1>1. PICK n \in 0 .. MaxDepth : dirs \in [1 .. n -> Given \cup {".."}]
  BY DEF Paths
<1>2. n \in Nat
  BY FileSysAssumption
<1>3. dirs \in Seq(Given \cup {".."})
  BY <1>1, <1>2, SeqDef
<1> QED
  BY <1>3, LenProperties

LEMMA FoundDir ==
    ASSUME ProgramsBehave, FInv, ~crashed, NEW dirs \in Paths, NEW dir, dir = Walk(disk, dirs), Found(dir)
    PROVE  dir \in Dirs(disk) /\ Counted(disk, dir)
<1>1. Good(disk, scenario) /\ disk \in CardRecord /\ cwd \in Inodes /\ \A i \in Dirs(disk) : DirOK(disk, i)
  BY Between
<1>2. dir \in Inodes /\ disk.inode[dir].type = D_DIR
  <2>1. Len(dirs) \in Nat
    BY PathLength
  <2> QED
    BY <1>1, <2>1, WalkTyped, Behaves DEF Found
<1>3. dir \in disk.inode_map
  <2>1. NoInode.type = Unused
    BY DEF NoInode
  <2> QED
    BY <1>1, <1>2, <2>1, Bits DEF Good, Tree, InodesOK
<1> QED
  BY <1>1, <1>2, <1>3 DEF Dirs, DirOK

\* The entry of a name that was found; "." and ".." lead to directories.
LEMMA FoundEntry ==
    ASSUME FInv, ~crashed, NEW dir \in Dirs(disk), NEW name, NEW mask,
           NEW id, id = search_dentry(disk, dir, name, mask), id # None
    PROVE  \E k \in Used(disk, dir) :
              /\ Target(disk, dir, k) = id /\ DirBlock(disk, dir)[k].name = name
              /\ DirBlock(disk, dir)[k].type \cap mask # {}
              /\ k \in Entries(disk, dir) => EntryOK(disk, dir, k)
              /\ k \notin Entries(disk, dir) =>
                    name \in {".", ".."} /\ DirBlock(disk, dir)[k].type = D_DIR /\ id \in Dirs(disk)
<1>1. disk \in CardRecord /\ DirOK(disk, dir) /\ Counted(disk, dir) /\ DotsOK(disk, dir)
  BY Between DEF DirOK
<1>2. FoundAs(disk, dir, name, mask, id)
  BY <1>1, Searched
<1>3. PICK k \in Used(disk, dir) : /\ Target(disk, dir, k) = id /\ DirBlock(disk, dir)[k].name = name
                                   /\ DirBlock(disk, dir)[k].type \cap mask # {}
  BY <1>2 DEF FoundAs
<1>4. ASSUME k \notin Entries(disk, dir)
      PROVE  name \in {".", ".."} /\ DirBlock(disk, dir)[k].type = D_DIR /\ id \in Dirs(disk)
  <2>1. k = 0 \/ k = 1
    BY <1>3, <1>4 DEF Entries
  <2>2. CASE k = 0
    BY <1>1, <1>3, <2>2 DEF DotsOK, Target
  <2>3. CASE k = 1
    BY <1>1, <1>3, <2>3 DEF DotsOK
  <2> QED
    BY <2>1, <2>2, <2>3
<1>5. k \in Entries(disk, dir) => EntryOK(disk, dir, k)
  BY <1>1 DEF DirOK
<1> QED
  BY <1>3, <1>4, <1>5

\* With a mask for files it is not one of those two.
LEMMA FoundFile ==
    ASSUME FInv, ~crashed, NEW dir \in Dirs(disk), NEW name,
           NEW id, id = search_dentry(disk, dir, name, D_FILE), id # None
    PROVE  \E k \in Entries(disk, dir) :
              /\ Target(disk, dir, k) = id /\ DirBlock(disk, dir)[k].name = name
              /\ EntryOK(disk, dir, k) /\ id \in Regular(disk)
<1>1. PICK k \in Used(disk, dir) :
              /\ Target(disk, dir, k) = id /\ DirBlock(disk, dir)[k].name = name
              /\ DirBlock(disk, dir)[k].type \cap D_FILE # {}
              /\ k \in Entries(disk, dir) => EntryOK(disk, dir, k)
              /\ k \notin Entries(disk, dir) => DirBlock(disk, dir)[k].type = D_DIR
  BY FoundEntry
<1>2. k \in Entries(disk, dir)
  BY <1>1, Bits
<1>3. id \in Regular(disk)
  BY <1>1, <1>2, Bits DEF EntryOK
<1> QED
  BY <1>1, <1>2, <1>3

\* One lemma for each call.
LEMMA MkfsStep ==
    ASSUME ProgramsBehave, FInv, do_mkfs
    PROVE  FInv' /\ NamesStep
<1> DEFINE g == mkfs(Begin)
<1>1. ~crashed /\ "mkfs" \in scenario /\ fdesc = Closed /\ Returns(g, Root, fdesc, <<>>)
  BY Behaves DEF do_mkfs, Calls
<1>2. /\ scenario \in Scenarios /\ Clean(Begin, scenario) /\ Begin.ok
      /\ fdesc \in [Fdescs -> FdescRecord]
  BY <1>1, Between
<1>3. "crash" \notin scenario
  BY <1>1, <1>2 DEF ProgramsBehave
<1>4. g \in Hist /\ g.ok /\ Good(Card(g), scenario)
  BY <1>2, <1>3, MkfsSteps DEF Clean
<1> HIDE DEF g
<1>5. Clean(g, scenario) /\ Root \in Dirs(Card(g))
  BY <1>3, <1>4 DEF Clean, Good, Tree, InodesOK
<1>6. \A f \in Fdescs : ~fdesc[f].open
  BY <1>1, ClosedTyped
<1>7. \A k \in DOMAIN <<>> : <<>>[k] \in Bytes
  OBVIOUS
<1>8. Card(g) = Card(mkfs(Begin))
  BY DEF g
<1> QED
  BY <1>1, <1>2, <1>4, <1>5, <1>6, <1>7, <1>8, Returned

LEMMA CdStep ==
    ASSUME ProgramsBehave, FInv, NEW dirs \in Paths, do_cd(dirs)
    PROVE  FInv' /\ NamesStep
<1> DEFINE dir == Walk(disk, dirs)
<1>1. ~crashed /\ Found(dir) /\ Returns(Begin, disk.inode[dir].inode_id, fdesc, <<>>)
  BY DEF do_cd, Calls
<1> HIDE DEF dir
<1>2. dir \in Dirs(disk)
  BY <1>1, FoundDir DEF dir
<1>3. /\ fdesc \in [Fdescs -> FdescRecord] /\ Clean(Begin, scenario) /\ Card(Begin) = disk
      /\ Good(disk, scenario) /\ disk.inode[dir].inode_id = dir
      /\ \A f \in Fdescs : fdesc[f].open => fdesc[f].inode_id \in Regular(disk)
  BY <1>1, <1>2, Between DEF Live
<1>4. \A k \in DOMAIN <<>> : <<>>[k] \in Bytes
  OBVIOUS
<1> QED
  BY <1>1, <1>2, <1>3, <1>4, Unchanged, Returned

\* The history of a call that creates a directory or a file.
LEMMA NewName ==
    ASSUME FInv, ~crashed, NEW dir \in Dirs(disk), NEW name \in Names
    PROVE  /\ search_dentry(disk, dir, name, D_DIR) = None =>
                CreateDone(mkdir(Begin, dir, name), disk, scenario, new_inode(Begin), D_DIR)
           /\ search_dentry(disk, dir, name, D_FILE) = None =>
                CreateDone(touch(Begin, dir, name), disk, scenario, new_inode(Begin), D_FILE)
<1>1. /\ disk \in CardRecord /\ Good(disk, scenario) /\ Clean(Begin, scenario) /\ disk = Card(Begin)
      /\ Counted(disk, dir)
  BY Between DEF DirOK
<1> DEFINE id == new_inode(Begin)
           g(t) == create_dentry(alloc_inode(Begin), dir, id, name, t)
           b(t) == new_block(g(t))
           g2(t) == create_inode(alloc_block(g(t)), id, b(t), t)
           g3(t) == IF t = D_DIR THEN create_dir_block(g2(t), b(t), dir, id) ELSE zero_block(g2(t), b(t))
<1>2. mkdir(Begin, dir, name) = g3(D_DIR)
  BY DEF mkdir
<1>3. touch(Begin, dir, name) = g3(D_FILE)
  BY Bits DEF touch
<1>4. ASSUME NEW t \in {D_DIR, D_FILE}, search_dentry(disk, dir, name, t) = None
      PROVE  CreateDone(g3(t), disk, scenario, id, t)
  <2>1. Untaken(disk, dir, name, t)
    BY <1>1, <1>4, Searched
  <2>2. id = new_inode(Begin) /\ g(t) = create_dentry(alloc_inode(Begin), dir, id, name, t)
    OBVIOUS
  <2>3. b(t) = new_block(g(t)) /\ g2(t) = create_inode(alloc_block(g(t)), id, b(t), t)
    OBVIOUS
  <2>4. g3(t) = IF t = D_DIR THEN create_dir_block(g2(t), b(t), dir, id) ELSE zero_block(g2(t), b(t))
    OBVIOUS
  <2> HIDE DEF id, g, b, g2, g3
  <2> QED
    BY <1>1, <2>1, <2>2, <2>3, <2>4, CreateSteps
<1> HIDE DEF g3
<1> QED
  BY <1>2, <1>3, <1>4

LEMMA MkdirStep ==
    ASSUME ProgramsBehave, FInv, NEW dirs \in Paths, NEW name \in Names, do_mkdir(dirs, name)
    PROVE  FInv' /\ NamesStep
<1> DEFINE dir == Walk(disk, dirs)
           h == mkdir(Begin, dir, name)
<1>1. ~crashed /\ Found(dir) /\ search_dentry(disk, dir, name, D_DIR) = None /\ Ends(h)
  BY DEF do_mkdir, Calls
<1> HIDE DEF dir
<1>2. dir \in Dirs(disk)
  BY <1>1, FoundDir DEF dir
<1>3. CreateDone(h, disk, scenario, new_inode(Begin), D_DIR)
  BY <1>1, <1>2, NewName
<1>4. cwd \in Dirs(disk) /\ \A f \in Fdescs : fdesc[f].open => fdesc[f].inode_id \in Regular(disk)
  BY <1>1, Between
<1> HIDE DEF h
<1>5. /\ Clean(h, scenario) /\ (h.ok => Good(Card(h), scenario) /\ cwd \in Dirs(Card(h)))
      /\ h.ok => \A f \in Fdescs : fdesc[f].open => fdesc[f].inode_id \in Regular(Card(h))
      /\ h.ok => OneChange(disk, Card(h))
  BY <1>3, <1>4 DEF CreateDone
<1> QED
  BY <1>1, <1>5, Ended

LEMMA TouchStep ==
    ASSUME ProgramsBehave, FInv, NEW dirs \in Paths, NEW name \in Names, do_touch(dirs, name)
    PROVE  FInv' /\ NamesStep
<1> DEFINE dir == Walk(disk, dirs)
           h == touch(Begin, dir, name)
<1>1. ~crashed /\ Found(dir) /\ search_dentry(disk, dir, name, D_FILE) = None /\ Ends(h)
  BY DEF do_touch, Calls
<1> HIDE DEF dir
<1>2. dir \in Dirs(disk)
  BY <1>1, FoundDir DEF dir
<1>3. CreateDone(h, disk, scenario, new_inode(Begin), D_FILE)
  BY <1>1, <1>2, NewName
<1>4. cwd \in Dirs(disk) /\ \A f \in Fdescs : fdesc[f].open => fdesc[f].inode_id \in Regular(disk)
  BY <1>1, Between
<1> HIDE DEF h
<1>5. /\ Clean(h, scenario) /\ (h.ok => Good(Card(h), scenario) /\ cwd \in Dirs(Card(h)))
      /\ h.ok => \A f \in Fdescs : fdesc[f].open => fdesc[f].inode_id \in Regular(Card(h))
      /\ h.ok => OneChange(disk, Card(h))
  BY <1>3, <1>4 DEF CreateDone
<1> QED
  BY <1>1, <1>5, Ended

LEMMA RmdirStep ==
    ASSUME ProgramsBehave, FInv, NEW dirs \in Paths, NEW name \in Names, do_rmdir(dirs, name)
    PROVE  FInv' /\ NamesStep /\ (crashed' \/ OnlyName(disk, disk', Walk(disk, dirs), name))
<1> DEFINE dir == Walk(disk, dirs)
           id == search_dentry(disk, dir, name, D_DIR)
           isdir == disk.inode[id].type = D_DIR
           h == destroy(assert(delete_dentry(Begin, dir, id), isdir), id)
<1>1. ~crashed /\ Found(dir) /\ id # None /\ id # cwd /\ Deletable(disk, id) /\ Ends(h) /\ name \notin {".", ".."}
  BY Behaves DEF do_rmdir, Calls
<1> HIDE DEF dir
<1>2. dir \in Dirs(disk)
  BY <1>1, FoundDir DEF dir
<1>3. PICK k \in Entries(disk, dir) : /\ Target(disk, dir, k) = id /\ EntryOK(disk, dir, k)
                                      /\ DirBlock(disk, dir)[k].name = name
  BY <1>1, <1>2, FoundEntry
<1> HIDE DEF id
<1>4. /\ Good(disk, scenario) /\ disk \in CardRecord /\ Clean(Begin, scenario) /\ Begin.ok /\ Card(Begin) = disk
      /\ cwd \in Dirs(disk) /\ \A f \in Fdescs : fdesc[f].open => fdesc[f].inode_id \in Regular(disk)
      /\ \A i \in Regular(disk) : disk.inode[i].file_num = 0
  BY <1>1, Between
<1>5. id \in Dirs(disk) /\ id \notin Regular(disk)
  <2>1. id \notin Regular(disk)
    BY <1>1, <1>4 DEF Deletable
  <2> QED
    BY <1>3, <2>1 DEF EntryOK
<1>6. Victim(disk, dir, k, id) /\ isdir = TRUE
  BY <1>1, <1>3, <1>5 DEF Victim, Dirs
<1> HIDE DEF isdir
<1>7. RemoveDone(h, disk, scenario, dir, name, id)
  BY <1>2, <1>3, <1>4, <1>6, RemoveSteps
<1> HIDE DEF h
<1>8. /\ Clean(h, scenario) /\ (h.ok => Good(Card(h), scenario) /\ cwd \in Dirs(Card(h)))
      /\ h.ok => \A f \in Fdescs : fdesc[f].open => fdesc[f].inode_id \in Regular(Card(h))
      /\ h.ok => OneChange(disk, Card(h))
  BY <1>1, <1>4, <1>5, <1>7 DEF RemoveDone
<1>9. crashed' \/ OnlyName(disk, disk', dir, name)
  BY <1>1, <1>7 DEF Ends, Returns, Crashes, RemoveDone
<1> QED
  BY <1>1, <1>8, <1>9, Ended DEF dir

LEMMA RmStep ==
    ASSUME ProgramsBehave, FInv, NEW dirs \in Paths, NEW name \in Names, do_rm(dirs, name)
    PROVE  FInv' /\ NamesStep /\ (crashed' \/ OnlyName(disk, disk', Walk(disk, dirs), name))
<1> DEFINE dir == Walk(disk, dirs)
           id == search_dentry(disk, dir, name, D_FILE)
           isfile == disk.inode[id].type = D_FILE
           g == delete_dentry(Begin, dir, id)
           h == destroy(assert(g, isfile), id)
<1>1. /\ ~crashed /\ Found(dir) /\ id # None
      /\ disk.inode[id].links_count = 1
      /\ \A f \in Fdescs : fdesc[f].open => fdesc[f].inode_id # id
      /\ Ends(h)
  BY Behaves DEF do_rm, Calls
<1>2. dir \in Dirs(disk)
  <2> HIDE DEF dir
  <2> QED BY <1>1, FoundDir DEF dir
<1> HIDE DEF dir
<1>3. PICK k \in Entries(disk, dir) : /\ Target(disk, dir, k) = id /\ id \in Regular(disk)
                                      /\ DirBlock(disk, dir)[k].name = name
  BY <1>1, <1>2, FoundFile
<1> HIDE DEF id
<1>4. /\ Good(disk, scenario) /\ disk \in CardRecord /\ Clean(Begin, scenario) /\ Begin.ok /\ Card(Begin) = disk
      /\ cwd \in Dirs(disk) /\ \A f \in Fdescs : fdesc[f].open => fdesc[f].inode_id \in Regular(disk)
  BY <1>1, Between
<1>5. id \notin Dirs(disk)
  BY <1>3, <1>4, CardParts
<1>6. Victim(disk, dir, k, id) /\ isfile = TRUE
  BY <1>1, <1>3 DEF Victim, Regular
<1> HIDE DEF isfile
<1>7. RemoveDone(h, disk, scenario, dir, name, id)
  BY <1>2, <1>3, <1>4, <1>6, RemoveSteps
<1> HIDE DEF h
<1>8. /\ Clean(h, scenario) /\ (h.ok => Good(Card(h), scenario) /\ cwd \in Dirs(Card(h)))
      /\ h.ok => \A f \in Fdescs : fdesc[f].open => fdesc[f].inode_id \in Regular(Card(h))
      /\ h.ok => OneChange(disk, Card(h))
  BY <1>1, <1>4, <1>5, <1>7 DEF RemoveDone
<1>9. crashed' \/ OnlyName(disk, disk', dir, name)
  BY <1>1, <1>7 DEF Ends, Returns, Crashes, RemoveDone
<1> QED
  BY <1>1, <1>8, <1>9, Ended DEF dir

LEMMA LnStep ==
    ASSUME ProgramsBehave, FInv, NEW src \in Paths, NEW srcname \in Names, NEW dst \in Paths, NEW name \in Names,
           do_ln(src, srcname, dst, name)
    PROVE  FInv' /\ NamesStep
<1> DEFINE from == Walk(disk, src)
           id == search_dentry(disk, from, srcname, D_LINK)
           dir == Walk(disk, dst)
           linked == [disk.inode[id] EXCEPT !.links_count = (@ + 1) % UMOD]
           h == create_dentry(write_inode(Begin, id, linked), dir, id, name, D_LINK)
<1>1. /\ ~crashed /\ Found(from) /\ Found(dir) /\ id # None /\ disk.inode[id].type = D_FILE
      /\ disk.inode[id].links_count < UMOD - 1
      /\ search_dentry(disk, dir, name, D_LINK) = None /\ Ends(h)
  BY Behaves DEF do_ln, Calls
<1>2. from \in Dirs(disk) /\ dir \in Dirs(disk) /\ Counted(disk, dir)
  <2> HIDE DEF dir, from
  <2> QED BY <1>1, FoundDir DEF dir, from
<1> HIDE DEF dir, from
<1>3. id \in Live(disk)
  BY <1>1, <1>2, FoundEntry DEF EntryOK, Live
<1> HIDE DEF id
<1>4. /\ Good(disk, scenario) /\ disk \in CardRecord /\ Clean(Begin, scenario) /\ Begin.ok /\ disk = Card(Begin)
      /\ cwd \in Dirs(disk) /\ \A f \in Fdescs : fdesc[f].open => fdesc[f].inode_id \in Regular(disk)
  BY <1>1, Between
<1>5. id \in Regular(disk)
  BY <1>1, <1>3, Bits DEF Live, Dirs, Regular
<1>9. linked = [disk.inode[id] EXCEPT !.links_count = @ + 1]
  <2>1. disk.inode[id].links_count \in 0 .. UMOD - 1
    BY <1>4, <1>5, CardParts DEF InodeRecord
  <2>2. (disk.inode[id].links_count + 1) % UMOD = disk.inode[id].links_count + 1
    BY <1>1, <2>1, BelowModulus
  <2> QED
    BY <2>2
<1> HIDE DEF linked
<1>6. Untaken(disk, dir, name, D_LINK)
  BY <1>1, <1>2, <1>4, Searched
<1>7. KeepsTree(h, disk, scenario)
  BY <1>1, <1>2, <1>4, <1>5, <1>6, <1>9, LinkSteps
<1> HIDE DEF h
<1>8. /\ Clean(h, scenario) /\ (h.ok => Good(Card(h), scenario) /\ cwd \in Dirs(Card(h)))
      /\ h.ok => \A f \in Fdescs : fdesc[f].open => fdesc[f].inode_id \in Regular(Card(h))
      /\ h.ok => OneChange(disk, Card(h))
  BY <1>4, <1>7 DEF KeepsTree
<1> QED
  BY <1>1, <1>8, Ended

\* The descriptor that do_fopen takes, or one with new offsets.
LEMMA FdescSet ==
    ASSUME NEW fd \in [Fdescs -> FdescRecord], NEW f \in Fdescs, NEW x \in FdescRecord,
           NEW new, new = [fd EXCEPT ![f] = x]
    PROVE  /\ new \in [Fdescs -> FdescRecord] /\ new[f] = x
           /\ \A g \in Fdescs : g # f => new[g] = fd[g]
OBVIOUS

LEMMA FopenStep ==
    ASSUME FInv, NEW name \in Names, NEW mode \in {O_RDONLY, O_WRONLY, O_RDWR}, do_fopen(name, mode)
    PROVE  FInv' /\ NamesStep
<1> DEFINE old == search_dentry(disk, cwd, name, D_FILE)
           id == IF old = None THEN new_inode(Begin) ELSE old
           free == {f \in Fdescs : ~fdesc[f].open}
           g == IF old = None THEN touch(Begin, cwd, name) ELSE Begin
           h == assert(g, free # {})
           x == [open |-> TRUE, inode_id |-> id, mode |-> mode, rd_offset |-> 0, wr_offset |-> 0]
           new == [fdesc EXCEPT ![Min(free)] = x]
<1>1. ~crashed /\ (Returns(h, cwd, new, <<>>) \/ Crashes(h))
  BY DEF do_fopen, Calls
<1>2. /\ Good(disk, scenario) /\ disk \in CardRecord /\ Clean(Begin, scenario) /\ Begin.ok /\ Card(Begin) = disk
      /\ cwd \in Dirs(disk) /\ \A f \in Fdescs : fdesc[f].open => fdesc[f].inode_id \in Regular(disk)
      /\ fdesc \in [Fdescs -> FdescRecord]
  BY <1>1, Between
<1>3. free # {} => Min(free) \in Fdescs
  <2>1. free \subseteq Fdescs /\ Fdescs \subseteq Nat
    BY DEF Fdescs
  <2> HIDE DEF free
  <2> QED
    BY <1>1, <2>1, MinIsLeast
<1> HIDE DEF new, h, g, free, x
<1>4. /\ Clean(g, scenario)
      /\ g.ok => /\ Good(Card(g), scenario) /\ Dirs(disk) \subseteq Dirs(Card(g))
                 /\ Regular(disk) \subseteq Regular(Card(g)) /\ id \in Regular(Card(g))
                 /\ OneChange(disk, Card(g))
  <2>1. CASE old = None
    <3>1. CreateDone(g, disk, scenario, id, D_FILE)
      BY <1>1, <1>2, <2>1, NewName DEF g
    <3> HIDE DEF id, old
    <3> QED
      BY <3>1 DEF CreateDone
  <2>2. CASE old # None
    <3>2. old \in Regular(disk)
      BY <1>1, <1>2, <2>2, FoundFile
    <3> HIDE DEF old
    <3> QED
      BY <1>2, <2>2, <3>2, Unchanged DEF g
  <2> QED
    BY <2>1, <2>2
<1> HIDE DEF id
<1>5. Clean(h, scenario) /\ (h.ok => g.ok /\ free # {}) /\ Card(h) = Card(g)
  BY <1>1, <1>4, Check DEF h
<1>6. CASE Crashes(h)
  BY <1>1, <1>5, <1>6, Crashed
<1>7. CASE Returns(h, cwd, new, <<>>)
  <2>1. h.ok /\ g.ok /\ Min(free) \in Fdescs
    BY <1>3, <1>5, <1>7 DEF Returns
  <2>2. id \in Inodes
    BY <1>4, <2>1, CardParts DEF Good
  <2>3. x \in FdescRecord /\ x.inode_id = id
    BY <2>2, FileSysAssumption DEF x, FdescRecord, O_RDONLY, O_WRONLY, O_RDWR
  <2>4. /\ new \in [Fdescs -> FdescRecord] /\ new[Min(free)] = x
        /\ \A f \in Fdescs : f # Min(free) => new[f] = fdesc[f]
    BY <1>2, <2>1, <2>3, FdescSet DEF new
  <2>5. \A f \in Fdescs : new[f].open => new[f].inode_id \in Regular(Card(h))
    BY <1>2, <1>4, <1>5, <2>1, <2>3, <2>4
  <2>6. /\ Good(Card(h), scenario) /\ cwd \in Dirs(Card(h)) /\ \A k \in DOMAIN <<>> : <<>>[k] \in Bytes
        /\ OneChange(disk, Card(h))
    BY <1>2, <1>4, <1>5, <2>1
  <2> QED
    BY <1>1, <1>5, <1>7, <2>4, <2>5, <2>6, Returned
<1> QED
  BY <1>1, <1>6, <1>7

LEMMA FcloseStep ==
    ASSUME FInv, NEW f \in Fdescs, do_fclose(f)
    PROVE  FInv' /\ NamesStep
<1> DEFINE new == [fdesc EXCEPT ![f] = NoFdesc]
<1>1. ~crashed /\ Returns(Begin, cwd, new, <<>>)
  BY DEF do_fclose, Calls
<1>2. /\ Good(disk, scenario) /\ Clean(Begin, scenario) /\ Card(Begin) = disk
      /\ cwd \in Dirs(disk) /\ \A j \in Fdescs : fdesc[j].open => fdesc[j].inode_id \in Regular(disk)
      /\ fdesc \in [Fdescs -> FdescRecord]
  BY <1>1, Between
<1>3. /\ new \in [Fdescs -> FdescRecord] /\ new[f] = NoFdesc
      /\ \A j \in Fdescs : j # f => new[j] = fdesc[j]
  BY <1>2, ClosedTyped, FdescSet
<1> HIDE DEF new
<1>4. /\ \A j \in Fdescs : new[j].open => new[j].inode_id \in Regular(disk)
      /\ \A k \in DOMAIN <<>> : <<>>[k] \in Bytes
  BY <1>2, <1>3, ClosedTyped
<1> QED
  BY <1>1, <1>2, <1>3, <1>4, Unchanged, Returned

\* A call on the blocks of an open file.
LEMMA FileCall ==
    ASSUME FInv, ~crashed, NEW h, KeepsTree(h, disk, scenario), NEW f \in Fdescs,
           NEW x \in FdescRecord, x.inode_id = fdesc[f].inode_id, fdesc[f].open,
           NEW new, new = [fdesc EXCEPT ![f] = x], NEW newout,
           h.ok => \A k \in DOMAIN newout : newout[k] \in Bytes,
           Returns(h, cwd, new, newout) \/ Crashes(h)
    PROVE  FInv' /\ NamesStep
<1>1. /\ cwd \in Dirs(disk) /\ \A j \in Fdescs : fdesc[j].open => fdesc[j].inode_id \in Regular(disk)
      /\ fdesc \in [Fdescs -> FdescRecord]
  BY Between
<1>2. /\ new \in [Fdescs -> FdescRecord] /\ new[f] = x /\ \A j \in Fdescs : j # f => new[j] = fdesc[j]
  BY <1>1, FdescSet
<1>3. \A j \in Fdescs : new[j].open => new[j].inode_id \in Regular(disk)
  BY <1>1, <1>2
<1>4. /\ Clean(h, scenario) /\ (h.ok => Good(Card(h), scenario) /\ cwd \in Dirs(Card(h)))
      /\ h.ok => \A j \in Fdescs : new[j].open => new[j].inode_id \in Regular(Card(h))
      /\ h.ok => OneChange(disk, Card(h))
  BY <1>1, <1>3 DEF KeepsTree
<1>5. CASE Crashes(h)
  BY <1>4, <1>5, Crashed
<1>6. CASE Returns(h, cwd, new, newout)
  BY <1>2, <1>4, <1>6, Returned
<1> QED
  BY <1>5, <1>6

\* The descriptor of an open file.
LEMMA OpenFile ==
    ASSUME FInv, ~crashed, NEW f \in Fdescs, fdesc[f].open, NEW i, i = fdesc[f].inode_id
    PROVE  /\ Good(disk, scenario) /\ i \in Regular(disk) /\ fdesc[f] \in FdescRecord
           /\ disk.inode[i].size \in Nat /\ disk.inode[i].size <= MaxSize /\ MaxSize \in Nat
           /\ fdesc[f].rd_offset \in 0 .. MaxSize /\ fdesc[f].wr_offset \in 0 .. MaxSize
<1>1. Good(disk, scenario) /\ i \in Regular(disk) /\ fdesc[f] \in FdescRecord /\ disk \in CardRecord
  BY Between
<1>2. disk.inode[i].size <= MaxSize /\ disk.inode[i] \in InodeRecord
  BY <1>1, CardParts DEF Good, Tree, InodesOK
<1>3. disk.inode[i].size \in Nat
  BY <1>2 DEF InodeRecord
<1> QED
  BY <1>1, <1>2, <1>3, FileSysAssumption DEF FdescRecord

LEMMA FreadStep ==
    ASSUME FInv, NEW f \in Fdescs, NEW n \in Lengths, do_fread(f, n)
    PROVE  FInv' /\ NamesStep
<1> DEFINE i == fdesc[f].inode_id
           o == fdesc[f].rd_offset
           r == transfer(i, o, n, <<>>)
           h == write_inode(r.h, i, r.ino)
           end == Unsigned(o + n)
           new == [fdesc EXCEPT ![f].rd_offset = end]
           bytes == [k \in 1 .. n |-> ByteAt(Card(r.h), r.ino, Unsigned(o + k - 1))]
           x == [fdesc[f] EXCEPT !.rd_offset = end]
<1>1. /\ ~crashed /\ fdesc[f].open
      /\ Returns(h, cwd, new, bytes) \/ Crashes(h)
  BY DEF do_fread, Calls
<1>2. /\ Good(disk, scenario) /\ i \in Regular(disk) /\ fdesc[f] \in FdescRecord
      /\ disk.inode[i].size \in Nat /\ disk.inode[i].size <= MaxSize /\ MaxSize \in Nat
      /\ o \in 0 .. MaxSize
  BY <1>1, OpenFile
<1>3. n \in Nat \ {0} /\ <<>> \in Seq(Bytes)
  BY FileSysAssumption
<1> HIDE DEF i, o
<1>4. o \in Nat /\ end \in 0 .. MaxSize
  <2>1. o \in Nat
    BY <1>2
  <2>2. o + n \in Int
    BY <1>3, <2>1
  <2> QED
    BY <2>1, <2>2, UnsignedRange
<1> HIDE DEF end
<1>5. Located(r, scenario, i, disk)
  BY <1>2, <1>3, <1>4, Transfer
<1>6. x \in FdescRecord /\ x.inode_id = fdesc[f].inode_id
  BY <1>2, <1>3, <1>4 DEF FdescRecord
<1>7. new = [fdesc EXCEPT ![f] = x]
  OBVIOUS
<1> HIDE DEF r, x, new
<1>8. KeepsTree(h, disk, scenario) /\ (h.ok => r.h.ok)
  BY <1>2, <1>5, WriteBack DEF Located
<1>9. h.ok => \A k \in DOMAIN bytes : bytes[k] \in Bytes
  <2>1. SUFFICES ASSUME h.ok, NEW k \in 1 .. n PROVE ByteAt(Card(r.h), r.ino, Unsigned(o + k - 1)) \in Bytes
    BY <1>3
  <2>2. Held(r.h, r.ino, scenario, i, disk) /\ r.h.ok
    BY <1>5, <1>8, <2>1 DEF Located
  <2>3. Card(r.h) \in CardRecord /\ r.ino \in InodeRecord
    BY <2>2, CardType DEF Held, Clean
  <2>4. Unsigned(o + k - 1) \in Nat /\ Unsigned(o + k - 1) <= MaxSize
    <3>1. o + k - 1 \in Int
      BY <1>3, <1>4, <2>1
    <3>2. Unsigned(o + k - 1) \in 0 .. MaxSize
      BY <3>1, UnsignedRange
    <3> QED
      BY <1>2, <3>2
  <2> QED
    BY <2>3, <2>4, ByteTyped
<1> HIDE DEF h, bytes
<1> QED
  BY <1>1, <1>6, <1>7, <1>8, <1>9, FileCall

LEMMA FwriteStep ==
    ASSUME FInv, NEW f \in Fdescs, NEW bs \in Buffers, do_fwrite(f, bs)
    PROVE  FInv' /\ NamesStep
<1> DEFINE i == fdesc[f].inode_id
           o == fdesc[f].wr_offset
           end == Unsigned(o + Len(bs))
           r == transfer(i, o, Len(bs), bs)
           h == write_inode(r.h, i, grown(r.ino, end))
           new == [fdesc EXCEPT ![f].wr_offset = end]
           x == [fdesc[f] EXCEPT !.wr_offset = end]
<1>1. /\ ~crashed /\ fdesc[f].open
      /\ Returns(h, cwd, new, <<>>) \/ Crashes(h)
  BY DEF do_fwrite, Calls
<1>2. /\ Good(disk, scenario) /\ i \in Regular(disk) /\ fdesc[f] \in FdescRecord
      /\ MaxSize \in Nat /\ o \in 0 .. MaxSize
  BY <1>1, OpenFile
<1>3. bs \in Seq(Bytes) /\ Len(bs) \in Nat \ {0}
  BY FileSysAssumption, EmptySeq, LenProperties
<1>4. o \in Nat /\ end \in 0 .. MaxSize
  <2>1. o \in Nat
    BY <1>2
  <2>2. o + Len(bs) \in Int
    BY <1>3, <2>1
  <2> QED
    BY <2>1, <2>2, UnsignedRange
<1>5. Located(r, scenario, i, disk)
  <2> HIDE DEF i, o
  <2> QED BY <1>1, <1>2, <1>3, <1>4, Transfer
<1>6. x \in FdescRecord /\ x.inode_id = fdesc[f].inode_id
  BY <1>2, <1>4 DEF FdescRecord
<1>7. new = [fdesc EXCEPT ![f] = x]
  OBVIOUS
<1> HIDE DEF r, x, new, i, end
<1>8. KeepsTree(h, disk, scenario)
  <2>1. Held(r.h, grown(r.ino, end), scenario, i, disk)
    BY <1>2, <1>4, <1>5, GrownHeld DEF Located
  <2> QED
    BY <1>2, <2>1, WriteBack
<1>9. \A k \in DOMAIN <<>> : <<>>[k] \in Bytes
  OBVIOUS
<1> HIDE DEF h
<1> QED
  BY <1>1, <1>6, <1>7, <1>8, <1>9, FileCall

LEMMA LseekStep ==
    ASSUME FInv, NEW f \in Fdescs, NEW offset \in Offsets, NEW whence \in {"SET", "CUR", "END"},
           do_lseek(f, offset, whence)
    PROVE  FInv' /\ NamesStep
<1> DEFINE fp == fdesc[f]
           i == fp.inode_id
           ino == disk.inode[i]
           target(cur) == CASE whence = "SET" -> offset
                            [] whence = "CUR" -> cur + offset
                            [] whence = "END" -> ino.size + offset
           rd == Unsigned(target(fp.rd_offset))
           wr == Unsigned(target(fp.wr_offset))
           R == MayRead(fp.mode)
           W == MayWrite(fp.mode)
           r == IF W /\ wr > ino.size THEN byte_locate(Begin, i, ino, wr \div BLOCK_SIZE)
                ELSE [h |-> Begin, ino |-> ino, id |-> 0]
           last == IF W THEN grown(r.ino, wr) ELSE r.ino
           h == write_inode(r.h, i, last)
           new == [fdesc EXCEPT ![f].rd_offset = IF R THEN rd ELSE @, ![f].wr_offset = IF W THEN wr ELSE @]
           x == [fp EXCEPT !.rd_offset = IF R THEN rd ELSE fp.rd_offset,
                           !.wr_offset = IF W THEN wr ELSE fp.wr_offset]
<1>1. /\ ~crashed /\ fp.open
      /\ Returns(h, cwd, new, <<>>) \/ Crashes(h)
  BY ZenonT(60) DEF do_lseek, Calls
<1>2. /\ Good(disk, scenario) /\ i \in Regular(disk) /\ fp \in FdescRecord
      /\ ino.size \in Nat /\ ino.size <= MaxSize /\ MaxSize \in Nat
      /\ fp.rd_offset \in 0 .. MaxSize /\ fp.wr_offset \in 0 .. MaxSize
  BY <1>1, OpenFile, ZenonT(60)
<1>3. fdesc \in [Fdescs -> FdescRecord]
  BY <1>1, Between, ZenonT(60)
<1>10. rd \in 0 .. MaxSize /\ wr \in 0 .. MaxSize
  <2>1. offset \in Int
    BY FileSysAssumption
  <2> HIDE DEF ino
  <2>2. target(fp.rd_offset) \in Int /\ target(fp.wr_offset) \in Int
    BY <1>2, <2>1
  <2> HIDE DEF target
  <2> QED
    BY <2>2, UnsignedRange
<1> HIDE DEF rd, wr, target, R, W
<1>4. x \in FdescRecord /\ x.inode_id = fp.inode_id
  BY <1>2, <1>10 DEF FdescRecord
<1>5. new = [fdesc EXCEPT ![f] = x]
  BY <1>3 DEF FdescRecord
<1> HIDE DEF x, new, ino, i
<1>6. Held(Begin, ino, scenario, i, disk) /\ 0 \in Blocks
  BY <1>2, HeldBegin, Sizes DEF ino
<1>7. Held(r.h, r.ino, scenario, i, disk)
  <2>1. CASE W /\ wr > ino.size
    <3>1. wr \div BLOCK_SIZE \in 0 .. MaxSize \div BLOCK_SIZE
      <4>1. wr \in Nat /\ wr <= MaxSize /\ MaxSize \in Nat /\ BLOCK_SIZE \in Nat \ {0}
        BY <1>2, <1>10, FileSysAssumption
      <4>2. wr \div BLOCK_SIZE \in Nat /\ wr \div BLOCK_SIZE <= MaxSize \div BLOCK_SIZE /\ MaxSize \div BLOCK_SIZE \in Nat
        BY <4>1
      <4> QED
        BY <4>2
    <3>2. Located(byte_locate(Begin, i, ino, wr \div BLOCK_SIZE), scenario, i, disk)
      BY <1>2, <1>6, <3>1, ByteLocate
    <3> QED
      BY <2>1, <3>2 DEF Located
  <2>2. CASE ~(W /\ wr > ino.size)
    BY <1>6, <2>2
  <2> QED
    BY <2>1, <2>2
<1> HIDE DEF r
<1>8. KeepsTree(h, disk, scenario)
  <2>1. Held(r.h, last, scenario, i, disk)
    <3>1. CASE W
      <4>1. Held(r.h, grown(r.ino, wr), scenario, i, disk)
        BY <1>2, <1>7, <1>10, GrownHeld
      <4> QED
        BY <3>1, <4>1
    <3>2. CASE ~W
      BY <1>7, <3>2
    <3> QED
      BY <3>1, <3>2
  <2> HIDE DEF last
  <2> QED
    BY <1>2, <2>1, WriteBack
<1>9. \A k \in DOMAIN <<>> : <<>>[k] \in Bytes
  OBVIOUS
<1> HIDE DEF h
<1> QED
  BY <1>1, <1>4, <1>5, <1>8, <1>9, FileCall, ZenonT(60)

-----------------------------------------------------------------------------
(* The theorems *)

\* main formats the card before the first program runs.
LEMMA FInvInit ==
    ASSUME Init
    PROVE  FInv
<1> DEFINE h == [log |-> <<Blank>>, ok |-> TRUE]
           g == mkfs(h)
<1>1. Blank \in CardRecord /\ \A b \in Blocks : Blank.dentry[b] = ZeroDentries /\ Blank.index[b] = ZeroIndex
  BY Zeroes DEF Blank, CardRecord
<1>2. <<Blank>> \in Seq(CardRecord) /\ <<Blank>> # <<>> /\ <<Blank>>[1] = Blank /\ Len(<<Blank>>) = 1
  BY <1>1
<1>3. h \in Hist /\ h.ok /\ Card(h) = Blank
  BY <1>2 DEF Hist, Card
<1> HIDE DEF h
<1>4. g \in Hist /\ Good(Card(g), scenario)
  BY <1>1, <1>3, MkfsSteps
<1>5. disk = Card(g) /\ cwd = Root /\ fdesc = Closed /\ out = <<>> /\ scenario \in Scenarios /\ crashed = FALSE
  BY DEF Init, h
<1> HIDE DEF g
<1>6. disk \in CardRecord /\ Root \in Dirs(disk) /\ Root \in Inodes
  BY <1>4, <1>5, Sizes DEF Good, Tree, InodesOK
<1>7. TypeOK
  <2>1. \A k \in DOMAIN <<>> : <<>>[k] \in Bytes
    OBVIOUS
  <2> QED
    BY <1>5, <1>6, <2>1, ClosedTyped DEF TypeOK
<1>8. FilesOpen
  BY <1>5, ClosedTyped DEF FilesOpen
<1> QED
  BY <1>4, <1>5, <1>6, <1>7, <1>8 DEF FInv

\* Every call keeps the invariant, whether it returns or is cut short.
LEMMA FInvNext ==
    ASSUME ProgramsBehave, FInv, Next
    PROVE  FInv' /\ NamesStep
<1>0. \A name \in Given : name \in Names
  BY DEF Given
<1>1. CASE do_mkfs
  BY <1>1, MkfsStep
<1>2. CASE \E dirs \in Paths : do_cd(dirs)
  BY <1>2, CdStep
<1>3. CASE \E dirs \in Paths, name \in Names : do_mkdir(dirs, name)
  BY <1>3, MkdirStep
<1>4. CASE \E dirs \in Paths, name \in Names : do_rmdir(dirs, name)
  BY <1>4, RmdirStep
<1>5. CASE \E dirs \in Paths, name \in Names : do_touch(dirs, name)
  BY <1>5, TouchStep
<1>6. CASE \E dirs \in Paths, name \in Names : do_rm(dirs, name)
  BY <1>6, RmStep
<1>7. CASE \E dst \in Paths, name \in Names, src \in Paths, srcname \in Names : do_ln(src, srcname, dst, name)
  BY <1>7, LnStep
<1>8. CASE \E name \in Names, mode \in {O_RDONLY, O_WRONLY, O_RDWR} : do_fopen(name, mode)
  BY <1>8, FopenStep
<1>9. CASE \E f \in Fdescs : do_fclose(f)
  BY <1>9, FcloseStep
<1>10. CASE \E f \in Fdescs, n \in Lengths : do_fread(f, n)
  BY <1>10, FreadStep
<1>11. CASE \E f \in Fdescs, bs \in Buffers : do_fwrite(f, bs)
  BY <1>11, FwriteStep
<1>12. CASE \E f \in Fdescs, offset \in Offsets, whence \in {"SET", "CUR", "END"} : do_lseek(f, offset, whence)
  BY <1>12, LseekStep
<1> QED
  BY <1>0, <1>1, <1>2, <1>3, <1>4, <1>5, <1>6, <1>7, <1>8, <1>9, <1>10, <1>11, <1>12, Zenon DEF Next

\* The invariant holds in every state.
LEMMA FInvAlways ==
    ASSUME ProgramsBehave
    PROVE  Spec => []FInv
<1>1. Init => FInv
  BY FInvInit
<1>2. FInv /\ [Next]_vars => FInv'
  <2>1. FInv /\ UNCHANGED vars => FInv'
    BY DEF vars, FInv, TypeOK, FilesOpen
  <2> QED
    BY <2>1, FInvNext
<1> QED
  BY <1>1, <1>2, PTL DEF Spec

\* A directory has the one name that leads to it; the root has none.
LEMMA NamesOfDir ==
    ASSUME NEW d, d \in CardRecord, Tree(d), NEW i \in Dirs(d)
    PROVE  /\ i = Root => NamesOf(d, i) = {}
           /\ i # Root => \E p : NamesOf(d, i) = {p} /\ p[1] = Target(d, i, 1)
<1>1. \A j \in Dirs(d) : DirOK(d, j)
  BY DEF Tree
<1>2. \A p \in NamesOf(d, i) :
        /\ p[1] \in Dirs(d) /\ p[2] \in Entries(d, p[1]) /\ Target(d, p[1], p[2]) = i
        /\ p = <<p[1], p[2]>>
  BY DEF NamesOf, Entries, Target
<1>3. \A j \in Dirs(d) : \A k \in Entries(d, j) :
        Target(d, j, k) = i => i # Root /\ Target(d, i, 1) = j
  <2> SUFFICES ASSUME NEW j \in Dirs(d), NEW k \in Entries(d, j), Target(d, j, k) = i
               PROVE  i # Root /\ Target(d, i, 1) = j
    OBVIOUS
  <2>1. EntryOK(d, j, k)
    BY <1>1 DEF DirOK
  <2>2. i \notin Regular(d)
    BY Bits DEF Dirs, Regular
  <2> QED
    BY <2>1, <2>2 DEF EntryOK
<1>4. CASE i = Root
  BY <1>2, <1>3, <1>4
<1>5. CASE i # Root
  <2> DEFINE j == Target(d, i, 1)
  <2>1. j \in Dirs(d)
    BY <1>1 DEF DirOK, DotsOK
  <2>2. PICK k \in Entries(d, j) : Target(d, j, k) = i
    BY <1>1, <1>5 DEF DirOK, OneName
  <2>3. \A l \in Entries(d, j) : Target(d, j, l) = i => l = k
    BY <1>1, <2>1, <2>2 DEF DirOK, OneName
  <2>4. <<j, k>> \in NamesOf(d, i)
    BY <2>1, <2>2 DEF NamesOf, Entries, Target, Used
  <2>5. \A p \in NamesOf(d, i) : p = <<j, k>>
    BY <1>2, <1>3, <2>3
  <2>6. NamesOf(d, i) = {<<j, k>>}
    BY <2>4, <2>5
  <2>7. \E p : NamesOf(d, i) = {p} /\ p[1] = j
    <3> WITNESS <<j, k>>
    <3> QED
      BY <2>6
  <2> QED
    BY <1>5, <2>7
<1> QED
  BY <1>4, <1>5

\* What DirConsistent asks of a directory.
LEMMA DirInTree ==
    ASSUME NEW d, d \in CardRecord, Tree(d), NEW i \in Dirs(d)
    PROVE  DirConsistent(d, i)
<1>1. DotsOK(d, i) /\ Counted(d, i) /\ NamesDiffer(d, i) /\ \A k \in Entries(d, i) : EntryOK(d, i, k)
  BY DEF Tree, DirOK
<1>2. /\ i # Root => NamesOf(d, i) # {} /\ \A p \in NamesOf(d, i) : p[1] = Target(d, i, 1)
      /\ i = Root => NamesOf(d, i) = {}
      /\ i # Root => \E p : NamesOf(d, i) = {p}
  BY NamesOfDir
<1>3. Cardinality(NamesOf(d, i)) = IF i = Root THEN 0 ELSE 1
  <2>1. CASE i = Root
    BY <1>2, <2>1, FS_EmptySet
  <2>2. CASE i # Root
    <3>1. PICK p : NamesOf(d, i) = {p}
      BY <1>2, <2>2
    <3>2. Cardinality({p}) = 1
      BY FS_Singleton, Zenon
    <3> QED
      BY <2>2, <3>1, <3>2
  <2> QED
    BY <2>1, <2>2
<1>4. \A k \in Used(d, i) : d.inode[Target(d, i, k)].type \subseteq DirBlock(d, i)[k].type
  <2> SUFFICES ASSUME NEW k \in Used(d, i)
               PROVE  d.inode[Target(d, i, k)].type \subseteq DirBlock(d, i)[k].type
    OBVIOUS
  <2>1. CASE k = 0
    BY <1>1, <2>1 DEF DotsOK, Target, Dirs
  <2>2. CASE k = 1
    BY <1>1, <2>2 DEF DotsOK, Dirs
  <2>3. CASE k \in Entries(d, i)
    <3>1. EntryOK(d, i, k)
      BY <1>1, <2>3
    <3>2. \/ d.inode[Target(d, i, k)].type = D_DIR /\ DirBlock(d, i)[k].type = D_DIR
          \/ d.inode[Target(d, i, k)].type = D_FILE /\ DirBlock(d, i)[k].type \in {D_FILE, D_LINK}
      BY <3>1 DEF EntryOK, Dirs, Regular
    <3> QED
      BY <3>2, Bits
  <2> QED
    BY <2>1, <2>2, <2>3 DEF Entries
<1>5. \A k \in Used(d, i) : \A l \in Used(d, i) \ {k} :
        DirBlock(d, i)[k].name = DirBlock(d, i)[l].name =>
            DirBlock(d, i)[k].type \cap DirBlock(d, i)[l].type = {}
  BY <1>1 DEF NamesDiffer
<1>6. /\ DirBlock(d, i)[0].name = "." /\ DirBlock(d, i)[0].inode_id = i
      /\ DirBlock(d, i)[1].name = ".."
  BY <1>1 DEF DotsOK
<1> QED
  BY <1>1, <1>2, <1>3, <1>4, <1>5, <1>6 DEF DirConsistent, Target, Counted

\* In every behaviour the card keeps its layout and descriptors their range,
\* and file_num, which delete_dentry lowers, stays within the entries of a
\* block.  (links_count stays a uint32_t, but that of a directory wraps.)
THEOREM FileSysTypes ==
    ASSUME ProgramsBehave
    PROVE  Spec => []TypeOK
<1>1. FInv => TypeOK
  BY DEF FInv
<1> QED
  BY <1>1, FInvAlways, PTL

\* Whatever sequence of the calls do_mkdir, do_rmdir, do_touch, do_rm, do_ln,
\* do_cd and those on open files the programs make, as long as they link no
\* directory, remove no one of several links, no ".", no open file and not the
\* current directory, and take no file for a directory: the directories remain
\* a tree, file_num is exact for directories and links_count for files.
THEOREM FileSysTree ==
    ASSUME ProgramsBehave
    PROVE  Spec => []TreeConsistent
<1>1. FInv => TreeConsistent
  <2> SUFFICES ASSUME FInv, ~crashed
               PROVE  /\ cwd \in Dirs(disk)
                      /\ \A i \in Dirs(disk) : DirConsistent(disk, i)
                      /\ \A i \in Regular(disk) : Cardinality(NamesOf(disk, i)) = disk.inode[i].links_count
                      /\ disk.inode_map = Dirs(disk) \cup Regular(disk)
    BY DEF TreeConsistent, LinksCounted
  <2>1. disk \in CardRecord /\ Tree(disk) /\ cwd \in Dirs(disk)
    BY DEF FInv, Good
  <2>2. \A i \in Dirs(disk) : DirConsistent(disk, i)
    BY <2>1, DirInTree
  <2>3. disk.inode_map = Dirs(disk) \cup Regular(disk)
    BY <2>1, CardParts DEF Tree, InodesOK, Live
  <2> QED
    BY <2>1, <2>2, <2>3 DEF Tree, LinksOK
<1> QED
  BY <1>1, FInvAlways, PTL

\* Between two calls and after a crash the card is safe.
LEMMA AlwaysSafe ==
    ASSUME FInv
    PROVE  Safe(disk)
<1>1. CASE crashed
  BY <1>1 DEF FInv
<1>2. CASE ~crashed
  BY <1>2, GoodSafe DEF FInv
<1> QED
  BY <1>1, <1>2

\* alloc_block, byte_locate and release_block never give one block to two
\* users, also when the machine goes down between any two of their writes.
THEOREM FileSysBlocks ==
    ASSUME ProgramsBehave
    PROVE  Spec => []BlocksExclusive
<1>1. FInv => BlocksExclusive
  <2> SUFFICES ASSUME FInv PROVE BlocksExclusive
    OBVIOUS
  <2> DEFINE refs == UNION {Refs(disk, i) : i \in Named(disk)}
  <2>1. Root \in Dirs(disk) /\ Exclusive(disk, Named(disk))
    BY AlwaysSafe DEF Safe
  <2>2. Root \in Named(disk)
    BY <2>1 DEF Named
  <2>3. \A r \in refs : \E i \in Named(disk) : r \in Refs(disk, i)
    OBVIOUS
  <2> HIDE DEF refs
  <2>4. \A r \in refs : r.to \in disk.block_map
    BY <2>1, <2>3 DEF Exclusive
  <2>5. \A r, q \in refs : r # q => r.to # q.to
    BY <2>1, <2>3 DEF Exclusive
  <2>6. /\ disk.inode[Root].direct[0] = 0 /\ 0 \in disk.block_map
        /\ \A i \in Named(disk) \ {Root} : disk.inode[i].direct[0] # 0
    BY <2>1 DEF Exclusive
  <2> QED
    BY <2>2, <2>4, <2>5, <2>6 DEF BlocksExclusive, refs
<1> QED
  BY <1>1, FInvAlways, PTL

\* No call of such programs, and no crash in the middle of one, leaves an entry
\* that names a free inode: do_mkdir and do_touch take the inode first, do_rm
\* and do_rmdir give it back last.
THEOREM FileSysNoDangling ==
    ASSUME ProgramsBehave
    PROVE  Spec => []NoDangling
<1>1. FInv => NoDangling
  BY AlwaysSafe DEF Safe, Whole, NoDangling, Target
<1> QED
  BY <1>1, FInvAlways, PTL

\* A search finds the same in two trees if the entries of that name are the
\* same, though it goes by counting the others.
LEMMA SameSearch ==
    ASSUME NEW d \in CardRecord, NEW e \in CardRecord, NEW j \in Dirs(d) \cap Dirs(e),
           DirOK(d, j), DirOK(e, j), NEW name, NEW mask \in {D_DIR, D_FILE},
           \A k \in Used(d, j) : DirBlock(d, j)[k].name = name => DirBlock(e, j)[k] = DirBlock(d, j)[k],
           \A k \in Used(e, j) : DirBlock(e, j)[k].name = name => DirBlock(e, j)[k] = DirBlock(d, j)[k]
    PROVE  search_dentry(e, j, name, mask) = search_dentry(d, j, name, mask)
<1> DEFINE r == search_dentry(d, j, name, mask)
           s == search_dentry(e, j, name, mask)
<1>1. Counted(d, j) /\ Counted(e, j) /\ NamesDiffer(e, j)
  BY DEF DirOK
<1>2. (r = None => Untaken(d, j, name, mask)) /\ (r # None => FoundAs(d, j, name, mask, r))
  BY <1>1, Searched
<1>3. (s = None => Untaken(e, j, name, mask)) /\ (s # None => FoundAs(e, j, name, mask, s))
  BY <1>1, Searched
<1> HIDE DEF r, s
<1>4. \A k \in Dentries : DirBlock(e, j)[k] = DirBlock(d, j)[k] =>
         (k \in Used(e, j) <=> k \in Used(d, j)) /\ Target(e, j, k) = Target(d, j, k)
  BY DEF Used, Target
<1>5. Used(d, j) \subseteq Dentries /\ Used(e, j) \subseteq Dentries
  BY DEF Used
<1>6. ASSUME r # None PROVE s = r
  <2>1. PICK k \in Used(d, j) : /\ Target(d, j, k) = r /\ DirBlock(d, j)[k].name = name
                                /\ DirBlock(d, j)[k].type \cap mask # {}
    BY <1>2, <1>6 DEF FoundAs
  <2>2. /\ k \in Used(e, j) /\ Target(e, j, k) = r /\ DirBlock(e, j)[k].name = name
        /\ DirBlock(e, j)[k].type \cap mask # {}
    BY <1>4, <1>5, <2>1
  <2>3. s # None
    BY <1>3, <2>2 DEF Untaken
  <2>4. PICK l \in Used(e, j) : /\ Target(e, j, l) = s /\ DirBlock(e, j)[l].name = name
                                /\ DirBlock(e, j)[l].type \cap mask # {}
    BY <1>3, <2>3 DEF FoundAs
  <2>5. DirBlock(e, j)[k].type \cap DirBlock(e, j)[l].type # {}
    <3>1. \E t : mask = {t}
      BY DEF D_DIR, D_FILE
    <3> QED
      BY <2>2, <2>4, <3>1
  <2>6. k = l
    BY <1>1, <2>2, <2>4, <2>5 DEF NamesDiffer
  <2> QED
    BY <2>2, <2>4, <2>6
<1>7. ASSUME r = None PROVE s = None
  <2>1. SUFFICES ASSUME s # None PROVE FALSE
    OBVIOUS
  <2>2. PICK l \in Used(e, j) : /\ DirBlock(e, j)[l].name = name
                                /\ DirBlock(e, j)[l].type \cap mask # {}
    BY <1>3, <2>1 DEF FoundAs
  <2>3. /\ l \in Used(d, j) /\ DirBlock(d, j)[l].name = name
        /\ DirBlock(d, j)[l].type \cap mask # {}
    BY <1>4, <1>5, <2>2
  <2> QED
    BY <1>2, <1>7, <2>3 DEF Untaken
<1> QED
  BY <1>6, <1>7 DEF r, s

\* The names that change are among those whose entries do.
LEMMA ChangedNames ==
    ASSUME NEW c, NEW d, Good(d, c), NEW b, NEW e, Good(e, b), NEW dir, NEW name, OnlyName(d, e, dir, name)
    PROVE  Changed(d, e) \subseteq {<<dir, name>>} /\ Cardinality(Changed(d, e)) <= 1
<1>2. d \in CardRecord /\ e \in CardRecord /\ \A j \in Dirs(d) \cap Dirs(e) : DirOK(d, j) /\ DirOK(e, j)
  BY DEF Good, Tree
<1>3. ASSUME NEW j \in Dirs(d) \cap Dirs(e), NEW n \in Names, NEW mask \in {D_DIR, D_FILE},
             j # dir \/ n # name
      PROVE  search_dentry(e, j, n, mask) = search_dentry(d, j, n, mask)
  <2>1. Used(d, j) \subseteq Dentries /\ Used(e, j) \subseteq Dentries
    BY DEF Used
  <2>2. /\ \A k \in Used(d, j) : DirBlock(d, j)[k].name = n => DirBlock(e, j)[k] = DirBlock(d, j)[k]
        /\ \A k \in Used(e, j) : DirBlock(e, j)[k].name = n => DirBlock(e, j)[k] = DirBlock(d, j)[k]
    BY <1>3, <2>1 DEF OnlyName
  <2> QED
    BY <1>2, <2>2, SameSearch
<1>4. Changed(d, e) \subseteq {<<dir, name>>}
  <2>1. SUFFICES ASSUME NEW p \in Changed(d, e) PROVE p = <<dir, name>>
    OBVIOUS
  <2>2. PICK j \in Dirs(d) \cap Dirs(e), n \in Names : p = <<j, n>>
    BY DEF Changed
  <2>3. \E mask \in {D_DIR, D_FILE} : search_dentry(e, j, n, mask) # search_dentry(d, j, n, mask)
    BY <2>2 DEF Changed
  <2> QED
    BY <1>3, <2>2, <2>3
<1>5. IsFiniteSet({<<dir, name>>}) /\ Cardinality({<<dir, name>>}) = 1
  BY FS_Singleton, Zenon
<1> QED
  BY <1>4, <1>5, FS_Subset, FS_CardinalityType

\* Each call changes what one name of one directory stands for and no other,
\* do_rm and do_rmdir the one they were given: search_dentry counts entries
\* and delete_dentry goes by inode number alone, but neither ever sees the
\* entries of another name, as long as the programs behave.
THEOREM FileSysNames ==
    ASSUME ProgramsBehave
    PROVE  Spec => NamesStable
<1>1. FInv /\ FInv' /\ [Next]_vars =>
        [ \/ crashed'
          \/ disk' = Card(mkfs(Begin))
          \/ /\ Cardinality(Changed(disk, disk')) <= 1
             /\ \A dirs \in Paths, name \in Names :
                  do_rm(dirs, name) \/ do_rmdir(dirs, name) =>
                      Changed(disk, disk') \subseteq {<<Walk(disk, dirs), name>>}
        ]_vars
  <2>1. SUFFICES ASSUME FInv, FInv', Next, ~crashed', disk' # Card(mkfs(Begin))
                 PROVE  /\ Cardinality(Changed(disk, disk')) <= 1
                        /\ \A dirs \in Paths, name \in Names :
                              do_rm(dirs, name) \/ do_rmdir(dirs, name) =>
                                  Changed(disk, disk') \subseteq {<<Walk(disk, dirs), name>>}
    OBVIOUS
  <2>2. ~crashed /\ OneChange(disk, disk')
    BY <2>1, FInvNext DEF NamesStep
  <2>3. Good(disk, scenario) /\ Good(disk', scenario')
    BY <2>1, <2>2 DEF FInv
  <2>4. Cardinality(Changed(disk, disk')) <= 1
    <3>1. PICK dir, name : OnlyName(disk, disk', dir, name)
      BY <2>2 DEF OneChange
    <3> QED
      BY <2>3, <3>1, ChangedNames
  <2>5. ASSUME NEW dirs \in Paths, NEW name \in Names, do_rm(dirs, name) \/ do_rmdir(dirs, name)
        PROVE  Changed(disk, disk') \subseteq {<<Walk(disk, dirs), name>>}
    <3>1. OnlyName(disk, disk', Walk(disk, dirs), name)
      BY <2>1, <2>5, RmStep, RmdirStep
    <3> QED
      BY <2>3, <3>1, ChangedNames
  <2> QED
    BY <2>4, <2>5
<1> QED
  BY <1>1, FInvAlways, PTL DEF Spec, NamesStable
=============================================================================
