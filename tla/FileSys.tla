------------------------------ MODULE FileSys ------------------------------
(***************************************************************************)
(* The file system, kernel/fs/fs.c.                                        *)
(*                                                                         *)
(* Nothing but the current directory and the descriptors lives in memory:  *)
(* every helper reads the sectors it needs from the card and writes them   *)
(* back.  A handler is therefore a sequence of card images, one for each   *)
(* sd_write it makes.  The operators of this module take such a history h  *)
(* and append to it.  A handler that returns leaves the last image of its  *)
(* history; a crash leaves any of them and empties the memory.  A handler  *)
(* that fails an assertion spins for ever: only the crash can follow.      *)
(*                                                                         *)
(* A block is 4096 bytes that the code reads as directory entries, as      *)
(* block numbers or as file data.  The image keeps one array for each      *)
(* reading; a block that is cleared is zero in all three.  The type field  *)
(* of an entry is the set of its bits: D_LINK = D_DIR | D_FILE.            *)
(*                                                                         *)
(* The calls do not check all that they rely on.  What a program can do    *)
(* and the code does not expect has a name in Misuses; a behaviour whose   *)
(* scenario has that name contains it.                                     *)
(***************************************************************************)
EXTENDS Integers, Sequences, FiniteSets, FiniteSetsExt, Functions

CONSTANTS
    INODES,         \* entries of the inode map (SECTOR_SIZE)
    BLOCKS,         \* entries of the block map that alloc_block scans (BLOCK_SIZE)
    DENTRIES,       \* directory entries in a block (128)
    NUM_FDESCS,     \* size of fdesc_array
    DIRECT_SIZE, FIRST_BLOCK_NUM, SECOND_BLOCK_NUM,   \* pointers of an inode
    FIRST_BLOCK_SIZE,   \* block numbers in a block (1 << 10)
    BLOCK_SIZE,     \* bytes of a block
    UMOD,           \* 2^32: links_count is a uint32_t
    Names,          \* last parts of the paths that programs give, "." and ".." perhaps
    Bytes,          \* values of a byte, 0 among them
    Buffers,        \* what programs write
    Lengths,        \* lengths they read
    Offsets,        \* offsets they seek
    MaxSize,        \* 2^32 - 1: offsets and sizes are uint32_t
    MaxDepth,       \* bound on the number of directories in a path
    Scenarios       \* sets of calls; the programs of a behaviour make the calls of one

Inodes == 0 .. INODES - 1
Blocks == 0 .. BLOCKS - 1
Dentries == 0 .. DENTRIES - 1
Fdescs == 0 .. NUM_FDESCS - 1

ASSUME FileSysAssumption ==
    /\ INODES \in Nat \ {0} /\ BLOCKS \in Nat \ {0} /\ DENTRIES \in Nat \ {0, 1}
    /\ NUM_FDESCS \in Nat \ {0} /\ UMOD \in Nat \ {0, 1}
    /\ DIRECT_SIZE \in Nat \ {0} /\ FIRST_BLOCK_NUM \in Nat /\ SECOND_BLOCK_NUM \in Nat
    /\ FIRST_BLOCK_SIZE \in Nat \ {0} /\ BLOCK_SIZE \in Nat \ {0}
    /\ {0} \subseteq Bytes /\ Bytes \subseteq Nat
    /\ \A bs \in Buffers : bs \in Seq(Bytes) /\ bs # <<>>
    /\ Offsets \subseteq Int /\ Lengths \subseteq Nat \ {0} /\ MaxSize \in Nat /\ MaxDepth \in Nat
    /\ (MaxSize + 1) % BLOCK_SIZE = 0
    \* A uint32_t offset never reaches the third level of index blocks.
    /\ MaxSize \div BLOCK_SIZE < DIRECT_SIZE + FIRST_BLOCK_NUM * FIRST_BLOCK_SIZE
                                 + SECOND_BLOCK_NUM * (FIRST_BLOCK_SIZE * FIRST_BLOCK_SIZE)

VARIABLES
    disk,       \* the card
    cwd,        \* current_inode.inode_id, one for all processes
    fdesc,      \* fdesc_array
    out,        \* the buffer a read returned
    scenario,   \* what the programs of this behaviour do
    crashed

vars == <<disk, cwd, fdesc, out, scenario, crashed>>

-----------------------------------------------------------------------------
(* The card *)

Root == 0
None == -1

D_DIR == {"dir"}
D_FILE == {"file"}
D_LINK == {"dir", "file"}
Unused == {}

NoDentry == [type |-> Unused, inode_id |-> 0, name |-> ""]
NoInode == [type |-> Unused, mode |-> 0, inode_id |-> 0, file_num |-> 0, links_count |-> 0, size |-> 0,
            direct |-> [k \in 0 .. DIRECT_SIZE - 1 |-> 0],
            first |-> [k \in 0 .. FIRST_BLOCK_NUM - 1 |-> 0],
            second |-> [k \in 0 .. SECOND_BLOCK_NUM - 1 |-> 0]]

ZeroDentries == [k \in Dentries |-> NoDentry]
ZeroIndex == [k \in 0 .. FIRST_BLOCK_SIZE - 1 |-> 0]
ZeroData == [k \in 0 .. BLOCK_SIZE - 1 |-> 0]

Blank == [inode_map |-> {}, block_map |-> {},
          inode |-> [i \in Inodes |-> NoInode],
          dentry |-> [b \in Blocks |-> ZeroDentries],
          index |-> [b \in Blocks |-> ZeroIndex],
          data |-> [b \in Blocks |-> ZeroData]]

-----------------------------------------------------------------------------
(* Histories *)

Begin == [log |-> <<disk>>, ok |-> TRUE]
Card(h) == h.log[Len(h.log)]

\* sd_write: nothing is written once an assertion has failed.
sd_write(h, d) == IF h.ok THEN [h EXCEPT !.log = Append(@, d)] ELSE h
assert(h, cond) == [h EXCEPT !.ok = @ /\ cond]

write_inode(h, i, ino) == sd_write(h, [Card(h) EXCEPT !.inode[i] = ino])

\* memset(blk_buffer, 0, BLOCK_SIZE); write_block(b)
zero_block(h, b) ==
    sd_write(h, [Card(h) EXCEPT !.dentry[b] = ZeroDentries, !.index[b] = ZeroIndex,
                                !.data[b] = ZeroData])

\* The inode and the block that alloc_inode and alloc_block return: the
\* lowest that is free.
FreeInodes(h) == Inodes \ Card(h).inode_map
FreeBlocks(h) == Blocks \ Card(h).block_map
new_inode(h) == IF FreeInodes(h) = {} THEN 0 ELSE Min(FreeInodes(h))
new_block(h) == IF FreeBlocks(h) = {} THEN 0 ELSE Min(FreeBlocks(h))

alloc_inode(h) ==
    sd_write(assert(h, FreeInodes(h) # {}), [Card(h) EXCEPT !.inode_map = @ \cup {new_inode(h)}])

alloc_block(h) ==
    sd_write(assert(h, FreeBlocks(h) # {}), [Card(h) EXCEPT !.block_map = @ \cup {new_block(h)}])

free_inode_map(h, i) ==
    sd_write(assert(h, i \in Card(h).inode_map), [Card(h) EXCEPT !.inode_map = @ \ {i}])

\* release_block clears the map entry, then the block.
release_block(h, b) ==
    zero_block(sd_write(assert(h, b \in Card(h).block_map),
                        [Card(h) EXCEPT !.block_map = @ \ {b}]), b)

\* create_inode leaves the pointers other than direct_block[0] as they are.
create_inode(h, i, b, type) ==
    write_inode(h, i,
        [Card(h).inode[i] EXCEPT
            !.type = type, !.mode = 3, !.inode_id = i, !.links_count = 1, !.direct[0] = b,
            !.size = IF type = D_DIR THEN BLOCK_SIZE ELSE 0,
            !.file_num = IF type = D_DIR THEN 2 ELSE 0])

create_dir_block(h, b, parent, self) ==
    sd_write(h, [Card(h) EXCEPT
        !.index[b] = ZeroIndex, !.data[b] = ZeroData,
        !.dentry[b] = [ZeroDentries EXCEPT
            ![0] = [type |-> D_DIR, inode_id |-> self, name |-> "."],
            ![1] = [type |-> D_DIR, inode_id |-> parent, name |-> ".."]]])

-----------------------------------------------------------------------------
(* Directories *)

DirBlock(d, dir) == d.dentry[d.inode[dir].direct[0]]

\* search_dentry: the inode of the first entry with that name and one of the
\* bits of mask; the scan ends when it has seen file_num entries in use.
Seen(d, dir, k) == Cardinality({j \in 0 .. k : DirBlock(d, dir)[j].type # Unused})
Matches(d, dir, name, mask) ==
    {k \in Dentries :
        /\ DirBlock(d, dir)[k].type \cap mask # {}
        /\ DirBlock(d, dir)[k].name = name
        /\ \A j \in 0 .. k - 1 : Seen(d, dir, j) # d.inode[dir].file_num}
search_dentry(d, dir, name, mask) ==
    IF dir = None \/ Matches(d, dir, name, mask) = {} THEN None
    ELSE DirBlock(d, dir)[Min(Matches(d, dir, name, mask))].inode_id

\* The loop with getDir and getSubdir over the directories of a path.
Walk(d, dirs) ==
    LET at[n \in 0 .. Len(dirs)] ==
          IF n = 0 THEN cwd ELSE search_dentry(d, at[n - 1], dirs[n], D_DIR)
    IN  at[Len(dirs)]

\* A directory's inode with one entry more, or one less: only directories
\* add to links_count, and every entry takes from it.
added_entry_uncounted(ino, type) ==
    [ino EXCEPT !.file_num = IF type = D_LINK THEN @ ELSE @ + 1,
                !.links_count = IF type = D_DIR THEN (@ + 1) % UMOD ELSE @]
added_entry(ino, type) ==
    [ino EXCEPT !.file_num = @ + 1, !.links_count = IF type = D_DIR THEN (@ + 1) % UMOD ELSE @]

removed_entry_signed(ino) == [ino EXCEPT !.file_num = @ - 1, !.links_count = @ - 1]
removed_entry_twice(ino) == [ino EXCEPT !.file_num = @ - 2, !.links_count = (@ - 1) % UMOD]
removed_entry(ino) == [ino EXCEPT !.file_num = @ - 1, !.links_count = (@ - 1) % UMOD]

\* create_dentry: the directory's inode, then its block.
create_dentry(h, dir, id, name, type) ==
    LET d == Card(h)
        b == d.inode[dir].direct[0]
        free == {k \in Dentries : d.dentry[b][k].type = Unused}
        g == write_inode(assert(h, free # {}), dir, added_entry(d.inode[dir], type))
    IN  sd_write(g, [Card(g) EXCEPT !.dentry[b][Min(free)] =
                        [type |-> type, inode_id |-> id, name |-> name]])

\* delete_dentry refuses a directory that is not empty or that has links.
Deletable(d, id) == d.inode[id].file_num = 2 /\ d.inode[id].links_count = 1

\* It clears the first entry, in use or not, with that inode, and leaves the
\* inode number there.
delete_dentry(h, dir, id) ==
    LET d == Card(h)
        b == d.inode[dir].direct[0]
        with == {k \in Dentries : d.dentry[b][k].inode_id = id}
        g == assert(write_inode(h, dir, removed_entry(d.inode[dir])), with # {})
    IN  sd_write(g, [Card(g) EXCEPT !.dentry[b][Min(with)] =
                        [type |-> Unused, inode_id |-> id, name |-> ""]])

\* The end of do_rmdir and do_rm: direct_block[0], the inode, its map entry.
destroy(h, id) ==
    free_inode_map(write_inode(release_block(h, Card(h).inode[id].direct[0]), id, NoInode), id)

-----------------------------------------------------------------------------
(* File blocks *)

\* One step of byte_locate is a record r: the history, the inode as the
\* handler holds it in memory, and the block reached so far.  A pointer of
\* the inode, or of the block reached, that is 0 gets a new cleared block.
\* For a pointer old of the inode, linked is the inode with the new block there.
inode_ptr(r, old, linked) ==
    LET b == new_block(r.h)
    IN  IF old # 0 THEN [r EXCEPT !.id = old]
        ELSE [h |-> zero_block(alloc_block(r.h), b), ino |-> linked, id |-> b]

block_ptr(r, k) ==
    LET b == new_block(r.h)
        g == alloc_block(r.h)
        old == Card(r.h).index[r.id][k]
    IN  IF old # 0 THEN [r EXCEPT !.id = old]
        ELSE [r EXCEPT !.id = b,
                       !.h = zero_block(sd_write(g, [Card(g) EXCEPT !.index[r.id][k] = b]), b)]

\* byte_locate: the block of a page of the file, through none, one or two
\* levels of index blocks.  (A uint32_t offset never reaches the third.)
byte_locate(h, i, ino, page) ==
    LET r == [h |-> h, ino |-> ino, id |-> 0]
        b == new_block(h)
        p1 == page - DIRECT_SIZE
        p2 == p1 - FIRST_BLOCK_NUM * FIRST_BLOCK_SIZE
        second == FIRST_BLOCK_SIZE * FIRST_BLOCK_SIZE
        k1 == p1 \div FIRST_BLOCK_SIZE
        k2 == p2 \div second
        located ==
            IF p1 < 0 THEN inode_ptr(r, ino.direct[page], [ino EXCEPT !.direct[page] = b])
            ELSE IF p2 < 0
            THEN block_ptr(inode_ptr(r, ino.first[k1], [ino EXCEPT !.first[k1] = b]),
                           p1 % FIRST_BLOCK_SIZE)
            ELSE block_ptr(block_ptr(inode_ptr(r, ino.second[k2], [ino EXCEPT !.second[k2] = b]),
                                     (p2 % second) \div FIRST_BLOCK_SIZE),
                           p2 % FIRST_BLOCK_SIZE)
    IN  [located EXCEPT !.h = write_inode(located.h, i, located.ino)]

\* The value of a uint32_t; of a sum of int and uint32_t, too.
Unsigned(n) == n % (MaxSize + 1)

\* The pages a transfer of n bytes at offset o touches, in order.
PagesOf(o, n) == [k \in 1 .. (o + n - 1) \div BLOCK_SIZE - o \div BLOCK_SIZE + 1 |->
                    (o \div BLOCK_SIZE + k - 1) % (MaxSize \div BLOCK_SIZE + 1)]

\* The loop of do_fread and do_fwrite: locate each page and, when writing,
\* put the bytes of bs that fall into it there.
transfer(i, o, n, bs) ==
    LET pages == PagesOf(o, n)
        moved(d, b, page) ==
            [x \in 0 .. BLOCK_SIZE - 1 |->
                LET at == Unsigned(page * BLOCK_SIZE + x - o) + 1
                IN  IF at \in DOMAIN bs THEN bs[at] ELSE d.data[b][x]]
        done[k \in 0 .. Len(pages)] ==
            IF k = 0 THEN [h |-> Begin, ino |-> disk.inode[i], id |-> 0]
            ELSE LET r == byte_locate(done[k - 1].h, i, done[k - 1].ino, pages[k])
                     d == Card(r.h)
                 IN  IF bs = <<>> THEN r
                     ELSE [r EXCEPT !.h = sd_write(r.h,
                             [d EXCEPT !.data[r.id] = moved(d, r.id, pages[k])])]
    IN  done[Len(pages)]

\* The block that holds a page of a file, 0 for a hole.
BlockOf(d, ino, page) ==
    LET p1 == page - DIRECT_SIZE
        p2 == p1 - FIRST_BLOCK_NUM * FIRST_BLOCK_SIZE
        second == FIRST_BLOCK_SIZE * FIRST_BLOCK_SIZE
        index(b, k) == IF b = 0 THEN 0 ELSE d.index[b][k]
    IN  IF p1 < 0 THEN ino.direct[page]
        ELSE IF p2 < 0 THEN index(ino.first[p1 \div FIRST_BLOCK_SIZE], p1 % FIRST_BLOCK_SIZE)
        ELSE index(index(ino.second[p2 \div second], (p2 % second) \div FIRST_BLOCK_SIZE),
                   p2 % FIRST_BLOCK_SIZE)

ByteAt(d, ino, o) ==
    LET b == BlockOf(d, ino, o \div BLOCK_SIZE)
    IN  IF b = 0 THEN 0 ELSE d.data[b][o % BLOCK_SIZE]

-----------------------------------------------------------------------------
(* System calls *)

NoFdesc == [open |-> FALSE, inode_id |-> 0, mode |-> 0, rd_offset |-> 0, wr_offset |-> 0]
Closed == [f \in Fdescs |-> NoFdesc]

Calls(c) == ~crashed /\ c \in scenario

\* unlink: rm of one of several names of a file
\* ln_dir: a link to a directory
\* rmdir_dots: rmdir of a path that ends in "." or ".."
\* rmdir_cwd: rmdir of the current directory
\* not_dir: a path that leads through a link to a file (D_DIR matches D_LINK)
\* rm_open: rm of an open file
\* mkfs_open: mkfs with files open (do_mkfs leaves fdesc_array alone)
\* past_end: a read or a write beyond the largest offset
Misuses == {"unlink", "ln_dir", "rmdir_dots", "rmdir_cwd", "not_dir", "rm_open", "mkfs_open",
            "past_end"}
May(m) == m \in scenario

\* How a call with history h ends: it returns, leaving this in memory, or the
\* machine goes down somewhere on the way.
Returns(h, newcwd, newfdesc, newout) ==
    /\ h.ok
    /\ disk' = Card(h)
    /\ cwd' = newcwd
    /\ fdesc' = newfdesc
    /\ out' = newout
    /\ UNCHANGED <<scenario, crashed>>
Crashes(h) ==
    /\ "crash" \in scenario
    /\ \E n \in DOMAIN h.log : disk' = h.log[n]
    /\ cwd' = Root
    /\ fdesc' = Closed
    /\ out' = <<>>
    /\ crashed' = TRUE
    /\ UNCHANGED scenario
Ends(h) == Returns(h, cwd, fdesc, <<>>) \/ Crashes(h)

\* do_mkfs, answered with Y if there already is a file system.
mkfs(h) ==
    LET h1 == sd_write(h, [Card(h) EXCEPT !.inode_map = {}])
        h2 == sd_write(h1, [Card(h1) EXCEPT !.block_map = {}])
        h3 == sd_write(h2, [Card(h2) EXCEPT !.inode = [i \in Inodes |-> NoInode]])
        i == new_inode(h3)
        h4 == alloc_inode(h3)
        b == new_block(h4)
    IN  create_dir_block(create_inode(alloc_block(h4), i, b, D_DIR), b, i, i)

do_mkfs ==
    /\ Calls("mkfs")
    /\ fdesc # Closed => May("mkfs_open")
    /\ Returns(mkfs(Begin), Root, fdesc, <<>>)

\* The search for the directory of a path found something.
Found(dir) ==
    /\ dir # None
    /\ disk.inode[dir].type # D_DIR => May("not_dir")

do_cd(dirs) ==
    LET dir == Walk(disk, dirs)
    IN
    /\ Calls("cd")
    /\ dirs # <<>>
    /\ Found(dir)
    /\ Returns(Begin, disk.inode[dir].inode_id, fdesc, <<>>)

mkdir_late_block(h, dir, name) ==
    LET id == new_inode(h)
        g == create_dentry(alloc_inode(h), dir, id, name, D_DIR)
        b == new_block(g)
    IN  create_dir_block(alloc_block(create_inode(g, id, b, D_DIR)), b, dir, id)
mkdir_late_inode(h, dir, name) ==
    LET id == new_inode(h)
        g == alloc_inode(create_dentry(h, dir, id, name, D_DIR))
        b == new_block(g)
    IN  create_dir_block(create_inode(alloc_block(g), id, b, D_DIR), b, dir, id)
mkdir(h, dir, name) ==
    LET id == new_inode(h)
        g == create_dentry(alloc_inode(h), dir, id, name, D_DIR)
        b == new_block(g)
    IN  create_dir_block(create_inode(alloc_block(g), id, b, D_DIR), b, dir, id)

do_mkdir(dirs, name) ==
    LET dir == Walk(disk, dirs)
    IN
    /\ Calls("mkdir")
    /\ Found(dir)
    /\ search_dentry(disk, dir, name, D_DIR) = None
    /\ Ends(mkdir(Begin, dir, name))

do_rmdir(dirs, name) ==
    LET dir == Walk(disk, dirs)
        id == search_dentry(disk, dir, name, D_DIR)
    IN
    /\ Calls("rmdir")
    /\ Found(dir)
    /\ id # None
    /\ name \in {".", ".."} => May("rmdir_dots")
    /\ id = cwd => May("rmdir_cwd")
    /\ Deletable(disk, id)
    /\ Ends(destroy(assert(delete_dentry(Begin, dir, id), disk.inode[id].type = D_DIR), id))

touch(h, dir, name) ==
    LET id == new_inode(h)
        g == create_dentry(alloc_inode(h), dir, id, name, D_FILE)
        b == new_block(g)
    IN  zero_block(create_inode(alloc_block(g), id, b, D_FILE), b)

do_touch(dirs, name) ==
    LET dir == Walk(disk, dirs)
    IN
    /\ Calls("touch")
    /\ Found(dir)
    /\ search_dentry(disk, dir, name, D_FILE) = None
    /\ Ends(touch(Begin, dir, name))

\* An inode with links loses an entry and nothing else, not even from its
\* links_count.
do_rm(dirs, name) ==
    LET dir == Walk(disk, dirs)
        id == search_dentry(disk, dir, name, D_FILE)
        h == delete_dentry(Begin, dir, id)
    IN
    /\ Calls("rm")
    /\ Found(dir)
    /\ id # None
    /\ disk.inode[id].links_count # 1 => May("unlink")
    /\ \A f \in Fdescs : fdesc[f].open /\ fdesc[f].inode_id = id => May("rm_open")
    /\ Ends(IF disk.inode[id].links_count = 1
            THEN destroy(assert(h, disk.inode[id].type = D_FILE), id) ELSE h)

\* Files never have as many links as a uint32_t counts: a card holds fewer
\* entries (128 in each of 512 directories).
do_ln(src, srcname, dst, name) ==
    LET from == Walk(disk, src)
        id == search_dentry(disk, from, srcname, D_LINK)
        dir == Walk(disk, dst)
    IN
    /\ Calls("ln")
    /\ Found(from)
    /\ Found(dir)
    /\ id # None
    /\ disk.inode[id].type = D_FILE => disk.inode[id].links_count < UMOD - 1
    /\ disk.inode[id].type # D_FILE => May("ln_dir")
    /\ search_dentry(disk, dir, name, D_LINK) = None
    /\ Ends(create_dentry(write_inode(Begin, id, [disk.inode[id] EXCEPT !.links_count = (@ + 1) % UMOD]),
                          dir, id, name, D_LINK))

\* do_fopen of a name of the current directory, creating the file if need be.
\* With every descriptor in use its assertion fails, after the file is there.
do_fopen(name, mode) ==
    LET old == search_dentry(disk, cwd, name, D_FILE)
        id == IF old = None THEN new_inode(Begin) ELSE old
        free == {f \in Fdescs : ~fdesc[f].open}
        h == assert(IF old = None THEN touch(Begin, cwd, name) ELSE Begin, free # {})
    IN
    /\ Calls("fopen")
    /\ \/ Returns(h, cwd, [fdesc EXCEPT ![Min(free)] =
                     [open |-> TRUE, inode_id |-> id, mode |-> mode, rd_offset |-> 0, wr_offset |-> 0]],
                  <<>>)
       \/ Crashes(h)

do_fclose(f) ==
    /\ Calls("fopen")
    /\ fdesc[f].open
    /\ Returns(Begin, cwd, [fdesc EXCEPT ![f] = NoFdesc], <<>>)

O_RDONLY == 1
O_WRONLY == 2
O_RDWR == 3
MayRead(mode) == mode \in {O_RDONLY, O_RDWR}
MayWrite(mode) == mode \in {O_WRONLY, O_RDWR}

do_fread(f, n) ==
    LET i == fdesc[f].inode_id
        o == fdesc[f].rd_offset
        end == Unsigned(o + n)
        r == transfer(i, o, n, <<>>)
        h == write_inode(r.h, i, r.ino)
    IN
    /\ Calls("rw")
    /\ fdesc[f].open
    /\ MayRead(fdesc[f].mode)
    /\ disk.inode[i].size >= end
    /\ end # o + n => May("past_end")
    /\ \/ Returns(h, cwd, [fdesc EXCEPT ![f].rd_offset = end],
                  [k \in 1 .. n |-> ByteAt(Card(r.h), r.ino, Unsigned(o + k - 1))])
       \/ Crashes(h)

\* A file that reaches up to end at least.
grown_truncates(ino, end) == [ino EXCEPT !.size = end]
grown(ino, end) == [ino EXCEPT !.size = IF @ < end THEN end ELSE @]

\* Its check of the size is never false: the sum is a uint32_t.
do_fwrite(f, bs) ==
    LET i == fdesc[f].inode_id
        o == fdesc[f].wr_offset
        end == Unsigned(o + Len(bs))
        r == transfer(i, o, Len(bs), bs)
        h == write_inode(r.h, i, grown(r.ino, end))
    IN
    /\ Calls("rw")
    /\ fdesc[f].open
    /\ MayWrite(fdesc[f].mode)
    /\ end # o + Len(bs) => May("past_end")
    /\ \/ Returns(h, cwd, [fdesc EXCEPT ![f].wr_offset = end], <<>>)
       \/ Crashes(h)

\* do_lseek.  A descriptor that may read goes no further than the end of the
\* file, and then does not move its write offset either; one that only writes
\* extends the file, as far as 2^32 - 1 for a target of -1.
do_lseek(f, offset, whence) ==
    LET fp == fdesc[f]
        i == fp.inode_id
        ino == disk.inode[i]
        target(cur) == CASE whence = "SET" -> offset
                         [] whence = "CUR" -> cur + offset
                         [] whence = "END" -> ino.size + offset
        rd == Unsigned(target(fp.rd_offset))
        wr == Unsigned(target(fp.wr_offset))
        r == IF MayWrite(fp.mode) /\ wr > ino.size
             THEN byte_locate(Begin, i, ino, wr \div BLOCK_SIZE)
             ELSE [h |-> Begin, ino |-> ino, id |-> 0]
        h == write_inode(r.h, i, IF MayWrite(fp.mode) THEN grown(r.ino, wr) ELSE r.ino)
    IN
    /\ Calls("lseek")
    /\ fp.open
    /\ MayRead(fp.mode) => rd <= ino.size
    /\ \/ Returns(h, cwd,
                  [fdesc EXCEPT ![f].rd_offset = IF MayRead(fp.mode) THEN rd ELSE @,
                                ![f].wr_offset = IF MayWrite(fp.mode) THEN wr ELSE @], <<>>)
       \/ Crashes(h)

-----------------------------------------------------------------------------
(* The specification *)

Init ==
    /\ disk = Card(mkfs([log |-> <<Blank>>, ok |-> TRUE]))
    /\ cwd = Root
    /\ fdesc = Closed
    /\ out = <<>>
    /\ scenario \in Scenarios
    /\ crashed = FALSE

\* The names programs give: "." and ".." only in a scenario with "dots".
Given == {name \in Names : name \in {".", ".."} => May("dots")}
Paths == UNION {[1 .. n -> Given \cup {".."}] : n \in 0 .. MaxDepth}

Next ==
    \/ do_mkfs
    \/ \E dirs \in Paths : do_cd(dirs)
    \/ \E dirs \in Paths, name \in Given :
         \/ do_mkdir(dirs, name)
         \/ do_rmdir(dirs, name)
         \/ do_touch(dirs, name)
         \/ do_rm(dirs, name)
         \/ \E src \in Paths, srcname \in Given : do_ln(src, srcname, dirs, name)
    \/ \E name \in Given, mode \in {O_RDONLY, O_WRONLY, O_RDWR} : do_fopen(name, mode)
    \/ \E f \in Fdescs :
         \/ do_fclose(f)
         \/ \E n \in Lengths : do_fread(f, n)
         \/ \E bs \in Buffers : do_fwrite(f, bs)
         \/ \E offset \in Offsets, whence \in {"SET", "CUR", "END"} :
              do_lseek(f, offset, whence)

Spec == Init /\ [][Next]_vars

-----------------------------------------------------------------------------
(* Properties *)

InodeRecord ==
    [type : {Unused, D_DIR, D_FILE}, mode : {0, 3}, inode_id : Inodes, file_num : 0 .. DENTRIES,
     links_count : 0 .. UMOD - 1, size : Nat,
     direct : [0 .. DIRECT_SIZE - 1 -> Blocks],
     first : [0 .. FIRST_BLOCK_NUM - 1 -> Blocks],
     second : [0 .. SECOND_BLOCK_NUM - 1 -> Blocks]]
DentryRecord ==
    [type : {Unused, D_DIR, D_FILE, D_LINK}, inode_id : Inodes, name : Names \cup {"", ".", ".."}]

CardRecord ==
    [inode_map : SUBSET Inodes, block_map : SUBSET Blocks, inode : [Inodes -> InodeRecord],
     dentry : [Blocks -> [Dentries -> DentryRecord]],
     index : [Blocks -> [0 .. FIRST_BLOCK_SIZE - 1 -> Blocks]],
     data : [Blocks -> [0 .. BLOCK_SIZE - 1 -> Bytes]]]
FdescRecord ==
    [open : BOOLEAN, inode_id : Inodes, mode : 0 .. 3, rd_offset : 0 .. MaxSize, wr_offset : 0 .. MaxSize]

\* The type of every variable.  file_num, which delete_dentry lowers
\* (fs.c:961), stays between 0 and the entries of a block.  links_count is any
\* uint32_t: that of a directory wraps, for every entry removed lowers it and
\* only those of directories have raised it.
TypeOK ==
    /\ disk \in CardRecord
    /\ cwd \in Inodes
    /\ fdesc \in [Fdescs -> FdescRecord]
    /\ \A k \in DOMAIN out : out[k] \in Bytes
    /\ scenario \in Scenarios /\ crashed \in BOOLEAN

Dirs(d) == {i \in d.inode_map : d.inode[i].type = D_DIR}
Regular(d) == {i \in d.inode_map : d.inode[i].type = D_FILE}
Used(d, dir) == {k \in Dentries : DirBlock(d, dir)[k].type # Unused}

\* The entries, other than "." and "..", that name inode i.
NamesOf(d, i) == {p \in Dirs(d) \X Dentries :
                    /\ p[2] \in Used(d, p[1]) \ {0, 1}
                    /\ DirBlock(d, p[1])[p[2]].inode_id = i}

\* The inodes that a path leads to.
Named(d) == {i \in Dirs(d) \cup Regular(d) : i = Root \/ NamesOf(d, i) # {}}

\* The entries of directory i of card d are those of a tree.
DirConsistent(d, i) ==
    LET block == DirBlock(d, i)
    IN
    /\ d.inode[i].file_num = Cardinality(Used(d, i))
    /\ block[0].name = "." /\ block[0].inode_id = i
    /\ block[1].name = ".."
    /\ i # Root => NamesOf(d, i) # {} /\ \A p \in NamesOf(d, i) : p[1] = block[1].inode_id
    /\ Cardinality(NamesOf(d, i)) = IF i = Root THEN 0 ELSE 1
    /\ \A k \in Used(d, i) :
         /\ d.inode[block[k].inode_id].type \subseteq block[k].type
         /\ \A l \in Used(d, i) \ {k} :
              block[k].name = block[l].name => block[k].type \cap block[l].type = {}

\* links_count begins with the one link that create_inode says a file has
\* (fs.c:769), and from then on is the number of its names.  delete_dentry
\* (fs.c:950) does not lower it, so that this fails with "unlink".
LinksCounted ==
    ~crashed =>
    \A i \in Regular(disk) : Cardinality(NamesOf(disk, i)) = disk.inode[i].links_count

\* The directories are a tree as long as no program of Misuses comes along.
\* file_num counts the entries in use (search_dentry stops there, fs.c:865);
\* no name is taken twice; every directory has one name, in the directory its
\* ".." leads to; a file has links_count names; every inode in use has one;
\* the current directory has not been removed.
TreeConsistent ==
    /\ LinksCounted
    /\ ~crashed =>
        /\ cwd \in Dirs(disk)
        /\ \A i \in Dirs(disk) : DirConsistent(disk, i)
        /\ disk.inode_map = Dirs(disk) \cup Regular(disk)

\* The pointers in use in inode i and in its index blocks: where each is and
\* the block it leads to.
Pointers(at, of, array) ==
    {[at |-> at, of |-> of, k |-> k, to |-> array[k]] : k \in {x \in DOMAIN array : array[x] # 0}}
Under(d, refs) == UNION {Pointers("index", r.to, d.index[r.to]) : r \in refs}
Refs(d, i) ==
    LET ino == d.inode[i]
        first == Pointers("first", i, ino.first)
        second == Pointers("second", i, ino.second)
        middle == Under(d, second)
    IN  Pointers("direct", i, ino.direct) \cup first \cup second \cup middle
          \cup Under(d, first \cup middle)

\* No two inodes, and no two places of one, share a block, block 0 is the
\* root directory's alone, and no block in use is free to be given away: also
\* in every card a crash leaves, between any two writes of alloc_block,
\* byte_locate (fs.c:1003) and release_block.
BlocksExclusive ==
    LET refs == UNION {Refs(disk, i) : i \in Named(disk)}
    IN
    /\ \A r \in refs : r.to \in disk.block_map
    /\ \A r, q \in refs : r # q => r.to # q.to
    /\ Root \in Named(disk) /\ disk.inode[Root].direct[0] = 0 /\ 0 \in disk.block_map
    /\ \A i \in Named(disk) \ {Root} : disk.inode[i].direct[0] # 0

\* No entry of a directory names a free inode, not even after a crash in the
\* middle of a call: do_mkdir and do_touch take the inode before they write
\* the entry (fs.c:217, 380) and do_rm and do_rmdir give it back last.  This
\* asks that nobody removes "." (do_rmdir then clears the entry "." of the
\* directory it frees, not the one that names it) and nobody links directories
\* (each file removed from one hides a link to it from delete_dentry).
NoDangling ==
    \A i \in Dirs(disk) \cap Named(disk) :
        \A k \in Used(disk, i) : DirBlock(disk, i)[k].inode_id \in disk.inode_map

\* The names that stand for something else on card e than on card d.
Changed(d, e) ==
    {p \in (Dirs(d) \cap Dirs(e)) \X Names :
        \E mask \in {D_DIR, D_FILE} :
            search_dentry(e, p[1], p[2], mask) # search_dentry(d, p[1], p[2], mask)}

\* A call that returns changes what one name of one directory stands for and
\* no other, and a removal the name it was given: though entries are found by
\* counting those in use (fs.c:862) and cleared by inode number, in slots that
\* keep the number of an earlier entry (fs.c:969).
NamesStable ==
    [][ \/ crashed'
        \/ disk' = Card(mkfs(Begin))
        \/ /\ Cardinality(Changed(disk, disk')) <= 1
           /\ \A dirs \in Paths, name \in Names :
                do_rm(dirs, name) \/ do_rmdir(dirs, name) =>
                    Changed(disk, disk') \subseteq {<<Walk(disk, dirs), name>>}
      ]_vars

contents ==
    [i \in Inodes |->
        IF i \in Regular(disk) THEN [k \in 1 .. disk.inode[i].size |-> ByteAt(disk, disk.inode[i], k - 1)]
        ELSE <<-1>>]

Store == INSTANCE FileStore WITH Files <- Inodes, files <- contents, down <- crashed

\* The inodes, index blocks and block map implement sequences of bytes: a
\* read returns what was written at that offset of that file, with zeroes in
\* the holes, and a crash harms only the file being changed.  (No transfer
\* goes beyond the largest offset: with "past_end" it would go on at 0.)
FileStoreSpec == Store!Spec
=============================================================================
