------------------------------- MODULE Files --------------------------------
(***************************************************************************)
(* The dentry cache (fs/utils/dentry.rs) and the file system calls over an  *)
(* ext2 file system: create, lookup, link, unlink, rmdir, rename, read and  *)
(* write, truncate, fsync, and sync(2) running beside all the others.       *)
(*                                                                          *)
(* A call runs under the locks of the directories it changes and is one     *)
(* step, but for the places where it may sleep with less than those locks:  *)
(* rename between the check of the paths and Dentry::rename, and before it  *)
(* sets the ".." of a directory; link and unlink between the entry and the  *)
(* link count.  `asleep` holds the calls at such a place.  sync(2) holds no *)
(* lock between two inodes, so each inode is a step of its own.  A          *)
(* directory's dentry stands for its inode object.                          *)
(***************************************************************************)
EXTENDS Integers, Sequences, FiniteSets, SequencesExt, FiniteSetsExt

(***************************************************************************)
(* The ext2 file system (fs/ext2): allocation of inodes and blocks in       *)
(* block groups, inodes with direct blocks and holes, the page cache in     *)
(* front of them, directory entries, the inode cache and write-back.        *)
(*                                                                          *)
(* The file system is a value `s` and every operation an operator that      *)
(* returns the new value, an error code and an inode; the calls further     *)
(* down make actions of them.  An inode in memory is an object: two objects *)
(* may stand for one inode number, since a removed file can still be open.  *)
(*                                                                          *)
(* Sizes are counted in blocks, directory records in record units.  The     *)
(* content of a block of a file is the number of the inode that wrote it.   *)
(* The content of a directory is kept whole, with its first block.          *)
(***************************************************************************)

CONSTANTS
  NGroups,            \* number of block groups
  inodes_per_group,
  blocks_per_group,
  BLOCK_SIZE,         \* record units in a directory block
  MaxObj,             \* bound: inode objects in memory
  actual_len          \* record units that a directory entry of a name needs

ROOT_INO == 2
Groups == 0 .. NGroups - 1
Inos == 1 .. NGroups * inodes_per_group
Bids == 0 .. NGroups * blocks_per_group - 1
Objs == 1 .. MaxObj

block_group_of_ino(ino) == (ino - 1) \div inodes_per_group

block_group_of_bid(bid) == bid \div blocks_per_group

Zero == <<>>

Entry(name, ino, isDir, rec) ==
  [name |-> name, ino |-> ino, dir |-> isDir, rec |-> rec]

\* A block written through the inode of number `ino`.
Written(ino) == <<Entry("data", ino, FALSE, 0)>>

NoRaw == [type |-> "none", links |-> 0, data |-> <<>>]

OK(s, o) == [s |-> s, e |-> "ok", o |-> o]
Err(s, e) == [s |-> s, e |-> e, o |-> 0]

\* The `?` of the code: go on with a result, or return its error.
Try(r, Go(_)) == IF r.e = "ok" THEN Go(r) ELSE r

\* Go on if a check has passed, or return its error.
Check(s, e, r) == IF e = "ok" THEN r ELSE Err(s, e)

-----------------------------------------------------------------------------
(* Block groups and the super block. *)

\* The groups in the order in which an allocation tries them.
TryOrder(g) == [i \in 1 .. NGroups |-> (g + i - 1) % NGroups]

FirstWith(g, suitable) ==
  LET ok == { i \in 1 .. NGroups : TryOrder(g)[i] \in suitable }
  IN  IF ok = {} THEN -1 ELSE TryOrder(g)[Min(ok)]

FreeBlocksOf(s, g) == { b \in Bids \ s.bb : block_group_of_bid(b) = g }

FreeInosOf(s, g) == { i \in Inos \ s.ib : block_group_of_ino(i) = g }

\* A block of group g, or else of the groups after it; -1: ENOSPC.
TakeBlock(s, g, b) ==
  [s |-> [s EXCEPT !.bb = @ \cup {b}, !.nfb[g] = @ - 1, !.sb.blocks = @ - 1, !.sbdirty = TRUE],
   bid |-> b]

alloc_block_in(s, g) ==
  IF g = -1 THEN [s |-> [s EXCEPT !.full = TRUE], bid |-> -1]
  ELSE TakeBlock(s, g, Min(FreeBlocksOf(s, g)))

alloc_block(s, g) ==
  alloc_block_in(s, FirstWith(g, { k \in Groups : s.nfb[k] > 0 /\ FreeBlocksOf(s, k) # {} }))

\* The assertion that the block was allocated is `panic`.
free_block(s, b) ==
  [s EXCEPT !.bb = @ \ {b}, !.nfb[block_group_of_bid(b)] = @ + 1,
            !.sb.blocks = @ + 1, !.sbdirty = TRUE,
            !.panic = @ \/ b \notin s.bb]

TakeIno(s, g, ino, isDir) ==
  [s |-> [s EXCEPT !.ib = @ \cup {ino}, !.nfi[g] = @ - 1,
                   !.nd[g] = @ + (IF isDir THEN 1 ELSE 0),
                   !.sb.inodes = @ - 1, !.sbdirty = TRUE],
   ino |-> ino]

alloc_ino_in(s, g, isDir) ==
  IF g = -1 THEN [s |-> s, ino |-> 0] ELSE TakeIno(s, g, Min(FreeInosOf(s, g)), isDir)

alloc_ino(s, g, isDir) ==
  alloc_ino_in(s, FirstWith(g, { k \in Groups : s.nfi[k] > 0 /\ FreeInosOf(s, k) # {} }), isDir)

free_inode(s, ino, isDir) ==
  LET g == block_group_of_ino(ino)
  IN  [s EXCEPT !.sb.inodes = @ + 1, !.sbdirty = TRUE,
                !.ib = @ \ {ino}, !.nfi[g] = @ + 1,
                !.nd[g] = @ - (IF isDir THEN 1 ELSE 0),
                !.cache = [i \in DOMAIN @ \ {ino} |-> @[i]],
                !.panic = @ \/ ino \notin s.ib]

-----------------------------------------------------------------------------
(* Inodes in memory. *)

\* Inode::new with the descriptor `raw`; no block of it is a hole.
NewInode(ino, raw, dirty) ==
  [ino |-> ino, type |-> raw.type, links |-> raw.links, data |-> raw.data,
   holes |-> {}, dirty |-> dirty, freed |-> FALSE,
   psize |-> Len(raw.data), page |-> <<>>, pd |-> {}]

RawInode(n) == [type |-> n.type, links |-> n.links, data |-> n.data]

AddObjectAs(s, o, n) ==
  OK([s EXCEPT !.obj = (o :> n) @@ @, !.cache = (n.ino :> o) @@ @], o)
AddObject(s, n) == AddObjectAs(s, Min(Objs \ DOMAIN s.obj), n)

\* Another object for this number is alive: it is being written back.
HasTwin(s, ino) == \E x \in DOMAIN s.obj : s.obj[x].ino = ino /\ ~s.obj[x].freed

lookup_inode(s, ino) ==
  IF ino \notin s.ib THEN Err(s, "ENOENT")
  ELSE IF ino \in DOMAIN s.cache THEN OK(s, s.cache[ino])
  ELSE IF s.raw[ino].type = "none" THEN Err(s, "EINVAL")
  ELSE AddObject([s EXCEPT !.split = @ \/ HasTwin(s, ino)],
                 NewInode(ino, s.raw[ino], FALSE))

insert_inode(a, type) ==
  IF a.ino = 0 THEN Err(a.s, "ENOSPC")
  ELSE AddObject(a.s, NewInode(a.ino, [type |-> type, links |-> 1, data |-> <<>>], TRUE))
create_inode(s, g, type) == insert_inode(alloc_ino(s, g, type = "Dir"), type)

-----------------------------------------------------------------------------
(* Blocks of an inode, and the page cache in front of them. *)

ReadBlock(s, o, i) ==
  LET n == s.obj[o] IN IF i \in n.holes THEN Zero ELSE s.dev[n.data[i]]

write_block(s, o, i, c) ==
  [s EXCEPT !.dev[s.obj[o].data[i]] = c, !.obj[o].holes = @ \ {i}]

\* What a read of page i returns: the cached page, the block, or zeros.
ReadPage(s, o, i) ==
  LET n == s.obj[o]
  IN  IF i \in DOMAIN n.page THEN n.page[i]
      ELSE IF i <= Len(n.data) THEN ReadBlock(s, o, i) ELSE Zero

\* commit_page: a page beyond the blocks starts as a dirty page of zeros.
commit_page(s, o, i) ==
  LET n == s.obj[o]
  IN  IF i \in DOMAIN n.page THEN s
      ELSE [s EXCEPT !.obj[o].page = [j \in DOMAIN @ \cup {i} |->
                                         IF j = i THEN ReadPage(s, o, i) ELSE @[j]],
                     !.obj[o].pd = IF i <= Len(n.data) THEN @ ELSE @ \cup {i}]

WritePage(s, o, i, c) ==
  [commit_page(s, o, i) EXCEPT !.obj[o].page[i] = c, !.obj[o].pd = @ \cup {i}]

\* Write back the dirty pages among `idx` that have a block.
WriteBlocks(s, o, w, Of(_)) ==
  [s EXCEPT !.dev = [b \in Bids |-> IF \E i \in w : s.obj[o].data[i] = b
                                    THEN Of(CHOOSE i \in w : s.obj[o].data[i] = b) ELSE @[b]],
            !.obj[o].holes = @ \ w, !.obj[o].pd = @ \ w]
WriteBack(s, o, idx) ==
  WriteBlocks(s, o, { i \in idx \cap s.obj[o].pd : i <= Len(s.obj[o].data) },
              LAMBDA i : s.obj[o].page[i])

\* decommit: the pages leave the cache, the dirty ones written back.
decommit(s, o, idx) ==
  [WriteBack(s, o, idx) EXCEPT !.obj[o].page = [i \in DOMAIN @ \ idx |-> @[i]],
                               !.obj[o].pd = @ \ idx]

ResizePages(s, o, n) ==
  [decommit(s, o, { i \in DOMAIN s.obj[o].page : i > n }) EXCEPT !.obj[o].psize = n]

\* New blocks are holes; blocks_hole.resize marks them.
HolesKept(holes, old, new) == { i \in holes : i <= new }
HolesAfter(holes, old, new) == { i \in holes : i <= new } \cup (old + 1 .. new)

AddBlock(data, a) == [s |-> a.s, ok |-> a.bid # -1, data |-> Append(data, a.bid)]

GrowData(s, o, new) ==
  FoldLeft(LAMBDA acc, i : IF ~acc.ok THEN acc
                           ELSE AddBlock(acc.data, alloc_block(acc.s, block_group_of_ino(s.obj[o].ino))),
           [s |-> s, ok |-> TRUE, data |-> s.obj[o].data],
           [i \in 1 .. new - Len(s.obj[o].data) |-> i])

SetBlocks(s, o, data) ==
  OK([s EXCEPT !.obj[o].data = data, !.obj[o].holes = HolesAfter(@, Len(s.obj[o].data), Len(data)),
               !.obj[o].dirty = TRUE], o)

\* InodeImpl_::resize.  Running out of blocks half-way leaves the inode as it
\* was and the blocks already taken allocated.
expand(r, o, old) ==
  IF r.ok THEN SetBlocks(r.s, o, r.data)
  ELSE Err([r.s EXCEPT !.obj[o].dirty = @ \/ Len(r.data) > old + 1], "ENOSPC")

shrink(s, o, data, new) ==
  SetBlocks(FoldLeft(LAMBDA t, b : free_block(t, b), s, SubSeq(data, new + 1, Len(data))),
            o, SubSeq(data, 1, new))

ResizeBlocks(s, o, new) ==
  IF new > Len(s.obj[o].data) THEN expand(GrowData(s, o, new), o, Len(s.obj[o].data))
  ELSE shrink(s, o, s.obj[o].data, new)

\* Inode::resize, the pages first.
resize(s, o, new) ==
  IF s.obj[o].type # "File" THEN Err(s, "EISDIR")
  ELSE IF new = Len(s.obj[o].data) THEN OK(s, o)
  ELSE ResizeBlocks(ResizePages(s, o, new), o, new)

\* write_at: a write past the end resizes the pages, then the inode.
write_at(s, o, i) ==
  IF s.obj[o].type # "File" THEN Err(s, "EISDIR")
  ELSE IF i <= Len(s.obj[o].data) THEN OK(WritePage(s, o, i, Written(s.obj[o].ino)), o)
  ELSE ResizeBlocks(WritePage(ResizePages(s, o, i), o, i, Written(s.obj[o].ino)), o, i)

\* write_direct_at: drop the pages, grow if needed, write the blocks.
write_direct_at(s, o, i) ==
  IF s.obj[o].type # "File" THEN Err(s, "EISDIR")
  ELSE Try(IF i <= Len(s.obj[o].data) THEN OK(decommit(s, o, {i}), o)
           ELSE ResizeBlocks(ResizePages(s, o, i), o, i),
           LAMBDA r : OK(write_block(r.s, o, i, Written(s.obj[o].ino)), o))

read_at(s, o, i) == commit_page(s, o, i)

read_direct_at(s, o, i) == decommit(s, o, {i})

-----------------------------------------------------------------------------
(* Directory entries (dir.rs).  A record may be longer than its entry       *)
(* needs; the gap takes the next entry.                                     *)

Entries(s, d) == ReadPage(s, d, 1)

Find(es, name) == { k \in 1 .. Len(es) : es[k].name = name }

IndexOf(es, name) == CHOOSE k \in Find(es, name) : TRUE

get_entry(s, d, name) == Find(Entries(s, d), name)

gap_len(x) == x.rec - actual_len[x.name]

\* The first entry with a large enough gap is split, else a block is added.
SplitEntry(es, k, name, ino, isDir) ==
  InsertAt([es EXCEPT ![k].rec = actual_len[es[k].name]], k + 1,
           Entry(name, ino, isDir, gap_len(es[k])))

Fitting(es, name) == { k \in 1 .. Len(es) : gap_len(es[k]) >= actual_len[name] }

AppendTo(es, name, ino, isDir) ==
  IF Fitting(es, name) = {}
  THEN [es |-> Append(es, Entry(name, ino, isDir, BLOCK_SIZE)), blocks |-> 1]
  ELSE [es |-> SplitEntry(es, Min(Fitting(es, name)), name, ino, isDir), blocks |-> 0]

\* The record of the entry before it takes the room.  The test for giving
\* back the last block looks at the removed entry, so it never succeeds.
RemoveFrom(es, k) == RemoveAt([es EXCEPT ![k - 1].rec = @ + es[k].rec], k)

\* Renames in place if the record is long enough.
RenameIn(es, k, new) ==
  IF actual_len[new] <= es[k].rec
  THEN [es |-> [es EXCEPT ![k].name = new], blocks |-> 0]
  ELSE AppendTo(RemoveFrom(es, k), new, es[k].ino, es[k].dir)

\* The entries are in the page cache before the inode grows.
WriteEntries(s, d, a) ==
  WritePage([s EXCEPT !.obj[d].psize = @ + a.blocks], d, 1, a.es)

GrowToPages(s, d) ==
  IF s.obj[d].psize > Len(s.obj[d].data) THEN ResizeBlocks(s, d, s.obj[d].psize) ELSE OK(s, d)

AddLinks(s, o, n) == [s EXCEPT !.obj[o].links = @ + n, !.obj[o].dirty = TRUE]

\* Inner::append_entry: a directory gains a link for its "." and for the ".."
\* of a child.
append_entry(s, d, name, ino, isDir) ==
  Try(GrowToPages(WriteEntries(s, d, AppendTo(Entries(s, d), name, ino, isDir)), d),
      LAMBDA r : IF isDir /\ name # ".." THEN OK(AddLinks(r.s, d, 1), d) ELSE r)

RemoveEntryAt(s, d, es, k) ==
  IF es[k].dir THEN AddLinks(WritePage(s, d, 1, RemoveFrom(es, k)), d, -1)
  ELSE WritePage(s, d, 1, RemoveFrom(es, k))

remove_entry(s, d, name) == RemoveEntryAt(s, d, Entries(s, d), IndexOf(Entries(s, d), name))

rename_entry(s, d, old, new) ==
  GrowToPages(WriteEntries(s, d, RenameIn(Entries(s, d), IndexOf(Entries(s, d), old), new)), d)

set_parent_ino(s, o, ino) ==
  WritePage(s, o, 1, [Entries(s, o) EXCEPT ![IndexOf(Entries(s, o), "..")].ino = ino])

-----------------------------------------------------------------------------
(* The operations of a directory inode (inode.rs). *)

\* What every operation on a directory checks first.
DirError(s, d) ==
  IF s.obj[d].type # "Dir" THEN "ENOTDIR"
  ELSE IF s.obj[d].links = 0 THEN "ENOENT" ELSE "ok"

EntryInode(s, d, name) ==
  IF get_entry(s, d, name) = {} THEN Err(s, "ENOENT")
  ELSE lookup_inode(s, Entries(s, d)[IndexOf(Entries(s, d), name)].ino)

lookup(s, d, name) == Check(s, DirError(s, d), EntryInode(s, d, name))

NewNameError(s, d, name) ==
  IF DirError(s, d) # "ok" THEN DirError(s, d)
  ELSE IF get_entry(s, d, name) # {} THEN "EEXIST" ELSE "ok"

\* Inode::init: a directory starts with "." and "..".
InitInode(s, o, parent) ==
  IF s.obj[o].type # "Dir" THEN OK(s, o)
  ELSE Try(append_entry(s, o, ".", s.obj[o].ino, TRUE),
           LAMBDA r : append_entry(r.s, o, "..", parent, TRUE))

\* If the entry cannot be added the inode number is freed again, its blocks
\* are not.
AddNewInode(r, o, ino, isDir) ==
  IF r.e = "ok" THEN OK(r.s, o) ELSE Err(free_inode(r.s, ino, isDir), r.e)

NameNewInode(s, d, name, o, type) ==
  AddNewInode(Try(InitInode(s, o, s.obj[d].ino),
                  LAMBDA r : append_entry(r.s, d, name, s.obj[o].ino, type = "Dir")),
              o, s.obj[o].ino, type = "Dir")

create(s, d, name, type) ==
  Check(s, NewNameError(s, d, name),
        Try(create_inode(s, block_group_of_ino(s.obj[d].ino), type),
            LAMBDA c : NameNewInode(c.s, d, name, c.o, type)))

\* link and unlink up to where they have dropped the lock of the directory: the
\* link count is still the old one.
link(s, d, o, name) ==
  Check(s, IF DirError(s, d) = "ok" /\ s.obj[o].type = "Dir" THEN "EPERM" ELSE NewNameError(s, d, name),
        Try(append_entry(s, d, name, s.obj[o].ino, FALSE), LAMBDA a : OK(a.s, o)))

unlink(s, d, name) ==
  Try(lookup(s, d, name), LAMBDA f :
    Check(f.s, IF f.s.obj[f.o].type = "Dir" THEN "EISDIR" ELSE "ok",
          OK(remove_entry(f.s, d, name), f.o)))

RmdirError(s, o) ==
  IF s.obj[o].type # "Dir" THEN "ENOTDIR"
  ELSE IF Len(Entries(s, o)) > 2 THEN "ENOTEMPTY" ELSE "ok"

rmdir(s, d, name) ==
  Try(lookup(s, d, name), LAMBDA f :
    Check(f.s, RmdirError(f.s, f.o), OK(AddLinks(remove_entry(f.s, d, name), f.o, -2), f.o)))

\* May an inode of type `t` replace the inode y?
ReplaceError(s, t, y) ==
  IF t = "Dir" /\ s.obj[y].type = "Dir" /\ Len(Entries(s, y)) > 2 THEN "ENOTEMPTY"
  ELSE IF t = "Dir" /\ s.obj[y].type # "Dir" THEN "ENOTDIR"
  ELSE IF t # "Dir" /\ s.obj[y].type = "Dir" THEN "EISDIR" ELSE "ok"

\* The links of the inode a rename has replaced: its name, and its ".".
Replaced(s, y) == AddLinks(s, y, IF s.obj[y].type = "Dir" THEN -2 ELSE -1)

\* x takes the name of y in the same directory.
ReplaceWithin(s, d, old, new, x, y) ==
  IF x = y THEN OK(s, x)
  ELSE Check(s, ReplaceError(s, s.obj[x].type, y),
             Try(rename_entry(remove_entry(s, d, new), d, old, new),
                 LAMBDA r : OK(Replaced(r.s, y), x)))

rename_within(s, d, old, new) ==
  Try(lookup(s, d, old), LAMBDA f :
    IF get_entry(f.s, d, new) = {} THEN rename_entry(f.s, d, old, new)
    ELSE Try(EntryInode(f.s, d, new), LAMBDA g : ReplaceWithin(g.s, d, old, new, f.o, g.o)))

\* Across directories: the old entry goes before the new one is in place.  The
\* ".." of a directory is still the old one.
MoveEntry(s, d, old, t, new, x) ==
  Try(append_entry(remove_entry(s, d, old), t, new, s.obj[x].ino, s.obj[x].type = "Dir"),
      LAMBDA r : OK(r.s, x))

ReplaceAcross(s, d, old, t, new, x, y) ==
  IF x = y THEN OK(s, x)
  ELSE Check(s, IF y = d THEN "ENOTEMPTY" ELSE ReplaceError(s, s.obj[x].type, y),
             Try(MoveEntry(remove_entry(s, t, new), d, old, t, new, x),
                 LAMBDA r : OK(Replaced(r.s, y), x)))

TargetError(s, d, t) == IF DirError(s, d) = "ok" THEN DirError(s, t) ELSE DirError(s, d)

rename_across(s, d, old, t, new) ==
  Check(s, TargetError(s, d, t), Try(EntryInode(s, d, old), LAMBDA f :
    IF f.o = t THEN Err(f.s, "EINVAL")
    ELSE IF get_entry(f.s, t, new) = {} THEN MoveEntry(f.s, d, old, t, new, f.o)
    ELSE Try(EntryInode(f.s, t, new), LAMBDA g :
           ReplaceAcross(g.s, d, old, t, new, f.o, g.o))))

rename(s, d, old, t, new) ==
  IF d = t THEN rename_within(s, d, old, new) ELSE rename_across(s, d, old, t, new)

-----------------------------------------------------------------------------
(* Write-back. *)

\* Dirty pages, then zeros for the blocks that are still holes.
FillHoles(s, o) == WriteBlocks(s, o, s.obj[o].holes, LAMBDA i : Zero)
SyncPages(s, o) == WriteBack(s, o, DOMAIN s.obj[o].page)
sync_data(s, o) == FillHoles(WriteBack(s, o, DOMAIN s.obj[o].page), o)

\* The raw inode goes to the cached inode table.  A removed inode gives up its
\* blocks and, once, its number; later calls still write under that number.
FreeOnce(s, o) ==
  IF s.obj[o].freed THEN s
  ELSE [free_inode(s, s.obj[o].ino, s.obj[o].type = "Dir") EXCEPT !.obj[o].freed = TRUE]

WriteRaw(s, o) == [s EXCEPT !.raw[s.obj[o].ino] = RawInode(s.obj[o]), !.obj[o].dirty = FALSE]

sync_metadata(s, o) ==
  IF ~s.obj[o].dirty THEN s
  ELSE IF s.obj[o].links # 0 THEN WriteRaw(s, o)
  ELSE WriteRaw(FreeOnce([ResizeBlocks(s, o, 0).s EXCEPT
                            !.clobber = @ \/ (s.obj[o].freed /\ s.obj[o].ino \in s.ib)], o), o)

sync_all(s, o) == sync_metadata(sync_data(s, o), o)

\* The inode table of group g leaves its page cache for the device.
FlushRawInodes(s, g) ==
  [s EXCEPT !.disk.raw = [i \in Inos |-> IF block_group_of_ino(i) = g THEN s.raw[i] ELSE @[i]]]

\* Ext2::sync_metadata: group descriptors, bitmaps, super block.
SyncBitmaps(s) ==
  IF ~s.sbdirty THEN s
  ELSE [s EXCEPT !.disk.bb = s.bb, !.disk.ib = s.ib, !.disk.sb = s.sb, !.sbdirty = FALSE]

\* All of it, as an undisturbed sync(2) does.
SyncFs(s) ==
  SyncBitmaps(FoldSet(LAMBDA g, t : FlushRawInodes(t, g),
                      FoldSet(LAMBDA o, t : sync_all(t, o), s, DOMAIN s.obj), Groups))

-----------------------------------------------------------------------------
\* Ext2::open finds what is on the device and loads the root.
Reopen(s) ==
  [s EXCEPT !.cache = ROOT_INO :> 1, !.obj = 1 :> NewInode(ROOT_INO, s.raw[ROOT_INO], FALSE)]

\* A freshly made file system, opened: block 0 of each group holds metadata,
\* inode 1 is reserved, the root directory has the first data block.
RootRaw == [type |-> "Dir", links |-> 2, data |-> <<1>>]
RootEntries == <<Entry(".", ROOT_INO, TRUE, actual_len["."]),
                 Entry("..", ROOT_INO, TRUE, BLOCK_SIZE - actual_len["."])>>

Open ==
  LET bb == { b \in Bids : b % blocks_per_group = 0 } \cup {1}
      ib == {1, ROOT_INO}
      raw == [i \in Inos |-> IF i = ROOT_INO THEN RootRaw ELSE NoRaw]
      sb == [blocks |-> Cardinality(Bids \ bb), inodes |-> Cardinality(Inos \ ib)]
  IN  [bb |-> bb, ib |-> ib, sb |-> sb, sbdirty |-> FALSE,
       nfb |-> [g \in Groups |-> Cardinality({ b \in Bids \ bb : block_group_of_bid(b) = g })],
       nfi |-> [g \in Groups |-> Cardinality({ i \in Inos \ ib : block_group_of_ino(i) = g })],
       nd |-> [g \in Groups |-> IF g = 0 THEN 1 ELSE 0],
       raw |-> raw, dev |-> [b \in Bids |-> IF b = 1 THEN RootEntries ELSE Zero],
       disk |-> [bb |-> bb, ib |-> ib, sb |-> sb, raw |-> raw],
       cache |-> ROOT_INO :> 1,
       obj |-> 1 :> NewInode(ROOT_INO, RootRaw, FALSE),
       panic |-> FALSE, full |-> FALSE, split |-> FALSE, clobber |-> FALSE, lost |-> FALSE,
       late |-> FALSE, looped |-> {}]

-----------------------------------------------------------------------------
CONSTANTS
  Names,        \* names of files
  MaxBlocks,    \* bound: blocks of a file
  MaxAsleep,    \* bound: calls asleep between two of their steps, no two alike
  Images,       \* file systems, just opened
  Mixes         \* calls that are made together, and a bound on their number

VARIABLES
  fs,           \* the file system, see above
  dentry,       \* DCACHE: <<directory, name>> to inode object
  opened,       \* inode objects of open files and working directories
  asleep,       \* calls that may sleep between two of their steps
  syncer,       \* the thread in sync(2)
  calm,         \* nothing but sync(2) has run since it started
  mix,          \* the calls of this behaviour
  calls         \* number of calls so far

vars == <<fs, dentry, opened, asleep, syncer, calm, mix, calls>>

Idle == [pc |-> "idle", g |-> 0, todo |-> {}]

RootDir == 1

\* What a call asleep has: the directories whose children it has locked, and the
\* inode objects it refers to.
Referred == UNION { m.refs : m \in asleep }

Free(d) == \A m \in asleep : d \notin m.locked

-----------------------------------------------------------------------------
(* Children::insert_dentry, delete_dentry, find_dentry *)

insert_dentry(dc, d, name, o) ==
  [k \in DOMAIN dc \cup {<<d, name>>} |-> IF k = <<d, name>> THEN o ELSE dc[k]]

delete_dentry(dc, d, name) == [k \in DOMAIN dc \ {<<d, name>>} |-> dc[k]]

ObjsOf(dc) == { dc[k] : k \in DOMAIN dc }

\* The last reference to an inode object is gone.
Collect(s, dc, refs, todo) ==
  LET live == {RootDir} \cup ObjsOf(dc) \cup refs \cup todo \cup { s.cache[i] : i \in DOMAIN s.cache }
  IN  [s EXCEPT !.obj = [o \in DOMAIN @ \cap live |-> @[o]],
                !.lost = @ \/ \E o \in DOMAIN s.obj \ live : s.obj[o].freed /\ s.obj[o].data # <<>>]

\* A call that changes nothing does not count.
Returned ==
  IF <<fs, dentry, opened, asleep>>' = <<fs, dentry, opened, asleep>> THEN UNCHANGED <<calm, calls>>
  ELSE calm' = FALSE /\ calls' = calls + 1

\* A call ends with result r, and dentries dc if it succeeded.
Done(r, dc) ==
  /\ dentry' = IF r.e = "ok" THEN dc ELSE dentry
  /\ fs' = Collect(r.s, dentry', opened \cup Referred, syncer.todo)
  /\ UNCHANGED <<opened, asleep, syncer>>
  /\ Returned

\* With file system s and dentries dc, the calls in S are asleep.
Leaves(s, dc, S) ==
  /\ asleep' = S
  /\ dentry' = dc
  /\ fs' = Collect(s, dc, opened \cup UNION { m.refs : m \in S }, syncer.todo)
  /\ UNCHANGED <<opened, syncer>>

\* A call may sleep (m is what is left of it), one goes on and may sleep again,
\* and one ends.
Sleeps(s, dc, m) == Cardinality(asleep) < MaxAsleep /\ m \notin asleep /\ Leaves(s, dc, asleep \cup {m}) /\ Returned
GoesOn(s, dc, m, n) == Leaves(s, dc, (asleep \ {m}) \cup {n}) /\ calm' = FALSE /\ UNCHANGED <<mix, calls>>
Ends(s, dc, m) == Leaves(s, dc, asleep \ {m}) /\ calm' = FALSE /\ UNCHANGED <<mix, calls>>

\* Others run beside a call that sleeps in the mixes with a "race".
Alone == asleep = {} \/ "race" \in mix.names

Call(name) == name \in mix.names /\ calls < mix.max /\ Alone /\ UNCHANGED mix

\* Room for the objects that a call may load or create.
Room == Cardinality(DOMAIN fs.obj) + 2 <= MaxObj

\* Directories that a path or a descriptor can name.
Dirs == { o \in {RootDir} \cup ObjsOf(dentry) \cup opened : fs.obj[o].type = "Dir" }

Cacheable(d, name) == <<d, name>> \in DOMAIN dentry

-----------------------------------------------------------------------------
(* System calls on names *)

Create(d, name, type) ==
  /\ Call("create") /\ Room /\ Free(d) /\ ~Cacheable(d, name)
  /\ \E r \in {create(fs, d, name, type)} : Done(r, insert_dentry(dentry, d, name, r.o))

Lookup(d, name) ==
  /\ Call("lookup") /\ Room /\ Free(d) /\ ~Cacheable(d, name)
  /\ \E r \in {lookup(fs, d, name)} : Done(r, insert_dentry(dentry, d, name, r.o))

\* The entry has changed, the link count of o and the dentry are still to change.
Counts(r, d, name, n) ==
  IF r.e # "ok" THEN Done(r, dentry)
  ELSE Sleeps(r.s, dentry, [pc |-> "count", locked |-> {d}, refs |-> {d, r.o}, o |-> r.o, n |-> n,
                            keys |-> {<<d, name>>}])

Link(o, d, name) ==
  /\ Call("link") /\ Free(d) /\ ~Cacheable(d, name)
  /\ Counts(link(fs, d, o, name), d, name, 1)

Unlink(d, name) ==
  /\ Call("unlink") /\ Room /\ Free(d)
  /\ Counts(unlink(fs, d, name), d, name, -1)

\* inc_hard_links or dec_hard_links, and the dentry.  A name that was added too
\* late, when sync(2) has freed the inode, is `late`.
TooLate(m) == m.pc = "count" /\ m.n = 1 /\ fs.obj[m.o].freed

CountLink(m) ==
  /\ m.pc = "count"
  /\ \E s \in {AddLinks(fs, m.o, m.n)}, k \in m.keys :
       Ends([s EXCEPT !.late = @ \/ TooLate(m)],
            IF m.n = 1 THEN insert_dentry(dentry, k[1], k[2], m.o) ELSE delete_dentry(dentry, k[1], k[2]),
            m)

\* The directory is locked from the test that it is empty to its link count.
Rmdir(d, name) ==
  /\ Call("unlink") /\ Room /\ Free(d)
  /\ Done(rmdir(fs, d, name), delete_dentry(dentry, d, name))

\* Is directory t the dentry o, or below it?  (abs_path starts with that of o)
Parents(S) == S \cup { k[1] : k \in { j \in DOMAIN dentry : dentry[j] \in S } }
Below(t, o) ==
  LET up[n \in 0 .. MaxObj] == IF n = 0 THEN {t} ELSE Parents(up[n - 1])
  IN  o \in up[MaxObj]

FindOld(d, old) ==
  IF Cacheable(d, old) THEN OK(fs, dentry[<<d, old>>]) ELSE lookup(fs, d, old)

\* sys_rename looks the old name up and refuses to move a directory below
\* itself.  It holds no lock after that.
Rename(d, old, t, new) ==
  /\ Call("rename") /\ Room /\ Free(d) /\ <<d, old>> # <<t, new>>
  /\ \E f \in {FindOld(d, old)} :
       IF f.e # "ok" THEN Done(f, dentry)
       ELSE IF Below(t, f.o) THEN Done(f, insert_dentry(dentry, d, old, f.o))
       ELSE Sleeps(f.s, insert_dentry(dentry, d, old, f.o),
                   [pc |-> "rename", locked |-> {}, refs |-> {d, t, f.o}, from |-> <<d, old>>, to |-> <<t, new>>])

\* The dentry moves with the entry, if there is one by then.
MoveDentry(from, to) ==
  IF from \in DOMAIN dentry THEN [k \in (DOMAIN dentry \ {from}) \cup {to} |->
                                    IF k = to THEN dentry[from] ELSE dentry[k]]
  ELSE delete_dentry(dentry, to[1], to[2])

\* Dentry::rename.  A directory that another rename has meanwhile moved above the
\* target is `looped`.
MovedTo(s, x, t) ==
  [s EXCEPT !.looped = IF s.obj[x].type = "Dir" /\ Below(t, x) THEN @ \cup {s.obj[x].ino} ELSE @]

DentryRename(m) ==
  /\ m.pc = "rename" /\ Room
  /\ LET d == m.from[1]
         t == m.to[1]
     IN  /\ Free(d) /\ Free(t)
         /\ \E r \in {rename(fs, d, m.from[2], t, m.to[2])} :
              IF r.e # "ok" THEN Ends(r.s, dentry, m)
              ELSE IF d = t \/ r.s.obj[r.o].type # "Dir" THEN Ends(r.s, MoveDentry(m.from, m.to), m)
              ELSE GoesOn(MovedTo(r.s, r.o, t), dentry, m,
                          [pc |-> "parent", locked |-> {d, t}, refs |-> {d, t, r.o}, from |-> m.from,
                           to |-> m.to, o |-> r.o, keys |-> {m.from, m.to}])

\* The ".." of the moved directory, then its dentry.
SetParent(m) ==
  /\ m.pc = "parent"
  /\ Ends(set_parent_ino(fs, m.o, fs.obj[m.to[1]].ino), MoveDentry(m.from, m.to), m)

-----------------------------------------------------------------------------
(* System calls on descriptors *)

OpenFile(o) ==
  /\ Call("open")
  /\ o \in ObjsOf(dentry) \ opened
  /\ opened' = opened \cup {o}
  /\ UNCHANGED <<fs, dentry, asleep, syncer>>
  /\ Returned

\* open with O_CREAT of a name that does not exist.
OpenCreate(d, name) ==
  /\ Call("open") /\ Room /\ Free(d) /\ ~Cacheable(d, name)
  /\ \E r \in {create(fs, d, name, "File")} :
       /\ r.e = "ok"
       /\ fs' = r.s /\ dentry' = insert_dentry(dentry, d, name, r.o)
       /\ opened' = opened \cup {r.o}
  /\ UNCHANGED <<asleep, syncer>>
  /\ Returned

CloseFile(o) ==
  /\ Call("close")
  /\ o \in opened
  /\ opened' = opened \ {o}
  /\ fs' = Collect(fs, dentry, opened' \cup Referred, syncer.todo)
  /\ UNCHANGED <<dentry, asleep, syncer>>
  /\ Returned

Write(o, i) == Call("write") /\ o \in opened /\ Done(write_at(fs, o, i), dentry)

WriteDirect(o, i) == Call("direct") /\ o \in opened /\ Done(write_direct_at(fs, o, i), dentry)

Truncate(o, n) == Call("truncate") /\ o \in opened /\ Done(resize(fs, o, n), dentry)

Read(o, i) ==
  /\ Call("read")
  /\ o \in opened /\ fs.obj[o].type = "File" /\ i <= Len(fs.obj[o].data)
  /\ Done(OK(read_at(fs, o, i), o), dentry)

ReadDirect(o, i) ==
  /\ Call("direct")
  /\ o \in opened /\ fs.obj[o].type = "File" /\ i <= Len(fs.obj[o].data)
  /\ Done(OK(read_direct_at(fs, o, i), o), dentry)

Fsync(o) == Call("fsync") /\ o \in opened /\ Done(OK(sync_all(fs, o), o), dentry)

-----------------------------------------------------------------------------
(* sync(2): BlockGroup::sync_all_inodes for each group, then the metadata *)

InGroup(g) == { i \in DOMAIN fs.cache : block_group_of_ino(i) = g }

Sync(s, sy) ==
  /\ Alone
  /\ syncer' = sy
  /\ fs' = Collect(s, dentry, opened \cup Referred, sy.todo)
  /\ calls' = calls + (IF syncer.pc = "idle" THEN 1 ELSE 0)
  /\ UNCHANGED <<dentry, opened, asleep, mix>>

\* Objects that nobody but the cache refers to leave it, to be written back.
SyncExtract ==
  /\ syncer.pc \in {"idle", "next"} /\ "sync" \in mix.names
  /\ syncer.pc = "idle" => calls < mix.max
  /\ calm' = (syncer.pc = "idle" \/ calm)
  /\ \E unused \in {{ i \in InGroup(syncer.g) :
                      fs.cache[i] \notin {RootDir} \cup ObjsOf(dentry) \cup opened \cup Referred }} :
       Sync([fs EXCEPT !.cache = [i \in DOMAIN @ \ unused |-> @[i]]],
            [pc |-> "unused", g |-> syncer.g, todo |-> { fs.cache[i] : i \in unused }])

SyncOne ==
  /\ syncer.pc \in {"unused", "remaining"} /\ syncer.todo # {}
  /\ \E o \in {Min(syncer.todo)} : Sync(sync_all(fs, o), [syncer EXCEPT !.todo = @ \ {o}])
  /\ UNCHANGED calm

SyncRemaining ==
  /\ syncer.pc = "unused" /\ syncer.todo = {}
  /\ Sync(fs, [syncer EXCEPT !.pc = "remaining", !.todo = { fs.cache[i] : i \in InGroup(syncer.g) }])
  /\ UNCHANGED calm

SyncGroupDone ==
  /\ syncer.pc = "remaining" /\ syncer.todo = {}
  /\ Sync(FlushRawInodes(fs, syncer.g),
          IF syncer.g + 1 < NGroups THEN [pc |-> "next", g |-> syncer.g + 1, todo |-> {}]
          ELSE [pc |-> "metadata", g |-> 0, todo |-> {}])
  /\ UNCHANGED calm

SyncMetadata ==
  /\ syncer.pc = "metadata"
  /\ Sync(SyncBitmaps(fs), Idle)
  /\ UNCHANGED calm

-----------------------------------------------------------------------------
Init ==
  /\ fs \in Images /\ dentry = <<>> /\ opened = {} /\ asleep = {} /\ syncer = Idle /\ calm = TRUE
  /\ mix \in Mixes /\ calls = 0

Next ==
  \/ \E d \in Dirs, n \in Names :
       \/ \E type \in {"File", "Dir"} : Create(d, n, type)
       \/ Lookup(d, n)
       \/ OpenCreate(d, n)
       \/ \E o \in ObjsOf(dentry) : Link(o, d, n)
       \/ Unlink(d, n)
       \/ Rmdir(d, n)
       \/ \E t \in Dirs, m \in Names : Rename(d, n, t, m)
  \/ \E m \in asleep : CountLink(m) \/ DentryRename(m) \/ SetParent(m)
  \/ \E o \in DOMAIN fs.obj : OpenFile(o) \/ CloseFile(o) \/ Fsync(o)
  \/ \E o \in opened, i \in 1 .. MaxBlocks :
       Write(o, i) \/ WriteDirect(o, i) \/ Truncate(o, i - 1) \/ Read(o, i) \/ ReadDirect(o, i)
  \/ SyncExtract \/ SyncOne \/ SyncRemaining \/ SyncGroupDone \/ SyncMetadata

Spec == Init /\ [][Next]_vars

-----------------------------------------------------------------------------
(* Properties *)

\* The object of inode i, also while sync(2) has it in hand; 0 if it has none.
ObjOf(i) ==
  IF i \in DOMAIN fs.cache THEN fs.cache[i]
  ELSE LET t == { o \in syncer.todo : fs.obj[o].ino = i /\ ~fs.obj[o].freed }
       IN  IF t = {} THEN 0 ELSE Min(t)

\* What an allocated inode is: its object, or else its raw inode.
Desc(i) == IF ObjOf(i) # 0 THEN RawInode(fs.obj[ObjOf(i)]) ELSE fs.raw[i]

Content(i, k) == IF ObjOf(i) # 0 THEN ReadPage(fs, ObjOf(i), k) ELSE fs.dev[Desc(i).data[k]]

Live == fs.ib \ {1}

ListOf(i) == IF Desc(i).type = "Dir" /\ Desc(i).links > 0 THEN Content(i, 1) ELSE <<>>

IsName(x) == x.name \notin {".", ".."}

Lists == [i \in Live |-> ListOf(i)]

\* The places where inode i is named, given the entries of every directory.
NamedAt(L, i) ==
  { p \in UNION { { <<d, k>> : k \in DOMAIN L[d] } : d \in Live } :
      IsName(L[p[1]][p[2]]) /\ L[p[1]][p[2]].ino = i }

SubDirs(L, i) == { k \in DOMAIN L[i] : L[i][k].dir /\ IsName(L[i][k]) }

\* Inode numbers and objects have not come apart: no inode was loaded from its
\* old raw inode while sync(2) was writing its object (`split`), no removed inode
\* was written back under a number in use again (`clobber`), and none was freed
\* between a new entry and its link count (`late`).
OneObject == ~fs.split /\ ~fs.clobber /\ ~fs.late /\ \A m \in asleep : ~TooLate(m)

\* Every block belongs to at most one inode and is marked, the free counts agree,
\* and no assertion of free_block or free_inode fails: whatever was created,
\* truncated, removed while open, or freed by sync(2) in between, as long as
\* OneObject holds.  Every marked block belongs to an inode unless an allocation
\* has failed half-way (`full`) or a removed file has grown again (`lost`).
BlocksOwnedOnce ==
  LET loose == { o \in DOMAIN fs.obj : fs.obj[o].freed }
      owns  == [x \in Live \cup { 0 - o : o \in loose } |->
                  IF x > 0 THEN Range(Desc(x).data) ELSE Range(fs.obj[0 - x].data)]
      used  == { b \in Bids : b % blocks_per_group = 0 } \cup UNION { owns[x] : x \in DOMAIN owns }
  IN  OneObject =>
        /\ \A x, y \in DOMAIN owns : x # y => owns[x] \cap owns[y] = {}
        /\ used \subseteq fs.bb
        /\ fs.bb # used => fs.full \/ fs.lost
        /\ fs.sb = [blocks |-> Cardinality(Bids \ fs.bb), inodes |-> Cardinality(Inos \ fs.ib)]
        /\ ~fs.panic

\* The links of inode i, with those that a link or unlink asleep is to count.
Counted(i, n) == Cardinality({ m \in asleep : m.pc = "count" /\ ObjOf(i) = m.o /\ m.n = n })
Links(i) == Desc(i).links + Counted(i, 1) - Counted(i, -1)

LinksCounted(L) ==
  \A i \in Live :
    IF Desc(i).type # "Dir" THEN Links(i) = Cardinality(NamedAt(L, i))
    ELSE \E at \in {NamedAt(L, i)} :
           /\ Links(i) = (IF at = {} /\ i # ROOT_INO THEN 0 ELSE 2 + Cardinality(SubDirs(L, i)))
           /\ Cardinality(at) <= 1
           /\ (\A m \in asleep : m.pc = "parent" => ObjOf(i) # m.o) => \A p \in at : L[i][2].ino = p[1]

EntriesTrue(L) ==
  \A d \in Live : \A k \in DOMAIN L[d] :
    L[d][k].ino \in Live /\ L[d][k].dir = (Desc(L[d][k].ino).type = "Dir")

InChange == UNION { m.keys : m \in { x \in asleep : x.pc # "rename" } }

DentriesTrue(L) ==
  \A key \in DOMAIN dentry \ InChange : \E x \in Range(L[fs.obj[key[1]].ino]) :
    x.name = key[2] /\ x.ino = fs.obj[dentry[key]].ino /\ ObjOf(x.ino) = dentry[key]

Reach(L, S) == S \cup { i \in Live : \E p \in NamedAt(L, i) : p[1] \in S }
BelowRoot(L) ==
  LET down[n \in 0 .. Cardinality(Inos)] == IF n = 0 THEN {ROOT_INO} \cup fs.looped ELSE Reach(L, down[n - 1])
  IN  { i \in Live : Links(i) > 0 } \subseteq down[Cardinality(Inos)]

\* The tree is whole: link counts equal the names (plus "." and the ".." of
\* children), every entry names an inode of its kind, "..", the dentry cache
\* and the entries agree but for what a call asleep is about to change, and
\* every directory hangs below the root or below one that two racing renames have
\* moved below itself.  That is as long as OneObject holds and no entry was lost
\* to a full file system.
TreeIsWhole ==
  OneObject /\ ~fs.full =>
    \E L \in {Lists} : LinksCounted(L) /\ EntriesTrue(L) /\ DentriesTrue(L) /\ BelowRoot(L)

\* A file shows what was written through it or zeros, never what an earlier
\* owner left in its blocks.
NoStaleData ==
  OneObject =>
    \A i \in Live : Desc(i).type = "File" =>
      \A k \in 1 .. Len(Desc(i).data) : Content(i, k) \in {Zero, Written(i)}

\* After a sync(2) beside which nothing ran, the device holds what memory holds,
\* as long as OneObject holds.
SyncIsDurable ==
  OneObject /\ calm /\ syncer = Idle /\ asleep = {} =>
    /\ fs.disk.ib = fs.ib /\ fs.disk.bb = fs.bb /\ fs.disk.sb = fs.sb
    /\ \A i \in Live :
         /\ fs.disk.raw[i] = Desc(i)
         /\ \A k \in 1 .. Len(Desc(i).data) : fs.dev[Desc(i).data[k]] = Content(i, k)
=============================================================================
