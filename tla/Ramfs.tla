-------------------------------- MODULE Ramfs --------------------------------
(***************************************************************************)
(* fs/ramfs/fs.rs: directories as vectors of slots, link counts, and the    *)
(* directory scans of getdents64 beside the calls that change a directory.  *)
(*                                                                          *)
(* Its locks spin and nothing sleeps under them, so a call is one step.  A  *)
(* call that returns an error changes nothing and is not a step.            *)
(***************************************************************************)
EXTENDS Naturals, Sequences, FiniteSets

CONSTANTS MaxIno,    \* bound: inodes ever created
          MaxLinks,  \* bound: links ever counted for a file
          Batches,   \* entries that fit into the buffer of getdents64
          Limits     \* [names, inodes, scans]: names without "." and "..",
                     \* inodes to create, and whether a directory is scanned

VARIABLES inode,     \* number -> [type, nlinks, size, kids, parent] or Gone
          next,      \* inode_allocator
          scan,      \* the open directory and its offset, with what it showed
          lim        \* the limits of this behaviour

fvars == <<inode, next, scan, lim>>

ROOT_INO == 1
Gone == [type |-> "gone", nlinks |-> 0, size |-> 0, kids |-> <<>>, parent |-> 0]
Hole == [name |-> "", ino |-> 0]

(* Metadata::new_dir, new_file and so on.  "File" stands for all kinds but *)
(* directories: files, symbolic links, sockets and devices.                *)
NewInode(type, parent) ==
  IF type = "Dir" THEN [type |-> type, nlinks |-> 2, size |-> 2, kids |-> <<>>, parent |-> parent]
  ELSE [type |-> type, nlinks |-> 1, size |-> 0, kids |-> <<>>, parent |-> 0]

-----------------------------------------------------------------------------
(* DirEntry: index 0 is ".", 1 is "..", the slots follow. *)

Used(k) == {i \in 1..Len(k) : k[i] # Hole}
contains_entry(k, name) == \E i \in Used(k) : k[i].name = name
get_entry(k, name) == CHOOSE i \in Used(k) : k[i].name = name

append_entry(k, name, ino) ==
  LET e == [name |-> name, ino |-> ino]
      free == {i \in 1..Len(k) : k[i] = Hole}
  IN IF free = {} THEN Append(k, e)
     ELSE [k EXCEPT ![CHOOSE i \in free : \A j \in free : i <= j] = e]

remove_entry(k, i) == [k EXCEPT ![i] = Hole]
substitute_entry(k, i, name) == [k EXCEPT ![i].name = name]
is_empty_children(k) == Used(k) = {}

IsDir(i) == inode[i].type = "Dir"
Child(d, name) == inode[d].kids[get_entry(inode[d].kids, name)].ino

(* Inode_::inc_size, dec_size, inc_nlinks and dec_nlinks, as sums *)
Count(n, cond) == IF cond THEN n ELSE 0

-----------------------------------------------------------------------------
(* The last reference to an inode goes: no name and no open file. *)
Named(f) == {ROOT_INO} \cup UNION {{f[d].kids[i].ino : i \in Used(f[d].kids)} : d \in DOMAIN f}
Collect(f, held) == [i \in DOMAIN f |-> IF i \in Named(f) \cup held THEN f[i] ELSE Gone]

(* The entries that a scan has to show: there since it began. *)
Entries(f, d) == {f[d].kids[i] : i \in Used(f[d].kids)}
NoScan == [dir |-> 0, offset |-> 0, stay |-> {}, seen |-> {}, twice |-> FALSE, end |-> FALSE]

(* The tree becomes f, and a rename has replaced the names in gone. *)
Replaces(f, gone) ==
  /\ inode' = Collect(f, {scan.dir})
  /\ scan' = IF scan.dir = 0 THEN scan
             ELSE LET kept == {e \in scan.stay \cap Entries(f, scan.dir) :
                                 <<scan.dir, e.name>> \notin gone}
                  IN [scan EXCEPT !.stay = kept, !.seen = @ \cap kept]
Becomes(f) == Replaces(f, {})

Dirs == {d \in DOMAIN inode : IsDir(d)}

Added(f, d, name, ino, dir) ==
  [f EXCEPT ![d].kids = append_entry(@, name, ino), ![d].size = @ + 1,
            ![d].nlinks = @ + Count(1, dir)]

create(d, name, type) ==
  /\ next <= lim.inodes /\ ~contains_entry(inode[d].kids, name)
  /\ next' = next + 1
  /\ Becomes(Added([inode EXCEPT ![next] = NewInode(type, d)], d, name, next, type = "Dir"))

mknod(d, name) ==
  /\ next <= lim.inodes /\ ~contains_entry(inode[d].kids, name)
  /\ next' = next + 1
  /\ Becomes(Added([inode EXCEPT ![next] = NewInode("File", 0)], d, name, next, FALSE))

link(d, name, old) ==
  /\ inode[old].type = "File" /\ inode[old].nlinks < MaxLinks
  /\ ~contains_entry(inode[d].kids, name)
  /\ Becomes([Added(inode, d, name, old, FALSE) EXCEPT ![old].nlinks = @ + 1])
  /\ UNCHANGED next

unlink(d, name) ==
  /\ contains_entry(inode[d].kids, name) /\ ~IsDir(Child(d, name))
  /\ Becomes([inode EXCEPT ![d].kids = remove_entry(@, get_entry(@, name)), ![d].size = @ - 1,
                           ![Child(d, name)].nlinks = @ - 1])
  /\ UNCHANGED next

rmdir(d, name) ==
  /\ contains_entry(inode[d].kids, name) /\ IsDir(Child(d, name))
  /\ is_empty_children(inode[Child(d, name)].kids)
  /\ Becomes([inode EXCEPT ![d].kids = remove_entry(@, get_entry(@, name)), ![d].size = @ - 1,
                           ![d].nlinks = @ - 1, ![Child(d, name)].nlinks = @ - 2])
  /\ UNCHANGED next

check_replace_inode(src, dst) ==
  \/ src = dst
  \/ IsDir(src) /\ IsDir(dst) /\ is_empty_children(inode[dst].kids)
  \/ ~IsDir(src) /\ ~IsDir(dst)

(* Dentry::rename within one directory *)
rename_within(d, old, new) ==
  LET k == inode[d].kids
      src == get_entry(k, old)
      replaced == contains_entry(k, new)
  IN /\ contains_entry(k, old) /\ old # new
     /\ replaced => check_replace_inode(k[src].ino, Child(d, new))
     /\ Replaces([inode EXCEPT
          ![d].kids = substitute_entry(IF replaced THEN remove_entry(k, get_entry(k, new)) ELSE k,
                                       src, new),
          ![d].size = @ - Count(1, replaced),
          ![d].nlinks = @ - Count(1, replaced /\ IsDir(k[src].ino))], {<<d, new>>})
     /\ UNCHANGED next

(* sys_rename refuses to move a directory below itself. *)
Below(t, o) ==
  LET up[n \in 0..MaxIno] ==
        IF n = 0 THEN {t} ELSE up[n - 1] \cup {inode[i].parent : i \in up[n - 1] \ {0}}
  IN o \in up[MaxIno]

(* A directory that has moved gets its new parent. *)
set_parent(f, src, t) == IF f[src].type = "Dir" THEN [f EXCEPT ![src].parent = t] ELSE f

rename_across(d, old, t, new) ==
  LET k == inode[d].kids
      src == get_entry(k, old)
      ino == k[src].ino
      replaced == contains_entry(inode[t].kids, new)
      dst == inode[t].kids
  IN /\ d # t /\ contains_entry(k, old) /\ ~Below(t, ino)
     /\ replaced => Child(t, new) # d /\ check_replace_inode(ino, Child(t, new))
     /\ Replaces(set_parent([inode EXCEPT
          ![d].kids = remove_entry(k, src), ![d].size = @ - 1,
          ![d].nlinks = @ - Count(1, IsDir(ino)),
          ![t].kids = append_entry(IF replaced THEN remove_entry(dst, get_entry(dst, new)) ELSE dst,
                                   new, ino),
          ![t].size = @ + Count(1, ~replaced),
          ![t].nlinks = @ + Count(1, IsDir(ino) /\ ~replaced)], ino, t), {<<t, new>>})
     /\ UNCHANGED next

-----------------------------------------------------------------------------
(* An open directory: InodeHandle::readdir and seek *)

OpenDir(d) ==
  /\ lim.scans /\ scan.dir = 0
  /\ scan' = [NoScan EXCEPT !.dir = d, !.stay = Entries(inode, d)]
  /\ UNCHANGED <<inode, next>>

CloseDir ==
  /\ scan.dir # 0
  /\ scan' = NoScan /\ inode' = Collect(inode, {}) /\ UNCHANGED next

RewindDir ==
  /\ scan.dir # 0
  /\ scan' = [NoScan EXCEPT !.dir = scan.dir, !.stay = Entries(inode, scan.dir)]
  /\ UNCHANGED <<inode, next>>

(* visit_entry: the offset is one past the last index that was visited. *)
NextOffset(offset, shown) ==
  IF shown = {} THEN offset ELSE 1 + CHOOSE i \in shown : \A j \in shown : j <= i

(* The indices that fit into a buffer for n entries. *)
visit_entry(k, offset, n) ==
  LET all == {i \in {0, 1} \cup {j + 1 : j \in Used(k)} : i >= offset}
  IN {i \in all : Cardinality({j \in all : j < i}) < n}

sys_getdents64(n) ==
  /\ scan.dir # 0
  /\ LET k == inode[scan.dir].kids
         shown == visit_entry(k, scan.offset, n)
         es == {k[i - 1] : i \in shown \ {0, 1}}
     IN scan' = [scan EXCEPT !.offset = NextOffset(@, shown),
                             !.seen = @ \cup (es \cap scan.stay),
                             !.twice = @ \/ es \cap scan.seen # {},
                             !.end = (shown = {})]
  /\ UNCHANGED <<inode, next>>

FInit ==
  /\ inode = [i \in 1..MaxIno |-> IF i = ROOT_INO THEN NewInode("Dir", ROOT_INO) ELSE Gone]
  /\ next = ROOT_INO + 1 /\ scan = NoScan /\ lim \in Limits

Calls ==
  \/ \E d \in Dirs :
       \/ OpenDir(d)
       \/ \E n \in lim.names :
            \/ \E type \in {"Dir", "File"} : create(d, n, type)
            \/ mknod(d, n) \/ unlink(d, n) \/ rmdir(d, n)
            \/ \E old \in DOMAIN inode : link(d, n, old)
            \/ \E m \in lim.names : rename_within(d, n, m)
            \/ \E t \in Dirs, m \in lim.names : rename_across(d, n, t, m)
  \/ CloseDir \/ RewindDir
  \/ \E n \in Batches : sys_getdents64(n)

FNext == Calls /\ UNCHANGED lim

FSpec == FInit /\ [][FNext]_fvars

-----------------------------------------------------------------------------

SubDirs(d) == {i \in Used(inode[d].kids) : IsDir(inode[d].kids[i].ino)}
NamesOf(x) == UNION {{<<d, i>> : i \in {j \in Used(inode[d].kids) : inode[d].kids[j].ino = x}} :
                     d \in Dirs}

(* create, link, unlink, rmdir and rename: a directory with a name counts  *)
(* its entries and its subdirectories, has no name twice, and is in the    *)
(* directory that its ".." names; no count runs below the names there are. *)
CountsAgree ==
  /\ \A d \in Dirs :
       LET k == inode[d].kids
       IN /\ \A i, j \in Used(k) : k[i].name = k[j].name => i = j
          /\ inode[d].size = 2 + Cardinality(Used(k))
          /\ inode[d].nlinks >= Cardinality(SubDirs(d))
          /\ d = ROOT_INO \/ NamesOf(d) # {} =>
               inode[d].nlinks = 2 + Cardinality(SubDirs(d))
          /\ \A p \in NamesOf(d) : p[1] = inode[d].parent /\ Cardinality(NamesOf(d)) = 1
  /\ \A x \in DOMAIN inode \ Dirs : inode[x].nlinks >= Cardinality(NamesOf(x))

(* DirEntry::visit_entry with InodeHandle_::readdir: when a scan ends, it  *)
(* has shown every entry that was there all the time, and none of those    *)
(* twice, whatever was created, removed or renamed between its calls.      *)
ScanComplete == ~scan.twice /\ (scan.end => scan.stay \subseteq scan.seen)
=============================================================================
