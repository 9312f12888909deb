------------------------------ MODULE Resolver ------------------------------
(***************************************************************************)
(* Path resolution: fs/fs_resolver.rs over the dentries of                 *)
(* fs/utils/dentry.rs and the mounts of fs/utils/mount.rs, with the system *)
(* calls that resolve a path and then change the tree.                     *)
(*                                                                         *)
(* A path is a sequence of components with two flags: it starts at the     *)
(* root, and it ends in a slash.  A dentry stays in memory when its name   *)
(* is removed, so numbers are never reused.  Dentries are all cached here: *)
(* a miss of the cache creates the dentry that the model always has.       *)
(* Permission bits and the length of names are left out.  A call that      *)
(* fails changes nothing and is not a step.                                *)
(***************************************************************************)
EXTENDS Naturals, Sequences, FiniteSets, TLC

CONSTANTS Names,          \* names of files
          StartsWith,     \* pairs <<m, n>>: the string n properly extends m
          Paths,          \* the paths programs use
          Targets,        \* the contents of symbolic links
          SYMLINKS_MAX,
          MountTables,    \* mountpoint -> root dentry of the child mount
          InitNodes,      \* the dentries after rootfs::init
          MaxNode         \* bound on the dentries ever created

VARIABLES node,    \* dentry -> [kind, to, name, parent, mount, kids]
          mounts,  \* the mount tree; mounts are made at boot only
          cwd      \* the working directory of the calling process

rvars == <<node, mounts, cwd>>

root == 1

RPath(abs, seq, slash) == [abs |-> abs, seq |-> seq, slash |-> slash]

Found(d) == [e |-> "ok", d |-> d]
Fail(errno) == [e |-> errno, d |-> 0]

(* Rust's `?`. *)
Then(r, Go(_)) == IF r.e = "ok" THEN Go(r) ELSE r

IsDir(d) == node[d].kind = "dir"
IsLink(d) == node[d].kind = "link"
Nobody == [n \in {} |-> 0]

is_root_of_mount(d) == node[d].parent = 0

(* The mountpoint under which the root dentry d is mounted, if any. *)
mountpoint_dentry(d) == {m \in DOMAIN mounts : mounts[m] = d}

RECURSIVE overlaid_dentry(_)
overlaid_dentry(d) ==
  IF d \in DOMAIN mounts THEN overlaid_dentry(mounts[d]) ELSE d

(* The dentry whose name and parent stand for those of d: d itself, or,    *)
(* from the root of a mount, its mountpoint, and so on up.                 *)
RECURSIVE effective_dentry(_)
effective_dentry(d) ==
  IF is_root_of_mount(d) /\ mountpoint_dentry(d) # {}
  THEN effective_dentry(CHOOSE m \in mountpoint_dentry(d) : TRUE)
  ELSE d

effective_name(d) == node[effective_dentry(d)].name

effective_parent(d) == node[effective_dentry(d)].parent

lookup(d, name) ==
  CASE ~IsDir(d) -> Fail("ENOTDIR")
    [] IsDir(d) /\ name = "." -> Found(d)
    [] IsDir(d) /\ name = ".." ->
         Found(IF effective_parent(d) = 0 THEN d ELSE effective_parent(d))
    [] IsDir(d) /\ name \in DOMAIN node[d].kids ->
         Found(overlaid_dentry(node[d].kids[name]))
    [] OTHER -> Fail("ENOENT")

(* The path that is left when a link stands before the components rest. *)
Splice(link, rest, slash) ==
  RPath(FALSE, link.seq \o rest, slash \/ (rest = <<>> /\ link.slash))

RECURSIVE lookup_from_parent(_, _, _, _)
lookup_from_parent(d, p, follow_tail_link, follows) ==
  IF p.seq = <<>> THEN Found(d)
  ELSE Then(lookup(d, Head(p.seq)), LAMBDA r :
         IF IsLink(r.d) /\ (follow_tail_link \/ Len(p.seq) > 1)
         THEN IF follows >= SYMLINKS_MAX THEN Fail("ELOOP")
              ELSE lookup_from_parent(IF node[r.d].to.abs THEN root ELSE d,
                     Splice(node[r.d].to, Tail(p.seq), p.slash),
                     follow_tail_link, follows + 1)
         ELSE IF (p.slash \/ Len(p.seq) > 1) /\ ~IsDir(r.d) THEN Fail("ENOTDIR")
         ELSE lookup_from_parent(r.d, [p EXCEPT !.seq = Tail(p.seq)],
                                 follow_tail_link, follows))

lookup_inner(p, follow_tail_link) ==
  lookup_from_parent(IF p.abs THEN root ELSE cwd, p, follow_tail_link, 0)

(* The directory part of a path and its last component. *)
split_path(p) ==
  IF p.seq = <<>> THEN [dir |-> p, name |-> ".", slash |-> FALSE]
  ELSE [dir |-> RPath(p.abs, SubSeq(p.seq, 1, Len(p.seq) - 1), FALSE),
        name |-> p.seq[Len(p.seq)], slash |-> p.slash]

DirOf(start, s) ==
  Then(lookup_from_parent(IF s.dir.abs THEN root ELSE start, s.dir, TRUE, 0),
       LAMBDA r : [e |-> "ok", d |-> r.d, name |-> s.name, slash |-> s.slash])

TailLink(b) == {x \in DOMAIN node : lookup(b.d, b.name) = Found(x) /\ IsLink(x)}

(* The loop that dereferences dangling links at the end of a path.         *)
RECURSIVE DereferenceTail(_)
DereferenceTail(b) ==
  IF b.e # "ok" THEN b
  ELSE IF TailLink(b) = {} THEN b
  ELSE LET x == CHOOSE x \in TailLink(b) : TRUE
       IN DereferenceTail(DirOf(b.d, split_path(
            [node[x].to EXCEPT !.slash = @ \/ b.slash])))

lookup_dir_and_base_name_inner(p, follow_tail_link) ==
  IF follow_tail_link THEN DereferenceTail(DirOf(cwd, split_path(p)))
  ELSE DirOf(cwd, split_path(p))

lookup_dir_and_base_name(p) == lookup_dir_and_base_name_inner(p, FALSE)

RECURSIVE abs_path(_)
abs_path(d) ==
  IF effective_parent(d) = 0 THEN <<>>
  ELSE Append(abs_path(effective_parent(d)), effective_name(d))

(***************************************************************************)
(* Changes of the tree (the dentry and, below it, a RamFS inode).          *)
(***************************************************************************)

CanCreate(d, name) ==
  /\ IsDir(d)
  /\ name \in Names \ DOMAIN node[d].kids

Dentry(kind, to, name, d) ==
  [kind |-> kind, to |-> to, name |-> name, parent |-> d,
   mount |-> node[d].mount, kids |-> Nobody]

create(d, name, kind, to) ==
  Append([node EXCEPT ![d].kids = (name :> Len(node) + 1) @@ @],
         Dentry(kind, to, name, d))

Without(kids, name) == [n \in DOMAIN kids \ {name} |-> kids[n]]

(* find_dentry_with_checking_mountpoint: a mountpoint is busy. *)
NotBusy(d, name) == ~(name \in DOMAIN node[d].kids /\ node[d].kids[name] \in DOMAIN mounts)

remove(d, name) == [node EXCEPT ![d].kids = Without(@, name)]

(* Whether the inode old may replace what new_name stands for in new_dir. *)
CanReplace(old, new_dir, new_name) ==
  new_name \in DOMAIN node[new_dir].kids =>
    LET new == node[new_dir].kids[new_name]
    IN IsDir(old) = IsDir(new) /\ node[new].kids = Nobody

CanRename(d, old_name, new_dir, new_name) ==
  /\ IsDir(d) /\ IsDir(new_dir)
  /\ old_name \in DOMAIN node[d].kids /\ new_name \in Names
  /\ <<d, old_name>> # <<new_dir, new_name>>
  /\ node[d].mount = node[new_dir].mount
  /\ NotBusy(d, old_name) /\ NotBusy(new_dir, new_name)
  /\ CanReplace(node[d].kids[old_name], new_dir, new_name)

(* Mutant: the renamed dentry keeps its parent. *)
RenameKeepsParent(d, old_name, new_dir, new_name) ==
  LET old == node[d].kids[old_name]
  IN [node EXCEPT ![d].kids = Without(@, old_name),
                  ![new_dir].kids = (new_name :> old) @@ Without(@, IF d = new_dir THEN old_name ELSE new_name),
                  ![old].name = new_name]

rename(d, old_name, new_dir, new_name) ==
  LET old == node[d].kids[old_name]
  IN [node EXCEPT ![d].kids = Without(@, old_name),
                  ![new_dir].kids = (new_name :> old) @@ Without(@, IF d = new_dir THEN old_name ELSE new_name),
                  ![old].name = new_name, ![old].parent = new_dir]

(* The test of sys_renameat on the two absolute paths, as strings: the new *)
(* one starts with the old one, possibly in the middle of a name.  Below   *)
(* the root the new string starts with two slashes.                        *)
new_starts_with_old(old, new_dir, new_name) ==
  LET o == abs_path(old)
      n == Append(abs_path(new_dir), new_name)
  IN \/ o = <<>>
     \/ /\ Len(n) > 1 /\ Len(o) <= Len(n)
        /\ \A i \in 1..Len(o) - 1 : o[i] = n[i]
        /\ o[Len(o)] = n[Len(o)] \/ <<o[Len(o)], n[Len(o)]>> \in StartsWith

(***************************************************************************)
(* The system calls.                                                       *)
(***************************************************************************)

Room == Len(node) < MaxNode

(* open with O_CREAT, and O_EXCL if excl, of a path that does not exist. *)
Open(p, excl) ==
  /\ Room /\ lookup_inner(p, ~excl).e = "ENOENT"
  /\ \E b \in {lookup_dir_and_base_name_inner(p, ~excl)} :
       /\ b.e = "ok" /\ ~b.slash /\ CanCreate(b.d, b.name)
       /\ node' = create(b.d, b.name, "file", RPath(FALSE, <<>>, FALSE))
  /\ UNCHANGED <<mounts, cwd>>

Mkdir(p) ==
  /\ Room
  /\ \E b \in {lookup_dir_and_base_name(p)} :
       /\ b.e = "ok" /\ CanCreate(b.d, b.name)
       /\ node' = create(b.d, b.name, "dir", RPath(FALSE, <<>>, FALSE))
  /\ UNCHANGED <<mounts, cwd>>

Symlink(target, p) ==
  /\ Room /\ ~p.slash
  /\ \E b \in {lookup_dir_and_base_name(p)} :
       /\ b.e = "ok" /\ CanCreate(b.d, b.name)
       /\ node' = create(b.d, b.name, "link", target)
  /\ UNCHANGED <<mounts, cwd>>

Unlink(p) ==
  /\ ~p.slash
  /\ \E b \in {lookup_dir_and_base_name(p)} :
       /\ b.e = "ok" /\ IsDir(b.d) /\ b.name \in DOMAIN node[b.d].kids
       /\ NotBusy(b.d, b.name) /\ ~IsDir(node[b.d].kids[b.name])
       /\ node' = remove(b.d, b.name)
  /\ UNCHANGED <<mounts, cwd>>

Rmdir(p) ==
  /\ \E b \in {lookup_dir_and_base_name(p)} :
       /\ b.e = "ok" /\ IsDir(b.d) /\ b.name \in DOMAIN node[b.d].kids
       /\ NotBusy(b.d, b.name) /\ IsDir(node[b.d].kids[b.name])
       /\ node[node[b.d].kids[b.name]].kids = Nobody
       /\ node' = remove(b.d, b.name)
  /\ UNCHANGED <<mounts, cwd>>

(* The old name keeps its slash, and no entry has such a name. *)
Rename(p, q) ==
  /\ \E b \in {lookup_dir_and_base_name(p)}, c \in {lookup_dir_and_base_name(q)} :
       /\ b.e = "ok" /\ c.e = "ok" /\ ~b.slash
       /\ \E old \in {lookup(b.d, b.name)} :
            /\ old.e = "ok" /\ (q.slash => IsDir(old.d))
            /\ ~new_starts_with_old(old.d, c.d, c.name)
       /\ CanRename(b.d, b.name, c.d, c.name)
       /\ node' = rename(b.d, b.name, c.d, c.name)
  /\ UNCHANGED <<mounts, cwd>>

Chdir(p) ==
  /\ \E r \in {lookup_inner(p, TRUE)} :
       r.e = "ok" /\ IsDir(r.d) /\ cwd' = r.d
  /\ UNCHANGED <<node, mounts>>

RInit ==
  /\ node = InitNodes
  /\ mounts \in MountTables
  /\ cwd = root

RNext ==
  \/ \E p \in Paths : Open(p, TRUE) \/ Open(p, FALSE) \/ Mkdir(p) \/ Unlink(p) \/ Rmdir(p) \/ Chdir(p)
  \/ \E p \in Paths, t \in Targets : Symlink(t, p)
  \/ \E p \in Paths, q \in Paths : Rename(p, q)

RSpec == RInit /\ [][RNext]_rvars

-----------------------------------------------------------------------------

(* The name of d, and of every directory above it, is still held. *)
RECURSIVE Linked(_)
Linked(d) ==
  \/ d = root
  \/ \E m \in mountpoint_dentry(d) : Linked(m)
  \/ \E e \in DOMAIN node : (\E n \in DOMAIN node[e].kids : node[e].kids[n] = d) /\ Linked(e)

(* Dentry::abs_path, FsResolver::lookup: the absolute path of a dentry     *)
(* leads back to it, whatever was renamed, moved or mounted before, unless *)
(* the dentry is removed or covered by a mount.                            *)
PathNamesDentry ==
  \A d \in DOMAIN node : Linked(d) /\ d \notin DOMAIN mounts =>
    lookup_from_parent(root, RPath(TRUE, abs_path(d), FALSE), FALSE, 0) = Found(d)

(* FsResolver::open: the file that O_CREAT makes is the one the same path  *)
(* leads to afterwards, although the directory was found by a second walk  *)
(* that dereferences links in its own way.                                 *)
CreateFound ==
  \A p \in Paths : Open(p, FALSE) =>
    lookup_from_parent(IF p.abs THEN root ELSE cwd, p, TRUE, 0)' = Found(Len(node) + 1)
CreatedIsFound == [][CreateFound]_rvars
=============================================================================
