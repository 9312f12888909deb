------------------------------ MODULE MCFiles -------------------------------
(* The ext2 file system and its calls, path resolution, ramfs, file        *)
(* handles and procfs. A behaviour exercises one part, chosen in MCInit;   *)
(* the variables of the others are absent (0) or stay as they are.         *)
EXTENDS Files, Handles, TLC

(* Parts are those that the run exercises.                                 *)
CONSTANTS Parts

VARIABLES which, rs_node, rs_mounts, rs_cwd, rf_inode, rf_next, rf_scan,
          rf_lim, pf_shared, pf_life, pf_table, pf_reader, pf_root,
          pf_pidDir, pf_fdDir, pf_dcache, pf_scan, pf_halt

(* ".", ".." and "a" need one unit of a record, "long" two.                *)
MCLen == [n \in {".", "..", "a", "b", "long"} |-> IF n = "long" THEN 2 ELSE 1]
(* A directory with a file in it, which has a second name in the root.     *)
Made ==
  LET d == create(Open, 1, "a", "Dir")
      f == create(d.s, d.o, "long", "File")
  IN  AddLinks(link(write_at(f.s, f.o, 1).s, 1, f.o, "long").s, f.o, 1)
(* A directory beside an empty file.                                       *)
Pair == create(create(Open, 1, "a", "Dir").s, 1, "long", "File").s
MCImages == {Open, Reopen(SyncFs(Made)), Reopen(SyncFs(Pair))}
Mix(names, max) == [names |-> names, max |-> max]
MCMixes == {Mix({"create", "unlink", "rename", "link", "lookup"}, 5),
            Mix({"create", "unlink", "rename", "lookup", "sync"}, 4),
            Mix({"unlink", "open", "close", "write", "truncate", "lookup", "sync"}, 5),
            Mix({"create", "unlink", "open", "close", "write", "truncate", "lookup", "fsync"}, 5),
            Mix({"open", "write", "direct", "read", "truncate"}, 7),
            Mix({"race", "create", "rename"}, 4),
            Mix({"race", "lookup", "link", "unlink", "sync"}, 5)}

(* A root with two directories, on one of which one or two file systems    *)
(* are mounted; names of which one is a prefix of another.                 *)
Path(abs, names, slash) == [abs |-> abs, seq |-> names, slash |-> slash]
Rel(names) == Path(FALSE, names, FALSE)
Abs(names) == Path(TRUE, names, FALSE)
NoKids == [n \in {} |-> 0]
Dir(name, parent, mount, kids) == [kind |-> "dir", to |-> Rel(<<>>), name |-> name,
                                   parent |-> parent, mount |-> mount, kids |-> kids]
Dentries == <<Dir("/", 0, 1, ("m" :> 2) @@ ("a" :> 5)), Dir("m", 1, 1, NoKids),
              Dir("/", 0, 3, NoKids), Dir("/", 0, 4, NoKids), Dir("a", 1, 1, NoKids)>>
Mounted == {2 :> 3, (2 :> 3) @@ (3 :> 4)}
PathsGiven == {Rel(<<"a">>), Path(FALSE, <<"ab">>, TRUE), Rel(<<"a", "ab">>), Abs(<<"m">>),
               Abs(<<"m", "a">>), Rel(<<"..", "ab">>)}
LinkTargets == {Rel(<<"ab">>), Abs(<<"m", "a">>), Path(FALSE, <<"..", "a">>, TRUE)}

RamfsLimits == {[names |-> {"x", "y", "z"}, inodes |-> 2, scans |-> TRUE],
                [names |-> {"x", "y"}, inodes |-> 3, scans |-> TRUE],
                [names |-> {"x", "y"}, inodes |-> 4, scans |-> FALSE]}

(* Two threads and one of another process; a handle both processes share.  *)
MCProcOf == [t \in {"t1", "t2", "t3"} |-> IF t = "t3" THEN "q" ELSE "p"]
MCHandlesOf == [p \in {"p", "q"} |-> IF p = "p" THEN {"h"} ELSE {"h", "k"}]
MCAccessOf == [h \in {"h", "k"} |-> IF h = "h" THEN "O_RDWR" ELSE "O_WRONLY"]

RS == INSTANCE Resolver WITH Names <- {"a", "ab", "m"},
        StartsWith <- {<<"a", "ab">>}, Paths <- PathsGiven,
        Targets <- LinkTargets, SYMLINKS_MAX <- 2, MountTables <- Mounted,
        InitNodes <- Dentries, MaxNode <- 7, node <- rs_node,
        mounts <- rs_mounts, cwd <- rs_cwd
pathsVars == <<rs_node, rs_mounts, rs_cwd>>
RF == INSTANCE Ramfs WITH MaxIno <- 4, MaxLinks <- 2, Batches <- {1, 3},
        Limits <- RamfsLimits, inode <- rf_inode, next <- rf_next,
        scan <- rf_scan, lim <- rf_lim
ramfsVars == <<rf_inode, rf_next, rf_scan, rf_lim>>
PF == INSTANCE ProcFs WITH Pids <- {1, 2}, Fds <- {0}, FileIds <- {"f", "g"},
        Batches <- {1, 3}, shared <- pf_shared, life <- pf_life,
        table <- pf_table, reader <- pf_reader, root <- pf_root,
        pidDir <- pf_pidDir, fdDir <- pf_fdDir, dcache <- pf_dcache,
        scan <- pf_scan, halt <- pf_halt
procfsVars == <<pf_shared, pf_life, pf_table, pf_reader, pf_root, pf_pidDir,
                pf_fdDir, pf_dcache, pf_scan, pf_halt>>

allVars == <<which, vars, pathsVars, ramfsVars, hvars, procfsVars>>

MCInit ==
  /\ which \in Parts
  /\ Init /\ HInit
  /\ which # "ext2" => fs = Open /\ mix = CHOOSE x \in Mixes : TRUE
  /\ which # "handles" => file.len = 0
  /\ fs = Reopen(SyncFs(Pair)) <=> {"race", "link"} \subseteq mix.names
  /\ IF which = "paths" THEN RS!RInit
     ELSE rs_node = 0 /\ rs_mounts = 0 /\ rs_cwd = 0
  /\ IF which = "ramfs" THEN RF!FInit
     ELSE rf_inode = 0 /\ rf_next = 0 /\ rf_scan = 0 /\ rf_lim = 0
  /\ IF which = "procfs" THEN PF!PFInit
     ELSE pf_shared = 0 /\ pf_life = 0 /\ pf_table = 0 /\ pf_reader = 0 /\
          pf_root = 0 /\ pf_pidDir = 0 /\ pf_fdDir = 0 /\ pf_dcache = 0 /\
          pf_scan = 0 /\ pf_halt = 0

MCNext ==
  /\ UNCHANGED which
  /\ \/ which = "ext2" /\ Next /\ UNCHANGED <<pathsVars, ramfsVars, hvars, procfsVars>>
     \/ which = "paths" /\ RS!RNext /\ UNCHANGED <<vars, ramfsVars, hvars, procfsVars>>
     \/ which = "ramfs" /\ RF!FNext /\ UNCHANGED <<vars, pathsVars, hvars, procfsVars>>
     \/ which = "handles" /\ HNext /\ UNCHANGED <<vars, pathsVars, ramfsVars, procfsVars>>
     \/ which = "procfs" /\ PF!PFNext /\ UNCHANGED <<vars, pathsVars, ramfsVars, hvars>>

MCSpec == MCInit /\ [][MCNext]_allVars

(* The ext2 file system: a block has one owner, the tree is whole, and     *)
(* nobody reads what was written to another file, until one of the defects *)
(* that OneObject names has struck.                                        *)
FsSound == which = "ext2" => BlocksOwnedOnce /\ TreeIsWhole /\ NoStaleData

(* After a sync(2) beside which nothing ran, the device holds what memory  *)
(* holds, until one of the defects that OneObject names has struck.        *)
SyncLasts == which = "ext2" => SyncIsDurable

(* A path leads to the dentry it names, a ramfs counts and lists what      *)
(* there is, and the links of procfs name the files that are open.  The    *)
(* directories of reaped processes, which stay in /proc, are not excluded. *)
NamesSound == /\ which = "paths" => RS!PathNamesDentry
              /\ which = "ramfs" => RF!CountsAgree /\ RF!ScanComplete
              /\ which = "procfs" => PF!ProcTellsTruth

(* A file that was just made is found under the path it was made with,     *)
(* and a listing of /proc in pieces leaves nothing out.                    *)
FileStepsSound == /\ [][which = "paths" => RS!CreateFound]_allVars
              /\ [][which = "procfs" => PF!ListsAll]_allVars
=============================================================================
