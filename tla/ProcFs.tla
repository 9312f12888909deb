------------------------------- MODULE ProcFs -------------------------------
(***************************************************************************)
(* `/proc`: `fs/procfs` over `fs/file_table.rs` and                         *)
(* `process/process_table.rs`.  Directories of processes and of open files  *)
(* are made on demand and cached in slots; the closing of a file reaches    *)
(* the caches through observers.                                            *)
(*                                                                         *)
(* A call runs to its end unless it has to wait for a file table, which a   *)
(* process keeps locked while it sleeps in `read`.  The lock of a directory *)
(* cache is a spin lock: a task that would sleep with it held stops the     *)
(* kernel (`switch_to_task`).                                               *)
(***************************************************************************)
EXTENDS Integers, Sequences, FiniteSets

CONSTANTS
    Pids,           \* processes; the smallest is the first
    Fds,            \* file descriptors 0..n
    FileIds,        \* open files
    Batches         \* how many entries one `getdents64` has room for

VARIABLES
    shared,         \* rigid: do the children share their parent's file table
    life,           \* process -> "none", "live", "zombie", "gone"
    table,          \* process -> descriptor -> file, or NoFile
    reader,         \* the process asleep in `read` with its table locked
    root,           \* slots of /proc: Self, the entry of a process, or Hole
    pidDir,         \* the processes whose /proc/<pid>/fd is cached
    fdDir,          \* process -> slots of /proc/<pid>/fd: <<descriptor, file>>
    dcache,         \* what path lookups remember: <<kind, process, entry>>
    scan,           \* a `getdents64` sequence on one of the directories
    halt            \* has the kernel stopped

pfvars == <<shared, life, table, reader, root, pidDir, fdDir, dcache, scan, halt>>

NoFile == "no file"
Hole == <<-1, NoFile>>
Self == <<0, "self">>
Entry(p) == <<p, "dir">>
Nobody == -1
first == CHOOSE p \in Pids : \A q \in Pids : p <= q

\* The processes whose file table is the one of p.
Sharers(p) == IF shared THEN Pids ELSE {p}

TableBusy(p) == reader \in Sharers(p)

NoScan == [dir |-> "none", pid |-> first, offset |-> 0, unseen |-> {}]

PFInit ==
    /\ shared \in BOOLEAN
    /\ life = [p \in Pids |-> IF p = first THEN "live" ELSE "none"]
    /\ table = [p \in Pids |-> [fd \in Fds |-> NoFile]]
    /\ reader = Nobody /\ halt = FALSE
    /\ root = <<>> /\ pidDir = {}
    /\ fdDir = [p \in Pids |-> <<>>]
    /\ dcache = {} /\ scan = NoScan

-----------------------------------------------------------------------------
(* `SlotVec`                                                               *)
Put(slots, e) ==
    LET free == {i \in 1..Len(slots) : slots[i] = Hole}
    IN  IF free = {} THEN Append(slots, e)
        ELSE [slots EXCEPT ![CHOOSE i \in free : \A j \in free : i <= j] = e]

Elems(slots) == {slots[i] : i \in 1..Len(slots)}

put_entry_if_not_found(slots, e) ==
    IF e \in Elems(slots) THEN slots ELSE Put(slots, e)

remove_entries(slots, names) ==
    [i \in 1..Len(slots) |-> IF slots[i][1] \in names THEN Hole ELSE slots[i]]

SlotNames(slots) == {e[1] : e \in Elems(slots)}

\* Every name in turn, smallest first.
RECURSIVE PutAll(_, _)
PutAll(slots, es) ==
    IF es = {} THEN slots
    ELSE LET e == CHOOSE e \in es :
                    \A f \in es : e[1] <= f[1]
         IN  PutAll(put_entry_if_not_found(slots, e), es \ {e})

-----------------------------------------------------------------------------
(* Making inodes.  What is volatile is not kept by the dentry cache; a      *)
(* child of a volatile directory is volatile too (`OptionalBuilder::build`). *)
Parent(kind) == CASE kind \in {"self", "pid"} -> "root" [] kind = "fd" -> "pid" [] kind = "link" -> "fd"

RECURSIVE build(_)
build(kind) ==
    IF kind = "root" THEN FALSE
    ELSE kind = "pid" \/ build(Parent(kind))

is_dentry_cacheable(kind) == ~build(kind)

Remember(kind, p, e) ==
    dcache' = IF is_dentry_cacheable(kind) THEN dcache \cup {<<kind, p, e>>} ELSE dcache

\* `new_inode` of a process directory or of its `fd` directory registers the
\* inode with the file table, whose lock it takes while the cache is locked.
NewInode(p) == TableBusy(p)

KernelStops == halt' = TRUE /\ UNCHANGED <<shared, life, table, reader, root, pidDir,
                                           fdDir, dcache, scan>>

\* `ProcDir<RootDirOps>::lookup`
LookupPid(p) ==
    /\ life[p] \in {"live", "zombie"} \/ p \in SlotNames(root)
    /\ IF p \notin SlotNames(root) /\ NewInode(p) THEN KernelStops
       ELSE /\ root' = put_entry_if_not_found(root, Entry(p))
            /\ Remember("pid", p, Entry(p))
            /\ UNCHANGED <<shared, life, table, reader, pidDir, fdDir, scan, halt>>

LookupSelf ==
    /\ root' = put_entry_if_not_found(root, Self)
    /\ Remember("self", 0, Self)
    /\ UNCHANGED <<shared, life, table, reader, pidDir, fdDir, scan, halt>>

\* `ProcDir<PidDirOps>::lookup` of "fd"; "exe" and "comm" need no lock and
\* hold nothing that changes.
LookupFdDir(p) ==
    /\ p \in SlotNames(root)
    /\ IF p \notin pidDir /\ NewInode(p) THEN KernelStops
       ELSE /\ pidDir' = pidDir \cup {p}
            /\ Remember("fd", p, Entry(p))
            /\ UNCHANGED <<shared, life, table, reader, root, fdDir, scan, halt>>

\* `ProcDir<FdDirOps>::lookup`: the cache first, else the file table, locked
\* while the cache is.
LookupLink(p, fd) ==
    /\ p \in pidDir
    /\ IF fd \in SlotNames(fdDir[p])
       THEN /\ \E e \in Elems(fdDir[p]) : e[1] = fd /\ Remember("link", p, e)
            /\ UNCHANGED <<shared, life, table, reader, root, pidDir, fdDir, scan, halt>>
       ELSE IF TableBusy(p) THEN KernelStops
       ELSE /\ table[p][fd] # NoFile
            /\ fdDir' = [fdDir EXCEPT ![p] = Put(@, <<fd, table[p][fd]>>)]
            /\ Remember("link", p, <<fd, table[p][fd]>>)
            /\ UNCHANGED <<shared, life, table, reader, root, pidDir, scan, halt>>

-----------------------------------------------------------------------------
(* `readdir_at`: the children are made first, then visited from the offset   *)
(* on.  Offsets 0 and 1 are "." and "..".                                    *)
Existing(p) == life[p] \in {"live", "zombie"}

NextButOne(i) == (i - 1) + 2 + 2

NextOffset(i) == (i - 1) + 2 + 1

readdir_at(slots, n) ==
    LET from == IF scan.offset < 2 THEN 2 ELSE scan.offset
        rest == {i \in 1..Len(slots) : slots[i] # Hole /\ (i - 1) + 2 >= from}
        room == IF scan.offset < 2 THEN n - (2 - scan.offset) ELSE n
        taken == {i \in rest : Cardinality({j \in rest : j <= i}) <= room}
        last == IF taken = {} THEN IF room < 0 THEN scan.offset + n ELSE from
                ELSE NextOffset(CHOOSE i \in taken : \A j \in taken : j <= i)
    IN  [offset |-> last, got |-> {slots[i] : i \in taken}]

\* The scan ends when a call returns nothing more.
Advance(slots, n) ==
    \E r \in {readdir_at(slots, n)} :
        scan' = IF r.got = {} /\ scan.offset >= 2 THEN NoScan
                ELSE [scan EXCEPT !.offset = r.offset, !.unseen = @ \ r.got]

populate_root ==
    PutAll(put_entry_if_not_found(root, Self), {Entry(p) : p \in {q \in Pids : Existing(q)}})

\* A scan begins with what is there and is yet to be reported.
OpenRoot ==
    /\ scan.dir = "none"
    /\ scan' = [NoScan EXCEPT !.dir = "root",
                              !.unseen = {Self} \cup {Entry(p) : p \in {q \in Pids : Existing(q)}}]
    /\ UNCHANGED <<shared, life, table, reader, root, pidDir, fdDir, dcache, halt>>

ReadRoot(n) ==
    /\ scan.dir = "root"
    /\ IF \E p \in Pids : Existing(p) /\ p \notin SlotNames(root) /\ NewInode(p)
       THEN KernelStops
       ELSE /\ root' = populate_root
            /\ Advance(root', n)
            /\ UNCHANGED <<shared, life, table, reader, pidDir, fdDir, dcache, halt>>

\* A listing of the process directory makes the three children first.
ReadPid(p) ==
    /\ p \in SlotNames(root)
    /\ IF p \notin pidDir /\ NewInode(p) THEN KernelStops
       ELSE /\ pidDir' = pidDir \cup {p}
            /\ UNCHANGED <<shared, life, table, reader, root, fdDir, dcache, scan, halt>>

OpenFd(p) ==
    /\ scan.dir = "none" /\ p \in pidDir /\ p \in SlotNames(root)
    /\ scan' = [NoScan EXCEPT !.dir = "fd", !.pid = p,
                   !.unseen = {<<fd, table[p][fd]>> : fd \in {f \in Fds : table[p][f] # NoFile}}]
    /\ UNCHANGED <<shared, life, table, reader, root, pidDir, fdDir, dcache, halt>>

OpenFds(p) == {<<fd, table[p][fd]>> : fd \in {f \in Fds : table[p][f] # NoFile
                                                          /\ f \notin SlotNames(fdDir[p])}}

\* `populate_children` of the fd directory takes the file table first: it
\* may sleep, with nothing else held.
ReadFd(n) ==
    /\ scan.dir = "fd" /\ ~TableBusy(scan.pid)
    /\ LET p == scan.pid
           slots == PutAll(fdDir[p], OpenFds(p))
       IN /\ fdDir' = [fdDir EXCEPT ![p] = slots]
          /\ Advance(slots, n)
    /\ UNCHANGED <<shared, life, table, reader, root, pidDir, dcache, halt>>

-----------------------------------------------------------------------------
(* The file table and its observers: every fd directory of the processes     *)
(* that share it.  `registered` is the inodes that exist.                    *)
notify_fd_events(p, fds) ==
    [q \in Pids |-> IF q \in Sharers(p) THEN remove_entries(fdDir[q], fds) ELSE fdDir[q]]

SetFd(p, fd, f) ==
    [q \in Pids |-> IF q \in Sharers(p) THEN [table[q] EXCEPT ![fd] = f] ELSE table[q]]

\* What is closed or replaced need not be reported by a running scan.
Unstable(p, fds) ==
    IF scan.dir = "fd" /\ scan.pid \in Sharers(p)
    THEN [scan EXCEPT !.unseen = {e \in @ : e[1] \notin fds}] ELSE scan

insert(p, f) ==
    /\ life[p] = "live" /\ ~TableBusy(p)
    /\ LET free == {fd \in Fds : table[p][fd] = NoFile} IN
        /\ free # {}
        /\ table' = SetFd(p, CHOOSE fd \in free : \A g \in free : fd <= g, f)
    /\ UNCHANGED <<shared, life, reader, root, pidDir, fdDir, dcache, scan, halt>>

insert_at(p, fd, f) ==
    /\ life[p] = "live" /\ ~TableBusy(p) /\ table[p][fd] # NoFile
    /\ table' = SetFd(p, fd, f)
    /\ fdDir' = notify_fd_events(p, {fd})
    /\ scan' = Unstable(p, {fd})
    /\ UNCHANGED <<shared, life, reader, root, pidDir, dcache, halt>>

close_file(p, fd) ==
    /\ life[p] = "live" /\ ~TableBusy(p) /\ table[p][fd] # NoFile
    /\ table' = SetFd(p, fd, NoFile)
    /\ fdDir' = notify_fd_events(p, {fd})
    /\ scan' = Unstable(p, {fd})
    /\ UNCHANGED <<shared, life, reader, root, pidDir, dcache, halt>>

\* `sys_read` keeps the table locked while the file's `read` sleeps.
ReadSleeps(p) ==
    /\ life[p] = "live" /\ ~TableBusy(p) /\ reader = Nobody
    /\ \E fd \in Fds : table[p][fd] # NoFile
    /\ reader' = p
    /\ UNCHANGED <<shared, life, table, root, pidDir, fdDir, dcache, scan, halt>>

ReadReturns ==
    /\ ~halt /\ reader # Nobody /\ reader' = Nobody
    /\ UNCHANGED <<shared, life, table, root, pidDir, fdDir, dcache, scan, halt>>

-----------------------------------------------------------------------------
(* Processes                                                               *)
Fork(p, c) ==
    /\ life[p] = "live" /\ life[c] = "none" /\ ~TableBusy(p)
    /\ life' = [life EXCEPT ![c] = "live"]
    /\ table' = [table EXCEPT ![c] = table[p]]
    /\ UNCHANGED <<shared, reader, root, pidDir, fdDir, dcache, scan, halt>>

\* `do_exit_group`: all files of the table are closed, shared or not.
close_all(p) ==
    /\ life[p] = "live" /\ p # first /\ ~TableBusy(p)
    /\ life' = [life EXCEPT ![p] = "zombie"]
    /\ table' = [q \in Pids |-> IF q \in Sharers(p) THEN [fd \in Fds |-> NoFile] ELSE table[q]]
    /\ fdDir' = notify_fd_events(p, Fds)
    /\ scan' = Unstable(p, Fds)
    /\ UNCHANGED <<shared, reader, root, pidDir, dcache, halt>>

\* `reap_zombie_child`: the process leaves the table.  The root directory has
\* registered an observer of `PidEvent`, but nobody notifies it.
reap_zombie_child(p) ==
    /\ life[p] = "zombie"
    /\ life' = [life EXCEPT ![p] = "gone"]
    /\ scan' = IF scan.dir = "root" THEN [scan EXCEPT !.unseen = @ \ {Entry(p)}] ELSE scan
    /\ UNCHANGED <<shared, table, reader, root, pidDir, fdDir, dcache, halt>>

\* The processes that can make a call: none once the kernel has stopped.
Running == IF halt THEN {} ELSE {p \in Pids : life[p] = "live" /\ reader # p}

\* What somebody may look at.
Visible == IF Running = {} THEN {} ELSE Pids

PFNext ==
    \/ \E p \in Visible : LookupPid(p) \/ LookupFdDir(p) \/ ReadPid(p) \/ OpenFd(p)
    \/ \E p \in Visible, fd \in Fds : LookupLink(p, fd)
    \/ \E p \in Visible : p = first /\ (OpenRoot \/ LookupSelf)
    \/ \E p \in Visible, n \in Batches : p = first /\ (ReadRoot(n) \/ ReadFd(n))
    \/ \E p \in Visible : reap_zombie_child(p)
    \/ \E p \in Running : ReadSleeps(p) \/ close_all(p)
    \/ \E p \in Running, fd \in Fds : close_file(p, fd)
    \/ \E p \in Running, f \in FileIds : insert(p, f)
    \/ \E p \in Running, fd \in Fds, f \in FileIds : insert_at(p, fd, f)
    \/ \E p \in Running, c \in Pids : Fork(p, c)
    \/ ReadReturns

PFSpec == PFInit /\ [][PFNext]_pfvars

-----------------------------------------------------------------------------
\* What /proc shows of open files is true: a cached link names the file that the
\* descriptor has now, however descriptors are closed, replaced and shared, and
\* path lookups remember nothing of what can go away.  It does not say that the
\* root lists only processes that exist: root and pidDir keep the directories of
\* reaped processes, since no PidEvent is ever sent.
ProcTellsTruth ==
    /\ \A p \in Pids : \A e \in Elems(fdDir[p]) \ {Hole} : table[p][e[1]] = e[2]
    /\ \A d \in dcache : CASE d[1] \in {"pid", "fd"} -> Existing(d[2])
                           [] d[1] = "link" -> table[d[2]][d[3][1]] = d[3][2]
                           [] d[1] = "self" -> TRUE

\* A listing that is read in pieces reports every entry that exists from
\* beginning to end, whatever comes and goes in between.
ListsAll == scan.dir # "none" /\ scan'.dir = "none" => scan.unseen = {}
ListingComplete == [][ListsAll]_pfvars
=============================================================================
