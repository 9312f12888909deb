------------------------------- MODULE Handles -------------------------------
(***************************************************************************)
(* Open files: fs/inode_handle and the system calls that move an offset.    *)
(*                                                                          *)
(* Handles refer to one ext2 file.  A handle is shared by the processes     *)
(* that inherited it.  Three locks are taken, all of which sleep: the file  *)
(* table of the process (read, write, lseek and pread64 keep it), the       *)
(* offset of the handle, and the inode, which a read or a write holds while *)
(* it waits for the device.                                                 *)
(***************************************************************************)
EXTENDS Naturals, FiniteSetsExt

CONSTANTS HThreads, ProcOf,  \* threads, and the process of each
          HandlesOf,         \* process -> the handles in its table
          AccessOf,          \* handle -> "O_RDONLY", "O_WRONLY" or "O_RDWR"
          Sizes,             \* bytes of a read or a write
          MaxLen             \* bound: length of the file

Handles == UNION {HandlesOf[p] : p \in DOMAIN HandlesOf}
Procs == DOMAIN HandlesOf

VARIABLES hnd,   \* handle -> [off, owner, append, base, done]
          file,  \* [len, writer, up, readers]: the inode and its RwMutex
          ft,    \* process -> the thread that holds its file table
          call   \* thread -> the call it is in

hvars == <<hnd, file, ft, call>>

None == "none"
ASSUME HandlesAssumption == None \notin HThreads /\ Sizes \subseteq Nat

NoCall == [pc |-> "idle", op |-> None, h |-> None, n |-> 0, at |-> 0, more |-> 0]
Now(t, c) == call' = [call EXCEPT ![t] = c]

(* Rights::from(AccessMode) *)
Rights(m) == CASE m = "O_RDONLY" -> {"READ"}
               [] m = "O_WRONLY" -> {"WRITE"}
               [] OTHER -> {"READ", "WRITE"}

-----------------------------------------------------------------------------
(* The system calls up to the lock of the offset.  writev lets the table   *)
(* go first and takes the offset once per buffer.                          *)

Enter(t, h, c) ==
  /\ call[t].pc = "idle" /\ ft[ProcOf[t]] = None /\ h \in HandlesOf[ProcOf[t]]
  /\ Now(t, [c EXCEPT !.pc = "offset", !.h = h])
  /\ UNCHANGED <<hnd, file>>

KeepTable(t) == ft' = [ft EXCEPT ![ProcOf[t]] = t]

sys_read(t, h, n) ==
  /\ "READ" \in Rights(AccessOf[h])
  /\ Enter(t, h, [NoCall EXCEPT !.op = "read", !.n = n]) /\ KeepTable(t)

sys_write(t, h, n) ==
  /\ "WRITE" \in Rights(AccessOf[h])
  /\ Enter(t, h, [NoCall EXCEPT !.op = "write", !.n = n]) /\ KeepTable(t)

sys_writev(t, h, n) ==
  /\ "WRITE" \in Rights(AccessOf[h])
  /\ Enter(t, h, [NoCall EXCEPT !.op = "write", !.n = n, !.more = 1]) /\ UNCHANGED ft

sys_lseek(t, h, pos) ==
  /\ Enter(t, h, [NoCall EXCEPT !.op = "seek", !.at = pos]) /\ KeepTable(t)

sys_pread64(t, h, n, pos) ==
  /\ "READ" \in Rights(AccessOf[h])
  /\ Enter(t, h, [NoCall EXCEPT !.op = "pread", !.n = n, !.at = pos]) /\ KeepTable(t)

(* F_SETFL touches no lock but the table's. *)
sys_fcntl_setfl(t, h, append) ==
  /\ call[t].pc = "idle" /\ ft[ProcOf[t]] = None /\ h \in HandlesOf[ProcOf[t]]
  /\ hnd' = [hnd EXCEPT ![h].append = append]
  /\ UNCHANGED <<file, ft, call>>

-----------------------------------------------------------------------------
(* Under the lock of the offset *)

Return(t) ==
  /\ Now(t, NoCall)
  /\ ft' = [ft EXCEPT ![ProcOf[t]] = IF @ = t THEN None ELSE @]

(* InodeHandle_::seek; pread64 seeks and then reads. *)
seek(t) ==
  LET c == call[t]
  IN /\ c.pc = "offset" /\ c.op \in {"seek", "pread"} /\ hnd[c.h].owner = None
     /\ hnd' = [hnd EXCEPT ![c.h].off = c.at, ![c.h].base = c.at, ![c.h].done = {}]
     /\ IF c.op = "seek" THEN Return(t)
        ELSE Now(t, [c EXCEPT !.op = "read"]) /\ UNCHANGED ft
     /\ UNCHANGED file

(* SeekFrom::End asks the inode for its length under the offset's lock. *)
SeekEnd(t) ==
  LET c == call[t]
  IN /\ c.pc = "offset" /\ c.op = "seek" /\ hnd[c.h].owner = None /\ file.writer = None
     /\ hnd' = [hnd EXCEPT ![c.h].off = file.len, ![c.h].base = file.len, ![c.h].done = {}]
     /\ Return(t) /\ UNCHANGED file

(* SeekFrom::Current counts from the offset, here backwards or by nothing. *)
SeekCurrent(t) ==
  LET c == call[t]
  IN /\ c.pc = "offset" /\ c.op = "seek" /\ hnd[c.h].owner = None
     /\ \E at \in 0..hnd[c.h].off :
          hnd' = [hnd EXCEPT ![c.h].off = at, ![c.h].base = at, ![c.h].done = {}]
     /\ Return(t) /\ UNCHANGED file

(* A position before the start or past isize::MAX is refused. *)
SeekRefused(t) ==
  /\ call[t].pc = "offset" /\ call[t].op = "seek" /\ hnd[call[t].h].owner = None
  /\ Return(t) /\ UNCHANGED <<hnd, file>>

(* Mutant: the offset is read before its lock is taken for good. *)
ReadWithoutLock(t) ==
  LET c == call[t]
  IN /\ c.pc = "offset" /\ c.op = "read" /\ hnd[c.h].owner = None
     /\ Now(t, [c EXCEPT !.pc = "inode", !.at = hnd[c.h].off])
     /\ UNCHANGED <<hnd, file, ft>>

(* InodeHandle_::read keeps the lock of the offset until it has moved it. *)
read(t) ==
  LET c == call[t]
  IN /\ c.pc = "offset" /\ c.op = "read" /\ hnd[c.h].owner = None
     /\ hnd' = [hnd EXCEPT ![c.h].owner = t]
     /\ Now(t, [c EXCEPT !.pc = "inode", !.at = hnd[c.h].off])
     /\ UNCHANGED <<file, ft>>

(* InodeHandle_::write; with O_APPEND it first asks for the length. *)
write(t) ==
  LET c == call[t]
  IN /\ c.pc = "offset" /\ c.op = "write" /\ hnd[c.h].owner = None
     /\ hnd' = [hnd EXCEPT ![c.h].owner = t]
     /\ Now(t, [c EXCEPT !.pc = IF hnd[c.h].append THEN "length" ELSE "inode",
                         !.at = hnd[c.h].off])
     /\ UNCHANGED <<file, ft>>

inode_len(t) ==
  LET c == call[t]
  IN /\ c.pc = "length" /\ file.writer = None
     /\ hnd' = [hnd EXCEPT ![c.h].off = file.len, ![c.h].base = file.len, ![c.h].done = {}]
     /\ Now(t, [c EXCEPT !.pc = "inode", !.at = file.len])
     /\ UNCHANGED <<file, ft>>

-----------------------------------------------------------------------------
(* The inode: Inode::read_at and write_at of ext2.  Each sleeps between    *)
(* taking the lock and letting it go.                                      *)

ReadStarts(t) ==
  /\ call[t].pc = "inode" /\ call[t].op = "read" /\ file.writer = None
  /\ file' = [file EXCEPT !.readers = @ \cup {t}]
  /\ Now(t, [call[t] EXCEPT !.pc = "io"])
  /\ UNCHANGED <<hnd, ft>>

WriteStarts(t) ==
  /\ call[t].pc = "inode" /\ call[t].op = "write" /\ file.writer = None /\ file.up = None
  /\ file' = [file EXCEPT !.up = t]
  /\ Now(t, [call[t] EXCEPT !.pc = IF call[t].at + call[t].n > file.len THEN "upgrade" ELSE "io"])
  /\ UNCHANGED <<hnd, ft>>

Upgrade(t) ==
  /\ call[t].pc = "upgrade" /\ file.readers = {}
  /\ file' = [file EXCEPT !.up = None, !.writer = t]
  /\ Now(t, [call[t] EXCEPT !.pc = "io"])
  /\ UNCHANGED <<hnd, ft>>

(* *offset += len, and the locks go. *)
Advance(t, n) ==
  LET h == call[t].h
  IN hnd' = [hnd EXCEPT ![h].off = @ + n, ![h].owner = None,
                        ![h].done = IF n = 0 THEN @ ELSE @ \cup {<<t, call[t].at, n>>}]

ReadEnds(t) ==
  LET c == call[t]
      end == IF c.at + c.n < file.len THEN c.at + c.n ELSE file.len
  IN /\ c.pc = "io" /\ c.op = "read"
     /\ file' = [file EXCEPT !.readers = @ \ {t}]
     /\ Advance(t, IF c.at < end THEN end - c.at ELSE 0)
     /\ Return(t)

WriteEnds(t) ==
  LET c == call[t]
  IN /\ c.pc = "io" /\ c.op = "write"
     /\ file' = [file EXCEPT !.up = IF @ = t THEN None ELSE @, !.writer = IF @ = t THEN None ELSE @,
                             !.len = IF c.at + c.n > @ THEN c.at + c.n ELSE @]
     /\ Advance(t, c.n)
     /\ IF c.more = 0 THEN Return(t)
        ELSE Now(t, [c EXCEPT !.pc = "offset", !.more = c.more - 1]) /\ UNCHANGED ft

(* The page cache, or the resize of the inode, fails: the locks go and the *)
(* offset stays, where inode_len has put it with O_APPEND.  The buffers of *)
(* a writev that are left are not written.                                 *)
Fails(t) ==
  /\ call[t].pc = "io"
  /\ file' = [file EXCEPT !.up = IF @ = t THEN None ELSE @, !.writer = IF @ = t THEN None ELSE @,
                          !.readers = @ \ {t}]
  /\ Advance(t, 0)
  /\ Return(t)

HInit ==
  /\ hnd = [h \in Handles |-> [off |-> 0, owner |-> None, append |-> FALSE, base |-> 0, done |-> {}]]
  /\ \E len \in 0..1 : file = [len |-> len, writer |-> None, up |-> None, readers |-> {}]
  /\ ft = [p \in Procs |-> None]
  /\ call = [t \in HThreads |-> NoCall]

(* Bound: no write may start that could move past MaxLen. *)
Pending == MapThenSumSet(LAMBDA t : IF call[t].op = "write" THEN call[t].n * (call[t].more + 1) ELSE 0,
                         HThreads)
Furthest == CHOOSE m \in {file.len} \cup {hnd[h].off : h \in Handles} \cup {call[t].at : t \in HThreads} :
              /\ m >= file.len
              /\ \A h \in Handles : m >= hnd[h].off
              /\ \A t \in HThreads : m >= call[t].at
Fits(n) == Furthest + Pending + n <= MaxLen

HNext ==
  \E t \in HThreads :
    \/ \E h \in Handles :
         \/ \E n \in Sizes : sys_read(t, h, n) \/ sys_pread64(t, h, n, 0)
         \/ \E n \in Sizes : Fits(n) /\ sys_write(t, h, n)
         \/ \E n \in Sizes : Fits(2 * n) /\ sys_writev(t, h, n)
         \/ sys_lseek(t, h, 0)
         \/ \E a \in BOOLEAN : sys_fcntl_setfl(t, h, a)
    \/ seek(t) \/ SeekEnd(t) \/ SeekCurrent(t) \/ SeekRefused(t)
    \/ read(t) \/ write(t) \/ inode_len(t)
    \/ ReadStarts(t) \/ WriteStarts(t) \/ Upgrade(t) \/ ReadEnds(t) \/ WriteEnds(t) \/ Fails(t)

HSpec == HInit /\ [][HNext]_hvars

-----------------------------------------------------------------------------

Span(d) == d[2]..(d[2] + d[3] - 1)

(* InodeHandle_::read and write under the lock of the offset: the ranges   *)
(* that the calls on one open file took since it was last positioned lie   *)
(* one after the other, without overlap or gap, whoever made the calls.    *)
OffsetShared ==
  \A h \in Handles :
    LET d == hnd[h].done
    IN /\ \A x, y \in d : x # y => Span(x) \cap Span(y) = {}
       /\ UNION {Span(x) : x \in d} = hnd[h].base..(hnd[h].off - 1)
=============================================================================
