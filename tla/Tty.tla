-------------------------------- MODULE Tty ---------------------------------
(***************************************************************************)
(* Terminals, and the file system in which pseudo terminals have their     *)
(* names.  They are two systems: each has its variables and its            *)
(* specification.                                                          *)
(***************************************************************************)
EXTENDS Integers, Sequences, FiniteSets

(***************************************************************************)
(* A terminal: the line discipline (device/tty/line_discipline.rs), the    *)
(* console on top of it (device/tty/mod.rs, driver.rs) or the two ends of  *)
(* a pseudo terminal (device/pty/pty.rs), and the work item to which       *)
(* push_char leaves what may sleep (thread/work_queue/).                   *)
(*                                                                         *)
(* The characters of the console arrive in interrupts, those of a pty in   *)
(* the write of its master.  One CPU runs the tasks: a task that is in the *)
(* middle of a stretch (Mid) keeps the others out, but not an interrupt.   *)
(* The bytes of the line discipline are kept, those that flow back to the  *)
(* master are counted.                                                     *)
(***************************************************************************)

CONSTANTS Readers,         \* threads that read the terminal, each of its own group
          Masters,         \* threads that read the master of the pty
          Keys,            \* the characters that are typed
          Modes,           \* the termios that TCSETS sets
          BUFFER_CAPACITY,
          Lengths          \* of the buffers of read and write

VARIABLES kind,            \* "console" or "pty", for ever
          termios, line, buf,
          readable,        \* Pollee of the line discipline
          para,            \* LineDisciplineWorkPara
          item,            \* was_pending, and whether the item is in the queue
          worker,          \* where the worker is, and the PolleeType it took
          input, masterIN, \* ring and Pollee of the master
          fg,              \* foreground group of both JobControls
          th

ldiscVars == <<termios, line, buf, readable, para, item>>
tvars == <<kind, ldiscVars, worker, input, masterIN, fg, th>>

None == "none"
Threads == Readers \cup Masters
DefaultTermios == [canon |-> TRUE, isig |-> TRUE, echo |-> TRUE, icrnl |-> TRUE]

TInit == /\ kind \in {"console", "pty"}
         /\ termios = DefaultTermios
         /\ line = <<>> /\ buf = <<>> /\ readable = FALSE
         /\ para = [signal |-> FALSE, pollee |-> None]
         /\ item = [pending |-> FALSE, queued |-> FALSE]
         /\ worker = [at |-> "idle", pollee |-> None]
         /\ input = 0 /\ masterIN = FALSE
         /\ fg = [own |-> None, master |-> None]
         /\ th = [t \in Threads |-> [at |-> "user", len |-> 0]]

Mid == \/ worker.at \in {"fetched", "started", "adding"}
       \/ \E t \in Threads : th[t].at \in {"try", "update", "poll"}

Goto(t, at) == th' = [th EXCEPT ![t].at = at]
Calls(t, at, n) == th' = [th EXCEPT ![t] = [at |-> at, len |-> n]]

(* Pollee::add_events wakes the pollers of the threads in T.               *)
Woken(T) == [t \in Threads |->
               IF t \in T /\ th[t].at = "asleep" THEN [th[t] EXCEPT !.at = "runnable"]
               ELSE th[t]]

Least(a, b) == IF a < b THEN a ELSE b

-----------------------------------------------------------------------------
(* LineDiscipline.                                                         *)

is_line_terminator(ch) == ch \in {"nl", "eof"}
is_printable_char(ch) == ch \notin {"nl", "cr", "eof", "kill", "erase", "intr"}
is_ctrl_char(ch) == ch \in {"eof", "kill", "intr"}

(* StaticRb::push_overwrite: the oldest byte goes when the ring is full.   *)
push_overwrite(s, ch) ==
  Append(IF Len(s) = BUFFER_CAPACITY THEN Tail(s) ELSE s, ch)

RECURSIVE PushAll(_, _)
PushAll(s, chars) ==
  IF chars = <<>> THEN s ELSE PushAll(push_overwrite(s, Head(chars)), Tail(chars))

(* CurrentLine::backspace pops from the ring, which takes its oldest byte. *)
backspace(s) == IF s = <<>> THEN s ELSE Tail(s)

(* WorkQueue::enqueue: an item that is pending already is not queued again.*)
submit_work_item(it) == IF it.pending THEN it ELSE [pending |-> TRUE, queued |-> TRUE]

(* Mutant: a readable buffer is announced only when the item is new.       *)
AnnounceOnce(b) ==
  /\ para' = IF item.pending THEN para
             ELSE [para EXCEPT !.pollee = IF b # <<>> THEN "Add" ELSE "Del"]
  /\ item' = submit_work_item(item)

update_readable_state_deferred(b) ==
  /\ para' = [para EXCEPT !.pollee = IF b # <<>> THEN "Add" ELSE "Del"]
  /\ item' = submit_work_item(item)

may_send_signal(ch) == termios.canon /\ termios.isig /\ ch = "intr"

(* What canonical mode makes of the current line and of the buffer.        *)
EditedLine(ch) ==
  CASE ch = "kill" -> <<>>
    [] ch = "erase" -> backspace(line)
    [] is_line_terminator(ch) -> <<>>
    [] is_printable_char(ch) -> push_overwrite(line, ch)
    [] OTHER -> line

Received(ch) ==
  IF ~termios.canon THEN push_overwrite(buf, ch)
  ELSE IF is_line_terminator(ch) THEN PushAll(buf, push_overwrite(line, ch))
  ELSE buf

Translated(ch) == IF termios.icrnl /\ ch = "cr" THEN "nl" ELSE ch

push_char(ch) ==
  IF may_send_signal(ch)
  THEN para' = [para EXCEPT !.signal = TRUE] /\ UNCHANGED <<line, buf, item>>
  ELSE /\ line' = IF termios.canon THEN EditedLine(ch) ELSE line
       /\ \E b \in {Received(ch)} : buf' = b /\ update_readable_state_deferred(b)

(* output_char: the bytes that the echo callback gets.  A printable one is *)
(* printed on the console of the kernel instead.                           *)
output_char(ch) ==
  IF ~termios.echo \/ may_send_signal(ch) THEN 0
  ELSE CASE ch = "nl" -> 1
         [] ch = "cr" -> 2
         [] ch = "erase" -> 3
         [] is_ctrl_char(ch) -> 2
         [] OTHER -> 0

(* update_readable_state, with its wakeups.                                *)
update_readable_state(b) ==
  /\ readable' = (b # <<>>)
  /\ th' = IF b # <<>> THEN Woken(Readers) ELSE th

(* poll_read: at most n bytes, in canonical mode up to the first line      *)
(* terminator.                                                             *)
poll_read(n) ==
  LET m == Least(n, Len(buf))
      ends == {i \in 1..m : termios.canon /\ is_line_terminator(buf[i])}
      k == IF ends = {} THEN m ELSE CHOOSE i \in ends : \A j \in ends : i <= j
  IN  buf' = SubSeq(buf, k + 1, Len(buf))

-----------------------------------------------------------------------------
(* The worker: WorkItem::set_processing, then update_readable_state_after, *)
(* which may sleep after it sent the signal.                               *)

FetchItem == /\ worker.at = "idle" /\ item.queued /\ ~Mid
             /\ item' = [item EXCEPT !.queued = FALSE]
             /\ worker' = [worker EXCEPT !.at = "fetched"]
             /\ UNCHANGED <<kind, termios, line, buf, readable, para, input, masterIN, fg, th>>

set_processing == /\ worker.at = "fetched"
                  /\ item' = [item EXCEPT !.pending = FALSE]
                  /\ worker' = [worker EXCEPT !.at = "started"]
                  /\ UNCHANGED <<kind, termios, line, buf, readable, para, input, masterIN,
                                 fg, th>>

(* The group to which the discipline sends: of the console, or of the      *)
(* JobControl of the master.  Its sleeping threads see the signal.         *)
SignalledGroup == IF kind = "console" THEN fg.own ELSE fg.master
send_signal ==
  th' = [t \in Threads |->
           IF t = SignalledGroup /\ th[t].at \in {"asleep", "background"}
           THEN [at |-> "user", len |-> 0] ELSE th[t]]

TakeSignal == /\ worker.at = "started"
              /\ para' = [para EXCEPT !.signal = FALSE]
              /\ IF para.signal THEN send_signal ELSE UNCHANGED th
              /\ worker' = [worker EXCEPT !.at = "sent"]
              /\ UNCHANGED <<kind, termios, line, buf, readable, item, input, masterIN, fg>>

TakePollee == /\ worker.at = "sent" /\ ~Mid
              /\ para' = [para EXCEPT !.pollee = None]
              /\ worker' = [at |-> "adding", pollee |-> para.pollee]
              /\ UNCHANGED <<kind, termios, line, buf, readable, item, input, masterIN, fg, th>>

update_readable_state_after ==
  /\ worker.at = "adding"
  /\ worker' = [at |-> "idle", pollee |-> None]
  /\ IF worker.pollee = None THEN UNCHANGED <<readable, th>>
     ELSE /\ readable' = (worker.pollee = "Add")
          /\ th' = IF worker.pollee = "Add" THEN Woken(Readers) ELSE th
  /\ UNCHANGED <<kind, termios, line, buf, para, item, input, masterIN, fg>>

Worker == FetchItem \/ set_processing \/ TakeSignal \/ TakePollee
          \/ update_readable_state_after

-----------------------------------------------------------------------------
(* The input side: Tty::receive_char from the console interrupt, which can *)
(* come between any two steps, and PtyMaster::write, of one character.     *)

receive_char(ch) == /\ kind = "console"
                    /\ push_char(Translated(ch))
                    /\ UNCHANGED <<kind, termios, readable, worker, input, masterIN, fg, th>>

(* PtyMaster::update_state.                                                *)
update_state(n) == /\ input' = n
                   /\ masterIN' = (n > 0)
                   /\ th' = IF n > 0 THEN Woken(Masters) ELSE th

MasterWrite(ch) ==
  /\ kind = "pty" /\ ~Mid
  /\ push_char(Translated(ch))
  /\ update_state(Least(BUFFER_CAPACITY, input + output_char(Translated(ch))))
  /\ UNCHANGED <<kind, termios, readable, worker, fg>>

(* PtySlave::write of n bytes: a newline becomes two.                      *)
SlaveWrite(n, newline) ==
  /\ kind = "pty" /\ ~Mid
  /\ update_state(Least(BUFFER_CAPACITY, input + n + (IF newline THEN 1 ELSE 0)))
  /\ UNCHANGED <<kind, ldiscVars, worker, fg>>

-----------------------------------------------------------------------------
(* JobControl.                                                             *)

current_belongs_to_foreground(t) == fg.own \in {None, t}

(* wait_until_in_foreground, at the start of a read of n bytes and when    *)
(* the pauser resumes.                                                     *)
wait_until_in_foreground(t, n) ==
  /\ ~Mid
  /\ Calls(t, IF current_belongs_to_foreground(t) THEN "try" ELSE "background", n)
  /\ UNCHANGED <<kind, ldiscVars, worker, input, masterIN, fg>>

ReadTty(t, n) == th[t].at = "user" /\ wait_until_in_foreground(t, n)
Resumed(t) == th[t].at = "resumed" /\ wait_until_in_foreground(t, th[t].len)

(* set_foreground of the JobControl j: without a group nobody is resumed.  *)
set_foreground(j, g, now) ==
  /\ fg' = [fg EXCEPT ![j] = g]
  /\ th' = [t \in Threads |->
              IF g # None /\ j = "own" /\ now[t].at = "background"
              THEN [now[t] EXCEPT !.at = "resumed"] ELSE now[t]]

(* TIOCSPGRP; on the console it also looks at the buffer again.            *)
SetForeground(j, g) ==
  /\ ~Mid
  /\ IF kind = "console"
     THEN /\ readable' = (buf # <<>>)
          /\ set_foreground(j, g, IF buf # <<>> THEN Woken(Readers) ELSE th)
     ELSE UNCHANGED readable /\ set_foreground(j, g, th)
  /\ UNCHANGED <<kind, termios, line, buf, para, item, worker, input, masterIN>>

-----------------------------------------------------------------------------
(* LineDiscipline::read.                                                   *)

(* try_read up to block_read with VMIN = 1: EAGAIN on an empty buffer.     *)
block_read(t) ==
  /\ th[t].at = "try"
  /\ IF buf = <<>> /\ th[t].len > 0
     THEN Goto(t, "poll") /\ UNCHANGED buf
     ELSE poll_read(th[t].len) /\ Goto(t, "update")
  /\ UNCHANGED <<kind, termios, line, readable, para, item, worker, input, masterIN, fg>>

(* try_read after block_read: the read returns.                            *)
UpdateAndReturn(t) ==
  /\ th[t].at = "update"
  /\ readable' = (buf # <<>>)
  /\ th' = [IF buf # <<>> THEN Woken(Readers) ELSE th
              EXCEPT ![t] = [at |-> "user", len |-> 0]]
  /\ UNCHANGED <<kind, termios, line, buf, para, item, worker, input, masterIN, fg>>

(* read after EAGAIN: it sleeps unless the pollee says that there is input.*)
PollOrSleep(t) ==
  /\ th[t].at = "poll"
  /\ Goto(t, IF readable THEN "try" ELSE "asleep")
  /\ UNCHANGED <<kind, ldiscVars, worker, input, masterIN, fg>>

Continue(t) == /\ t \in Readers /\ th[t].at = "runnable" /\ ~Mid
               /\ Goto(t, "try")
               /\ UNCHANGED <<kind, ldiscVars, worker, input, masterIN, fg>>

(* A signal ends the sleep of a thread with EINTR.                         *)
Interrupted(t) == /\ th[t].at \in {"asleep", "background"} /\ ~Mid
                  /\ Calls(t, "user", 0)
                  /\ UNCHANGED <<kind, ldiscVars, worker, input, masterIN, fg>>

(* PtyMaster::read, from its start or from the end of its sleep.           *)
MasterRead(t, n) ==
  /\ kind = "pty" /\ ~Mid
  /\ \/ th[t].at = "user"
     \/ th[t].at = "runnable" /\ th[t].len = n
  /\ IF input = 0
     THEN Calls(t, "asleep", n) /\ UNCHANGED <<input, masterIN>>
     ELSE LET left == input - Least(input, n)
          IN  /\ input' = left /\ masterIN' = (left > 0)
              /\ th' = [IF left > 0 THEN Woken(Masters) ELSE th
                          EXCEPT ![t] = [at |-> "user", len |-> 0]]
  /\ UNCHANGED <<kind, ldiscVars, worker, fg>>

(* TCSETS and TCSETSW; TCSETSF also empties the line and the buffer.       *)
set_termios(mode) == /\ ~Mid
                     /\ termios' = mode
                     /\ UNCHANGED <<kind, line, buf, readable, para, item, worker,
                                    input, masterIN, fg, th>>

drain_input(mode) == /\ ~Mid
                     /\ termios' = mode
                     /\ line' = <<>> /\ buf' = <<>>
                     /\ UNCHANGED <<kind, readable, para, item, worker, input,
                                    masterIN, fg, th>>

(* The ioctls of the three files that change the terminal.  What only      *)
(* reads it, the window size and the lock of the slave are left out.       *)
TtyIoctl(g, mode) ==
  kind = "console" /\ (SetForeground("own", g) \/ set_termios(mode) \/ drain_input(mode))
PtyMasterIoctl(g, mode) == kind = "pty" /\ (SetForeground("master", g) \/ set_termios(mode))
PtySlaveIoctl(g, mode) == kind = "pty" /\ (SetForeground("own", g) \/ set_termios(mode))

-----------------------------------------------------------------------------
TNext == \/ \E ch \in Keys : receive_char(ch) \/ MasterWrite(ch)
         \/ Worker
         \/ \E n \in Lengths : \/ \E newline \in BOOLEAN : SlaveWrite(n, newline)
                               \/ \E t \in Readers : ReadTty(t, n)
                               \/ \E t \in Masters : MasterRead(t, n)
         \/ \E t \in Readers : \/ Resumed(t) \/ block_read(t) \/ UpdateAndReturn(t)
                               \/ PollOrSleep(t) \/ Continue(t)
         \/ \E t \in Threads : Interrupted(t)
         \/ \E g \in Readers \cup {None}, mode \in Modes :
               TtyIoctl(g, mode) \/ PtyMasterIoctl(g, mode) \/ PtySlaveIoctl(g, mode)

TSpec == TInit /\ [][TNext]_tvars

-----------------------------------------------------------------------------
(* The work item will run update_readable_state_after with the parameters  *)
(* that are there now.                                                     *)
WillTakePara == item.queued \/ worker.at \in {"fetched", "started", "sent"}

(* No line is missed: while the read buffer holds bytes, either the pollee *)
(* says so and no reader sleeps, or an Add is on its way to it: the work   *)
(* item will still take it, has taken it, or a reader is about to look.    *)
InputAnnounced ==
  buf # <<>> => \/ readable /\ \A t \in Readers : th[t].at # "asleep"
                \/ para.pollee = "Add" /\ WillTakePara
                \/ worker.at = "adding" /\ worker.pollee = "Add"
                \/ \E t \in Readers : th[t].at = "update"

-----------------------------------------------------------------------------
(***************************************************************************)
(* The file system of pseudo terminals (fs/devpts/): opening ptmx makes a  *)
(* master and a slave (device/pty/), the slave gets a name that is an      *)
(* index of IdAlloc (aster-util/src/id_allocator.rs) and a slot of the     *)
(* root directory, and the drop of the master gives both back.             *)
(*                                                                         *)
(* A master lives as long as somebody holds an Arc of it: its open files   *)
(* and the calls that are inside PtySlave::master().  A slave lives in the *)
(* directory and in open files; its pointer to the master is weak.         *)
(***************************************************************************)

CONSTANTS Pairs,        \* identities of masters, reused when nothing refers to them
          MAX_PTY_NUM,
          MaxSlaves,    \* bound of the open slave files of a pair
          Batches       \* entries that fit into the buffer of a getdents64

VARIABLES pair,         \* [index, files, slaves, calls] of each pair, files of the master
          alloc,        \* IdAlloc: [bitset, first_available_id]
          slots,        \* SlotVec of the root directory: a pair, or Empty
          scan,         \* offset of an open directory
          panicked

pvars == <<pair, alloc, slots, scan, panicked>>

Empty == "empty"
NoPair == [index |-> -1, files |-> 0, slaves |-> 0, calls |-> 0]
Ids == 0..(MAX_PTY_NUM - 1)
Alive(p) == pair[p].files + pair[p].calls > 0
Named(p) == \E i \in 1..Len(slots) : slots[i] = p

PInit == /\ pair = [p \in Pairs |-> NoPair]
         /\ alloc = [bitset |-> {}, first |-> 0]
         /\ slots = <<>>
         /\ scan = 0
         /\ panicked = FALSE

-----------------------------------------------------------------------------
(* IdAlloc.                                                                *)

LeastFree(bits, from) ==
  CHOOSE i \in 0..MAX_PTY_NUM :
    /\ i >= from /\ (i = MAX_PTY_NUM \/ i \notin bits)
    /\ \A j \in from..(i - 1) : j \in bits

allocated(a) == [bitset |-> a.bitset \cup {a.first},
                 first |-> LeastFree(a.bitset, a.first + 1)]

free(a, id) == [bitset |-> a.bitset \ {id},
                first |-> IF id < a.first THEN id ELSE a.first]

-----------------------------------------------------------------------------
(* RootInode::add_slave: SlotVec::put takes the first empty slot.          *)
add_slave(p) ==
  LET holes == {i \in 1..Len(slots) : slots[i] = Empty}
  IN  slots' = IF holes = {} THEN Append(slots, p)
               ELSE [slots EXCEPT ![CHOOSE i \in holes : \A j \in holes : i <= j] = p]

(* DevPts::create_master_slave_pair, from Ptmx::open: EIO without an id.   *)
create_master_slave_pair(p) ==
  /\ pair[p] = NoPair /\ alloc.first < MAX_PTY_NUM
  /\ pair' = [pair EXCEPT ![p] = [NoPair EXCEPT !.index = alloc.first, !.files = 1]]
  /\ alloc' = allocated(alloc)
  /\ add_slave(p)
  /\ UNCHANGED <<scan, panicked>>

(* Device::open of ptmx, with an identity for the new pair.                *)
open == \E p \in Pairs : create_master_slave_pair(p)

(* DevPts::remove_slave of the index of p.  The slot is found by the name. *)
remove_slave(p) ==
  LET named == {i \in 1..Len(slots) : slots[i] # Empty
                                      /\ pair[slots[i]].index = pair[p].index}
  IN  IF named = {} THEN UNCHANGED <<slots, alloc>>
      ELSE /\ slots' = [slots EXCEPT ![CHOOSE i \in named : \A j \in named : i <= j] = Empty]
           /\ alloc' = free(alloc, pair[p].index)

(* One reference of p is given up; PtyMaster::drop comes with the last one *)
(* to the master.  A pair that nothing refers to is a new one again.       *)
Release(p, fewer) ==
  LET dead == fewer.files + fewer.calls = 0
  IN  /\ pair' = [pair EXCEPT ![p] =
                    IF dead /\ fewer.slaves = 0 THEN NoPair ELSE fewer]
      /\ IF dead /\ Alive(p) THEN remove_slave(p) ELSE UNCHANGED <<slots, alloc>>

CloseMaster(p) == /\ pair[p].files > 0
                  /\ Release(p, [pair[p] EXCEPT !.files = @ - 1])
                  /\ UNCHANGED <<scan, panicked>>

CloseSlave(p) == /\ pair[p].slaves > 0
                 /\ Release(p, [pair[p] EXCEPT !.slaves = @ - 1])
                 /\ UNCHANGED <<scan, panicked>>

(* RootInode::lookup of a slave's name, by path or by TIOCGPTPEER of its   *)
(* master, and the file that is opened on it.                              *)
lookup(id) ==
  CHOOSE i \in 1..Len(slots) : slots[i] # Empty /\ pair[slots[i]].index = id

OpenSlave(id) ==
  /\ \E i \in 1..Len(slots) : slots[i] # Empty /\ pair[slots[i]].index = id
  /\ LET p == slots[lookup(id)]
     IN  /\ pair[p].slaves < MaxSlaves
         /\ pair' = [pair EXCEPT ![p].slaves = @ + 1]
  /\ UNCHANGED <<alloc, slots, scan, panicked>>

(* A read of the slave: PtySlave::master() unwraps its weak pointer and    *)
(* holds the master while the read sleeps.                                 *)
master(p) ==
  /\ pair[p].slaves > 0 /\ pair[p].calls = 0
  /\ IF Alive(p) THEN pair' = [pair EXCEPT ![p].calls = 1] /\ UNCHANGED panicked
     ELSE panicked' = TRUE /\ UNCHANGED pair
  /\ UNCHANGED <<alloc, slots, scan>>

SlaveCallReturns(p) == /\ pair[p].calls = 1
                       /\ Release(p, [pair[p] EXCEPT !.calls = 0])
                       /\ UNCHANGED <<scan, panicked>>

-----------------------------------------------------------------------------
(* RootInode::readdir_at: ".", ".." and "ptmx", then slot k at offset      *)
(* k + 3 (from 0), up to n entries.  The end of the directory ends the scan*)
(* of this model.                                                          *)
EntryAt(o) == IF o < 3 THEN <<".", "..", "ptmx">>[o + 1] ELSE slots[o - 2]
Entries(from) == {o \in from..(Len(slots) + 2) : EntryAt(o) # Empty}

readdir_at(n) ==
  LET rest == Entries(scan)
      shown == {o \in rest : Cardinality({j \in rest : j <= o}) <= n}
  IN  /\ scan' = IF shown = {} THEN 0 ELSE 1 + CHOOSE o \in shown : \A j \in shown : j <= o
      /\ UNCHANGED <<pair, alloc, slots, panicked>>

-----------------------------------------------------------------------------
PNext == /\ ~panicked
         /\ \/ open
            \/ \E p \in Pairs : \/ CloseMaster(p) \/ CloseSlave(p)
                                \/ master(p) \/ SlaveCallReturns(p)
            \/ \E id \in Ids : OpenSlave(id)
            \/ \E n \in Batches : readdir_at(n)

PSpec == PInit /\ [][PNext]_pvars

-----------------------------------------------------------------------------
(* The indices and names of ptys are those of the masters that live: no    *)
(* two of them share an index, a name leads to the slave of the master     *)
(* that has its index, and a master that is closed while a call on its     *)
(* slave sleeps keeps both until the call returns.                         *)
PtsNamesLive ==
  /\ \A p \in Pairs : Alive(p) => Named(p) /\ pair[p].index \in alloc.bitset
  /\ \A p, q \in Pairs : Alive(p) /\ Alive(q) /\ p # q => pair[p].index # pair[q].index
  /\ \A i \in 1..Len(slots) : slots[i] # Empty => Alive(slots[i])
  /\ alloc.bitset = {pair[p].index : p \in {q \in Pairs : Alive(q)}}
  /\ alloc.first = LeastFree(alloc.bitset, 0)
=============================================================================
