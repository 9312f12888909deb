# A TLA+ model of the Asterinas kernel

Asterinas is a Rust kernel in two layers. `framework/aster-frame` owns the
unsafe code: tasks, synchronisation, interrupts, physical memory, page tables.
`services/libs/aster-std` is the Linux-compatible kernel built on it:
processes, signals, virtual memory, file systems, sockets, system calls.
`services/comps` holds drivers, the block layer and time.

This directory models both layers and the components: everything that keeps
state and whose correctness depends on the order of things. TLC checks the
models on small instances. TLAPS proves the results that matter most for every
value of the constants: the locks, the guards, the scheduler, the channel, the
process tables, credentials, memory rights and shared file offsets.

Files: one module per component; `MC*.tla` and `MC*.cfg` for the instances that
TLC checks; proofs in `*Proofs.tla`, or at the end of the module they are about
(`RwLock`, `Mutex`, `Channel`, `Guards`); `PROJECT.json` for the index:
components, runs, mutants, the source lines of every definition, findings,
hazards, theorems. A helper whose source lies inside the lines of a mapped
definition has no entry of its own in the index.

## How the code is abstracted

**Who interleaves with whom.** The kernel runs on one CPU and does not preempt
itself: a task keeps the CPU until it sleeps, yields, exits or reaches the
explicit `preempt()` before it returns to user mode. Interrupt handlers run
wherever local interrupts are enabled. A step of a model is as long as nothing
else can run in between:

| granularity | modules | why |
|---|---|---|
| one atomic access per step | RwLock, Mutex, RwMutex | the locks are written for any number of CPUs, and interrupt handlers use them |
| up to the next point where an interrupt is served | TaskSched, Guards, Tty, Virtio, IpSocket | the interrupt races with a task, for example one that is about to sleep |
| between two sleeps | Channel, Signals, Pauser, Futex, Process, Threads, Exec, Vm, Files, Handles, Poll, UnixSocket, ProcFs, WorkQueue | nothing else runs in between; a lock that sleeps is a place to stop |
| one operation under its lock; one step of the device | Virtio, Block | the device is concurrent, the driver is serialised |
| one call | Credentials, Caps, Resolver, Ramfs, IrqLines, PhysMem, PageTable, Clock, Boot | the call does not sleep |

**Data.** Bytes are counted, not stored; names, addresses, signals and pids are
small sets. What a sector, a page or a frame holds is the name of its writer.
Copies to and from user memory, wording and logging are left out.

**Rigid variables.** Several modules choose a configuration in `Init` that
never changes (`env` in TaskSched and Signals, `driver` in Virtio, `users` in
Pauser, `mix` in Files). One run then covers several configurations.

**Ghosts.** A variable that the code does not have, such as `gave` in Caps,
`done` in Handles or `written` in Block, is marked in the module that has it.

## The modules

### Locks and tasks

- `RwWord` is the lock word that `rwlock.rs` and `rwmutex.rs` share: reader
  count, `BEING_UPGRADED`, `UPGRADEABLE_READER`, `WRITER`, and the atomic
  operations on them. `MAX_READER` is a constant; the layout follows from it.
- `RwSpec` is the abstract reader-writer lock: who holds which guard, and when
  a guard may be granted.
- `RwLock` (`sync/rwlock.rs`): each `fetch_*` and `compare_exchange` is an
  action. A refused `try_read` or `try_upread` takes two steps, because it
  announces itself first and takes that back. It implements `RwSpec`.
- `WaitQueue` (`sync/wait.rs`) is the deque of waiters and their flags. `Mutex`
  (`sync/mutex.rs`) and `RwMutex` (`sync/rwmutex.rs`) use it and implement
  `RwSpec` too.
- `Guards` (`sync/spin.rs`, `trap/irq.rs`, `task/processor.rs`, the guards of
  `rwlock.rs`): a task and the interrupt handlers on top of it take and drop
  guards that hold locks, disable interrupts and count preemption. A drop is
  several steps, with interrupts between them.
- `TaskSched` (`task/`, the sleep in `sync/wait.rs`, the tick timer,
  `sched/priority_scheduler.rs`): the current task takes steps, and a device
  interrupt and the timer callback run between them. A double insertion into an
  intrusive run queue, or a run after exit, sets `broken`, which stands for the
  panic.
- `Pauser` (`process/signal/pauser.rs`), `Futex` (`process/posix_thread/futex.rs`,
  `syscall/futex.rs`, the wake in `PosixThread::exit`) and `WorkQueue`
  (`thread/work_queue/`: pools, workers, the monitor).

### Machine

- `Virtio` (`services/comps/virtio`, `bus/`): the virtqueue (descriptor table, free
  list, both rings with wrapping indices) with the device at its other end; and
  the devices on PCI and MMIO buses, from probing to the events they deliver.
- `IrqLines` (`trap/irq.rs`, `arch/x86/irq.rs`, `util/recycle_allocator.rs`, I/O APIC).
- `Block` (`services/comps/block` and the virtio block driver): bios, merging,
  the request thread, completion.
- `Clock` (`services/comps/time`, `timer.rs`, `arch/x86/timer`, `vdso.rs`): clocks,
  and the timers that the timer interrupt serves.
- `Boot` (`boot/`, `arch/x86/boot`, `libs/comp-sys`, `libs/cpio-decoder`,
  `fs/rootfs.rs`): the memory map, the order of component initialisation, and the
  initramfs.
- `PhysMem` (`vm/frame_allocator.rs`, `frame.rs`, `dma/`, `options.rs`, kernel stacks)
  and `PageTable` (`vm/page_table.rs`, `memory_set.rs`, `space.rs`, with the TLB).

### Processes and memory

- `Process` (`process/process/`, `clone.rs`, `exit.rs`, `wait.rs`,
  `process_table.rs`): the process tree, groups, sessions, `wait4`, `setpgid`,
  `setsid`, controlling terminals, foreground groups. An exit is two steps: the
  process is a zombie, and may be reaped, before its children are moved.
- `Threads` (`process/posix_thread`, `thread/`, `clone.rs`, `exit.rs`): what
  `clone` shares and copies, thread exit, robust lists, joining. An exit stops
  between the wake of the joiner and the write of its word, which may sleep.
- `Credentials` (`process/credentials/`): every `set*id` call and `execve`.
- `Exec` (`syscall/execve.rs`, `process/program_loader`): scripts, ELF files, the
  initial stack.
- `Signals` (`process/signal`, `kill.rs`, the signal calls, `thread/task.rs`): one
  process with its queues, masks, dispositions, nested handlers, alternate stack,
  and the loop between user mode and the kernel.
- `Vm` (`vm/vmar`, `vm/vmo`, the memory calls, page faults, `brk`, fork) and
  `Caps` (the rights that every operation on VMOs and VMARs asks for and hands out,
  and the writes of the user through entries that `mprotect` has opened).

### Files and communication

- `Files` (`fs/ext2`, `fs/utils/{dentry,page_cache}.rs`, the file calls): ext2 with its caches and
  its device, and `sync` beside the other calls. `link`, `unlink` and `rename` stop
  where they let their locks go or wait for another one: before the link count,
  between the test of the paths and the rename, before the new `..`. `asleep` holds
  the calls that have stopped, and others run beside them.
- `Resolver` (`fs/fs_resolver.rs`, mounts), `Ramfs` (`fs/ramfs`), `ProcFs`
  (`fs/procfs`) and `Handles` (`fs/inode_handle`: offsets shared by processes).
- `Channel` (`fs/utils/channel.rs`, `process/signal/{poll,events}`): both ends of
  a pipe or of a connected Unix socket.
- `Poll` (`fs/epoll`, `fs/file_table.rs`, `syscall/{poll,select}.rs`). The first
  test of a file's events, the registration of the poller and the second test are
  three steps, as an interrupt may add an event in between.
- `UnixSocket` (`net/socket/unix/stream`) and `IpSocket` (`net/socket/ip`,
  `net/iface`; the TCP engine is an external crate and is the environment).
- `Tty` (`device/tty`, `device/pty`, `fs/devpts`): the line discipline with its
  deferred work, pseudo terminals, job control, and the names of the terminals.

### Composition

`Mutex` and `RwMutex` use the shared `WaitQueue`. They assume that a wake-up,
once its flag is set, reaches the thread; `TaskSched` shows that from the
scheduler's side (`NoTaskLost`, `NoWakeupLost`). `Pauser` and `Futex` take the
wait queue as a set of sleepers on the same grounds. `RwLock` is one word of
`Guards`; `Channel` is the data path of `UnixSocket`; `Vm` takes the rights
that `Caps` is about as given. An `MC*` module puts the parts of one area side by
side: the constant `Parts` lists them, and `which` picks one in `MCInit`.

## The runs

Runs that pass:

| run | parts | checks | states |
|---|---|---|---|
| `locks` | RwLock, RwMutex, Futex, Guards | holders exclude each other; the word is the sum of its holders; a waiting upgrade admits no new reader; both locks implement `RwSpec`; no reader and no futex waiter is forgotten; guards nest | 328 114 |
| `progress` | Mutex, Pauser, WorkQueue, Signals | no wakeup is lost; the mutex implements `RwSpec`; pauses end; counters of signals are true; real-time order; nobody sleeps for ever on a free mutex; every work item runs; SIGKILL ends a thread that goes on taking steps | 178 337 |
| `machine` | TaskSched, Virtio, IrqLines, Clock, Block, Boot | scheduler and waits are sound, no real-time task is passed over twice; queues and devices; interrupt lines; bios; clocks and timers; frames, components, initramfs | 2 319 001 |
| `comm` | Channel, UnixSocket, IpSocket, Poll, Tty | events are true and no sleeper is forgotten; end of data only when drained; sockets, epoll, poll, terminals likewise | 1 315 912 |
| `processes` | Process, Credentials, Caps, Threads, Exec | tables agree; families and sessions are sound; ids are permuted; rights are kept; threads leave nothing behind; the program is what its file says | 1 292 380 |
| `files` | Files, Resolver, Ramfs, Handles, ProcFs | blocks have one owner and nobody reads stale data; sync lasts; names lead to what they name; shared offsets; listings | 976 801 |
| `memory` | Vm, PhysMem, PageTable | mappings, free regions and page tables agree; frames have the users they should have; DMA, TLB and guard pages | 159 742 |

Runs that show a violation, each of one property (see Findings):
`rwmutex_upreader`, `signals_nested`, `vm_fork`, `exec_failed`, `vmo_restrict`.

Every property of a passing run has a mutant in `PROJECT.json`: a changed
definition, such as a dropped guard or a swapped order, under which TLC finds
that property violated.

### Bounds

- `locks`: four threads against a limit of three make `MAX_READER` refuse one.
  Three threads for the sleeping lock are an owner and two waiters. Two words per
  bucket give requeues within and between buckets. Guards: a task and a handler,
  three guards each, a spin lock of handlers and one of tasks only, and a
  reader-writer lock.
- `progress`: three threads on the mutex; a pauser of one thread or of two; three
  workers and two items, one of which waits for the other; two signalled threads,
  handlers that nest twice, a real-time signal pending twice.
- `machine`: the first thread, a task that waits and one that wakes, in four
  environments. A `schedule` is a fetch and a switch, with interrupts in between.
  Two waits, two items and two ticks let a second wait meet what
  the first left behind. Four descriptors, with indices that wrap at 8, as the
  2^16 of the code is a multiple of the queue size. Machines of three and of five
  devices.
- `comm`: two items of capacity give full, partly full and empty; two writers
  compete for it.
- `processes`: pids are never reused; three are a parent, a child and a
  grandchild or sibling. Three user and two group ids. Two each of VMOs, VMARs,
  capabilities and mappings; four threads; fourteen files to execute.
- `files`: three images of two block groups, seven mixes of calls of up to seven
  calls; in the two with a race up to two calls (`MaxAsleep`) sleep while others
  run, enough for two renames that cross. Three threads in two processes share a
  handle of a file of up to three bytes, enough for a `writev` of two buffers
  beside a write.
- `memory`: two processes, up to five calls from one of four mixes. In the mix of
  `PageTable` with copies to and from a space, `protect` is left out: it changes the
  entry and not the flags of the area, which the copies go by (`memory_set.rs`).

Deadlock is not checked, since in every run the system may stop: a panic ends
the kernel, all processes may exit, all threads may wait for input, calls are
bounded, and threads may sleep for ever because of the defect that
`rwmutex_upreader` shows. That nobody is stuck who should not be is stated by
properties (`NoLostWakeup`, `BioNotStuck` in `BlockSound`, `NoForgottenSleeper`
in `ChannelSound`, and so on).

### Fairness

`MCProgress` assumes weak fairness of a mutex thread inside an operation
(nothing obliges a thread to call `lock`), and of the monitor and of each worker's
loop. Both are kernel threads in a run queue that is first-in-first-out, so a
ready one is reached as long as the tasks before it sleep, yield or exit, as kernel
code does. For user code the kernel has no such rule: an interrupt returns to the
program it interrupted, and `preempt()` gives way to real-time tasks only. So no
fairness is assumed of signalled threads, and `KillIsUrgent` says instead that a
thread that was sent SIGKILL ends or stops taking steps. `rwmutex_upreader` assumes
weak fairness of a thread's continuation of a call. All other runs check safety
and assume none.

## What is proved

For every value of the constants, from the assumptions named in the modules.
Each proof has an inductive invariant that TLC checked first.

**`RwLock`** (`WordCorrect`, `ExclusionHolds`, `UpgradeBlocks`,
`Refinement`). `MAX_READER` is positive, and the threads are finitely many and
fewer than `2 * MAX_READER`, so that the reader field does not overflow: 2^61
readers in the code. Exclusion is not inductive, because each operation decides
from the word. `Inv` adds what the word says of the threads: it is their sum,
each flag bit has one owner, and a writer's bit keeps readers and upreaders out.

**`Mutex`** (`WakeupsAreNotLost`, `Refinement`), for any threads. The invariant
adds that the flag is set exactly while one thread owns the mutex, and that the
queue holds exactly the threads between enqueue and dequeue.

**`RwMutexProofs`** (`Refinement`, `WordCorrect`, `ReadersAreRemembered`), for
threads as above, and at most `MAX_READER` of them for the last. On the word the
sleeping lock takes the steps of `RwLock` and no other: `PlaceOf` maps each
thread to a place there, and the invariant of `RwLock` carries over. What is
left is the queue.

**`Guards`** (`GuardsAlwaysNest`), for any locks, nesting and number of guards,
if no lock is both a spin lock and a reader-writer lock. The preemption count is
the number of living guards, nobody spins for a lock of a context that it
interrupted, and interrupts are off exactly while a handler runs or a guard that
disables them lives. `GInv` says that the
words are what the guards in force made of them, that tasks hold the locks of
handlers only with interrupts disabled, that the first guard that disables
interrupts saved the flag, and that at most one handler runs over a task, whose
interrupts were enabled.

**`TaskSchedProofs`** (`SchedulerIsSound`, `RealTimeGoesFirst`), for any tasks,
environments and bounds, with the first task among the tasks. `Inv` says where a
task may be for each status, which waiters are queued, that whoever saw the
condition fail has been woken or it still fails, that a timer a task relies on is
armed, and, where only tasks wake and there are neither timeouts nor real-time
tasks, that each runnable task is linked once. `RealTimeGoesFirst` says that no
real-time task is passed over twice: `schedule` fetches the next task before it
switches, an interrupt may make a real-time task ready in between, and that one
waits for one switch and no more.

**`Channel`** (`ChannelIsSound`, `EofIsHonest`), for any readers and writers,
which are disjoint, and any positive capacity and message length. `ChanInv` adds
to the property that who sleeps observes an open end and asks for something.

**`ProcessProofs`** (`TablesAlwaysAgree`, `FamiliesAreSound`), for any number of
processes and any terminals. `ProcInv` adds that the parent relation is that of
the children lists, that the first process runs for ever, and that a session's
leader stays in its first group until it is reaped, so that no session id is used
twice; and that a process whose exit is under way is a zombie that still has its
children, also when its parent has already reaped it. `IdsStayPermuted`: for any ids, a thread that gave up privilege keeps to
the ids it kept then or was granted later.

**`CapsProofs`**. `AuthorityIsKept`: for any bounds, rights, masks and
permissions, `CapInv` says that capabilities, mappings and slice children refer
to VMOs that exist and stay within what those were handed out with, and that a
mapping stays within its `Vmo<Rights>`. `LeakInv` says that the entries of a
mapping that show frames of the parent belong to a copy-on-write child, so that
what the user writes past all tests, after `mprotect` opened such an entry, are
frames that a child with WRITE had inherited, and never others. `OffsetsAreShared`: for any threads,
processes, open files and sizes, `HInv` says that who is past the lock of an
offset owns it and has the offset of the handle in hand from then on, so that
its range begins where the ranges before it end; a call that fails leaves the
offset where it was.

### What stays with TLC, and why

- Liveness under fairness: `NoEternalSleepOnFreeMutex`, `SubmittedRuns`,
  `KillIsUrgent`, and the property of `rwmutex_upreader`.
- Recursion over data (a walk over a list, a path, a table, a sum over a merged
  request): `LinesSound`, `BlockSound`, `TimeSound`, `BootSound`, `SocketsSound`
  (its IP half), `PollingSound`, `TerminalsSound`, `ThreadsSound`, `ProgramWhole`,
  `NamesSound`, `FileStepsSound`, `HardwareSound` (page tables). What a recursive
  definition computes needs induction, which the provers at hand cannot do.
- Large data in one step (an ext2 image, an address space, a ring), whose
  operations are compositions of many functions: `FsSound`, `SyncLasts`,
  `SpacesSound`, `UserMemorySound`, `VirtioSound`. They are not proved.
- `SleepersSound`: its half about RwMutex is `WordCorrect` and
  `ReadersAreRemembered`; its half about futexes rests on `SelectSeq`, whose
  theorems need induction. The half of `StepsSound` about the scheduler is
  `RealTimeGoesFirst`. `PausesSound` and `RealTimeOrder` are checked only.

## Findings

1. `rwmutex.rs:317`: dropping an upgradeable guard tests the *old* value of the
   word for 0, which its own bit makes non-zero, so it never wakes anybody
   (`rwmutex_upreader`).
2. `rt_sigreturn.rs:46`: the mask that is restored is the handler's, not the one
   the thread had, so signals blocked before the handler come out unblocked
   (`signals_nested`).
3. `vm_mapping.rs:239` against the doc at `vmo/options.rs:325`: after a fork the
   parent's page table entries stay writable, so its writes show in the
   copy-on-write child (`vm_fork`). The doc at `vmo/mod.rs:33` promises the other
   direction as well, that a COW child "prevents any writes on the child from
   affecting the parent". `mprotect` breaks it: a read of the child maps the frame
   of the parent read-only, and `vm_mapping.rs:420` makes that entry writable
   without a copy. The models have this step (`forced` in `Vm`, `leaked` in `Caps`).
4. `load_elf.rs:38`: the memory of the process is cleared before the file is
   parsed; an error then returns to a program that is no longer mapped
   (`exec_failed`).
5. `vmo/dyn_cap.rs:143`: `restrict` adds the rights of the mask (`vmo_restrict`).
   `AuthorityKept` therefore counts the masks among what may be added.

## Remarks

Observations from reading the code that no violation run here is about. Most of
them are steps of a model, and the property beside it says which cases it excepts
for them. The next section lists those exceptions; what is marked (not modelled)
was only read.

**Tasks, locks, interrupts**
- `preempt()` holds a guard that disables interrupts when it calls
  `switch_to_task`, which panics when a guard lives.
- Two calls of `wake_one` may wake the same waiter (`wait.rs:113`); a timer
  callback that comes late reaches a task that has moved on.
- `RecycleAllocator`: a number taken ahead of `current` and then released can be
  handed out twice (`recycle_allocator.rs:54`). The list of IRQ callbacks is
  locked without disabling interrupts (`arch/x86/irq.rs:92`).
- A second user of a shared pauser erases the interruption of the first; a pause
  that times out leaves its observer registered.
- A futex key is a bare virtual address, shared by processes: the wake of an exit
  may go to a sleeper of another process (`Threads`; `Futex` has one process).
  `sys_futex` unwraps the error of a word that has changed.
- Work queues: `new_kernel_thread` ignores the priority it is given; an idle
  worker that is removed is marked, not woken (`worker_pool.rs:77`).

**Devices and time**
- `recycle_descriptors` with several chains of several descriptors in flight
  depends on the order of completion; the drivers never do that today.
- The MMIO multiplexer runs only the queue callbacks when both status bits are
  set; console, input and net notify before `DRIVER_OK`; a second device of a kind
  replaces the first.
- A request of more than 62 buffers exceeds the block queue, and nothing limits
  merging (`device.rs:216`).
- Cancelling a timer has no effect on a callback collected in the same tick. The
  vDSO sequence counter goes to 1 and back to 0, so a reader that spans an update
  accepts a torn time. The RTC reads 12 PM as 0 in 12-hour mode.
- A contiguous frame vector of a length that is no power of two loses the rest of
  its buddy block (`vmo/options.rs:149`).

**Processes**
- `setpgid` through a stale key of a session's map can move a process to a
  group of another session; the doc of `to_other_group` promises EPERM.
- `kill_group` holds the group's lock while `kill_process` may ask for it again
  (not modelled).
- The first process is not resumed for zombies it inherits (`NoForgottenParent`
  excludes it), nor a background reader when the foreground group dies.
- `SIG_SETMASK` can block SIGKILL; SIGSTOP stops one thread; `exit_group` does not
  wake sleeping siblings.
- An error after the builder of `clone` leaves a process in the tables that never
  runs; a failing `execve` has already forgotten `clear_child_tid`; `execve` does
  not end siblings and keeps the old robust list.
- `setreuid` and its like take 0 as "unchanged".

**Memory**
- `trim` of the inside of a mapping up to its end appends an empty clone;
  `trim_left` underflows on touched pages; `MAP_FIXED` from below a mapping
  overflows. `PROT_NONE` leaves the page readable.
- `brk` of a forked child resizes a VMO that is not resizable (`vmo/mod.rs:323`).
- The dynamic copy-on-write child does not get WRITE although its doc says so;
  `new_map` does not check the VMAR's rights; `protect` over several mappings is
  left half done on an error.

**Files**
- Ext2: only the 12 direct blocks; ENOSPC in `append_entry` leaves a dangling
  entry; `fsync` does not flush the inode table; the inode of an open file that
  was deleted may be written under a reused number (`inode.rs:1074`); two racing
  renames can make a cycle of directories (`rename.rs:58`).
- Procfs: `/proc` keeps the directories of reaped processes, because nobody sends
  the `PidEvent` that its root observes.
- Ramfs: `rename` over a name never decrements the replaced inode's links.
- `read`, `write`, `lseek` and `pread64` keep the file table locked while they
  sleep (`read.rs:17`), so `exit_group` waits for them; `pread64` moves the offset;
  O_APPEND is read outside the lock of the offset.
- Closing an epoll file with live interests deadlocks with itself
  (`epoll_file.rs:320`); only pipes and epoll files tell their observers.
- Exit closes every file of a table shared by CLONE_FILES (`exit.rs:34`).

**Sockets, polling, terminals**
- A reader blocked in TCP `recv` is not woken when the peer closes; a signal
  during a blocking `connect` panics (`connecting.rs:88`).
- `shutdown` of a Unix socket notifies nobody (`endpoint.rs:99`); racing `connect`
  and `listen` overwrite each other's state.
- `poll` and `select` time out with ETIME and start the time again after each wake.
- Backspace removes the *oldest* character (`line_discipline.rs:133`); the signal
  of an interrupt character is delivered with the next character
  (`line_discipline.rs:112`).

### What the properties except

Some properties hold only until one of the observations above has struck. The
models keep a ghost for each, set where it strikes, and the property names it.

`Vm`, pages in `astray[p]`, by the way they went:

| way | where | excepted from |
|---|---|---|
| `left` | the empty rest of a trimmed mapping (`vm_mapping.rs:307`) takes the key of its neighbour (`vmar/mod.rs:341`), whose entries stay; so do those of a mapping inside a `MAP_FIXED` that starts further below it than its VMO offset, as the page index wraps and the loop of `unmap` is empty (`vm_mapping.rs:390`) | `PageTableSound`, `UserSeesVmo` |
| `forced` | `mprotect` makes an entry writable whose frame is not its VMO's own (`vm_mapping.rs:420`) | `WritersDisjoint` |
| `apart` | a write of the kernel copies the page of a COW child and leaves the entry on the frame of the parent (`vm_mapping.rs:168`, `vmo/mod.rs:293`); a page behind the end of the parent is read, then made writable | `UserSeesVmo` |

`Files`:

| ghost | where | excepted from |
|---|---|---|
| `split` | `sync_all_inodes` takes objects out of the cache to write them (`block_group.rs:248`); a lookup meanwhile loads a second object from the old raw inode | all four |
| `clobber` | the object of a removed file is written back when its number is in use again (`inode.rs:1074`) | all four |
| `late` | `link` has added the entry and `sync` frees the inode before the count is raised (`inode.rs:165`) | all four |
| `looped` | a directory moved below itself by two renames (`rename.rs:58`) | the reach from the root in `TreeIsWhole`, for that directory |
| `full` | no free block: an allocation is left half done | `TreeIsWhole`, and the equality in `BlocksOwnedOnce` |
| `lost` | a removed file was written to after `sync` freed it, and its new blocks stay marked | the equality in `BlocksOwnedOnce` |

`Threads`, `JoinersReleased`: the one wake of an exit went to another sleeper on
the address, or the joiner fell asleep between the wake and the write of the word
(`missed`). A thread that is cloned while `exit_group` sleeps lives on in a zombie,
and a process that is reaped while its exit sleeps stops the kernel at the `unwrap`
of that write (`posix_thread/mod.rs:217`).

`TaskSched`: `NothingBreaks` is stated for wakers that are tasks, without timeouts
and real-time tasks. `Pauser`: `SignalResumes` is stated for a sole user.
`Process`: `NoForgottenParent` leaves out the first process.

## What is not modelled

User mode entry (register contexts and assembly), the dispatch of system calls,
simple devices (`/dev/null` and the like, stateless), console and framebuffer
output, feature bits and configuration fields of devices, ACPI tables, resource
limits (stored, not enforced), `atomic_bits.rs` and `rcu` (no user in the
kernel). The buddy and slab allocators and the TCP engine are external crates;
the modules that use them treat them as an environment. `PROJECT.json` lists
every part with its sources, its modules and what is left out of it.
