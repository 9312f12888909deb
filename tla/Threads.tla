------------------------------ MODULE Threads ------------------------------
(***************************************************************************)
(* POSIX threads and what ties them to their process: `process/clone.rs`,   *)
(* `process/posix_thread`, `thread/`, `process/exit.rs`, `execve`, and the  *)
(* part of `wait.rs` that frees a process.                                  *)
(*                                                                         *)
(* A process is known by the tid of its main thread.  An address space, a   *)
(* file table and a table of signal dispositions are known by the process   *)
(* they were made for; a process that was cloned with CLONE_VM, CLONE_FILES *)
(* or CLONE_SIGHAND uses its parent's.  A system call runs to its end or to *)
(* where it sleeps.  An exit may sleep between the wake of a joiner and the *)
(* write of the word that the joiner tests: the write takes the lock of the *)
(* VMAR, which a page fault holds while it reads the disk.                  *)
(*                                                                         *)
(* Of user memory there are words that futex calls name.  A word holds the  *)
(* tid of an owner and the two flags of a robust mutex.  The robust list of *)
(* a thread is a ring through a head in user memory; the kernel keeps a     *)
(* copy of the head as it was when `set_robust_list` was called.            *)
(***************************************************************************)
EXTENDS Integers, Sequences, FiniteSets

CONSTANTS
    MaxTid,                 \* threads are 1..MaxTid; 1 is the first process
    Locks,                  \* words of robust mutexes
    JoinWords,              \* words for CLONE_CHILD_CLEARTID
    CloneSets,              \* scene -> the sets of flags that `clone` is called with
    ROBUST_LIST_LIMIT

VARIABLES
    scene,          \* rigid: what the programs do: "joins", "locks" or "resources"
    thr,            \* tid -> the thread
    proc,           \* pid -> the process
    thread_table,   \* the tids in the table of threads
    mem,            \* address space -> word -> value
    files,          \* file table -> has it open files
    handlers,       \* dispositions -> is a handler installed
    queue,          \* sleepers on futexes, in order: <<word, tid>>
    user,           \* tid -> user memory of the thread: its ring and its pending lock
    believes,       \* pid -> whose files and dispositions it asked for, what it
                    \* should find there, and has it executed a program
    destroyed,      \* the address spaces that were destroyed
    halt            \* has the kernel stopped

thvars == <<scene, thr, proc, thread_table, mem, files, handlers, queue, user, believes, destroyed, halt>>

Tids == 1..MaxTid
Null == "none"
Words == Locks \cup JoinWords
Free == [owner |-> 0, waiters |-> FALSE, died |-> FALSE]
NoHead == [next |-> Null, pending |-> Null]

\* An exit that sleeps before it clears the word of thread `of`; `todo` are the
\* threads that `do_exit_group` ends after that one.
NoExit == [of |-> 0, todo |-> <<>>, group |-> FALSE]

\* `missed` remembers of a sleeper that its thread exited without waking it.
NoThread == [st |-> "none", at |-> "none", pid |-> 0, ctid |-> Null, head |-> NoHead,
             exit |-> NoExit, missed |-> FALSE]

\* `found` remembers the threads that `do_exit_group` found.
NoProcess == [st |-> "none", threads |-> <<>>, found |-> <<>>, parent |-> 0, vm |-> 0, files |-> 0,
              sig |-> 0]

\* `create_user_process`: one process with one thread and all of its own.
THInit ==
    /\ scene \in DOMAIN CloneSets
    /\ thr = [t \in Tids |-> IF t = 1 THEN [NoThread EXCEPT !.st = "running", !.at = "user", !.pid = 1]
                             ELSE NoThread]
    /\ proc = [p \in Tids |-> IF p = 1 THEN [st |-> "runnable", threads |-> <<1>>, found |-> <<>>,
                                             parent |-> 0, vm |-> 1, files |-> 1, sig |-> 1]
                              ELSE NoProcess]
    /\ thread_table = {1}
    /\ mem = [v \in Tids |-> [w \in Words |-> Free]]
    /\ files = [f \in Tids |-> FALSE] /\ handlers = [s \in Tids |-> FALSE]
    /\ queue = <<>>
    /\ user = [t \in Tids |-> [ring |-> <<>>, pending |-> Null]]
    /\ believes = [p \in Tids |-> [filesOf |-> p, sigOf |-> p, open |-> FALSE, handled |-> FALSE,
                                ran |-> FALSE]]
    /\ destroyed = {} /\ halt = FALSE

\* What an exit changes, passed from one of its steps to the next.
Kernel == [thr |-> thr, proc |-> proc, table |-> thread_table, mem |-> mem, files |-> files,
           queue |-> queue, halt |-> halt]

Apply(k) ==
    /\ thr' = k.thr /\ proc' = k.proc /\ thread_table' = k.table
    /\ mem' = k.mem /\ files' = k.files /\ queue' = k.queue /\ halt' = k.halt

vm(t) == proc[thr[t].pid].vm

\* A thread that runs in user mode and may make a call: its `Thread`, which the
\* table of threads and its process keep, is still there.
Runs(t) == thr[t].at = "user" /\ proc[thr[t].pid].st # "reaped"
Running == IF halt THEN {} ELSE {t \in Tids : Runs(t)}

-----------------------------------------------------------------------------
(* Futexes: the key is the address alone.                                   *)
Positions(q, w) == {i \in 1..Len(q) : q[i][1] = w}
RemoveAt(q, i) == SubSeq(q, 1, i - 1) \o SubSeq(q, i + 1, Len(q))

\* `futex_wake(w, 1)`
futex_wake(k, w) ==
    IF Positions(k.queue, w) = {} THEN k
    ELSE LET i == CHOOSE i \in Positions(k.queue, w) : \A j \in Positions(k.queue, w) : i <= j
         IN  [k EXCEPT !.queue = RemoveAt(@, i),
                       !.thr = [@ EXCEPT ![k.queue[i][2]].at = "woken"]]

\* Is the exit of t asleep before it clears the word of t?
Clearing(t) == \E e \in Tids : thr[e].at = "clearing" /\ thr[e].exit.of = t

\* `FUTEX_WAIT`; a word whose value is not the expected one is refused.
futex_wait(t, w) ==
    /\ mem[vm(t)][w].owner \notin {0, t}
    /\ mem' = IF w \in Locks THEN [mem EXCEPT ![vm(t)][w].waiters = TRUE] ELSE mem
    /\ queue' = Append(queue, <<w, t>>)
    /\ thr' = [thr EXCEPT ![t].at = "futex",
                          ![t].missed = \E u \in Tids : Clearing(u) /\ thr[u].ctid = w /\ vm(u) = vm(t)]
    /\ UNCHANGED <<proc, thread_table, files, handlers, user, believes, destroyed, halt, scene>>

\* Any other sleep, in a pauser: a timeout or an event ends it.
Pauses(t) ==
    /\ thr' = [thr EXCEPT ![t].at = "paused"]
    /\ UNCHANGED <<proc, thread_table, mem, files, handlers, queue, user, believes, destroyed, halt, scene>>

Resumed(t) ==
    /\ thr[t].at = "paused"
    /\ thr' = [thr EXCEPT ![t].at = "woken"]
    /\ UNCHANGED <<proc, thread_table, mem, files, handlers, queue, user, believes, destroyed, halt, scene>>

-----------------------------------------------------------------------------
(* The robust list                                                          *)
Ring(t) == user[t].ring

\* The entry after e; the head is an entry like the others.
NextEntry(t, e) ==
    LET at == {i \in 1..Len(Ring(t)) : Ring(t)[i] = e}
        i == IF e = "head" THEN 0 ELSE CHOOSE i \in at : TRUE
    IN  IF e # "head" /\ at = {} THEN Null
        ELSE IF i = Len(Ring(t)) THEN "head" ELSE Ring(t)[i + 1]

\* `FutexIter`.  The end of the list is recognised by the address of the
\* kernel's copy of the head, which no entry has, so that the walk goes round
\* until the limit; an entry that cannot be read ends it at once.
RECURSIVE visits(_, _, _)
visits(t, n, e) ==
    IF n = ROBUST_LIST_LIMIT
    THEN IF thr[t].head.pending = Null THEN <<>> ELSE <<thr[t].head.pending>>
    ELSE IF e = Null THEN <<>>
    ELSE (IF e # thr[t].head.pending THEN <<e>> ELSE <<>>) \o visits(t, n + 1, NextEntry(t, e))

futexes(t) == visits(t, 0, thr[t].head.next)

\* `wake_robust_futex`
wake_robust_futex(k, v, w, t) ==
    IF w \notin Locks \/ k.mem[v][w].owner # t THEN k
    ELSE LET k1 == [k EXCEPT !.mem = [@ EXCEPT ![v][w] = [@ EXCEPT !.owner = 0, !.died = TRUE]]]
         IN  IF k.mem[v][w].waiters THEN futex_wake(k1, w) ELSE k1

RECURSIVE WakeAll(_, _, _, _)
WakeAll(k, v, ws, t) ==
    IF ws = <<>> THEN k ELSE WakeAll(wake_robust_futex(k, v, Head(ws), t), v, Tail(ws), t)

wake_robust_list(k, v, t) ==
    [WakeAll(k, v, futexes(t), t) EXCEPT !.thr = [@ EXCEPT ![t].head = NoHead]]

set_robust_list(t) ==
    /\ thr' = [thr EXCEPT ![t].head = [next |-> "head", pending |-> user[t].pending]]
    /\ thr[t].head = NoHead
    /\ UNCHANGED <<proc, thread_table, mem, files, handlers, queue, user, believes, destroyed, halt, scene>>

\* A robust mutex in user mode: the lock is announced, taken, listed.
LockTaken(t, w) ==
    /\ thr[t].head # NoHead
    /\ user[t].pending = Null /\ mem[vm(t)][w].owner = 0
    /\ user' = [user EXCEPT ![t].pending = w]
    /\ mem' = [mem EXCEPT ![vm(t)][w] = [@ EXCEPT !.owner = t, !.died = FALSE]]
    /\ UNCHANGED <<thr, proc, thread_table, files, handlers, queue, believes, destroyed, halt, scene>>

LockListed(t) ==
    /\ user[t].pending \in Locks /\ mem[vm(t)][user[t].pending].owner = t
    /\ user' = [user EXCEPT ![t] = [ring |-> Append(@.ring, @.pending), pending |-> Null]]
    /\ UNCHANGED <<thr, proc, thread_table, mem, files, handlers, queue, believes, destroyed, halt, scene>>

LockReleased(t, w) ==
    /\ user[t].pending = Null /\ \E i \in 1..Len(Ring(t)) : Ring(t)[i] = w
    /\ user' = [user EXCEPT ![t].ring = SelectSeq(@, LAMBDA e : e # w)]
    /\ Apply(futex_wake([Kernel EXCEPT !.mem =
            [mem EXCEPT ![vm(t)][w] = [Free EXCEPT !.waiters = Cardinality(Positions(queue, w)) > 1]]], w))
    /\ UNCHANGED <<handlers, believes, destroyed, scene>>

-----------------------------------------------------------------------------
(* Clone                                                                   *)
NewTids == {t \in Tids : thr[t].st = "none" /\ \A u \in 1..(t - 1) : thr[u].st # "none"}

\* `PosixThreadBuilder::build`
NewThread(t, p) == [NoThread EXCEPT !.st = "running", !.at = "new", !.pid = p]

clone_parent_settid(m, v, c, w, flags) ==
    IF "PARENT_SETTID" \in flags THEN [m EXCEPT ![v][w].owner = c] ELSE m

clone_child_cleartid(th, w, flags) ==
    IF "CHILD_CLEARTID" \in flags THEN [th EXCEPT !.ctid = w] ELSE th

clone_child_settid(m, v, c, w, flags) ==
    IF "CHILD_SETTID" \in flags THEN [m EXCEPT ![v][w].owner = c] ELSE m

\* The words that `clone` writes are no locks and not in use.
Spare(v, w, flags) ==
    flags \cap {"PARENT_SETTID", "CHILD_SETTID", "CHILD_CLEARTID"} # {} =>
        /\ mem[v][w].owner = 0
        /\ \A u \in Tids : thr[u].ctid = w => vm(u) # v

clone_child_thread(t, c, w, flags) ==
    /\ {"VM", "FILES", "SIGHAND", "THREAD"} \subseteq flags
    /\ c \in NewTids
    /\ LET p == thr[t].pid
           v == proc[p].vm
       IN /\ Spare(v, w, flags)
          /\ proc' = [proc EXCEPT ![p].threads = Append(@, c)]
          /\ mem' = clone_child_settid(clone_parent_settid(mem, v, c, w, flags), v, c, w, flags)
          /\ thr' = [thr EXCEPT ![c] = clone_child_cleartid(NewThread(c, p), w, flags)]
    /\ thread_table' = thread_table \cup {c}
    /\ UNCHANGED <<files, handlers, queue, user, believes, destroyed, halt, scene>>

clone_vm(p, c, flags) == IF "VM" \in flags THEN proc[p].vm ELSE c
clone_files(p, c, flags) == IF "FILES" \in flags THEN proc[p].files ELSE c

clone_sighand(p, c, flags) == IF "SIGHAND" \in flags THEN proc[p].sig ELSE c

\* `ProcessBuilder::build`; the child starts with copies of what it does not
\* share.
BuildProcess(p, c, flags) ==
    [st |-> "runnable", threads |-> <<c>>, found |-> <<>>, parent |-> p, vm |-> clone_vm(p, c, flags),
     files |-> clone_files(p, c, flags), sig |-> clone_sighand(p, c, flags)]

clone_child_process(t, c, w, flags) ==
    /\ "THREAD" \notin flags
    /\ c \in NewTids
    /\ LET p == thr[t].pid
           b == BuildProcess(p, c, flags)
           m == [mem EXCEPT ![b.vm] = mem[proc[p].vm]]
       IN /\ Spare(proc[p].vm, w, flags)
          /\ proc' = [proc EXCEPT ![c] = b]
          /\ files' = [files EXCEPT ![b.files] = files[proc[p].files]]
          /\ handlers' = [handlers EXCEPT ![b.sig] = handlers[proc[p].sig]]
          /\ mem' = clone_child_settid(clone_parent_settid(m, proc[p].vm, c, w, flags),
                                       b.vm, c, w, flags)
    /\ thr' = [thr EXCEPT ![c] = clone_child_cleartid(NewThread(c, c), w, flags)]
    /\ thread_table' = thread_table \cup {c}
    /\ LET b == believes[thr[t].pid] IN
       believes' = [believes EXCEPT ![c] =
           [filesOf |-> IF "FILES" \in flags THEN b.filesOf ELSE c,
            open |-> IF "FILES" \in flags THEN b.open ELSE files[proc[thr[t].pid].files],
            sigOf |-> IF "SIGHAND" \in flags THEN b.sigOf ELSE c,
            handled |-> IF "SIGHAND" \in flags THEN b.handled ELSE handlers[proc[thr[t].pid].sig],
            ran |-> FALSE]]
    /\ UNCHANGED <<queue, user, destroyed, halt, scene>>

\* Any other flag stops the kernel.
Supported == {"VM", "FS", "FILES", "SIGHAND", "THREAD", "SYSVSEM", "SETTLS",
              "PARENT_SETTID", "CHILD_SETTID", "CHILD_CLEARTID"}

check_unsupported_flags(flags) == flags \subseteq Supported

clone_child(t, c, w, flags) ==
    /\ check_unsupported_flags(flags)
    /\ \/ clone_child_thread(t, c, w, flags)
       \/ clone_child_process(t, c, w, flags)

-----------------------------------------------------------------------------
(* Exit                                                                    *)
Exited(k, t) == k.thr[t].st = "exited"

\* `PosixThread::exit`, up to the write of the word: one sleeper on the address
\* is woken, the first, whoever it is.
NobodyWoken(k, x) == k

wake_ctid(k, x) ==
    LET v == k.proc[k.thr[x].pid].vm
        w == k.thr[x].ctid
        woken == futex_wake(k, w)
        left == {u \in Tids : /\ \E i \in Positions(woken.queue, w) : woken.queue[i][2] = u
                              /\ k.proc[k.thr[u].pid].vm = v}
    IN  IF w = Null THEN k
        ELSE [woken EXCEPT !.thr = [u \in Tids |-> [@[u] EXCEPT !.missed = @ \/ u \in left]]]

\* The write.  A word that is not there any more stops the kernel.
write_ctid(k, x) ==
    LET v == k.proc[k.thr[x].pid].vm
        w == k.thr[x].ctid
    IN  IF w = Null THEN k
        ELSE [k EXCEPT !.mem = [@ EXCEPT ![v][w].owner = IF v \in destroyed THEN @ ELSE 0],
                       !.thr = [@ EXCEPT ![x].ctid = Null],
                       !.halt = v \in destroyed]

remove_thread(k, t) ==
    IF t # k.thr[t].pid THEN [k EXCEPT !.table = @ \ {t}] ELSE k

\* A thread that another one ends is in the kernel, asleep or in a yield.
Ended(th) == [th EXCEPT !.st = "exited", !.at = IF @ = "user" THEN "woken" ELSE @]

close_all(k, p) == [k EXCEPT !.files = [@ EXCEPT ![k.proc[p].files] = FALSE]]

is_last_thread(k, p) == \A i \in 1..Len(k.proc[p].threads) : Exited(k, k.proc[p].threads[i])

\* The call returns to the loop of the thread, which sees whether it has exited.
Leaves(k, t) == [k EXCEPT !.thr = [@ EXCEPT ![t].at = IF Exited(k, t) THEN "gone" ELSE "user",
                                            ![t].exit = NoExit]]

\* The end of `do_exit_group`: the files, then the children.
LeavesChildren(k, p) ==
    [close_all(k, p) EXCEPT
        !.proc = [q \in Tids |-> IF @[q].parent = p THEN [@[q] EXCEPT !.parent = 1] ELSE @[q]]]

RECURSIVE EndThreads(_, _, _), ExitThread(_, _, _, _, _), ExitRest(_, _, _, _, _)

\* The loop of `do_exit_group`, called by t, over the threads ts.
EndThreads(k, t, ts) ==
    IF ts = <<>> THEN Leaves(LeavesChildren(k, k.thr[t].pid), t)
    ELSE IF Exited(k, Head(ts)) THEN EndThreads(k, t, Tail(ts))
    ELSE ExitThread(k, t, Head(ts), Tail(ts), TRUE)

do_exit_group(k, t) ==
    LET p == k.thr[t].pid
        ts == k.proc[p].threads
    IN  IF k.proc[p].st # "runnable" THEN Leaves(k, t)
        ELSE EndThreads([k EXCEPT !.proc = [@ EXCEPT ![p].st = "zombie", ![p].found = ts]], t, ts)

\* `Thread::exit` and `PosixThread::exit` of x, called by t, to where it may sleep.
ExitThread(k, t, x, todo, group) ==
    LET k1 == wake_ctid([k EXCEPT !.thr = [@ EXCEPT ![x] = Ended(@)]], x)
    IN  IF k.thr[x].ctid = Null THEN ExitRest(k1, t, x, todo, group)
        ELSE [k1 EXCEPT !.thr = [@ EXCEPT ![t].at = "clearing",
                                          ![t].exit = [of |-> x, todo |-> todo, group |-> group]]]

\* From the write of the word on.
ExitRest(k, t, x, todo, group) ==
    LET k1 == write_ctid(k, x)
        k2 == remove_thread(wake_robust_list(k1, k1.proc[k1.thr[x].pid].vm, x), x)
        p == k.thr[t].pid
    IN  IF group THEN EndThreads(k2, t, todo)
        ELSE IF x = p \/ is_last_thread(k2, p) THEN do_exit_group(k2, t)
        ELSE Leaves(k2, t)

sys_exit(t) ==
    /\ thr[t].pid # 1
    /\ Apply(ExitThread(Kernel, t, t, <<>>, FALSE))
    /\ UNCHANGED <<handlers, user, believes, destroyed, scene>>

sys_exit_group(t) ==
    /\ thr[t].pid # 1
    /\ Apply(do_exit_group(Kernel, t))
    /\ UNCHANGED <<handlers, user, believes, destroyed, scene>>

\* The exit goes on.
ExitGoesOn(t) ==
    /\ thr[t].at = "clearing"
    /\ LET e == thr[t].exit
           k == ExitRest(Kernel, t, e.of, e.todo, e.group)
       IN  IF k.halt THEN halt' = TRUE /\ UNCHANGED <<thr, proc, thread_table, mem, files, queue>>
           ELSE Apply(k)
    /\ UNCHANGED <<handlers, user, believes, destroyed, scene>>

\* A thread that starts, slept or yielded is in its loop and asks for itself, as
\* does one that makes a call after its process was reaped: its `Thread` is kept
\* by the table of threads and by its process alone.  (One that was ended before
\* it started makes a call first, which is left out.)
Returns(t) ==
    /\ thr[t].at \in {"new", "woken"} \/ (thr[t].at = "user" /\ ~Runs(t))
    /\ IF t \notin thread_table /\ proc[thr[t].pid].st = "reaped"
       THEN halt' = TRUE /\ UNCHANGED thr
       ELSE /\ thr' = [thr EXCEPT ![t].at = IF thr[t].st = "exited" THEN "gone" ELSE "user"]
            /\ UNCHANGED halt
    /\ UNCHANGED <<proc, thread_table, mem, files, handlers, queue, user, believes, destroyed, scene>>

\* `wait4` that finds a zombie.  The address space is destroyed.
reap_zombie_child(t, c) ==
    /\ proc[c].st = "zombie" /\ proc[c].parent = thr[t].pid
    /\ proc' = [proc EXCEPT ![c].st = "reaped"]
    /\ thread_table' = thread_table \ {proc[c].threads[i] : i \in 1..Len(proc[c].threads)}
    /\ destroyed' = destroyed \cup {proc[c].vm}
    /\ mem' = [mem EXCEPT ![proc[c].vm] = [w \in Words |-> Free]]
    /\ UNCHANGED <<thr, files, handlers, queue, user, believes, halt, scene>>

-----------------------------------------------------------------------------
(* Programs                                                                *)
\* `do_execve` by the only thread of a process that shares its memory with
\* nobody.  The thread keeps the head of its old robust list.  A program that
\* cannot be loaded is noticed when the word to clear is forgotten already.
Alone(t) ==
    /\ \A i \in 1..Len(proc[thr[t].pid].threads) : proc[thr[t].pid].threads[i] # t
            => Exited(Kernel, proc[thr[t].pid].threads[i]) /\ ~Clearing(proc[thr[t].pid].threads[i])
    /\ \A p \in Tids \ {thr[t].pid} : proc[p].vm # vm(t)

do_execve(t, loads) ==
    /\ Alone(t)
    /\ thr' = [thr EXCEPT ![t].ctid = Null]
    /\ IF loads
       THEN /\ mem' = [mem EXCEPT ![vm(t)] = [w \in Words |-> Free]]
            /\ user' = [user EXCEPT ![t] = [ring |-> <<>>, pending |-> Null]]
            /\ handlers' = [handlers EXCEPT ![proc[thr[t].pid].sig] = FALSE]
            /\ believes' = [believes EXCEPT ![thr[t].pid].handled = FALSE, ![thr[t].pid].ran = TRUE]
       ELSE UNCHANGED <<mem, user, handlers, believes>>
    /\ UNCHANGED <<proc, thread_table, files, queue, destroyed, halt, scene>>

\* `open` and `rt_sigaction`: something of its own to lose.
Learns(p, field, id) ==
    [q \in Tids |-> IF believes[q][id] = believes[p][id] THEN [believes[q] EXCEPT ![field] = TRUE]
                    ELSE believes[q]]

Opens(t) ==
    /\ ~files[proc[thr[t].pid].files]
    /\ files' = [files EXCEPT ![proc[thr[t].pid].files] = TRUE]
    /\ believes' = Learns(thr[t].pid, "open", "filesOf")
    /\ UNCHANGED <<thr, proc, thread_table, mem, handlers, queue, user, destroyed, halt, scene>>

Handles(t) ==
    /\ ~handlers[proc[thr[t].pid].sig]
    /\ handlers' = [handlers EXCEPT ![proc[thr[t].pid].sig] = TRUE]
    /\ believes' = Learns(thr[t].pid, "handled", "sigOf")
    /\ UNCHANGED <<thr, proc, thread_table, mem, files, queue, user, destroyed, halt, scene>>

Sleeping == IF halt THEN {} ELSE Tids

\* The first process makes children and reaps them.
Programs(what) == IF scene = what THEN {t \in Running : thr[t].pid # 1} ELSE {}

THNext ==
    \/ \E t \in Running, c \in Tids, w \in JoinWords, flags \in CloneSets[scene] :
            clone_child(t, c, w, flags)
    \/ \E t \in Programs("joins"), w \in JoinWords : futex_wait(t, w)
    \/ \E t \in Programs("locks"), w \in Locks : futex_wait(t, w)
    \/ \E t \in Programs("locks"), w \in Locks : LockTaken(t, w) \/ LockReleased(t, w)
    \/ \E t \in Programs("locks") : LockListed(t) \/ set_robust_list(t)
    \/ \E t \in Programs("joins") \cup Programs("locks") : Pauses(t)
    \/ \E t \in Programs("resources") : Opens(t) \/ Handles(t)
    \/ \E t \in Programs("resources"), loads \in BOOLEAN : do_execve(t, loads)
    \/ \E t \in Running : sys_exit(t) \/ sys_exit_group(t)
    \/ \E t \in Running, c \in Tids : reap_zombie_child(t, c)
    \/ \E t \in Sleeping : Resumed(t) \/ Returns(t) \/ ExitGoesOn(t)

THSpec == THInit /\ [][THNext]_thvars

-----------------------------------------------------------------------------
Live(t) == thr[t].st = "running"

\* The table of threads, the processes and the threads agree, except for a thread
\* whose exit is under way: a thread is in the table until it exits, a main thread
\* until its process is reaped; a process is a zombie from the exit of its last
\* thread on, or of its main thread.  The exit of a process ends every thread that
\* it found; only a thread that was cloned while the exit slept lives on.
TablesAgree ==
    \A t \in Tids : thr[t].st # "none" =>
        LET p == thr[t].pid IN
        /\ t \in thread_table <=> proc[p].st # "reaped" /\ (t = p \/ Live(t) \/ Clearing(t))
        /\ proc[p].st = "runnable" => Live(p) \/ Clearing(p)
        /\ proc[p].st # "runnable" /\ Live(t) =>
              \/ \A i \in 1..Len(proc[p].found) : proc[p].found[i] # t
              \/ \E e \in Tids : \E i \in 1..Len(thr[e].exit.todo) : thr[e].exit.todo[i] = t

\* Nobody who joins a thread of its own process sleeps on when the thread has
\* exited, but for two cases.  The exit woke another sleeper on the address, of
\* this or of another process (the key of a futex is the address alone, and one
\* sleeper is woken).  Or the joiner fell asleep between the wake and the write of
\* the word.  `missed` holds of a thread that met one of them.
JoinersReleased ==
    \A i \in 1..Len(queue) :
        LET u == queue[i][2]
            t == mem[vm(u)][queue[i][1]].owner
        IN  Live(u) /\ queue[i][1] \in JoinWords /\ vm(u) \notin destroyed =>
                \/ t # 0 /\ (Live(t) \/ Clearing(t) \/ vm(t) # vm(u))
                \/ thr[u].missed

\* No thread takes a robust mutex with it, unless it exits between taking the
\* mutex and listing it, however it exits and whoever makes it.
MutexesReleased ==
    \A t \in Tids : thr[t].st = "exited" /\ ~Clearing(t) =>
        \A w \in Locks : mem[vm(t)][w].owner = t => user[t].pending = w

\* What a process shares and what it has copied is what it asked for: no exit
\* changes its files and no program start its handlers, unless it shares them
\* with the process that exits or executes.  An exit closes the files of a table
\* that others still use (`close_all`), and `execve` resets the dispositions that
\* others still use.
SharedAsAsked ==
    \A p \in Tids : proc[p].st = "runnable" =>
        /\ \/ files[proc[p].files] = believes[p].open
           \/ \E q \in Tids \ {p} : /\ believes[q].filesOf = believes[p].filesOf
                                    /\ proc[q].st \in {"zombie", "reaped"}
        /\ \/ handlers[proc[p].sig] = believes[p].handled
           \/ \E q \in Tids \ {p} : believes[q].sigOf = believes[p].sigOf /\ believes[q].ran

\* What threads leave behind when they come and go: the tables agree, joiners and
\* robust mutexes are released, and clones share what they were asked to share,
\* with the exceptions that the four parts name.
ThreadsSound == TablesAgree /\ JoinersReleased /\ MutexesReleased /\ SharedAsAsked
=============================================================================
