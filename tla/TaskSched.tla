----------------------------- MODULE TaskSched -----------------------------
(***************************************************************************)
(* Tasks, the run queues, the context switch, sleeping on a wait queue and *)
(* the tick timer of aster-frame (task/task.rs, task/processor.rs,         *)
(* task/scheduler.rs, sync/wait.rs, arch/x86/timer/mod.rs) with the        *)
(* scheduler that aster-std installs (sched/priority_scheduler.rs).        *)
(*                                                                         *)
(* One CPU.  Only the current task takes steps, until it calls schedule(); *)
(* interrupt handlers run between any two of its steps.  A step of a task  *)
(* ends where an interrupt may be served and could tell the difference:    *)
(* schedule() is the test before it, fetch_task and switch_to_task, three  *)
(* steps with interrupts enabled between them.  From the test of the       *)
(* status in switch_to_task to the context switch an interrupt comes to    *)
(* the same before and after.  The tasks wait on one queue for             *)
(* a condition that consumes one of `ready` items.  The first thread never *)
(* waits and never exits: it yields until the first process is a zombie.   *)
(* What the tasks and the devices of a kernel may do is chosen at the      *)
(* start, as the environment `env`.                                        *)
(***************************************************************************)
EXTENDS Integers, Sequences, FiniteSets

CONSTANTS Tasks, InitTask, NoTask, Envs, MaxReady, MaxWaits, MaxTick

NoTimeout == -1

(* realtime: the tasks whose priority is below REAL_TIME_TASK_PRI;         *)
(* timeouts: the timeouts of waits, in ticks; wakes: the calls of wakers;  *)
(* irq: whether a device interrupt may signal the queue.                   *)
ASSUME TaskAssumption ==
  /\ InitTask \in Tasks /\ NoTask \notin Tasks
  /\ \A e \in Envs : /\ e.realtime \subseteq Tasks \ {InitTask}
                     /\ e.timeouts \subseteq Nat \cup {NoTimeout}
                     /\ e.wakes \subseteq {"one", "all"}
                     /\ e.irq \in BOOLEAN
  /\ MaxReady \in Nat /\ MaxWaits \in Nat /\ MaxTick \in Nat

VARIABLES env,         \* the environment, which never changes
          current,     \* Processor.current
          fetched,     \* what fetch_task gave to schedule, or NoTask
          rq,          \* real_time_tasks and normal_tasks
          status,      \* TaskStatus of each task
          pc,          \* where each task goes on when it runs
          nth,         \* the number of waits each task has begun
          timeout,     \* the timeout of its last wait
          waiters,     \* the wait queue: <<task, n>> is the n-th Waiter of task
          woken,       \* the waiters whose is_woken_up is set
          timers,      \* TIMEOUT_LIST
          cancelled,   \* the waiters whose timer callback is cancelled
          tick,        \* TICK
          ready,       \* what the condition closure looks at
          broken,      \* why the kernel is dead, or "no"
          passed       \* ghost: the real-time tasks that wait in their queue
                       \* since before the last switch to a normal task

taskVars == <<current, fetched, rq, status, pc, passed>>
waitVars == <<nth, timeout, waiters, woken>>
timerVars == <<timers, cancelled, tick>>
vars == <<env, taskVars, waitVars, timerVars, ready, broken>>

Waiters == Tasks \X (0 .. MaxWaits)
(* The Waiter of the wait that a task is in, or was in last.               *)
Own(t) == <<t, nth[t]>>

Elems(s) == {s[i] : i \in DOMAIN s}

(* The lists of the elements of a set, each of them once.                  *)
Listings(S) == {f \in UNION {[1 .. n -> S] : n \in 0 .. Cardinality(S)} :
                  \A k \in S : \E i \in DOMAIN f : f[i] = k}

(* The elements of s at the positions in K, in their order.  Ascending(K)  *)
(* has one element.                                                        *)
Ascending(K) == {f \in Listings(K) : \A i, j \in DOMAIN f : i < j => f[i] < f[j]}
Along(s, f) == [i \in DOMAIN f |-> s[f[i]]]

-----------------------------------------------------------------------------
(* PreemptScheduler: two intrusive lists.  Linking a task that is linked   *)
(* already panics.                                                         *)
Linked(q) == Elems(q.realtime) \cup Elems(q.normal)

Push(q, t) == IF t \in env.realtime
              THEN [q EXCEPT !.realtime = Append(@, t)]
              ELSE [q EXCEPT !.normal = Append(@, t)]

Empty(q) == q.realtime = <<>> /\ q.normal = <<>>

(* dequeue: the list that is served, its first task, and what is left.     *)

(* Mutant: the real-time list is served when no normal task is ready.      *)
RealTimeLast(q) == q.normal = <<>>

RealTimeServed(q) == q.realtime # <<>>

First(q) == IF RealTimeServed(q) THEN Head(q.realtime) ELSE Head(q.normal)

Pop(q) == IF RealTimeServed(q)
          THEN [q EXCEPT !.realtime = Tail(@)]
          ELSE [q EXCEPT !.normal = Tail(@)]

ShouldPreempt(t) == t \notin env.realtime /\ rq.realtime # <<>>

(* add_task for the tasks at the positions K of ts, one after the other.   *)
AddTasks(ts, K) ==
  IF \E i \in K : ts[i] \in Linked(rq) \/ \E j \in K : j < i /\ ts[j] = ts[i]
  THEN broken' = "linked" /\ UNCHANGED rq
  ELSE /\ \E r \in Ascending({i \in K : ts[i] \in env.realtime}),
             n \in Ascending({i \in K : ts[i] \notin env.realtime}) :
            rq' = [realtime |-> rq.realtime \o Along(ts, r),
                   normal |-> rq.normal \o Along(ts, n)]
       /\ UNCHANGED broken

(* Waiter::wake_up for each waiter of a sequence: those that are not woken *)
(* yet are marked and their tasks are made ready.                          *)
WakeUp(ws) ==
  /\ woken' = woken \cup Elems(ws)
  /\ AddTasks([i \in DOMAIN ws |-> ws[i][1]], {i \in DOMAIN ws : ws[i] \notin woken})

-----------------------------------------------------------------------------
PCs == {"new", "run", "added", "enqueue", "timer", "check", "dequeue", "cancel", "expired",
        "dequeueExpired", "lastcond", "wait", "sleep", "doze", "reset", "exit", "dead"}

RunQueues == [realtime : Seq(Tasks), normal : Seq(Tasks)]

TypeOK ==
  /\ env \in Envs /\ current \in Tasks /\ fetched \in Tasks \cup {NoTask}
  /\ rq \in RunQueues
  /\ status \in [Tasks -> {"Runnable", "Sleeping", "Exited"}]
  /\ pc \in [Tasks -> PCs]
  /\ nth \in [Tasks -> 0 .. MaxWaits] /\ timeout \in [Tasks -> env.timeouts \cup {NoTimeout}]
  /\ waiters \in Seq(Waiters) /\ woken \subseteq Waiters
  /\ timers \subseteq [waiter : Waiters, expire : Nat]
  /\ cancelled \subseteq Waiters
  /\ tick \in 0 .. MaxTick /\ ready \in 0 .. MaxReady
  /\ broken \in {"no", "linked", "self", "locks", "unreachable"}
  /\ passed \subseteq Tasks

Init == /\ env \in Envs
        /\ current = InitTask /\ fetched = NoTask /\ passed = {}
        /\ rq = [realtime |-> <<>>, normal |-> <<>>]
        /\ status = [t \in Tasks |-> "Runnable"]
        /\ pc = [t \in Tasks |-> IF t = InitTask THEN "run" ELSE "new"]
        /\ nth = [t \in Tasks |-> 0] /\ timeout = [t \in Tasks |-> NoTimeout]
        /\ waiters = <<>> /\ woken = {}
        /\ timers = {} /\ cancelled = {} /\ tick = 0
        /\ ready = 0 /\ broken = "no"

(* The current task, where it is not inside switch_to_task.                *)
At(t, label) == current = t /\ fetched = NoTask /\ pc[t] = label
Goto(t, label) == pc' = [pc EXCEPT ![t] = label]

-----------------------------------------------------------------------------
(* schedule: fetch_task, whose guard is dropped before switch_to_task is   *)
(* called.  A task that comes back from schedule in exit is at             *)
(* unreachable!().                                                         *)
Fetch(t) ==
  /\ At(t, "run") \/ At(t, "added") \/ At(t, "doze") \/ At(t, "exit")
  /\ Goto(t, CASE pc[t] = "doze" -> "sleep" [] pc[t] = "exit" -> "dead" [] OTHER -> "run")
  /\ IF Empty(rq) THEN UNCHANGED <<fetched, rq, passed>>
     ELSE /\ fetched' = First(rq) /\ rq' = Pop(rq)
          /\ passed' = passed \ {First(rq)}
  /\ UNCHANGED <<current, status, waitVars, timerVars, ready, broken>>

(* switch_to_task.  The current task goes back to a queue if it is         *)
(* runnable.  If the task fetched is the current one itself, the CPU loads *)
(* a context that was saved earlier: what runs then is undefined.          *)
SwitchToTask(t) ==
  /\ current = t /\ fetched # NoTask
  /\ IF status[t] = "Runnable" /\ t \in Linked(rq)
     THEN broken' = "linked" /\ UNCHANGED <<current, fetched, rq, passed>>
     ELSE /\ rq' = IF status[t] = "Runnable" THEN Push(rq, t) ELSE rq
          /\ current' = fetched /\ fetched' = NoTask
          /\ broken' = IF fetched = t THEN "self" ELSE broken
          /\ passed' = IF fetched \in env.realtime THEN passed ELSE Elems(rq'.realtime)
  /\ UNCHANGED <<status, pc, waitVars, timerVars, ready>>

(* Task::run of a new task: add_task, then schedule.                       *)
Run(t, u) ==
  /\ At(t, "run") /\ pc[u] = "new"
  /\ pc' = [pc EXCEPT ![t] = "added", ![u] = "run"]
  /\ rq' = Push(rq, u)
  /\ UNCHANGED <<current, fetched, status, passed, waitVars, timerVars, ready, broken>>

(* The preemption point after a user event.  switch_to_task panics, as     *)
(* the guard that disables the local interrupts counts as a held lock.     *)
Preempt(t) ==
  /\ At(t, "run") /\ ShouldPreempt(t)
  /\ rq' = Pop(rq)
  /\ broken' = "locks"
  /\ UNCHANGED <<current, fetched, status, pc, passed, waitVars, timerVars, ready>>

Exit(t) ==
  /\ At(t, "run") /\ t # InitTask
  /\ status' = [status EXCEPT ![t] = "Exited"]
  /\ Goto(t, "exit")
  /\ UNCHANGED <<current, fetched, rq, passed, waitVars, timerVars, ready, broken>>

(* What follows schedule in Task::exit.                                    *)
Unreachable(t) ==
  /\ At(t, "dead")
  /\ broken' = "unreachable"
  /\ UNCHANGED <<taskVars, waitVars, timerVars, ready>>

-----------------------------------------------------------------------------
(* WaitQueue::do_wait.                                                     *)

(* The first test of the condition, before there is a Waiter.              *)
DoWait(t, d) ==
  /\ At(t, "run") /\ t # InitTask /\ nth[t] < MaxWaits
  /\ IF ready > 0
     THEN ready' = ready - 1 /\ UNCHANGED <<pc, nth, timeout>>
     ELSE /\ Goto(t, "enqueue")
          /\ nth' = [nth EXCEPT ![t] = @ + 1]
          /\ timeout' = [timeout EXCEPT ![t] = d]
          /\ UNCHANGED ready
  /\ UNCHANGED <<current, fetched, rq, passed, status, waiters, woken, timerVars, broken>>

Enqueue(t) ==
  /\ At(t, "enqueue")
  /\ waiters' = <<Own(t)>> \o waiters
  /\ Goto(t, IF timeout[t] = NoTimeout THEN "check" ELSE "timer")
  /\ UNCHANGED <<current, fetched, rq, passed, status, nth, timeout, woken, timerVars, ready, broken>>

AddTimeoutList(t) ==
  /\ At(t, "timer")
  /\ timers' = timers \cup {[waiter |-> Own(t), expire |-> tick + timeout[t]]}
  /\ Goto(t, "check")
  /\ UNCHANGED <<current, fetched, rq, passed, status, waitVars, cancelled, tick, ready, broken>>

CheckCond(t) ==
  /\ At(t, "check")
  /\ IF ready > 0
     THEN ready' = ready - 1 /\ Goto(t, "dequeue")
     ELSE /\ Goto(t, IF timeout[t] = NoTimeout THEN "wait" ELSE "expired")
          /\ UNCHANGED ready
  /\ UNCHANGED <<current, fetched, rq, passed, status, waitVars, timerVars, broken>>

Dequeue(t) ==
  /\ At(t, "dequeue") \/ At(t, "dequeueExpired")
  /\ \E f \in Ascending({i \in DOMAIN waiters : waiters[i] # Own(t)}) :
       waiters' = Along(waiters, f)
  /\ Goto(t, CASE pc[t] = "dequeueExpired"  -> "lastcond"
               [] timeout[t] = NoTimeout    -> "run"
               [] OTHER                     -> "cancel")
  /\ UNCHANGED <<current, fetched, rq, passed, status, nth, timeout, woken, timerVars, ready, broken>>

Cancel(t) ==
  /\ At(t, "cancel")
  /\ cancelled' = cancelled \cup {Own(t)}
  /\ Goto(t, "run")
  /\ UNCHANGED <<current, fetched, rq, passed, status, waitVars, timers, tick, ready, broken>>

(* is_expired compares with the tick that is now, timer_callback with the  *)
(* one before it is advanced.                                              *)
CheckExpired(t) ==
  /\ At(t, "expired")
  /\ Goto(t, IF \E c \in timers : c.waiter = Own(t) /\ c.expire > tick
             THEN "wait" ELSE "dequeueExpired")
  /\ UNCHANGED <<current, fetched, rq, passed, status, waitVars, timerVars, ready, broken>>

LastCond(t) ==
  /\ At(t, "lastcond")
  /\ ready' = IF ready > 0 THEN ready - 1 ELSE ready
  /\ Goto(t, "run")
  /\ UNCHANGED <<current, fetched, rq, passed, status, waitVars, timerVars, broken>>

(* Waiter::wait.  The loop tests is_woken_up and calls schedule, which is  *)
(* Fetch at "doze".                                                        *)
WaitSleep(t) ==
  /\ At(t, "wait")
  /\ status' = [status EXCEPT ![t] = "Sleeping"]
  /\ Goto(t, "sleep")
  /\ UNCHANGED <<current, fetched, rq, passed, waitVars, timerVars, ready, broken>>

WaitTest(t) ==
  /\ At(t, "sleep") /\ Own(t) \notin woken
  /\ Goto(t, "doze")
  /\ UNCHANGED <<current, fetched, rq, passed, status, waitVars, timerVars, ready, broken>>

WaitAwake(t) ==
  /\ At(t, "sleep") /\ Own(t) \in woken
  /\ status' = [status EXCEPT ![t] = "Runnable"]
  /\ Goto(t, "reset")
  /\ UNCHANGED <<current, fetched, rq, passed, waitVars, timerVars, ready, broken>>

WaitReset(t) ==
  /\ At(t, "reset")
  /\ woken' = woken \ {Own(t)}
  /\ Goto(t, "check")
  /\ UNCHANGED <<current, fetched, rq, passed, status, nth, timeout, waiters, timerVars, ready, broken>>

-----------------------------------------------------------------------------
(* A waker makes the condition true and then wakes one waiter or all.      *)
WakeOne == WakeUp(IF waiters = <<>> THEN <<>> ELSE <<Head(waiters)>>)

(* Mutant: the loop misses the first waiter.                               *)
WakeAllButFirst == WakeUp(IF waiters = <<>> THEN <<>> ELSE Tail(waiters))

WakeAll == WakeUp(waiters)

Wake == /\ ready < MaxReady
        /\ ready' = ready + 1
        /\ ("one" \in env.wakes /\ WakeOne) \/ ("all" \in env.wakes /\ WakeAll)
        /\ UNCHANGED <<current, fetched, passed, status, pc, nth, timeout, waiters, timerVars>>

TaskWakes(t) == At(t, "run") /\ Wake
DeviceIrq == env.irq /\ Wake

(* The tick interrupt: the callbacks that are due run in the order of      *)
(* their expiry; the heap leaves the order of equal ones open.             *)
TimerCallback ==
  LET due == {c \in timers : c.waiter \notin cancelled /\ c.expire <= tick}
  IN  /\ timers # {} /\ tick < MaxTick
      /\ tick' = tick + 1
      /\ timers' = {c \in timers : c.waiter \notin cancelled /\ c.expire > tick}
      /\ \E order \in Listings(due) :
           /\ \A i, j \in DOMAIN order : i < j => order[i].expire <= order[j].expire
           /\ WakeUp([i \in DOMAIN order |-> order[i].waiter])
      /\ UNCHANGED <<current, fetched, passed, status, pc, nth, timeout, waiters, cancelled, ready>>

(* The steps in which a task keeps the CPU and wakes nobody.               *)
OwnStep(t) ==
  \/ Exit(t) \/ (\E d \in env.timeouts : DoWait(t, d))
  \/ Enqueue(t) \/ AddTimeoutList(t) \/ CheckCond(t) \/ Dequeue(t) \/ Cancel(t)
  \/ CheckExpired(t) \/ LastCond(t)
  \/ WaitSleep(t) \/ WaitTest(t) \/ WaitAwake(t) \/ WaitReset(t)

TaskStep(t) ==
  \/ OwnStep(t) \/ Fetch(t) \/ SwitchToTask(t) \/ (\E u \in Tasks : Run(t, u))
  \/ Preempt(t) \/ Unreachable(t) \/ TaskWakes(t)

Next == /\ broken = "no"
        /\ (\E t \in Tasks : TaskStep(t)) \/ DeviceIrq \/ TimerCallback
        /\ UNCHANGED env

Spec == Init /\ [][Next]_vars

-----------------------------------------------------------------------------
(* With wakers that are tasks, waits without a timeout and no real-time    *)
(* task, no task is linked twice, switched to while it runs, or run after  *)
(* it has exited.                                                          *)
NothingBreaks ==
  ~env.irq /\ env.timeouts = {NoTimeout} /\ env.realtime = {} => broken = "no"

(* schedule and wake_up lose no task: one that is runnable, or that sleeps *)
(* on a waiter that was woken, runs, is about to be switched to or is in a *)
(* run queue.                                                              *)
NoTaskLost ==
  broken = "no" =>
  \A t \in Tasks \ {current, fetched} :
    \/ pc[t] = "new" \/ t \in Linked(rq)
    \/ status[t] = "Exited"
    \/ status[t] = "Sleeping" /\ Own(t) \notin woken

(* wait_until loses no wakeup of wake_all: while the condition holds, no   *)
(* waiter sleeps that was not woken.  (Two calls of wake_one may wake the  *)
(* same waiter.)                                                           *)
NoWakeupLost ==
  broken = "no" /\ "one" \notin env.wakes /\ ready > 0 =>
    \A t \in Tasks : pc[t] \in {"sleep", "doze"} => Own(t) \in woken

(* A waiter with a timeout is woken by the first tick after its expiry.    *)
NoOversleep ==
  broken = "no" =>
  \A t \in Tasks :
    (pc[t] \in {"sleep", "doze"} /\ timeout[t] # NoTimeout /\ Own(t) \notin woken)
      => \E c \in timers : c.waiter = Own(t) /\ c.expire >= tick /\ c.waiter \notin cancelled

(* schedule, the wait queues and their timers: switching never breaks, no  *)
(* task and no wake-up is lost, and no wait outlasts its timeout.          *)
SchedSound == NothingBreaks /\ NoTaskLost /\ NoWakeupLost /\ NoOversleep

(* Real-time tasks are prioritized: no real-time task is passed over       *)
(* twice.  One switch to a normal task may find it in the queue, when an   *)
(* interrupt made it ready after the fetch; the next switch to a normal    *)
(* task comes after it has run.                                            *)
RealTimeFirst ==
  [][current' # current /\ current' \notin env.realtime => passed = {}]_vars
=============================================================================
