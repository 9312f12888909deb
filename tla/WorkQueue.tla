----------------------------- MODULE WorkQueue -----------------------------
(***************************************************************************)
(* A work queue and its worker pool (thread/work_queue/): work items are   *)
(* submitted, from interrupts too, workers take and run them, and a        *)
(* monitor thread wakes a worker or adds one when it sees no heartbeat.    *)
(*                                                                         *)
(* A work function may sleep.  The item i submits the items of Needs[i]    *)
(* and sleeps until they have run, which is the case that a pool with one  *)
(* worker cannot serve.  One CPU, hence one LocalWorkerPool.               *)
(***************************************************************************)
EXTENDS Integers, Sequences, FiniteSets

CONSTANTS Items, Needs, WORKER_LIMIT

VARIABLES was_pending,         \* of each item
          pending_work_items,  \* the queue
          worker,              \* [at, item, waits] of each worker
          idle_wait_queue, woken,
          heartbeat,
          asked                \* submitted since its function last started

wqvars == <<was_pending, pending_work_items, worker, idle_wait_queue, woken, heartbeat,
            asked>>

Workers == 1..WORKER_LIMIT
NoItem == "none"
Added == {w \in Workers : worker[w].at # "none"}
num_workers == Cardinality(Added)

WQInit == /\ was_pending = [i \in Items |-> FALSE]
          /\ pending_work_items = <<>>
          /\ worker = [w \in Workers |-> [at |-> "none", item |-> NoItem, waits |-> {}]]
          /\ idle_wait_queue = <<>> /\ woken = {}
          /\ heartbeat = FALSE
          /\ asked = [i \in Items |-> FALSE]

-----------------------------------------------------------------------------
(* The queue and the flags after the items of I were submitted: try_pending*)
(* refuses an item that is pending.                                        *)
RECURSIVE Enqueued(_, _)
Enqueued(q, I) ==
  IF I = {} THEN q
  ELSE LET i == CHOOSE i \in I : TRUE
       IN  Enqueued(IF was_pending[i] THEN q ELSE Append(q, i), I \ {i})

enqueue(I) ==
  /\ pending_work_items' = Enqueued(pending_work_items, I)
  /\ was_pending' = [i \in Items |-> was_pending[i] \/ i \in I]
  /\ asked' = [i \in Items |-> asked[i] \/ i \in I]

submit_work_item(i) ==
  enqueue({i}) /\ UNCHANGED <<worker, idle_wait_queue, woken, heartbeat>>

(* WorkQueue::dequeue gives its first item to the worker w.                *)
dequeue(w) ==
  /\ worker' = [worker EXCEPT ![w].at = "fetched", ![w].item = Head(pending_work_items)]
  /\ pending_work_items' = Tail(pending_work_items)

has_pending_work_items == pending_work_items # <<>>

(* The worker's loop: it fetches an item, or is idle when there is none.   *)
(* A waiter goes to the front of the queue, where wake_one takes it.       *)
fetch_pending_work_item(w) ==
  /\ worker[w].at = "loop" /\ has_pending_work_items
  /\ dequeue(w)
  /\ UNCHANGED <<was_pending, idle_wait_queue, woken, heartbeat, asked>>

idle_current_worker(w) ==
  /\ worker[w].at = "loop" /\ ~has_pending_work_items
  /\ worker' = [worker EXCEPT ![w].at = "idle"]
  /\ idle_wait_queue' = <<w>> \o idle_wait_queue
  /\ UNCHANGED <<was_pending, pending_work_items, woken, heartbeat, asked>>

(* The woken worker tests its condition again.                             *)
Woken(w) ==
  /\ w \in woken
  /\ woken' = woken \ {w}
  /\ IF ~has_pending_work_items THEN UNCHANGED <<worker, idle_wait_queue>>
     ELSE /\ worker' = [worker EXCEPT ![w].at = "loop"]
          /\ idle_wait_queue' = SelectSeq(idle_wait_queue, LAMBDA v : v # w)
  /\ UNCHANGED <<was_pending, pending_work_items, heartbeat, asked>>

(* set_processing and the start of call_work_func, which submits what the  *)
(* function needs.                                                         *)
set_processing(w) ==
  LET i == worker[w].item
      I == {j \in Needs[i] : ~was_pending[j]}
  IN  /\ worker[w].at = "fetched"
      /\ worker' = [worker EXCEPT ![w].at = "busy", ![w].waits = Needs[i]]
      /\ pending_work_items' = Enqueued(pending_work_items, I)
      /\ was_pending' = [j \in Items |-> (was_pending[j] /\ j # i) \/ j \in I]
      /\ asked' = [j \in Items |-> (asked[j] /\ j # i) \/ j \in I]
      /\ UNCHANGED <<idle_wait_queue, woken, heartbeat>>

(* call_work_func returns: the heartbeat, and those who waited for it.     *)
call_work_func(w) ==
  /\ worker[w].at = "busy" /\ worker[w].waits = {}
  /\ worker' = [v \in Workers |->
                  IF v = w THEN [at |-> "loop", item |-> NoItem, waits |-> {}]
                  ELSE [worker[v] EXCEPT !.waits = @ \ {worker[w].item}]]
  /\ heartbeat' = TRUE
  /\ UNCHANGED <<was_pending, pending_work_items, idle_wait_queue, woken, asked>>

run_worker_loop(w) == \/ fetch_pending_work_item(w) \/ idle_current_worker(w) \/ Woken(w)
                      \/ set_processing(w) \/ call_work_func(w)

-----------------------------------------------------------------------------
(* LocalWorkerPool::wake_worker and add_worker.                            *)
wake_worker == /\ woken' = woken \cup {Head(idle_wait_queue)}
               /\ UNCHANGED worker

add_worker == /\ worker' = [worker EXCEPT ![num_workers + 1].at = "loop"]
              /\ UNCHANGED woken

(* Mutant: the pool never grows beyond its first worker.                   *)
ScheduleOneWorker ==
  IF heartbeat \/ ~has_pending_work_items THEN UNCHANGED <<worker, woken>>
  ELSE IF idle_wait_queue # <<>> THEN wake_worker
  ELSE IF num_workers < 1 THEN add_worker
  ELSE UNCHANGED <<worker, woken>>

(* SimpleScheduler::schedule.                                              *)
schedule ==
  IF heartbeat \/ ~has_pending_work_items THEN UNCHANGED <<worker, woken>>
  ELSE IF idle_wait_queue # <<>> THEN wake_worker
  ELSE IF num_workers < WORKER_LIMIT THEN add_worker
  ELSE UNCHANGED <<worker, woken>>

run_monitor_loop ==
  /\ schedule
  /\ heartbeat' = FALSE
  /\ UNCHANGED <<was_pending, pending_work_items, idle_wait_queue, asked>>

-----------------------------------------------------------------------------
WQNext == \/ \E i \in Items : submit_work_item(i)
          \/ \E w \in Workers : run_worker_loop(w)
          \/ run_monitor_loop

(* Every task that can run does, in turn: the ready queue is first in,     *)
(* first out, and new_kernel_thread gives all of them the same priority.   *)
WQFairness == /\ WF_wqvars(run_monitor_loop)
              /\ \A w \in Workers : WF_wqvars(run_worker_loop(w))

WQSpec == WQInit /\ [][WQNext]_wqvars /\ WQFairness

-----------------------------------------------------------------------------
(* What is submitted runs: the function of every submitted item starts     *)
(* after the submission, whatever the other items wait for, as long as the *)
(* limit exceeds the length of a chain of waiting items.                   *)
SubmittedRuns == \A i \in Items : asked[i] ~> ~asked[i]
=============================================================================
