----------------------------- MODULE WaitQueue -----------------------------
(***************************************************************************)
(* The wait queue of aster-frame (sync/wait.rs), as the operations of the  *)
(* components that sleep on one (Mutex, RwMutex) use it.                   *)
(*                                                                         *)
(* A thread has at most one Waiter on a queue, so the waiter is named by   *)
(* its thread.  The spin lock around the deque makes each queue operation  *)
(* one step.  No waiter is exclusive (Waiter::new has empty flags), so     *)
(* every waiter goes to the front and wake_all wakes them all.  What       *)
(* add_task and schedule do with a sleeping task is the subject of         *)
(* TaskSched; here a sleeping thread may go on once its flag is set.       *)
(***************************************************************************)
EXTENDS Integers, Sequences

CONSTANT Threads

VARIABLES waiters,    \* the deque, front first
          woken       \* is_woken_up of each thread's waiter

waitVars == <<waiters, woken>>

Elems(s) == {s[i] : i \in 1 .. Len(s)}

Queued == Elems(waiters)

(* A thread has one waiter at a time: none is in the deque twice.          *)
NoDuplicates(s) == \A i, j \in 1 .. Len(s) : s[i] = s[j] => i = j

WaitTypeOK == /\ waiters \in Seq(Threads)
              /\ NoDuplicates(waiters)
              /\ woken \in [Threads -> BOOLEAN]

WaitInit == /\ waiters = <<>>
            /\ woken = [t \in Threads |-> FALSE]

(* A fresh waiter, put at the front.                                       *)
Enqueue(t) == /\ waiters' = <<t>> \o waiters
              /\ woken' = [woken EXCEPT ![t] = FALSE]

(* The deque without the waiter of t, the others in their order.           *)
Without(s, t) ==
  LET k == CHOOSE i \in 1 .. Len(s) : s[i] = t
  IN  [i \in 1 .. Len(s) - 1 |-> IF i < k THEN s[i] ELSE s[i + 1]]

Dequeue(t) == /\ waiters' = Without(waiters, t)
              /\ UNCHANGED woken

(* Wake the waiter at the front and leave it in the queue.                 *)
WakeOne == /\ woken' = [t \in Threads |->
                          woken[t] \/ (waiters # <<>> /\ t = waiters[1])]
           /\ UNCHANGED waiters

WakeAll == /\ woken' = [t \in Threads |-> woken[t] \/ t \in Queued]
           /\ UNCHANGED waiters

(* Leave Waiter::wait: the flag was seen set, and is reset before the      *)
(* condition is evaluated again.                                           *)
LeaveWait(t) == /\ woken[t]
                /\ woken' = [woken EXCEPT ![t] = FALSE]
                /\ UNCHANGED waiters

=============================================================================
