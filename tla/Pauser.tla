------------------------------- MODULE Pauser -------------------------------
(***************************************************************************)
(* Pauser (process/signal/pauser.rs): a thread sleeps until its condition  *)
(* holds, a signal comes or its time is up.  The users may share one       *)
(* pauser, as the threads in wait4 share Process::children_pauser and the  *)
(* processes that wait for a terminal share JobControl::pauser.  The wait  *)
(* queue is the set of threads that sleep on it: TaskSched.tla shows that  *)
(* the wake-ups of wake_all are not lost.  From one sleep to the next a    *)
(* thread keeps the CPU, so that each stretch is one step.                 *)
(***************************************************************************)
EXTENDS FiniteSets

CONSTANTS Threads, Signals,
          Ignored     \* Pauser::sig_mask

VARIABLES users,          \* the threads that use the pauser, which never change
          is_interrupted, \* of the pauser
          registered,     \* the threads in whose signal queues it is an observer
          filter,         \* the mask it was registered with
          pending,        \* the signal queue of each thread
          blocked,        \* the signal mask of each thread
          ready,          \* whether the condition of each thread holds
          pc              \* "user", "asleep" or "woken"

vars == <<users, is_interrupted, registered, filter, pending, blocked, ready, pc>>

Init == /\ users \in SUBSET Threads \ {{}}
        /\ is_interrupted = FALSE
        /\ registered = {} /\ filter = [t \in Threads |-> {}]
        /\ pending = [t \in Threads |-> {}] /\ blocked = [t \in Threads |-> {}]
        /\ ready = [t \in Threads |-> FALSE]
        /\ pc = [t \in Threads |-> "user"]

(* WaitQueue::wake_all.                                                    *)
WakeAll == pc' = [t \in Threads |-> IF pc[t] = "asleep" THEN "woken" ELSE pc[t]]

(* The condition as wait_until evaluates it; when it fails the thread      *)
(* sleeps (again).  The observer is unregistered on the way out.  (What    *)
(* the pause returns, Ok, EINTR or ETIME, is not kept.)                    *)
Evaluate(t, interrupted, regs) ==
  IF ready[t] \/ interrupted
  THEN /\ pc' = [pc EXCEPT ![t] = "user"]
       /\ ready' = [ready EXCEPT ![t] = FALSE]
       /\ registered' = regs \ {t}
  ELSE /\ pc' = [pc EXCEPT ![t] = "asleep"]
       /\ registered' = regs
       /\ UNCHANGED ready

(* Mutant: no second look at the queue after the observer is registered.   *)
DoPauseNoRecheck(t) ==
  /\ pc[t] = "user"
  /\ filter' = [filter EXCEPT ![t] = blocked[t] \cup Ignored]
  /\ is_interrupted' = FALSE
  /\ Evaluate(t, is_interrupted', registered \cup {t})
  /\ UNCHANGED <<pending, blocked>>

DoPause(t) ==
  /\ pc[t] = "user"
  /\ filter' = [filter EXCEPT ![t] = blocked[t] \cup Ignored]
  /\ is_interrupted' = (pending[t] # {})
  /\ Evaluate(t, is_interrupted', registered \cup {t})
  /\ UNCHANGED <<pending, blocked>>

(* A woken thread is scheduled.                                            *)
Woken(t) ==
  /\ pc[t] = "woken"
  /\ Evaluate(t, is_interrupted, registered)
  /\ UNCHANGED <<is_interrupted, filter, pending, blocked>>

(* The time is up: the thread leaves, and the observer stays registered.   *)
Timeout(t) ==
  /\ pc[t] = "asleep"
  /\ pc' = [pc EXCEPT ![t] = "user"]
  /\ UNCHANGED <<is_interrupted, registered, filter, pending, blocked, ready>>

(* SigQueues::enqueue and Pauser::on_events.                               *)
Signal(t, s) ==
  /\ s \notin pending[t]
  /\ pending' = [pending EXCEPT ![t] = @ \cup {s}]
  /\ IF t \in registered /\ s \notin filter[t] THEN is_interrupted' = TRUE /\ WakeAll
     ELSE UNCHANGED <<is_interrupted, pc>>
  /\ UNCHANGED <<registered, filter, blocked, ready>>

(* What the thread waits for happens (a child exits, the foreground group  *)
(* changes), and resume_all is called.                                     *)
Resume(t) ==
  /\ ~ready[t]
  /\ ready' = [ready EXCEPT ![t] = TRUE]
  /\ WakeAll
  /\ UNCHANGED <<is_interrupted, registered, filter, pending, blocked>>

(* In user mode a thread is delivered a signal, or changes its mask.       *)
Deliver(t) ==
  /\ pc[t] = "user"
  /\ \E s \in pending[t] \ blocked[t] : pending' = [pending EXCEPT ![t] = @ \ {s}]
  /\ UNCHANGED <<is_interrupted, registered, filter, blocked, ready, pc>>

SetMask(t, m) ==
  /\ pc[t] = "user"
  /\ blocked' = [blocked EXCEPT ![t] = m]
  /\ UNCHANGED <<is_interrupted, registered, filter, pending, ready, pc>>

Next == /\ \E t \in users :
             \/ DoPause(t) \/ Woken(t) \/ Timeout(t) \/ Resume(t) \/ Deliver(t)
             \/ \E s \in Signals : Signal(t, s)
             \/ \E m \in SUBSET Signals : SetMask(t, m)
        /\ UNCHANGED users

Spec == Init /\ [][Next]_vars

-----------------------------------------------------------------------------
(* No thread sleeps on while its condition holds.                          *)
NoMissedCondition == \A t \in Threads : pc[t] = "asleep" => ~ready[t]

(* The doc of Pauser: if a paused thread receives a signal, it resumes its *)
(* execution.  A signal that its filter lets through does not leave it     *)
(* asleep, if it is the only user.  (A second user that calls pause erases *)
(* the interruption of the first.)                                         *)
SignalResumes ==
  \A t \in users :
    users = {t} /\ pc[t] = "asleep" => pending[t] \subseteq blocked[t] \cup Ignored
=============================================================================
