------------------------------ MODULE Signals ------------------------------
(***************************************************************************)
(* Signals of one process (process/signal, process/kill.rs, the signal     *)
(* system calls) and the loop in which each of its threads alternates      *)
(* between user mode and the kernel (thread/task.rs).                      *)
(*                                                                         *)
(* The kernel is not preempted: from a trap to the end of the loop body a  *)
(* thread keeps the CPU, and gives it up only in yield_now and preempt.    *)
(* Threads are numbered in the order of Process::threads; 1 is the main    *)
(* thread.  "KILL", "USR1", "STOP" and "CONT" stand for the standard       *)
(* signals of each default action, "RT" for a real-time signal; instances  *)
(* of "RT" are numbered in the order they are sent.                        *)
(***************************************************************************)
EXTENDS Integers, Sequences, FiniteSets

CONSTANTS N,            \* the number of threads
          Envs,         \* the processes: see env
          MaxFrames,    \* bound on the nesting of handlers
          MaxSerial     \* bound on the instances of "RT"

(* Of an environment, threads: how many threads have not exited; sent: the *)
(* signals that are sent; handled, handlers: the signals whose disposition *)
(* is changed, and the masks of handlers; masks, hows: the arguments of    *)
(* sigprocmask.                                                            *)
Signals == {"KILL", "STOP", "CONT", "USR1", "RT"}

Tids == 1 .. N
Std == Signals \ {"RT"}

VARIABLES env,              \* what the process does, which never changes
          sig_mask, std_queues, rt_queues, count,
          sig_context,      \* the frames of the handlers that run, innermost last
          handler_counter,  \* of the alternate stack, -1 when there is none
          sig_dispositions, \* the SigAction of each signal
          status,           \* ThreadStatus
          zombie,           \* the status of the process
          pc,               \* where each thread is in its loop
          cpu,              \* the thread that runs, 0 when it is another process
          serial,           \* the number of "RT" instances sent
          taken             \* the last instance of "RT" each thread has dequeued

queues == <<std_queues, rt_queues, count, serial, taken>>
handlers == <<sig_context, handler_counter>>
vars == <<env, sig_mask, queues, handlers, sig_dispositions, status, zombie, pc, cpu>>

(* SigAction::Dfl, Ign and User.                                           *)
Action(kind) == [kind |-> kind, mask |-> {}]
User(mask) == [kind |-> "User", mask |-> mask]

Frame == [mask : SUBSET Signals, onstack : BOOLEAN]

TypeOK ==
  /\ env \in Envs
  /\ sig_mask \in [Tids -> SUBSET Signals]
  /\ std_queues \in [Tids -> SUBSET Std]
  /\ \A t \in Tids : rt_queues[t] \in Seq(1 .. MaxSerial)
  /\ count \in [Tids -> Nat]
  /\ \A t \in Tids : sig_context[t] \in Seq(Frame) /\ Len(sig_context[t]) <= MaxFrames
  /\ handler_counter \in [Tids -> -1 .. MaxFrames]
  /\ sig_dispositions \in [Signals -> [kind : {"Dfl", "Ign", "User"}, mask : SUBSET Signals]]
  /\ status \in [Tids -> {"Running", "Stopped", "Exited"}]
  /\ zombie \in BOOLEAN
  /\ pc \in [Tids -> {"user", "return", "stopped", "preempt", "gone"}]
  /\ cpu \in 0 .. N
  /\ serial \in 0 .. MaxSerial /\ taken \in [Tids -> 0 .. MaxSerial]

Init == /\ env \in Envs
        /\ sig_mask = [t \in Tids |-> {}]
        /\ std_queues = [t \in Tids |-> {}] /\ rt_queues = [t \in Tids |-> <<>>]
        /\ count = [t \in Tids |-> 0]
        /\ sig_context = [t \in Tids |-> <<>>]
        /\ handler_counter = [t \in Tids |-> -1]
        /\ sig_dispositions = [s \in Signals |-> Action("Dfl")]
        /\ status = [t \in Tids |-> IF t <= env.threads THEN "Running" ELSE "Exited"]
        /\ pc = [t \in Tids |-> IF t <= env.threads THEN "preempt" ELSE "gone"]
        /\ zombie = FALSE /\ cpu = 0
        /\ serial = 0 /\ taken = [t \in Tids |-> 0]

-----------------------------------------------------------------------------
(* SigQueues::enqueue.                                                     *)

(* Mutant: push_front for a real-time signal.                              *)
EnqueueAtFront(t, s) ==
  IF s \in Std
  THEN /\ std_queues' = [std_queues EXCEPT ![t] = @ \cup {s}]
       /\ count' = [count EXCEPT ![t] = IF s \in std_queues[t] THEN @ ELSE @ + 1]
       /\ UNCHANGED <<rt_queues, serial, taken>>
  ELSE /\ serial < MaxSerial /\ serial' = serial + 1
       /\ rt_queues' = [rt_queues EXCEPT ![t] = <<serial'>> \o @]
       /\ count' = [count EXCEPT ![t] = @ + 1]
       /\ UNCHANGED <<std_queues, taken>>

Enqueue(t, s) ==
  IF s \in Std
  THEN /\ std_queues' = [std_queues EXCEPT ![t] = @ \cup {s}]
       /\ count' = [count EXCEPT ![t] = IF s \in std_queues[t] THEN @ ELSE @ + 1]
       /\ UNCHANGED <<rt_queues, serial, taken>>
  ELSE /\ serial < MaxSerial /\ serial' = serial + 1
       /\ rt_queues' = [rt_queues EXCEPT ![t] = Append(@, serial')]
       /\ count' = [count EXCEPT ![t] = @ + 1]
       /\ UNCHANGED <<std_queues, taken>>

(* The thread that gets a signal of the process: the first that does not   *)
(* block it, or else the first.  Exited threads stay in the list.          *)
Receiver(s) ==
  LET open == {t \in Tids : s \notin sig_mask[t]}
  IN  IF open = {} THEN 1 ELSE CHOOSE t \in open : \A u \in open : t <= u

(* SigQueues::dequeue: what it would take, "none" if nothing.              *)
ORDERED_SIGS == <<"KILL", "STOP", "CONT", "USR1", "RT">>

Deliverable(t) ==
  {s \in Signals \ sig_mask[t] : s \in std_queues[t] \/ (s = "RT" /\ rt_queues[t] # <<>>)}

(* Mutant: the least urgent signal first.                                  *)
PendingLast(t) ==
  IF count[t] = 0 \/ Deliverable(t) = {} THEN "none"
  ELSE LET last == CHOOSE i \in 1 .. 5 : /\ ORDERED_SIGS[i] \in Deliverable(t)
                                         /\ \A j \in i + 1 .. 5 : ORDERED_SIGS[j] \notin Deliverable(t)
       IN  ORDERED_SIGS[last]

Pending(t) ==
  IF count[t] = 0 \/ Deliverable(t) = {} THEN "none"
  ELSE LET first == CHOOSE i \in 1 .. 5 : /\ ORDERED_SIGS[i] \in Deliverable(t)
                                          /\ \A j \in 1 .. i - 1 : ORDERED_SIGS[j] \notin Deliverable(t)
       IN  ORDERED_SIGS[first]

Dequeue(t) ==
  LET s == Pending(t) IN
  CASE s = "none" -> UNCHANGED queues
    [] s = "RT"   -> /\ rt_queues' = [rt_queues EXCEPT ![t] = Tail(@)]
                     /\ taken' = [taken EXCEPT ![t] = Head(rt_queues[t])]
                     /\ count' = [count EXCEPT ![t] = @ - 1]
                     /\ UNCHANGED <<std_queues, serial>>
    [] OTHER      -> /\ std_queues' = [std_queues EXCEPT ![t] = @ \ {s}]
                     /\ count' = [count EXCEPT ![t] = @ - 1]
                     /\ UNCHANGED <<rt_queues, serial, taken>>

-----------------------------------------------------------------------------
(* System calls.  Each runs to its end and leads to the end of the loop.   *)
Syscall(t) == /\ cpu = t /\ pc[t] = "user"
              /\ pc' = [pc EXCEPT ![t] = "return"] /\ UNCHANGED cpu

(* kill of the own process and tgkill of one of its threads.               *)
Kill(t, s) == Syscall(t) /\ Enqueue(Receiver(s), s)
              /\ UNCHANGED <<sig_mask, handlers, sig_dispositions, status, zombie>>

Tgkill(t, u, s) ==
  /\ Syscall(t)
  /\ IF status[u] = "Exited" THEN UNCHANGED queues ELSE Enqueue(u, s)
  /\ UNCHANGED <<sig_mask, handlers, sig_dispositions, status, zombie>>

(* A signal from another process or the kernel.                            *)
EnqueueSignal(s) ==
  /\ cpu = 0 /\ ~zombie
  /\ Enqueue(Receiver(s), s)
  /\ UNCHANGED <<sig_mask, handlers, sig_dispositions, status, zombie, pc, cpu>>

Sigprocmask(t, how, set) ==
  /\ Syscall(t)
  /\ sig_mask' = [sig_mask EXCEPT ![t] =
                    CASE how = "Block"   -> @ \cup (set \ {"KILL", "STOP"})
                      [] how = "Unblock" -> @ \ set
                      [] how = "SetMask" -> set]
  /\ UNCHANGED <<queues, handlers, sig_dispositions, status, zombie>>

Sigaction(t, s, action) ==
  /\ Syscall(t)
  /\ sig_dispositions' = [sig_dispositions EXCEPT ![s] = action]
  /\ UNCHANGED <<sig_mask, queues, handlers, status, zombie>>

(* sigaltstack: a new stack, unless handlers run on the old one.           *)
Sigaltstack(t) ==
  /\ Syscall(t)
  /\ handler_counter' = [handler_counter EXCEPT ![t] = IF @ > 0 THEN @ ELSE 0]
  /\ UNCHANGED <<sig_mask, queues, sig_context, sig_dispositions, status, zombie>>

Innermost(t) == sig_context[t][Len(sig_context[t])]
OnStack(t) == sig_context[t] # <<>> /\ Innermost(t).onstack

Sigreturn(t) ==
  /\ Syscall(t) /\ sig_context[t] # <<>>
  /\ handler_counter' = [handler_counter EXCEPT ![t] = IF OnStack(t) THEN @ - 1 ELSE @]
  /\ sig_mask' = [sig_mask EXCEPT ![t] = @ \ Innermost(t).mask]
  /\ sig_context' = [sig_context EXCEPT ![t] = SubSeq(@, 1, Len(@) - 1)]
  /\ UNCHANGED <<queues, sig_dispositions, status, zombie>>

(* do_exit_group marks every thread.                                       *)
ExitGroup == zombie' = TRUE /\ status' = [t \in Tids |-> "Exited"]

(* exit: of the main thread, or of the last, ends the process.             *)
Exit(t) ==
  /\ Syscall(t)
  /\ IF t = 1 \/ \A u \in Tids \ {t} : status[u] = "Exited" THEN ExitGroup
     ELSE status' = [status EXCEPT ![t] = "Exited"] /\ UNCHANGED zombie
  /\ UNCHANGED <<sig_mask, queues, handlers, sig_dispositions>>

SysExitGroup(t) == Syscall(t) /\ ExitGroup
                   /\ UNCHANGED <<sig_mask, queues, handlers, sig_dispositions>>

-----------------------------------------------------------------------------
(* use_alternate_signal_stack.                                             *)
UseAltStack(t) ==
  handler_counter' = [handler_counter EXCEPT ![t] = IF @ = -1 THEN @ ELSE @ + 1]

(* handle_user_signal.                                                     *)
HandleUserSignal(t, s, action) ==
  LET mask == action.mask \cup {s} IN
  /\ Len(sig_context[t]) < MaxFrames
  /\ sig_mask' = [sig_mask EXCEPT ![t] = @ \cup mask]
  /\ UseAltStack(t)
  /\ sig_context' = [sig_context EXCEPT ![t] =
                       Append(@, [mask |-> mask,
                                  onstack |-> OnStack(t) \/ handler_counter[t] = 0])]
  /\ UNCHANGED <<status, zombie>>

(* handle_pending_signal.  It terminates the thread when Fatal.            *)
Fatal(t) == Pending(t) \in {"KILL", "USR1", "RT"} /\ sig_dispositions[Pending(t)].kind = "Dfl"

HandlePendingSignal(t) ==
  LET s == Pending(t)
      action == IF s = "none" THEN Action("Ign") ELSE sig_dispositions[s]
      quiet == UNCHANGED <<sig_mask, handlers>>
  IN  /\ Dequeue(t)
      /\ CASE action.kind = "Ign" -> quiet /\ UNCHANGED <<status, zombie>>
           [] Fatal(t)       -> quiet /\ (IF zombie THEN UNCHANGED <<status, zombie>> ELSE ExitGroup)
           [] action.kind = "Dfl" /\ s = "STOP" ->
                /\ status' = [status EXCEPT ![t] = IF @ = "Running" THEN "Stopped" ELSE @]
                /\ quiet /\ UNCHANGED zombie
           [] action.kind = "Dfl" /\ s = "CONT" ->
                /\ status' = [status EXCEPT ![t] = IF @ = "Stopped" THEN "Running" ELSE @]
                /\ quiet /\ UNCHANGED zombie
           [] OTHER -> HandleUserSignal(t, s, action)

(* The end of the loop body in user_task_entry.                            *)
Gone(t) == pc' = [pc EXCEPT ![t] = "gone"] /\ cpu' = 0

ReturnExited(t) ==
  /\ cpu = t /\ pc[t] = "return" /\ status[t] = "Exited"
  /\ Gone(t)
  /\ UNCHANGED <<sig_mask, queues, handlers, sig_dispositions, status, zombie>>

Return(t) ==
  /\ cpu = t /\ pc[t] = "return" /\ status[t] # "Exited"
  /\ HandlePendingSignal(t)
  /\ IF Fatal(t) THEN Gone(t)
     ELSE pc' = [pc EXCEPT ![t] = IF status'[t] = "Stopped" THEN "stopped" ELSE "preempt"]
          /\ cpu' = 0
  /\ UNCHANGED sig_dispositions

(* The loop of a stopped thread, after each yield.                         *)
Stopped(t) ==
  /\ cpu = 0 /\ pc[t] = "stopped"
  /\ HandlePendingSignal(t)
  /\ IF Fatal(t) THEN Gone(t)
     ELSE /\ pc' = [pc EXCEPT ![t] = IF status'[t] = "Stopped" THEN @ ELSE "preempt"]
          /\ UNCHANGED cpu
  /\ UNCHANGED sig_dispositions

(* Back to user mode, after the preemption point.                          *)
Resume(t) ==
  /\ cpu = 0 /\ pc[t] = "preempt"
  /\ pc' = [pc EXCEPT ![t] = "user"] /\ cpu' = t
  /\ UNCHANGED <<sig_mask, queues, handlers, sig_dispositions, status, zombie>>

(* A system call that has nothing to do with signals.                      *)
OtherSyscall(t) ==
  Syscall(t) /\ UNCHANGED <<sig_mask, queues, handlers, sig_dispositions, status, zombie>>

UserMode(t) ==
  \/ \E s \in env.sent : Kill(t, s) \/ \E u \in Tids : Tgkill(t, u, s)
  \/ \E how \in env.hows, set \in env.masks : Sigprocmask(t, how, set)
  \/ \E s \in env.handled :
       \E a \in {Action("Dfl"), Action("Ign")} \cup {User(m) : m \in env.handlers} : Sigaction(t, s, a)
  \/ Sigaltstack(t) \/ Sigreturn(t) \/ Exit(t) \/ SysExitGroup(t) \/ OtherSyscall(t)

Kernel(t) == ReturnExited(t) \/ Return(t) \/ Stopped(t) \/ Resume(t)

Next == /\ \/ \E t \in Tids : UserMode(t) \/ Kernel(t)
           \/ \E s \in env.sent : EnqueueSignal(s)
        /\ UNCHANGED env

Spec == Init /\ [][Next]_vars

-----------------------------------------------------------------------------
(* SigQueues.count is the number of pending signals: dequeue returns early *)
(* when it is 0, so a low count loses signals.                             *)
CountIsTrue ==
  \A t \in Tids : count[t] = Cardinality(std_queues[t]) + Len(rt_queues[t])

(* The counter of the alternate stack is the number of handlers on it:     *)
(* it never falls below zero, and the stack is replaced only when unused.  *)
CounterIsTrue ==
  \A t \in Tids :
    handler_counter[t] # -1 =>
      handler_counter[t] = Cardinality({i \in DOMAIN sig_context[t] : sig_context[t][i].onstack})

(* signal(7), quoted in dequeue: real-time signals are delivered in the    *)
(* order they were sent.                                                   *)
InOrder == \A t \in Tids : taken'[t] >= taken[t]
RealTimeOrder == [][InOrder]_vars

(* A thread that was sent SIGKILL and cannot catch, ignore or block it     *)
(* ends, however many other signals it is sent, unless it takes no further *)
(* step.  Nothing makes it take one: execute() goes on after an interrupt, *)
(* so that a program that computes is not brought back to the kernel, and  *)
(* preempt() gives the CPU to real-time tasks only.                        *)
Killed(t) == /\ "KILL" \in std_queues[t] /\ "KILL" \notin sig_mask[t]
             /\ sig_dispositions["KILL"].kind = "Dfl" /\ pc[t] # "gone"
Ended(t) == zombie \/ pc[t] = "gone"
Runs(t) == UserMode(t) \/ Kernel(t)
KillIsUrgent == \A t \in Tids : (Killed(t) ~> Ended(t)) \/ <>[][~Runs(t)]_vars

(* The comment in handle_user_signal: the signals in the mask of a handler *)
(* are blocked while it runs (here: with no other change of the mask).     *)
HandlerMaskHolds ==
  \A t \in Tids : \A i \in DOMAIN sig_context[t] : sig_context[t][i].mask \subseteq sig_mask[t]
=============================================================================
