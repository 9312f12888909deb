----------------------------- MODULE MCProgress -----------------------------
(* What must eventually happen: the mutex, the pauser, the work queue and  *)
(* signals. A behaviour exercises one part, chosen in MCInit; the          *)
(* variables of the others are absent (0) or stay as they are.             *)
EXTENDS Mutex

(* Parts are those that the run exercises.                                 *)
CONSTANTS Parts, SignalEnvs

VARIABLES which, pa_users, pa_is_interrupted, pa_registered, pa_filter,
          pa_pending, pa_blocked, pa_ready, pa_pc, wq_was_pending,
          wq_pending_work_items, wq_worker, wq_idle_wait_queue, wq_woken,
          wq_heartbeat, wq_asked, sg_env, sg_sig_mask, sg_std_queues,
          sg_rt_queues, sg_count, sg_sig_context, sg_handler_counter,
          sg_sig_dispositions, sg_status, sg_zombie, sg_pc, sg_cpu,
          sg_serial, sg_taken

(* The function of work item "a" waits for "b".                            *)
WorkNeeds == [i \in {"a", "b"} |-> IF i = "a" THEN {"b"} ELSE {}]

(* A thread with handlers that nest, a standard and a real-time signal;    *)
(* two threads that stop, continue and are killed.                         *)
MCEnvs ==
  {[threads |-> 1, sent |-> {"USR1", "RT"}, handled |-> {"USR1", "RT"},
    handlers |-> {{}, {"USR1"}}, masks |-> {{"USR1", "RT"}},
    hows |-> {"SetMask"}],
   [threads |-> 2, sent |-> {"KILL", "STOP", "CONT"}, handled |-> {},
    handlers |-> {}, masks |-> {{"STOP"}}, hows |-> {"Block", "Unblock"}],
   [threads |-> 2, sent |-> {"KILL", "USR1"}, handled |-> {"USR1"},
    handlers |-> {}, masks |-> {{"USR1"}}, hows |-> {"Block", "Unblock"}]}

(* Handlers of two signals that block a third one.                         *)
MCNested ==
  {[threads |-> 1, sent |-> {"USR1", "CONT"}, handled |-> {"USR1", "CONT"},
    handlers |-> {{"RT"}}, masks |-> {}, hows |-> {}]}

PA == INSTANCE Pauser WITH Threads <- {"p1", "p2"},
        Signals <- {"usr", "chld"}, Ignored <- {"chld"}, users <- pa_users,
        is_interrupted <- pa_is_interrupted, registered <- pa_registered,
        filter <- pa_filter, pending <- pa_pending, blocked <- pa_blocked,
        ready <- pa_ready, pc <- pa_pc
pauserVars == <<pa_users, pa_is_interrupted, pa_registered, pa_filter,
                pa_pending, pa_blocked, pa_ready, pa_pc>>
WQ == INSTANCE WorkQueue WITH Items <- {"a", "b"}, Needs <- WorkNeeds,
        WORKER_LIMIT <- 3, was_pending <- wq_was_pending,
        pending_work_items <- wq_pending_work_items, worker <- wq_worker,
        idle_wait_queue <- wq_idle_wait_queue, woken <- wq_woken,
        heartbeat <- wq_heartbeat, asked <- wq_asked
workVars == <<wq_was_pending, wq_pending_work_items, wq_worker,
              wq_idle_wait_queue, wq_woken, wq_heartbeat, wq_asked>>
SG == INSTANCE Signals WITH N <- 2, Envs <- SignalEnvs, MaxFrames <- 2,
        MaxSerial <- 2, env <- sg_env, sig_mask <- sg_sig_mask,
        std_queues <- sg_std_queues, rt_queues <- sg_rt_queues,
        count <- sg_count, sig_context <- sg_sig_context,
        handler_counter <- sg_handler_counter,
        sig_dispositions <- sg_sig_dispositions, status <- sg_status,
        zombie <- sg_zombie, pc <- sg_pc, cpu <- sg_cpu, serial <- sg_serial,
        taken <- sg_taken
signalsVars == <<sg_env, sg_sig_mask, sg_std_queues, sg_rt_queues, sg_count,
                 sg_sig_context, sg_handler_counter, sg_sig_dispositions,
                 sg_status, sg_zombie, sg_pc, sg_cpu, sg_serial, sg_taken>>

allVars == <<which, vars, pauserVars, workVars, signalsVars>>

OnlyMutex == UNCHANGED <<which, pauserVars, workVars, signalsVars>>
OnlyWork == UNCHANGED <<which, vars, pauserVars, signalsVars>>

MCInit ==
  /\ which \in Parts
  /\ Init
  /\ IF which = "pauser" THEN PA!Init
     ELSE pa_users = 0 /\ pa_is_interrupted = 0 /\ pa_registered = 0 /\
          pa_filter = 0 /\ pa_pending = 0 /\ pa_blocked = 0 /\ pa_ready = 0 /\
          pa_pc = 0
  /\ IF which = "work" THEN WQ!WQInit
     ELSE wq_was_pending = 0 /\ wq_pending_work_items = 0 /\ wq_worker = 0 /\
          wq_idle_wait_queue = 0 /\ wq_woken = 0 /\ wq_heartbeat = 0 /\
          wq_asked = 0
  /\ IF which = "signals" THEN SG!Init
     ELSE sg_env = 0 /\ sg_sig_mask = 0 /\ sg_std_queues = 0 /\ sg_rt_queues =
          0 /\ sg_count = 0 /\ sg_sig_context = 0 /\ sg_handler_counter = 0 /\
          sg_sig_dispositions = 0 /\ sg_status = 0 /\ sg_zombie = 0 /\ sg_pc =
          0 /\ sg_cpu = 0 /\ sg_serial = 0 /\ sg_taken = 0

MCNext ==
  /\ UNCHANGED which
  /\ \/ which = "mutex" /\ Next /\ UNCHANGED <<pauserVars, workVars,
           signalsVars>>
     \/ which = "pauser" /\ PA!Next /\ UNCHANGED <<vars, workVars,
           signalsVars>>
     \/ which = "work" /\ WQ!WQNext /\ UNCHANGED <<vars, pauserVars,
           signalsVars>>
     \/ which = "signals" /\ SG!Next /\ UNCHANGED <<vars, pauserVars,
           workVars>>

MCSpec == /\ MCInit /\ [][MCNext]_allVars
          /\ \A t \in Threads : WF_allVars(which = "mutex" /\ Running(t) /\ OnlyMutex)
          /\ WF_allVars(which = "work" /\ WQ!run_monitor_loop /\ OnlyWork)
          /\ \A w \in 1 .. 3 : WF_allVars(which = "work" /\ WQ!run_worker_loop(w) /\ OnlyWork)

(* A paused thread misses neither its condition nor a signal, and the      *)
(* counters of pending signals and of handlers on the alternate stack are  *)
(* true.                                                                   *)
PausesSound == /\ which = "pauser" => PA!NoMissedCondition /\ PA!SignalResumes
               /\ which = "signals" => SG!CountIsTrue /\ SG!CounterIsTrue

(* The function of every submitted work item starts after the submission.  *)
SubmittedRuns ==
  \A i \in {"a", "b"} :
    (which = "work" /\ wq_asked[i]) ~> (which = "work" => ~wq_asked[i])

(* Real-time signals are delivered in the order they were sent, and a      *)
(* thread that was sent SIGKILL ends unless it takes no further step.      *)
RealTimeOrder == [][which = "signals" => SG!InOrder]_allVars
KillIsUrgent ==
  \A t \in 1 .. 2 :
    \/ (which = "signals" /\ SG!Killed(t)) ~> (which = "signals" => SG!Ended(t))
    \/ <>[][which = "signals" => ~SG!Runs(t)]_allVars

(* The comment in handle_user_signal: the signals in the mask of a handler *)
(* are blocked while it runs.                                              *)
HandlerMaskHolds == which = "signals" => SG!HandlerMaskHolds
=============================================================================
