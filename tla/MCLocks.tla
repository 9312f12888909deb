------------------------------ MODULE MCLocks -------------------------------
(* The spinning and the sleeping reader-writer lock, the futex, and the    *)
(* guards that locks, interrupts and preemption make. A behaviour          *)
(* exercises one part, chosen in MCInit; the variables of the others are   *)
(* absent (0) or stay as they are.                                         *)
EXTENDS RwLock, Guards, TLC

(* Parts are those that the run exercises.                                 *)
CONSTANTS Parts, MutexThreads

VARIABLES which, rm_waiters, rm_woken, rm_lock, rm_pc, rm_kind, rm_mode,
          fx_val, fx_queue, fx_is_woken, fx_expected, fx_pc

(* Two of the three words share a bucket.                                  *)
FutexBucket == [a \in 1 .. 3 |-> a \div 3]

RM == INSTANCE RwMutex WITH Threads <- MutexThreads, waiters <- rm_waiters,
        woken <- rm_woken, lock <- rm_lock, pc <- rm_pc, kind <- rm_kind,
        mode <- rm_mode
rwmutexVars == <<rm_waiters, rm_woken, rm_lock, rm_pc, rm_kind, rm_mode>>
FX == INSTANCE Futex WITH Threads <- {"f1", "f2", "f3"}, Addrs <- 1 .. 3,
        Bits <- {0, 1}, Bucket <- FutexBucket, Child <- "f1", ctid <- 1,
        val <- fx_val, queue <- fx_queue, is_woken <- fx_is_woken,
        expected <- fx_expected, pc <- fx_pc
futexVars == <<fx_val, fx_queue, fx_is_woken, fx_expected, fx_pc>>

allVars == <<which, vars, rwmutexVars, futexVars, gvars>>

MCInit ==
  /\ which \in Parts
  /\ Init /\ GInit
  /\ IF which = "rwmutex" THEN RM!Init
     ELSE rm_waiters = 0 /\ rm_woken = 0 /\ rm_lock = 0 /\ rm_pc = 0 /\
          rm_kind = 0 /\ rm_mode = 0
  /\ IF which = "futex" THEN FX!Init
     ELSE fx_val = 0 /\ fx_queue = 0 /\ fx_is_woken = 0 /\ fx_expected = 0 /\
          fx_pc = 0

MCNext ==
  /\ UNCHANGED which
  /\ \/ which = "rwlock" /\ Next /\ UNCHANGED <<rwmutexVars, futexVars, gvars>>
     \/ which = "rwmutex" /\ RM!Next /\ UNCHANGED <<vars, futexVars, gvars>>
     \/ which = "futex" /\ FX!Next /\ UNCHANGED <<vars, rwmutexVars, gvars>>
     \/ which = "guards" /\ GNext /\ UNCHANGED <<vars, rwmutexVars, futexVars>>

MCSpec == MCInit /\ [][MCNext]_allVars

Symmetry == Permutations(MutexThreads)

(* The sleeping lock does what an abstract reader-writer lock does.        *)
MutexImplementsRwSpec ==
  /\ which = "rwmutex" => RM!Abstract!Init
  /\ [][which = "rwmutex" => [RM!Abstract!Next]_(RM!holds)]_allVars

(* The word of the sleeping lock is the sum of its holders and no reader   *)
(* is forgotten; who waits on a futex is queued, and no wake is lost.      *)
SleepersSound == /\ which = "rwmutex" => /\ RM!TypeOK /\ RM!WordIsSumOfHolders
                                        /\ RM!RefusedRemembered /\ RM!ReaderNotForgotten
                 /\ which = "futex" => FX!WaiterIsQueued /\ FX!NoLostWake
=============================================================================
