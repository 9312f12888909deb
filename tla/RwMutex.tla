------------------------------ MODULE RwMutex ------------------------------
(***************************************************************************)
(* The sleeping reader-writer mutex of aster-frame (sync/rwmutex.rs): the  *)
(* word of RwLock and a wait queue.  Each atomic access to the word and    *)
(* each queue operation is one step.                                       *)
(*                                                                         *)
(* A thread calls read, write, upread (wait_until of the attempt) or one   *)
(* of the try_ operations.  kind is the guard it asked for or holds; mode  *)
(* tells whether it gives up when refused ("try"), has not enqueued a      *)
(* waiter yet ("first"), or has ("queued").                                *)
(***************************************************************************)
EXTENDS RwWord, WaitQueue, FiniteSets

VARIABLES lock, pc, kind, mode

vars == <<waiters, woken, lock, pc, kind, mode>>

PCs == {"idle", "attempt", "undo", "enqueue", "sleep", "dequeue", "held",
        "upgrading", "upgraded", "wake_one", "wake_all"}
Kinds == {"read", "write", "upread"}

Init == /\ WaitInit
        /\ lock = 0
        /\ pc = [t \in Threads |-> "idle"]
        /\ kind = [t \in Threads |-> "read"]
        /\ mode = [t \in Threads |-> "try"]

Goto(t, l) == pc' = [pc EXCEPT ![t] = l]

(* Where an attempt leads: to a guard, after leaving the queue if need be; *)
(* or back to the caller, into the queue, to sleep.                        *)
Granted(t) == IF mode[t] = "queued" THEN "dequeue" ELSE "held"
Refused(t) == CASE mode[t] = "try"    -> "idle"
                [] mode[t] = "first"  -> "enqueue"
                [] mode[t] = "queued" -> "sleep"

-----------------------------------------------------------------------------
Call(t, k, m) ==
  /\ pc[t] = "idle"
  /\ kind' = [kind EXCEPT ![t] = k]
  /\ mode' = [mode EXCEPT ![t] = m]
  /\ Goto(t, "attempt")
  /\ UNCHANGED <<waiters, woken, lock>>

Attempting(t, k) == /\ pc[t] = "attempt" /\ kind[t] = k
                    /\ UNCHANGED <<waiters, woken, kind, mode>>

TryRead(t) ==
  /\ Attempting(t, "read")
  /\ lock' = FetchAdd(lock, READER)
  /\ Goto(t, IF RefusesReader(lock) THEN "undo" ELSE Granted(t))

TryWrite(t) ==
  /\ Attempting(t, "write")
  /\ lock' = IF lock = 0 THEN WRITER ELSE lock
  /\ Goto(t, IF lock = 0 THEN Granted(t) ELSE Refused(t))

(* Mutant: the bit is set although a writer is there.                      *)
TryUpreadIgnoresWriter(t) ==
  /\ Attempting(t, "upread")
  /\ lock' = FetchOrUpgradeable(lock)
  /\ Goto(t, IF HasUpgradeable(lock) THEN Refused(t) ELSE Granted(t))

TryUpread(t) ==
  /\ Attempting(t, "upread")
  /\ lock' = FetchOrUpgradeable(lock)
  /\ Goto(t, IF HasUpgradeable(lock) THEN Refused(t)
             ELSE IF HasWriter(lock) THEN "undo" ELSE Granted(t))

(* try_read and try_upread, the refused case.                              *)
TryUndo(t) ==
  /\ pc[t] = "undo"
  /\ lock' = FetchSub(lock, IF kind[t] = "read" THEN READER
                            ELSE UPGRADEABLE_READER)
  /\ Goto(t, Refused(t))
  /\ UNCHANGED <<waiters, woken, kind, mode>>

WaitEnqueue(t) ==
  /\ pc[t] = "enqueue"
  /\ Enqueue(t)
  /\ mode' = [mode EXCEPT ![t] = "queued"]
  /\ Goto(t, "attempt")
  /\ UNCHANGED <<lock, kind>>

WaitWoken(t) ==
  /\ pc[t] = "sleep"
  /\ LeaveWait(t)
  /\ Goto(t, "attempt")
  /\ UNCHANGED <<lock, kind, mode>>

WaitDequeue(t) ==
  /\ pc[t] = "dequeue"
  /\ Dequeue(t)
  /\ Goto(t, "held")
  /\ UNCHANGED <<lock, kind, mode>>

(* The drops: change the word, then wake if the old word says so.          *)
DropReadGuard(t) ==
  /\ pc[t] = "held" /\ kind[t] = "read"
  /\ lock' = FetchSub(lock, READER)
  /\ Goto(t, IF lock = READER THEN "wake_one" ELSE "idle")
  /\ UNCHANGED <<waiters, woken, kind, mode>>

DropWriteGuard(t) ==
  /\ pc[t] = "held" /\ kind[t] = "write"
  /\ lock' = FetchAndNotWriter(lock)
  /\ Goto(t, "wake_all")
  /\ UNCHANGED <<waiters, woken, kind, mode>>

(* RwMutexUpgradeableGuard::drop, on its own and at the end of an upgrade. *)
DropUpgradeableGuard(t) ==
  /\ \/ pc[t] = "held" /\ kind[t] = "upread"
     \/ pc[t] = "upgraded"
  /\ lock' = FetchSub(lock, UPGRADEABLE_READER)
  /\ Goto(t, IF pc[t] = "upgraded" THEN "held"
             ELSE IF lock = 0 THEN "wake_all" ELSE "idle")
  /\ UNCHANGED <<waiters, woken, kind, mode>>

DropWake(t) ==
  /\ \/ pc[t] = "wake_one" /\ WakeOne
     \/ pc[t] = "wake_all" /\ WakeAll
  /\ Goto(t, "idle")
  /\ UNCHANGED <<lock, kind, mode>>

(* upgrade spins on try_upgrade and never sleeps.                          *)
Upgrade(t) ==
  /\ pc[t] = "held" /\ kind[t] = "upread"
  /\ lock' = FetchOrBeingUpgraded(lock)
  /\ Goto(t, "upgrading")
  /\ UNCHANGED <<waiters, woken, kind, mode>>

TryUpgrade(t) ==
  /\ \/ pc[t] = "upgrading"
     \/ pc[t] = "held" /\ kind[t] = "upread"
  /\ lock = UPGRADEABLE_READER + BEING_UPGRADED
  /\ lock' = WRITER + UPGRADEABLE_READER
  /\ kind' = [kind EXCEPT ![t] = "write"]
  /\ Goto(t, "upgraded")
  /\ UNCHANGED <<waiters, woken, mode>>

Continue(t) == \/ TryRead(t) \/ TryWrite(t) \/ TryUpread(t) \/ TryUndo(t)
               \/ WaitEnqueue(t) \/ WaitWoken(t) \/ WaitDequeue(t)
               \/ DropReadGuard(t) \/ DropWriteGuard(t)
               \/ DropUpgradeableGuard(t) \/ DropWake(t)
               \/ TryUpgrade(t)

Next == \E t \in Threads : \/ \E k \in Kinds, m \in {"try", "first"} : Call(t, k, m)
                           \/ Upgrade(t)
                           \/ Continue(t)

Spec == Init /\ [][Next]_vars

(* Threads run, and guards are dropped in the end.  Nobody has to call.    *)
FairSpec == Spec /\ \A t \in Threads : WF_vars(Continue(t))

-----------------------------------------------------------------------------
(* The types, what a thread may be there for, and that the queue holds     *)
(* the threads between enqueue and dequeue.                                *)
TypeOK ==
  /\ WaitTypeOK
  /\ pc \in [Threads -> PCs]
  /\ kind \in [Threads -> Kinds]
  /\ mode \in [Threads -> {"try", "first", "queued"}]
  /\ \A t \in Threads :
       /\ pc[t] = "undo" => kind[t] # "write"
       /\ pc[t] = "upgrading" => kind[t] = "upread"
       /\ pc[t] = "upgraded" => kind[t] = "write"
       /\ pc[t] = "enqueue" => mode[t] = "first"
       /\ pc[t] \in {"sleep", "dequeue"} => mode[t] = "queued"
       /\ t \in Queued <=> /\ mode[t] = "queued"
                           /\ pc[t] \in {"attempt", "undo", "sleep", "dequeue"}

holds == [t \in Threads |->
            IF pc[t] \in {"held", "dequeue", "upgrading", "upgraded"}
              THEN kind[t] ELSE "none"]

(* The mutex implements the same reader-writer lock as the spinning one.   *)
Abstract == INSTANCE RwSpec WITH holds <- holds
ImplementsRwSpec == Abstract!Spec

Announced(k) == {t \in Threads : /\ kind[t] = k
                                 /\ pc[t] \in {"held", "dequeue", "undo"}}
Bit(S, b) == IF S # {} THEN b ELSE 0

(* The word is the sum of what the guards and the attempts under way have  *)
(* put there: nothing is left when the last guard is dropped.              *)
WordIsSumOfHolders ==
  LET upgrading == {t \in Threads : pc[t] = "upgrading"}
      upgraded  == {t \in Threads : pc[t] = "upgraded"}
  IN  lock = Cardinality(Announced("read"))
             + Bit(upgrading, BEING_UPGRADED)
             + Bit(Announced("upread") \cup upgrading \cup upgraded,
                   UPGRADEABLE_READER)
             + Bit(Announced("write") \cup upgraded, WRITER)

Asleep(t, k) == pc[t] = "sleep" /\ kind[t] = k
Present(K) == \E t \in Threads : holds[t] \in K

(* rwmutex.rs on read: "The calling thread will sleep until there are no   *)
(* writers or upgrading upreaders present."  A reader that sleeps and was  *)
(* not woken has such a thread, or one that is about to wake all, in front *)
(* of it (as long as the number of readers is below its limit).            *)
ReaderNotForgotten ==
  \A t \in Threads :
    Asleep(t, "read") /\ ~woken[t] =>
      Present({"write"}) \/ \E u \in Threads : pc[u] \in {"upgrading", "wake_all"}

(* A reader that was refused and that nobody has woken since.              *)
Forgotten(t) == /\ kind[t] = "read" /\ mode[t] = "queued"
                /\ pc[t] \in {"undo", "sleep"} /\ ~woken[t]
Remembers(u) == holds[u] = "write" \/ pc[u] \in {"upgrading", "wake_all"}

(* ReaderNotForgotten speaks of a reader that sleeps already; that it      *)
(* holds then is decided when the attempt is refused.                      *)
RefusedRemembered ==
  (\E t \in Threads : Forgotten(t)) => \E u \in Threads : Remembers(u)

(* rwmutex.rs on upread: "The calling thread will sleep until there are no *)
(* writers or upreaders present."                                          *)
UpreaderNotForgotten ==
  \A t \in Threads :
    <>[]Asleep(t, "upread") => []<>Present({"write", "upread"})
=============================================================================
