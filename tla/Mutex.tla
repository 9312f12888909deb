------------------------------- MODULE Mutex -------------------------------
(***************************************************************************)
(* The sleeping mutex of aster-frame (sync/mutex.rs): a flag and a wait    *)
(* queue.  lock() is wait_until(try_lock): try, enqueue a waiter, try      *)
(* again, and sleep; try_lock alone is a first attempt that gives up.      *)
(* Each atomic access and each queue operation is one step.                *)
(***************************************************************************)
EXTENDS WaitQueue, SequenceTheorems, TLAPS

VARIABLES lock,    \* the AtomicBool
          pc

vars == <<waiters, woken, lock, pc>>

PCs == {"idle", "enqueue", "retry", "dequeue", "sleep", "locked", "wake"}

In(S) == {t \in Threads : pc[t] \in S}

TypeOK == /\ WaitTypeOK
          /\ lock \in BOOLEAN
          /\ pc \in [Threads -> PCs]

Init == /\ WaitInit
        /\ lock = FALSE
        /\ pc = [t \in Threads |-> "idle"]

Goto(t, l) == pc' = [pc EXCEPT ![t] = l]

-----------------------------------------------------------------------------
(* Mutant: the exchange does not look at the old value.                    *)
AcquireLockAlways(t, got, refused) ==
  /\ lock' = TRUE
  /\ Goto(t, got)
  /\ UNCHANGED waitVars

(* acquire_lock: compare_exchange(false, true).                            *)
AcquireLock(t, got, refused) ==
  /\ lock' = TRUE
  /\ Goto(t, IF lock THEN refused ELSE got)
  /\ UNCHANGED waitVars

TryLock(t) ==
  /\ pc[t] = "idle"
  /\ AcquireLock(t, "locked", "idle")

Lock(t) ==
  /\ pc[t] = "idle"
  /\ AcquireLock(t, "locked", "enqueue")

LockEnqueue(t) ==
  /\ pc[t] = "enqueue"
  /\ Enqueue(t)
  /\ Goto(t, "retry")
  /\ UNCHANGED lock

LockRetry(t) ==
  /\ pc[t] = "retry"
  /\ AcquireLock(t, "dequeue", "sleep")

LockDequeue(t) ==
  /\ pc[t] = "dequeue"
  /\ Dequeue(t)
  /\ Goto(t, "locked")
  /\ UNCHANGED lock

LockWoken(t) ==
  /\ pc[t] = "sleep"
  /\ LeaveWait(t)
  /\ Goto(t, "retry")
  /\ UNCHANGED lock

(* Mutant: the waiter is woken before the flag is cleared.                 *)
UnlockWakesFirst(t) ==
  /\ pc[t] = "locked"
  /\ \/ /\ woken' = [u \in Threads |->
                        woken[u] \/ (waiters # <<>> /\ u = waiters[1])]
        /\ lock' = lock
        /\ Goto(t, "locked")
     \/ /\ lock' = FALSE
        /\ woken' = woken
        /\ Goto(t, "idle")
  /\ UNCHANGED waiters

(* unlock, in the two steps of its body.                                   *)
UnlockRelease(t) ==
  /\ pc[t] = "locked"
  /\ lock' = FALSE
  /\ Goto(t, "wake")
  /\ UNCHANGED waitVars

(* Mutant: no waiter is woken.                                             *)
UnlockNoWake(t) ==
  /\ pc[t] = "wake"
  /\ Goto(t, "idle")
  /\ UNCHANGED <<waiters, woken, lock>>

UnlockWake(t) ==
  /\ pc[t] = "wake"
  /\ WakeOne
  /\ Goto(t, "idle")
  /\ UNCHANGED lock

Step(t) == \/ TryLock(t) \/ Lock(t) \/ LockEnqueue(t) \/ LockRetry(t)
           \/ LockDequeue(t) \/ LockWoken(t) \/ UnlockRelease(t)
           \/ UnlockWake(t)

Next == \E t \in Threads : Step(t)

Spec == Init /\ [][Next]_vars

(* A thread inside lock or unlock is scheduled again and again, and a      *)
(* critical section ends.  Nobody has to call lock.                        *)
Running(t) == pc[t] # "idle" /\ Step(t)
FairSpec == Spec /\ \A t \in Threads : WF_vars(Running(t))

-----------------------------------------------------------------------------
holds == [t \in Threads |->
            IF pc[t] \in {"dequeue", "locked"} THEN "write" ELSE "none"]

(* The mutex is a reader-writer lock of which only the write guard is      *)
(* used: one guard at a time, whatever the waiters do.                     *)
Abstract == INSTANCE RwSpec WITH holds <- holds
ImplementsRwSpec == Abstract!Spec

(* Asleep, and nobody has woken it.                                        *)
Asleep == {t \in In({"sleep"}) : ~woken[t]}

(* No lost wakeup: while the mutex is free and a thread sleeps on it,      *)
(* somebody is on the way to it: an unlock that has still to wake the      *)
(* front waiter, or a queued thread that is awake.  The waiters are in     *)
(* last-in-first-out order and a woken one stays queued, so the wake of    *)
(* one unlock may find its waiter already woken.                           *)
NoLostWakeup ==
  ~lock /\ Asleep # {} =>
     \/ In({"wake"}) # {}
     \/ \E t \in Queued : t \notin Asleep

(* The queue holds exactly the threads between enqueue and dequeue, woken  *)
(* or not: no entry is left behind that a later wake could be wasted on.   *)
QueuedWhileWaiting == Queued = In({"retry", "dequeue", "sleep"})

(* A thread sleeps for ever only on a mutex that is taken again and again. *)
NoEternalSleepOnFreeMutex ==
  \A t \in Threads : <>[](pc[t] = "sleep") => []<>lock

-----------------------------------------------------------------------------
(***************************************************************************)
(* Proofs, for every set of threads.                                       *)
(*                                                                         *)
(* NoLostWakeup speaks of the flag, the queue and the places of all the    *)
(* threads.  It becomes inductive together with the facts that the flag    *)
(* is set exactly while one thread owns the mutex, and that the queue      *)
(* holds exactly the threads between enqueue and dequeue: then a dequeue   *)
(* happens only under the flag, and an unlock that finds the queue         *)
(* non-empty leaves its front awake.                                       *)
(***************************************************************************)
Owners == In({"dequeue", "locked"})

Inv == /\ TypeOK
       /\ lock <=> Owners # {}
       /\ \A t, u \in Owners : t = u
       /\ QueuedWhileWaiting
       /\ NoLostWakeup

-----------------------------------------------------------------------------
Waiting == In({"retry", "dequeue", "sleep"})
Waking  == In({"wake"})
Sleepers == In({"sleep"})
Held    == lock = TRUE

(* What a thread that changes place does to the sets of threads.           *)
Moved(S, L, t, l) == IF l \in L THEN S \cup {t} ELSE S \ {t}

(* A leaf that names no prover is for Zenon.                               *)
USE ZenonT(30)

(* What the operations on the deque do to the set of queued threads.       *)
LEMMA PushFront ==
  ASSUME NEW s \in Seq(Threads), NoDuplicates(s), NEW t \in Threads,
         t \notin Elems(s)
  PROVE  /\ <<t>> \o s \in Seq(Threads)
         /\ NoDuplicates(<<t>> \o s)
         /\ Elems(<<t>> \o s) = Elems(s) \cup {t}
<1> USE DEF Elems
<1> DEFINE r == <<t>> \o s
<1>1. /\ r \in Seq(Threads) /\ Len(r) = Len(s) + 1 /\ Len(s) \in Nat
      /\ \A i \in 1 .. Len(r) : r[i] = IF i = 1 THEN t ELSE s[i - 1]
  BY SMTT(60)
<1>2. NoDuplicates(r)
  BY SMTT(60), <1>1 DEF NoDuplicates
<1>3. ASSUME NEW i \in 1 .. Len(r)
      PROVE  r[i] \in Elems(s) \cup {t}
  <2>1. CASE i = 1 BY <1>1, <2>1
  <2>2. CASE i # 1
    <3>1. i - 1 \in 1 .. Len(s) /\ r[i] = s[i - 1] BY SMTT(60), <1>1, <2>2
    <3>2. QED BY <3>1
  <2>3. QED BY <2>1, <2>2
<1>4. t = r[1] /\ 1 \in 1 .. Len(r) BY SMTT(60), <1>1
<1>5. ASSUME NEW i \in 1 .. Len(s) PROVE s[i] = r[i + 1] /\ i + 1 \in 1 .. Len(r)
  BY SMTT(60), <1>1
<1> HIDE DEF r
<1>6. Elems(r) = Elems(s) \cup {t}
  <2>1. Elems(r) \subseteq Elems(s) \cup {t}
    BY <1>3
  <2>2. Elems(s) \subseteq Elems(r)
    BY <1>5
  <2>3. t \in Elems(r) BY <1>4
  <2>4. QED BY <2>1, <2>2, <2>3
<1>7. QED BY <1>1, <1>2, <1>6 DEF r

(* Without takes one waiter out of a queue of different waiters.           *)
LEMMA RemoveOne ==
  ASSUME NEW s \in Seq(Threads), NoDuplicates(s), NEW t \in Threads,
         t \in Elems(s)
  PROVE  /\ Without(s, t) \in Seq(Threads)
         /\ NoDuplicates(Without(s, t))
         /\ Elems(Without(s, t)) = Elems(s) \ {t}
<1> USE DEF Elems
<1> DEFINE k == CHOOSE i \in 1 .. Len(s) : s[i] = t
           r == Without(s, t)
<1>1. k \in 1 .. Len(s) /\ s[k] = t
  OBVIOUS
<1> HIDE DEF k
<1>2. /\ Len(s) \in Nat /\ Len(s) >= 1
      /\ r = [i \in 1 .. Len(s) - 1 |-> IF i < k THEN s[i] ELSE s[i + 1]]
  BY SMTT(60), <1>1 DEF Without, k
<1> HIDE DEF r
<1>3. ASSUME NEW i \in 1 .. Len(s) - 1
      PROVE  /\ i < k => r[i] = s[i] /\ i \in 1 .. Len(s)
             /\ ~(i < k) => r[i] = s[i + 1] /\ i + 1 \in 1 .. Len(s)
             /\ r[i] \in Threads /\ r[i] # t
  BY SMTT(60), <1>1, <1>2 DEF NoDuplicates
<1>4. r \in Seq(Threads) /\ Len(r) = Len(s) - 1
  <2>1. r \in [1 .. Len(s) - 1 -> Threads] BY <1>2, <1>3
  <2>2. Len(s) - 1 \in Nat BY SMTT(60), <1>2
  <2>3. QED BY SMTT(60), <2>1, <2>2, IsASeq, LenProperties, <1>2
<1>5. NoDuplicates(r)
  BY SMTT(60), <1>1, <1>2, <1>3, <1>4 DEF NoDuplicates
<1>6. ASSUME NEW i \in 1 .. Len(r)
      PROVE  r[i] \in Elems(s) \ {t}
  BY <1>3, <1>4
<1>7. ASSUME NEW j \in 1 .. Len(s), s[j] # t
      PROVE  s[j] \in Elems(r)
  <2>1. CASE j < k
    <3>1. j \in 1 .. Len(r) /\ r[j] = s[j] BY SMTT(60), <1>1, <1>2, <1>4, <2>1
    <3>2. QED BY <3>1
  <2>2. CASE ~(j < k)
    <3>1. j > k BY SMTT(60), <1>1, <1>7, <2>2
    <3>2. j - 1 \in 1 .. Len(r) /\ r[j - 1] = s[j]
      BY SMTT(60), <1>1, <1>2, <1>4, <3>1
    <3>3. QED BY <3>2
  <2>3. QED BY <2>1, <2>2
<1>8. Elems(r) = Elems(s) \ {t}
  BY <1>6, <1>7
<1>9. QED BY <1>4, <1>5, <1>8 DEF r

(* One thread moves: how the sets of threads change.                       *)
LEMMA Move ==
  ASSUME TypeOK, NEW t \in Threads, NEW l \in PCs, Goto(t, l)
  PROVE  /\ pc' \in [Threads -> PCs]
         /\ Owners' = Moved(Owners, {"dequeue", "locked"}, t, l)
         /\ Waiting' = Moved(Waiting, {"retry", "dequeue", "sleep"}, t, l)
         /\ Waking' = Moved(Waking, {"wake"}, t, l)
         /\ Sleepers' = Moved(Sleepers, {"sleep"}, t, l)
  BY DEF TypeOK, Goto, In, Moved, Owners, Waiting, Waking, Sleepers

(* A thread is in these sets by where it is.                               *)
LEMMA Membership ==
  ASSUME NEW t \in Threads
  PROVE  /\ t \in Owners <=> pc[t] \in {"dequeue", "locked"}
         /\ t \in Waiting <=> pc[t] \in {"retry", "dequeue", "sleep"}
         /\ t \in Waking <=> pc[t] = "wake"
         /\ t \in Sleepers <=> pc[t] = "sleep"
  BY DEF In, Owners, Waiting, Waking, Sleepers

(* The invariant, in terms of these sets.                                  *)
LEMMA InvSets ==
  Inv <=> /\ TypeOK
          /\ Held <=> Owners # {}
          /\ \A t, u \in Owners : t = u
          /\ Queued = Waiting
          /\ Held \/ Asleep = {} \/ Waking # {} \/ Queued \ Asleep # {}
<1>1. TypeOK => (lock <=> Held) BY DEF TypeOK, Held
<1>2. NoLostWakeup <=> lock \/ Asleep = {} \/ Waking # {} \/ Queued \ Asleep # {}
  BY Zenon DEF NoLostWakeup, Waking
<1>3. QED BY <1>1, <1>2, Zenon DEF Inv, QueuedWhileWaiting, Waiting

(* Mutex::new: the free mutex with an empty queue satisfies the invariant. *)
THEOREM InitInv == Init => Inv
<1> SUFFICES ASSUME Init PROVE Inv OBVIOUS
<1>1. \A S : "idle" \notin S => In(S) = {} BY DEF Init, In
<1>2. TypeOK
  <2>1. waiters \in Seq(Threads) /\ NoDuplicates(waiters)
    BY SMTT(60) DEF Init, WaitInit, NoDuplicates
  <2>2. woken \in [Threads -> BOOLEAN] BY DEF Init, WaitInit
  <2>3. pc \in [Threads -> PCs] BY DEF Init, PCs
  <2>4. QED BY <2>1, <2>2, <2>3 DEF Init, TypeOK, WaitTypeOK
<1>3. Owners = {} /\ Waiting = {} /\ Sleepers = {}
  BY <1>1 DEF Owners, Waiting, Sleepers
<1>4. Queued = {} BY SMTT(60) DEF Init, WaitInit, Queued, Elems
<1>5. Asleep = {} BY <1>3 DEF Asleep, Sleepers
<1>6. QED BY <1>2, <1>3, <1>4, <1>5, InvSets DEF Init, Held

(* Every step preserves the invariant.                                     *)
THEOREM NextInv == Inv /\ [Next]_vars => Inv'
<1> SUFFICES ASSUME Inv, [Next]_vars PROVE Inv' OBVIOUS
<1>0. TypeOK BY DEF Inv
<1>1. /\ TypeOK
      /\ Held <=> Owners # {}
      /\ \A t, u \in Owners : t = u
      /\ Queued = Waiting
      /\ Held \/ Asleep = {} \/ Waking # {} \/ Queued \ Asleep # {}
      /\ waiters \in Seq(Threads) /\ NoDuplicates(waiters)
      /\ woken \in [Threads -> BOOLEAN]
  BY InvSets DEF TypeOK, WaitTypeOK
<1>11. ASSUME TypeOK',
              Held' <=> Owners' # {},
              \A t, u \in Owners' : t = u,
              Queued' = Waiting',
              Held' \/ Asleep' = {} \/ Waking' # {} \/ Queued' \ Asleep' # {}
       PROVE  Inv'
  <2>1. lock' <=> Held' BY <1>11 DEF TypeOK, Held
  <2>2. NoLostWakeup' BY <1>11, <2>1, Zenon DEF NoLostWakeup, Waking
  <2>3. QED BY <1>11, <2>1, <2>2, Zenon DEF Inv, QueuedWhileWaiting, Waiting
<1>2. ASSUME NEW t \in Threads, NEW got \in {"locked", "dequeue"},
             NEW refused \in {"idle", "enqueue", "sleep"},
             AcquireLock(t, got, refused),
             \/ pc[t] = "idle" /\ got = "locked" /\ refused # "sleep"
             \/ pc[t] = "retry" /\ got = "dequeue" /\ refused = "sleep"
      PROVE  Inv'
  <2>1. lock' = TRUE /\ waiters' = waiters /\ woken' = woken
    BY <1>2 DEF AcquireLock, waitVars
  <2>2. Queued' = Queued BY <2>1 DEF Queued, Elems
  <2>3. PICK l \in PCs : /\ Goto(t, l)
                         /\ (Held => l = refused) /\ (~Held => l = got)
    BY <1>0, <1>2 DEF AcquireLock, PCs, Held, TypeOK
  <2>4. t \notin Owners /\ (t \in Waiting <=> pc[t] = "retry")
    BY <1>2, Membership
  <2>5. TypeOK'
    BY <1>1, <2>1, <2>3, Move DEF TypeOK, WaitTypeOK
  <2>6. CASE Held
    <3>1. l = refused BY <2>3, <2>6
    <3>2. Owners' = Owners /\ Waiting' = Waiting
      BY SMTT(60), <1>0, <1>2, <2>3, <2>4, <3>1, Move DEF Moved
    <3>3. QED BY <1>1, <1>11, <2>1, <2>2, <2>5, <2>6, <3>2 DEF Held
  <2>7. CASE ~Held
    <3>1. l = got BY <2>3, <2>7
    <3>2. Owners' = Owners \cup {t} /\ Waiting' = Waiting
      BY SMTT(60), <1>0, <1>2, <2>3, <2>4, <3>1, Move DEF Moved
    <3>3. QED BY <1>1, <1>11, <2>1, <2>2, <2>5, <2>7, <3>2 DEF Held
  <2>8. QED BY <2>6, <2>7
<1>3. ASSUME NEW t \in Threads, LockEnqueue(t) PROVE Inv'
  <2>1. Goto(t, "retry") /\ "retry" \in PCs BY <1>3 DEF LockEnqueue, PCs
  <2>2. t \notin Waiting /\ t \notin Owners /\ t \notin Waking
    BY <1>3, Membership DEF LockEnqueue
  <2>3. /\ Waiting' = Waiting \cup {t} /\ Owners' = Owners
        /\ Waking' = Waking /\ t \notin Sleepers'
    BY SMTT(60), <1>0, <2>1, <2>2, Move DEF Moved
  <2>4. t \notin Elems(waiters)
    BY <1>1, <2>2 DEF Queued
  <2>5. /\ waiters' \in Seq(Threads) /\ NoDuplicates(waiters)'
        /\ Queued' = Queued \cup {t}
    <3>1. waiters' = <<t>> \o waiters BY <1>3 DEF LockEnqueue, Enqueue
    <3>2. NoDuplicates(waiters)' <=> NoDuplicates(waiters')
      BY DEF NoDuplicates
    <3>3. Queued' = Elems(waiters') BY DEF Queued, Elems
    <3>4. QED BY <1>1, <2>4, <3>1, <3>2, <3>3, PushFront DEF Queued
  <2>6. woken' \in [Threads -> BOOLEAN] /\ lock' = lock
    BY <1>1, <1>3 DEF LockEnqueue, Enqueue
  <2>7. TypeOK'
    BY <1>1, <2>1, <2>5, <2>6, Move DEF TypeOK, WaitTypeOK
  <2>8. t \in Queued' /\ t \notin Asleep' BY <2>3, <2>5 DEF Asleep, Sleepers
  <2>9. QED BY <1>1, <2>3, <2>5, <2>6, <2>7, <2>8, <1>11 DEF Held
<1>4. ASSUME NEW t \in Threads, LockDequeue(t) PROVE Inv'
  <2>1. Goto(t, "locked") /\ "locked" \in PCs BY <1>4 DEF LockDequeue, PCs
  <2>2. t \in Waiting /\ t \in Owners
    BY <1>4, Membership DEF LockDequeue
  <2>3. Waiting' = Waiting \ {t} /\ Owners' = Owners
    BY SMTT(60), <1>0, <2>1, <2>2, Move DEF Moved
  <2>4. t \in Elems(waiters)
    BY <1>1, <2>2 DEF Queued
  <2>5. /\ waiters' \in Seq(Threads) /\ NoDuplicates(waiters)'
        /\ Queued' = Queued \ {t}
    <3>1. waiters' = Without(waiters, t) BY <1>4 DEF LockDequeue, Dequeue
    <3>2. NoDuplicates(waiters)' <=> NoDuplicates(waiters')
      BY DEF NoDuplicates
    <3>3. Queued' = Elems(waiters') BY DEF Queued, Elems
    <3>4. /\ waiters' \in Seq(Threads) /\ NoDuplicates(waiters')
          /\ Elems(waiters') = Elems(waiters) \ {t}
      BY <1>1, <2>4, <3>1, RemoveOne
    <3>5. QED BY <3>2, <3>3, <3>4 DEF Queued
  <2>6. woken' = woken /\ lock' = lock /\ Held /\ Held'
    BY <1>1, <1>4, <2>2 DEF LockDequeue, Dequeue, Held
  <2>7. TypeOK'
    BY <1>1, <2>1, <2>5, <2>6, Move DEF TypeOK, WaitTypeOK
  <2>8. QED BY <1>1, <2>3, <2>5, <2>6, <2>7, <1>11 DEF Held
<1>5. ASSUME NEW t \in Threads, LockWoken(t) PROVE Inv'
  <2>1. Goto(t, "retry") /\ "retry" \in PCs BY <1>5 DEF LockWoken, PCs
  <2>2. t \in Waiting /\ t \notin Owners /\ t \notin Waking
    BY <1>5, Membership DEF LockWoken
  <2>3. /\ Waiting' = Waiting /\ Owners' = Owners /\ Waking' = Waking
        /\ t \notin Sleepers'
    BY SMTT(60), <1>0, <2>1, <2>2, Move DEF Moved
  <2>4. /\ waiters' = waiters /\ lock' = lock
        /\ woken' \in [Threads -> BOOLEAN]
    BY <1>1, <1>5 DEF LockWoken, LeaveWait
  <2>5. Queued' = Queued BY <2>4 DEF Queued, Elems
  <2>6. TypeOK'
    BY <1>1, <2>1, <2>4, Move DEF TypeOK, WaitTypeOK
  <2>7. t \in Queued' /\ t \notin Asleep'
    BY <1>1, <2>2, <2>3, <2>5 DEF Asleep, Sleepers
  <2>8. QED BY <1>1, <2>3, <2>4, <2>5, <2>6, <2>7, <1>11 DEF Held
<1>6. ASSUME NEW t \in Threads, UnlockRelease(t) PROVE Inv'
  <2>1. Goto(t, "wake") /\ "wake" \in PCs BY <1>6 DEF UnlockRelease, PCs
  <2>2. t \notin Waiting /\ t \in Owners
    BY <1>6, Membership DEF UnlockRelease
  <2>3. Waiting' = Waiting /\ Owners' = {} /\ t \in Waking'
    <3>1. /\ Waiting' = Waiting \ {t} /\ Owners' = Owners \ {t}
          /\ Waking' = Waking \cup {t}
      BY <1>0, <2>1, Move DEF Moved
    <3>2. \A u \in Owners : u = t BY <1>1, <2>2
    <3>3. QED BY <2>2, <3>1, <3>2
  <2>4. waiters' = waiters /\ lock' = FALSE /\ woken' = woken
    BY <1>6 DEF UnlockRelease, waitVars
  <2>5. Queued' = Queued BY <2>4 DEF Queued, Elems
  <2>6. TypeOK'
    BY <1>1, <2>1, <2>4, Move DEF TypeOK, WaitTypeOK
  <2>7. QED BY <1>1, <2>3, <2>4, <2>5, <2>6, <1>11 DEF Held
<1>7. ASSUME NEW t \in Threads, UnlockWake(t) PROVE Inv'
  <2>1. Goto(t, "idle") /\ "idle" \in PCs BY <1>7 DEF UnlockWake, PCs
  <2>2. t \notin Waiting /\ t \notin Owners /\ t \notin Sleepers
    BY <1>7, Membership DEF UnlockWake
  <2>3. Waiting' = Waiting /\ Owners' = Owners /\ Sleepers' = Sleepers
    BY SMTT(60), <1>0, <2>1, <2>2, Move DEF Moved
  <2>4. /\ waiters' = waiters /\ lock' = lock
        /\ woken' = [u \in Threads |->
                       woken[u] \/ (waiters # <<>> /\ u = waiters[1])]
    BY <1>7 DEF UnlockWake, WakeOne
  <2>5. Queued' = Queued BY <2>4 DEF Queued, Elems
  <2>6. woken' \in [Threads -> BOOLEAN] BY <1>1, <2>4, Zenon
  <2>7. TypeOK'
    BY <1>1, <2>1, <2>4, <2>6, Move DEF TypeOK, WaitTypeOK
  <2>8. ASSUME waiters # <<>>
        PROVE  waiters[1] \in Queued' /\ waiters[1] \notin Asleep'
    <3>1. 1 \in 1 .. Len(waiters) /\ waiters[1] \in Threads
      BY SMTT(60), <1>1, <2>8
    <3>2. waiters[1] \in Queued BY <3>1 DEF Queued, Elems
    <3>3. woken'[waiters[1]] BY <2>4, <2>8, <3>1, Zenon
    <3>4. QED BY <2>5, <3>2, <3>3 DEF Asleep, Sleepers
  <2>9. ASSUME Asleep' # {} PROVE waiters # <<>>
    <3>1. Sleepers # {} BY <2>3, <2>9 DEF Asleep, Sleepers
    <3>2. Queued # {} BY <1>1, <3>1 DEF In, Waiting, Sleepers
    <3>3. QED BY SMTT(60), <1>1, <3>2 DEF Queued, Elems
  <2>10. QED BY <1>1, <2>3, <2>4, <2>5, <2>7, <2>8, <2>9, <1>11 DEF Held
<1>8. CASE UNCHANGED vars
  BY SMTT(60), <1>8 DEF vars, Inv, TypeOK, WaitTypeOK, Owners, In, QueuedWhileWaiting,
     Queued, Elems, NoLostWakeup, Asleep, NoDuplicates
<1>9. ASSUME NEW t \in Threads, TryLock(t) \/ Lock(t) \/ LockRetry(t) PROVE Inv'
  BY <1>2, <1>9 DEF TryLock, Lock, LockRetry
<1>10. QED
  BY <1>3, <1>4, <1>5, <1>6, <1>7, <1>8, <1>9 DEF Next, Step

(* The inductive invariant holds in every reachable state.                 *)
THEOREM Invariance == Spec => []Inv
  BY InitInv, NextInv, PTL DEF Spec

(* No unlock loses a wakeup, and the queue holds exactly the waiting       *)
(* threads, for every set of threads.                                      *)
THEOREM WakeupsAreNotLost == Spec => [](NoLostWakeup /\ QueuedWhileWaiting)
<1>1. Inv => NoLostWakeup /\ QueuedWhileWaiting BY DEF Inv
<1>2. QED BY <1>1, Invariance, PTL

-----------------------------------------------------------------------------
(* Refinement: the guard each place stands for.                            *)
GuardAt(l) == IF l \in {"dequeue", "locked"} THEN "write" ELSE "none"

(* One thread moves: how its guard changes.                                *)
LEMMA HoldsMove ==
  ASSUME TypeOK, NEW t \in Threads, NEW l \in PCs, Goto(t, l)
  PROVE  /\ holds[t] = GuardAt(pc[t])
         /\ holds' = [holds EXCEPT ![t] = GuardAt(l)]
         /\ GuardAt(l) = GuardAt(pc[t]) => holds' = holds
  BY DEF TypeOK, Goto, holds, GuardAt

(* A step of the mutex is a step of RwSpec or leaves the guards alone.     *)
LEMMA StepRefines ==
  ASSUME Inv, NEW t \in Threads, Step(t)
  PROVE  Abstract!Next \/ holds' = holds
<1>0. TypeOK BY DEF Inv
<1>1. ASSUME NEW got \in {"locked", "dequeue"},
             NEW refused \in {"idle", "enqueue", "sleep"},
             AcquireLock(t, got, refused), pc[t] \in {"idle", "retry"}
      PROVE  Abstract!Next \/ holds' = holds
  <2>1. /\ got \in PCs /\ refused \in PCs /\ GuardAt(pc[t]) = "none"
        /\ GuardAt(got) = "write" /\ GuardAt(refused) = "none"
    BY <1>1 DEF PCs, GuardAt
  <2>2. CASE lock
    <3>1. Goto(t, refused) BY <1>1, <2>2 DEF AcquireLock
    <3>2. QED BY <1>0, <2>1, <3>1, HoldsMove
  <2>3. CASE ~lock
    <3>1. Goto(t, got) BY <1>1, <2>3 DEF AcquireLock
    <3>2. Owners = {} BY <2>3 DEF Inv
    <3>3. \A u \in Threads : holds[u] = "none" BY <3>2 DEF holds, Owners, In
    <3>4. holds[t] = "none" /\ holds' = [holds EXCEPT ![t] = "write"]
      BY <1>0, <2>1, <3>1, HoldsMove
    <3>5. Abstract!OthersHoldNone(t, {"read", "upread", "write"})
      BY <3>3 DEF Abstract!OthersHoldNone
    <3>6. Abstract!AcquireWrite(t)
      BY <3>4, <3>5 DEF Abstract!AcquireWrite, Abstract!Acquire
    <3>7. QED BY <3>6 DEF Abstract!Next
  <2>4. QED BY <2>2, <2>3
<1>2. CASE TryLock(t) \/ Lock(t) \/ LockRetry(t)
  BY <1>1, <1>2 DEF TryLock, Lock, LockRetry
<1>3. CASE UnlockRelease(t)
  <2>1. Goto(t, "wake") /\ "wake" \in PCs /\ pc[t] = "locked"
    BY <1>3 DEF UnlockRelease, PCs
  <2>2. holds[t] = "write" /\ holds' = [holds EXCEPT ![t] = "none"]
    BY <1>0, <2>1, HoldsMove DEF GuardAt
  <2>3. Abstract!Release(t) BY <2>2 DEF Abstract!Release
  <2>4. QED BY <2>3 DEF Abstract!Next
<1>4. CASE LockEnqueue(t) \/ LockDequeue(t) \/ LockWoken(t) \/ UnlockWake(t)
  <2>1. PICK l \in PCs : Goto(t, l) /\ GuardAt(l) = GuardAt(pc[t])
    BY <1>4 DEF LockEnqueue, LockDequeue, LockWoken, UnlockWake, PCs, GuardAt
  <2>2. QED BY <1>0, <2>1, HoldsMove
<1>5. QED BY <1>2, <1>3, <1>4 DEF Step

(* The sleeping mutex implements RwSpec: lock and try_lock hand out one    *)
(* write guard at a time, to a thread that holds none, whatever the        *)
(* waiters in the queue do.                                                *)
THEOREM Refinement == Spec => ImplementsRwSpec
<1>1. Init => Abstract!Init BY DEF Init, Abstract!Init, holds
<1>2. Inv /\ [Next]_vars => [Abstract!Next]_holds
  <2>1. UNCHANGED vars => holds' = holds BY DEF vars, holds
  <2>2. QED BY <2>1, StepRefines DEF Next
<1>3. QED BY <1>1, <1>2, Invariance, PTL DEF Spec, ImplementsRwSpec, Abstract!Spec
=============================================================================
