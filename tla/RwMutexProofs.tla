--------------------------- MODULE RwMutexProofs ---------------------------
(***************************************************************************)
(* Proofs about RwMutex, for any set of threads below the reader limit.    *)
(*                                                                         *)
(* On the word, the sleeping mutex takes the steps of the spinning lock    *)
(* and no other: the place of each thread, seen as a place of RwLock,      *)
(* makes every step one of RwLock's or none.  So the invariant of RwLock   *)
(* carries over, and with it what the word says and that the mutex is a    *)
(* reader-writer lock.  What is left is the queue: no reader is forgotten. *)
(***************************************************************************)
EXTENDS RwMutex, FiniteSetTheorems, TLAPS

-----------------------------------------------------------------------------
(* What is asked of one thread in TypeOK.                                  *)
Consistent(l, k, m) ==
  /\ l = "undo" => k # "write"
  /\ l = "upgrading" => k = "upread"
  /\ l = "upgraded" => k = "write"
  /\ l = "enqueue" => m = "first"
  /\ l \in {"sleep", "dequeue"} => m = "queued"
InQueue(l, m) == m = "queued" /\ l \in {"attempt", "undo", "sleep", "dequeue"}

(* The thread t goes to l with the guard k and the mode m.                 *)
MovesTo(t, l, k, m) == /\ pc' = [pc EXCEPT ![t] = l]
                       /\ kind' = [kind EXCEPT ![t] = k]
                       /\ mode' = [mode EXCEPT ![t] = m]

(* The deque is that of the mutex, and so is what is proved of it there.   *)
Deque == INSTANCE Mutex

(* A leaf that names no prover is for Zenon.                               *)
USE ZenonT(30)

(* Its operators are those of the instance.                                *)
LEMMA SameDeque ==
  /\ \A s : Deque!Elems(s) = Elems(s) /\ (Deque!NoDuplicates(s) <=> NoDuplicates(s))
  /\ \A s, t : Deque!Without(s, t) = Without(s, t)
BY DEF Deque!Elems, Elems, Deque!NoDuplicates, NoDuplicates, Deque!Without, Without

(* A waiter that is not in the queue goes to its front.                    *)
LEMMA PushFront ==
  ASSUME NEW s \in Seq(Threads), NoDuplicates(s), NEW t \in Threads, t \notin Elems(s)
  PROVE  /\ <<t>> \o s \in Seq(Threads)
         /\ NoDuplicates(<<t>> \o s)
         /\ Elems(<<t>> \o s) = Elems(s) \cup {t}
BY SameDeque, Deque!PushFront, Zenon

(* Without takes one waiter out of a queue of different waiters.           *)
LEMMA RemoveOne ==
  ASSUME NEW s \in Seq(Threads), NoDuplicates(s), NEW t \in Threads, t \in Elems(s)
  PROVE  /\ Without(s, t) \in Seq(Threads)
         /\ NoDuplicates(Without(s, t))
         /\ Elems(Without(s, t)) = Elems(s) \ {t}
BY SameDeque, Deque!RemoveOne, Zenon

(* One thread moves, and the queue keeps those who wait.                   *)
LEMMA MoveKeepsTypes ==
  ASSUME TypeOK, NEW t \in Threads, NEW l \in PCs, NEW k \in Kinds,
         NEW m \in {"try", "first", "queued"}, MovesTo(t, l, k, m), WaitTypeOK',
         Consistent(l, k, m),
         \A u \in Threads : u \in Queued' <=> IF u = t THEN InQueue(l, m) ELSE u \in Queued
  PROVE  TypeOK'
<1>1. /\ pc' \in [Threads -> PCs] /\ kind' \in [Threads -> Kinds]
      /\ mode' \in [Threads -> {"try", "first", "queued"}]
  BY DEF TypeOK, MovesTo
<1>2. ASSUME NEW u \in Threads
      PROVE  Consistent(pc'[u], kind'[u], mode'[u])
             /\ (u \in Queued' <=> InQueue(pc'[u], mode'[u]))
  <2>1. CASE u = t
    BY <2>1 DEF TypeOK, MovesTo
  <2>2. CASE u # t
    <3>1. pc'[u] = pc[u] /\ kind'[u] = kind[u] /\ mode'[u] = mode[u]
      BY <2>2 DEF TypeOK, MovesTo
    <3>2. Consistent(pc[u], kind[u], mode[u]) /\ (u \in Queued <=> InQueue(pc[u], mode[u]))
      BY DEF TypeOK, Consistent, InQueue
    <3>3. QED BY <2>2, <3>1, <3>2
  <2>3. QED BY <2>1, <2>2
<1>3. QED BY <1>1, <1>2 DEF TypeOK, Consistent, InQueue

(* A step that leaves the queue as it is.                                  *)
LEMMA QuietKeepsTypes ==
  ASSUME TypeOK, NEW t \in Threads, NEW l \in PCs, NEW k \in Kinds,
         NEW m \in {"try", "first", "queued"}, MovesTo(t, l, k, m),
         waiters' = waiters, woken' \in [Threads -> BOOLEAN],
         Consistent(l, k, m), InQueue(l, m) <=> InQueue(pc[t], mode[t])
  PROVE  TypeOK'
<1>1. WaitTypeOK' BY DEF TypeOK, WaitTypeOK, NoDuplicates
<1>2. Queued' = Queued BY DEF Queued
<1>3. t \in Queued <=> InQueue(l, m) BY DEF TypeOK, InQueue
<1>4. \A u \in Threads : u \in Queued' <=> IF u = t THEN InQueue(l, m) ELSE u \in Queued
  BY <1>2, <1>3
<1>5. QED BY <1>1, <1>4, MoveKeepsTypes

(* An unlocked mutex.                                                      *)
LEMMA InitTypes == Init => TypeOK
<1> SUFFICES ASSUME Init PROVE TypeOK OBVIOUS
<1>1. WaitTypeOK BY SMTT(60) DEF Init, WaitInit, WaitTypeOK, NoDuplicates
<1>2. Queued = {} BY SMTT(60) DEF Init, WaitInit, Queued, Elems
<1>3. QED BY <1>1, <1>2 DEF Init, TypeOK, PCs, Kinds

(* Every step keeps the types, and moves one thread.                       *)
LEMMA NextKeepsTypes ==
  ASSUME TypeOK, NEW t \in Threads,
         \/ \E k \in Kinds, m \in {"try", "first"} : Call(t, k, m)
         \/ Upgrade(t)
         \/ Continue(t)
  PROVE  TypeOK'
<1> USE DEF Consistent, InQueue
<1>1. /\ pc[t] \in PCs /\ kind[t] \in Kinds /\ mode[t] \in {"try", "first", "queued"}
      /\ pc = [pc EXCEPT ![t] = pc[t]] /\ kind = [kind EXCEPT ![t] = kind[t]]
      /\ mode = [mode EXCEPT ![t] = mode[t]]
      /\ Consistent(pc[t], kind[t], mode[t]) /\ woken \in [Threads -> BOOLEAN]
  BY DEF TypeOK, WaitTypeOK
<1>2. ASSUME NEW k \in Kinds, NEW m \in {"try", "first"}, Call(t, k, m) PROVE TypeOK'
  <2>1. MovesTo(t, "attempt", k, m) BY <1>2 DEF Call, MovesTo, Goto
  <2>2. QED BY SMTT(60), <1>1, <1>2, <2>1, QuietKeepsTypes DEF Call, PCs
<1>3. ASSUME NEW l \in PCs, Goto(t, l), UNCHANGED <<waiters, woken, kind, mode>>,
             Consistent(l, kind[t], mode[t]),
             InQueue(l, mode[t]) <=> InQueue(pc[t], mode[t])
      PROVE  TypeOK'
  <2>1. MovesTo(t, l, kind[t], mode[t]) BY <1>1, <1>3 DEF MovesTo, Goto
  <2>2. QED BY SMTT(60), <1>1, <1>3, <2>1, QuietKeepsTypes
<1>4. ASSUME TryRead(t) \/ TryWrite(t) \/ TryUpread(t) PROVE TypeOK'
  <2>1. /\ pc[t] = "attempt" /\ UNCHANGED <<waiters, woken, kind, mode>>
        /\ \/ Goto(t, Granted(t)) \/ Goto(t, Refused(t))
           \/ Goto(t, "undo") /\ kind[t] # "write"
    BY <1>4 DEF TryRead, TryWrite, TryUpread, Attempting
  <2>2. /\ Granted(t) \in {"dequeue", "held"}
        /\ Granted(t) = "dequeue" <=> mode[t] = "queued"
        /\ Refused(t) \in {"idle", "enqueue", "sleep"}
        /\ Refused(t) = "enqueue" => mode[t] = "first"
        /\ Refused(t) = "sleep" <=> mode[t] = "queued"
    BY <1>1 DEF Granted, Refused
  <2>3. CASE Goto(t, Granted(t)) BY <1>3, <2>1, <2>2, <2>3 DEF PCs
  <2>4. CASE Goto(t, Refused(t)) BY <1>3, <2>1, <2>2, <2>4 DEF PCs
  <2>5. CASE Goto(t, "undo") /\ kind[t] # "write" BY <1>3, <2>1, <2>5 DEF PCs
  <2>6. QED BY <2>1, <2>3, <2>4, <2>5
<1>5. ASSUME TryUndo(t) PROVE TypeOK'
  <2>1. /\ Refused(t) \in {"idle", "enqueue", "sleep"}
        /\ Refused(t) = "enqueue" => mode[t] = "first"
        /\ Refused(t) = "sleep" <=> mode[t] = "queued"
    BY <1>1 DEF Refused
  <2>2. QED BY <1>3, <1>5, <2>1 DEF TryUndo, PCs
<1>6. ASSUME WaitEnqueue(t) PROVE TypeOK'
  <2>1. MovesTo(t, "attempt", kind[t], "queued") /\ pc[t] = "enqueue"
    BY <1>1, <1>6 DEF WaitEnqueue, MovesTo, Goto
  <2>2. t \notin Elems(waiters) BY <1>1, <2>1 DEF TypeOK, Queued
  <2>3. /\ waiters' \in Seq(Threads) /\ NoDuplicates(waiters')
        /\ Elems(waiters') = Elems(waiters) \cup {t}
    BY <1>6, <2>2, PushFront DEF WaitEnqueue, Enqueue, TypeOK, WaitTypeOK
  <2>4. WaitTypeOK'
    BY <1>1, <1>6, <2>3 DEF WaitTypeOK, WaitEnqueue, Enqueue, NoDuplicates
  <2>5. \A u \in Threads : u \in Queued' <=> IF u = t THEN TRUE ELSE u \in Queued
    BY <2>3 DEF Queued
  <2>6. QED BY <1>1, <2>1, <2>4, <2>5, MoveKeepsTypes DEF PCs
<1>7. ASSUME WaitWoken(t) PROVE TypeOK'
  <2>1. /\ MovesTo(t, "attempt", kind[t], mode[t]) /\ pc[t] = "sleep"
        /\ waiters' = waiters /\ woken' \in [Threads -> BOOLEAN]
    BY <1>1, <1>7 DEF WaitWoken, LeaveWait, MovesTo, Goto
  <2>2. QED BY SMTT(60), <1>1, <2>1, QuietKeepsTypes DEF PCs
<1>8. ASSUME WaitDequeue(t) PROVE TypeOK'
  <2>1. MovesTo(t, "held", kind[t], mode[t]) /\ pc[t] = "dequeue"
    BY <1>1, <1>8 DEF WaitDequeue, MovesTo, Goto
  <2>2. t \in Elems(waiters) BY <1>1, <2>1 DEF TypeOK, Queued
  <2>3. /\ waiters' \in Seq(Threads) /\ NoDuplicates(waiters')
        /\ Elems(waiters') = Elems(waiters) \ {t}
    BY <1>8, <2>2, RemoveOne DEF WaitDequeue, Dequeue, TypeOK, WaitTypeOK
  <2>4. WaitTypeOK'
    BY <1>1, <1>8, <2>3 DEF WaitTypeOK, WaitDequeue, Dequeue, NoDuplicates
  <2>5. \A u \in Threads : u \in Queued' <=> IF u = t THEN FALSE ELSE u \in Queued
    BY <2>3 DEF Queued
  <2>6. QED BY SMTT(60), <1>1, <2>1, <2>4, <2>5, MoveKeepsTypes DEF PCs
<1>9. ASSUME DropReadGuard(t) \/ DropWriteGuard(t) \/ DropUpgradeableGuard(t) \/ Upgrade(t)
      PROVE  TypeOK'
  <2>1. PICK l \in {"wake_one", "wake_all", "idle", "held", "upgrading"} :
          /\ Goto(t, l) /\ UNCHANGED <<waiters, woken, kind, mode>>
          /\ l = "upgrading" => kind[t] = "upread"
    BY <1>9 DEF DropReadGuard, DropWriteGuard, DropUpgradeableGuard, Upgrade
  <2>2. pc[t] \in {"held", "upgraded"}
    BY <1>9 DEF DropReadGuard, DropWriteGuard, DropUpgradeableGuard, Upgrade
  <2>3. QED BY <1>3, <2>1, <2>2 DEF PCs
<1>10. ASSUME DropWake(t) PROVE TypeOK'
  <2>1. /\ MovesTo(t, "idle", kind[t], mode[t]) /\ pc[t] \in {"wake_one", "wake_all"}
        /\ waiters' = waiters /\ woken' \in [Threads -> BOOLEAN]
    BY <1>1, <1>10 DEF DropWake, WakeOne, WakeAll, MovesTo, Goto
  <2>2. QED BY SMTT(60), <1>1, <2>1, QuietKeepsTypes DEF PCs
<1>11. ASSUME TryUpgrade(t) PROVE TypeOK'
  <2>1. /\ MovesTo(t, "upgraded", "write", mode[t]) /\ pc[t] \in {"upgrading", "held"}
        /\ waiters' = waiters /\ woken' = woken
    BY <1>1, <1>11 DEF TryUpgrade, MovesTo, Goto
  <2>2. QED BY <1>1, <2>1, QuietKeepsTypes DEF PCs, Kinds
<1>12. QED
  BY <1>2, <1>4, <1>5, <1>6, <1>7, <1>8, <1>9, <1>10, <1>11 DEF Continue

-----------------------------------------------------------------------------
(* Why no reader is forgotten.  A word without the bits of a writer and of *)
(* an upgrade, and with readers below the limit, refuses no reader.        *)
LEMMA FreeForReaders ==
  ASSUME NEW r \in Nat, r < MAX_READER, NEW u \in {0, UPGRADEABLE_READER}
  PROVE  ~RefusesReader(r + u)
  BY SMTT(60), MaxReaderAssumption
  DEF RefusesReader, HasWriter, HasMaxReader, HasBeingUpgraded, ReaderField,
      BelowUpgradeable, HasUpgradeable, BelowWriter, WRITER, UPGRADEABLE_READER,
      BEING_UPGRADED

(* A reader is refused only because some thread will wake it.              *)
LEMMA RefusedBySomebody ==
  ASSUME IsFiniteSet(Threads), Cardinality(Threads) <= MAX_READER,
         TypeOK, WordIsSumOfHolders, NEW t \in Threads, pc[t] = "attempt",
         RefusesReader(lock)
  PROVE  \E u \in Threads : Remembers(u)
<1> SUFFICES ASSUME \A u \in Threads : ~Remembers(u) PROVE FALSE OBVIOUS
<1> DEFINE upgrading == {u \in Threads : pc[u] = "upgrading"}
           upgraded  == {u \in Threads : pc[u] = "upgraded"}
           ups == Announced("upread") \cup upgrading \cup upgraded
<1>1. upgrading = {} BY DEF Remembers
<1>2. Announced("write") \cup upgraded = {}
  <2>1. ASSUME NEW u \in Threads, u \in Announced("write") \cup upgraded PROVE FALSE
    <3>1. kind[u] = "write" /\ pc[u] \in {"held", "dequeue", "upgraded"}
      BY <2>1 DEF Announced, TypeOK
    <3>2. QED BY <3>1 DEF Remembers, holds
  <2>2. QED BY <2>1 DEF Announced
<1>3. /\ Cardinality(Announced("read")) \in Nat
      /\ Cardinality(Announced("read")) < MAX_READER
  <2>1. Announced("read") \subseteq Threads \ {t} BY DEF Announced
  <2>2. /\ IsFiniteSet(Threads \ {t}) /\ Cardinality(Threads \ {t}) = Cardinality(Threads) - 1
        /\ Cardinality(Threads) \in Nat
    BY FS_RemoveElement, FS_CardinalityType
  <2>3. /\ Cardinality(Announced("read")) \in Nat
        /\ Cardinality(Announced("read")) <= Cardinality(Threads \ {t})
    BY <2>1, <2>2, FS_Subset, FS_CardinalityType
  <2>4. QED BY SMTT(60), <2>2, <2>3, MaxReaderAssumption
<1>4. lock = Cardinality(Announced("read")) + Bit(upgrading, BEING_UPGRADED)
             + Bit(ups, UPGRADEABLE_READER) + Bit(Announced("write") \cup upgraded, WRITER)
  BY DEF WordIsSumOfHolders
<1>5. /\ Bit(upgrading, BEING_UPGRADED) = 0
      /\ Bit(Announced("write") \cup upgraded, WRITER) = 0
      /\ Bit(ups, UPGRADEABLE_READER) \in {0, UPGRADEABLE_READER}
  BY <1>1, <1>2 DEF Bit
<1>6. UPGRADEABLE_READER \in Nat BY SMTT(60), MaxReaderAssumption DEF UPGRADEABLE_READER
<1> HIDE DEF upgrading, upgraded, ups
<1>7. lock = Cardinality(Announced("read")) + Bit(ups, UPGRADEABLE_READER)
  BY SMTT(60), <1>3, <1>4, <1>5, <1>6
<1>8. QED BY <1>3, <1>5, <1>7, FreeForReaders

RemembersAt(l, k) == \/ l \in {"held", "dequeue", "upgraded"} /\ k = "write"
                     \/ l \in {"upgrading", "wake_all"}
ForgottenAt(l, k, m) == k = "read" /\ m = "queued" /\ l \in {"undo", "sleep"}

(* One thread moves and still wakes those it had to wake.                  *)
LEMMA MoveRemembers ==
  ASSUME TypeOK, TypeOK', RefusedRemembered, NEW t \in Threads, NEW l, NEW k, NEW m,
         MovesTo(t, l, k, m),
         \A u \in Threads \ {t} : woken[u] => woken'[u],
         RemembersAt(pc[t], kind[t]) => RemembersAt(l, k),
         ForgottenAt(l, k, m) /\ ~woken'[t] => \/ Forgotten(t)
                                               \/ \E u \in Threads : Remembers(u)
  PROVE  RefusedRemembered'
<1>1. \A u \in Threads : Remembers(u) <=> RemembersAt(pc[u], kind[u])
  BY DEF Remembers, RemembersAt, holds, TypeOK
<1>2. \A u \in Threads : Remembers(u)' <=> RemembersAt(pc'[u], kind'[u])
  BY DEF Remembers, RemembersAt, holds, TypeOK
<1>3. /\ pc'[t] = l /\ kind'[t] = k /\ mode'[t] = m
      /\ \A u \in Threads \ {t} : pc'[u] = pc[u] /\ kind'[u] = kind[u] /\ mode'[u] = mode[u]
  BY SMTT(60) DEF MovesTo, TypeOK
<1>4. \A u \in Threads : Remembers(u) => Remembers(u)'
  <2>1. ASSUME NEW u \in Threads, RemembersAt(pc[u], kind[u])
        PROVE  RemembersAt(pc'[u], kind'[u])
    BY <1>3, <2>1
  <2>2. QED BY <1>1, <1>2, <2>1
<1>5. ASSUME NEW u \in Threads, Forgotten(u)'
      PROVE  Forgotten(u) \/ \E v \in Threads : Remembers(v)
  <2>1. /\ kind'[u] = "read" /\ mode'[u] = "queued" /\ pc'[u] \in {"undo", "sleep"}
        /\ ~woken'[u]
    BY <1>5 DEF Forgotten
  <2>2. CASE u = t BY <1>3, <2>1, <2>2 DEF ForgottenAt
  <2>3. CASE u # t BY <1>3, <2>1, <2>3 DEF Forgotten
  <2>4. QED BY <2>2, <2>3
<1>6. ASSUME NEW u \in Threads, Forgotten(u)' PROVE \E v \in Threads : Remembers(v)'
  <2>1. \E v \in Threads : Remembers(v) BY <1>5, <1>6 DEF RefusedRemembered
  <2>2. QED BY <1>4, <2>1
<1>7. QED BY <1>6 DEF RefusedRemembered

(* Every step keeps RefusedRemembered.                                     *)
LEMMA NextRemembers ==
  ASSUME IsFiniteSet(Threads), Cardinality(Threads) <= MAX_READER,
         TypeOK, TypeOK', WordIsSumOfHolders, RefusedRemembered, NEW t \in Threads,
         \/ \E k \in Kinds, m \in {"try", "first"} : Call(t, k, m)
         \/ Upgrade(t)
         \/ Continue(t)
  PROVE  RefusedRemembered'
<1> USE DEF RemembersAt, ForgottenAt
<1>1. /\ pc[t] \in PCs /\ kind[t] \in Kinds /\ mode[t] \in {"try", "first", "queued"}
      /\ pc = [pc EXCEPT ![t] = pc[t]] /\ kind = [kind EXCEPT ![t] = kind[t]]
      /\ mode = [mode EXCEPT ![t] = mode[t]]
      /\ Consistent(pc[t], kind[t], mode[t])
      /\ woken \in [Threads -> BOOLEAN] /\ woken' \in [Threads -> BOOLEAN]
  BY DEF TypeOK, WaitTypeOK, Consistent
<1>2. ASSUME NEW k \in Kinds, NEW m \in {"try", "first"}, Call(t, k, m)
      PROVE  RefusedRemembered'
  <2>1. MovesTo(t, "attempt", k, m) /\ pc[t] = "idle" /\ woken' = woken
    BY <1>2 DEF Call, MovesTo, Goto
  <2>2. QED BY <2>1, MoveRemembers
<1>3. ASSUME NEW l, Goto(t, l), UNCHANGED <<woken, kind, mode>>,
             RemembersAt(pc[t], kind[t]) => RemembersAt(l, kind[t]),
             ForgottenAt(l, kind[t], mode[t]) /\ ~woken[t] =>
               Forgotten(t) \/ \E u \in Threads : Remembers(u)
      PROVE  RefusedRemembered'
  <2>1. MovesTo(t, l, kind[t], mode[t]) BY <1>1, <1>3 DEF MovesTo, Goto
  <2>2. QED BY <1>3, <2>1, MoveRemembers
<1>4. ASSUME TryRead(t) PROVE RefusedRemembered'
  <2>1. /\ pc[t] = "attempt" /\ UNCHANGED <<woken, kind, mode>>
        /\ \/ Goto(t, Granted(t))
           \/ Goto(t, "undo") /\ RefusesReader(lock)
    BY <1>4 DEF TryRead, Attempting
  <2>2. CASE Goto(t, Granted(t))
    <3>1. Granted(t) \in {"dequeue", "held"} BY DEF Granted
    <3>2. QED BY <1>3, <2>1, <2>2, <3>1
  <2>3. CASE Goto(t, "undo") /\ RefusesReader(lock)
    <3>1. \E u \in Threads : Remembers(u) BY <2>1, <2>3, RefusedBySomebody
    <3>2. QED BY <1>3, <2>1, <2>3, <3>1
  <2>4. QED BY <2>1, <2>2, <2>3
<1>5. ASSUME TryWrite(t) \/ TryUpread(t) PROVE RefusedRemembered'
  <2>1. /\ pc[t] = "attempt" /\ kind[t] # "read" /\ UNCHANGED <<woken, kind, mode>>
        /\ \E l : Goto(t, l)
    BY <1>5 DEF TryWrite, TryUpread, Attempting
  <2>2. QED BY <1>3, <2>1
<1>6. ASSUME TryUndo(t) PROVE RefusedRemembered'
  <2>1. /\ pc[t] = "undo" /\ Goto(t, Refused(t)) /\ UNCHANGED <<woken, kind, mode>>
    BY <1>6 DEF TryUndo
  <2>2. ForgottenAt(Refused(t), kind[t], mode[t]) /\ ~woken[t] => Forgotten(t)
    BY <2>1 DEF Forgotten
  <2>3. ~RemembersAt(pc[t], kind[t]) BY <2>1
  <2>4. QED BY <1>3, <2>1, <2>2, <2>3
<1>7. ASSUME WaitEnqueue(t) PROVE RefusedRemembered'
  <2>1. MovesTo(t, "attempt", kind[t], "queued") /\ pc[t] = "enqueue"
    BY <1>1, <1>7 DEF WaitEnqueue, MovesTo, Goto
  <2>2. \A u \in Threads \ {t} : woken[u] => woken'[u]
    BY <1>1, <1>7 DEF WaitEnqueue, Enqueue
  <2>3. QED BY <2>1, <2>2, MoveRemembers
<1>8. ASSUME WaitWoken(t) PROVE RefusedRemembered'
  <2>1. MovesTo(t, "attempt", kind[t], mode[t]) /\ pc[t] = "sleep"
    BY <1>1, <1>8 DEF WaitWoken, MovesTo, Goto
  <2>2. \A u \in Threads \ {t} : woken[u] => woken'[u]
    BY <1>1, <1>8 DEF WaitWoken, LeaveWait
  <2>3. QED BY <2>1, <2>2, MoveRemembers
<1>9. ASSUME WaitDequeue(t) PROVE RefusedRemembered'
  BY <1>3, <1>9 DEF WaitDequeue, Dequeue
<1>10. ASSUME DropReadGuard(t) \/ DropWriteGuard(t) \/ Upgrade(t) PROVE RefusedRemembered'
  BY <1>3, <1>10 DEF DropReadGuard, DropWriteGuard, Upgrade
<1>11. ASSUME DropUpgradeableGuard(t) PROVE RefusedRemembered'
  <2>1. UNCHANGED <<woken, kind, mode>> BY <1>11 DEF DropUpgradeableGuard
  <2>2. CASE pc[t] = "upgraded"
    <3>1. Goto(t, "held") /\ kind[t] = "write"
      BY <1>1, <1>11, <2>2 DEF DropUpgradeableGuard, Consistent
    <3>2. QED BY <1>3, <2>1, <3>1
  <2>3. CASE pc[t] = "held" /\ kind[t] = "upread"
    <3>1. PICK l \in {"wake_all", "idle"} : Goto(t, l)
      BY <1>11, <2>3 DEF DropUpgradeableGuard
    <3>2. QED BY <1>3, <2>1, <2>3, <3>1
  <2>4. QED BY <1>11, <2>2, <2>3 DEF DropUpgradeableGuard
<1>12. ASSUME DropWake(t) PROVE RefusedRemembered'
  <2>1. MovesTo(t, "idle", kind[t], mode[t]) BY <1>1, <1>12 DEF DropWake, MovesTo, Goto
  <2>2. CASE pc[t] = "wake_one" /\ WakeOne
    <3>1. \A u \in Threads \ {t} : woken[u] => woken'[u] BY <2>2 DEF WakeOne
    <3>2. QED BY <2>1, <2>2, <3>1, MoveRemembers
  <2>3. CASE WakeAll
    <3>1. ASSUME NEW u \in Threads, Forgotten(u)' PROVE FALSE
      <4>1. u \in Queued' BY <3>1 DEF Forgotten, TypeOK
      <4>2. Queued' = Queued BY <2>3 DEF Queued, WakeAll
      <4>3. woken'[u] BY <2>3, <4>1, <4>2 DEF WakeAll
      <4>4. QED BY <3>1, <4>3 DEF Forgotten
    <3>2. QED BY <3>1 DEF RefusedRemembered
  <2>4. QED BY <1>12, <2>2, <2>3 DEF DropWake
<1>13. ASSUME TryUpgrade(t) PROVE RefusedRemembered'
  <2>1. MovesTo(t, "upgraded", "write", mode[t]) /\ woken' = woken
    BY <1>1, <1>13 DEF TryUpgrade, MovesTo, Goto
  <2>2. QED BY <2>1, MoveRemembers
<1>14. QED
  BY <1>2, <1>4, <1>5, <1>6, <1>7, <1>8, <1>9, <1>10, <1>11, <1>12, <1>13 DEF Continue

-----------------------------------------------------------------------------
(* On the word, the mutex takes the steps of the spinning lock and no      *)
(* other.  The place of RwLock where a thread is that is at l and asked    *)
(* for k: while it waits or wakes others it is idle.                       *)
PlaceOf(l, k) ==
  IF l \in {"held", "dequeue"}
    THEN IF k = "read" THEN "reading" ELSE IF k = "write" THEN "writing" ELSE "upreading"
  ELSE IF l = "undo" THEN IF k = "read" THEN "read_undo" ELSE "upread_undo"
  ELSE IF l \in {"upgrading", "upgraded"} THEN l
  ELSE "idle"

place == [t \in Threads |-> PlaceOf(pc[t], kind[t])]

Spinning == INSTANCE RwLock WITH pc <- place

(* The operators on words and on sets are those of the instance.           *)
LEMMA SameOperators ==
  /\ \A w, x : /\ Spinning!FetchAdd(w, x) = FetchAdd(w, x)
               /\ Spinning!FetchSub(w, x) = FetchSub(w, x)
  /\ \A w : /\ Spinning!FetchOrUpgradeable(w) = FetchOrUpgradeable(w)
            /\ Spinning!FetchOrBeingUpgraded(w) = FetchOrBeingUpgraded(w)
            /\ Spinning!FetchAndNotWriter(w) = FetchAndNotWriter(w)
            /\ Spinning!RefusesReader(w) <=> RefusesReader(w)
            /\ Spinning!HasWriter(w) <=> HasWriter(w)
            /\ Spinning!HasUpgradeable(w) <=> HasUpgradeable(w)
            /\ Spinning!HasBeingUpgraded(w) <=> HasBeingUpgraded(w)
            /\ Spinning!HasMaxReader(w) <=> HasMaxReader(w)
            /\ Spinning!ReaderField(w) = ReaderField(w)
  /\ Spinning!READER = READER /\ Spinning!WRITER = WRITER
  /\ Spinning!UPGRADEABLE_READER = UPGRADEABLE_READER
  /\ Spinning!BEING_UPGRADED = BEING_UPGRADED
  BY SMTT(60) DEF FetchAdd, FetchSub, FetchOrUpgradeable, FetchOrBeingUpgraded, FetchAndNotWriter,
     RefusesReader, HasWriter, HasUpgradeable, HasBeingUpgraded, HasMaxReader, ReaderField,
     BelowWriter, BelowUpgradeable, READER, WRITER, UPGRADEABLE_READER, BEING_UPGRADED,
     WordSize, Spinning!FetchAdd, Spinning!FetchSub, Spinning!FetchOrUpgradeable,
     Spinning!FetchOrBeingUpgraded, Spinning!FetchAndNotWriter, Spinning!RefusesReader,
     Spinning!HasWriter, Spinning!HasUpgradeable, Spinning!HasBeingUpgraded,
     Spinning!HasMaxReader, Spinning!ReaderField, Spinning!BelowWriter,
     Spinning!BelowUpgradeable, Spinning!READER, Spinning!WRITER,
     Spinning!UPGRADEABLE_READER, Spinning!BEING_UPGRADED, Spinning!WordSize

(* Finite sets mean the same in the instance.                              *)
LEMMA SameSets ==
  \A S : /\ Spinning!Cardinality(S) = Cardinality(S)
         /\ Spinning!IsFiniteSet(S) <=> IsFiniteSet(S)
  BY DEF Cardinality, Spinning!Cardinality, IsFiniteSet, Spinning!IsFiniteSet

-----------------------------------------------------------------------------
(* A step of the mutex is a step of the spinning lock, or none.            *)
LEMMA Placed ==
  ASSUME TypeOK, NEW t \in Threads, NEW l, NEW k,
         pc' = [pc EXCEPT ![t] = l], kind' = [kind EXCEPT ![t] = k]
  PROVE  /\ place[t] = PlaceOf(pc[t], kind[t])
         /\ place' = [place EXCEPT ![t] = PlaceOf(l, k)]
         /\ PlaceOf(l, k) = PlaceOf(pc[t], kind[t]) => place' = place
  BY DEF TypeOK, place

(* The thread keeps the kind of its request.                               *)
LEMMA PlacedSame ==
  ASSUME TypeOK, NEW t \in Threads, NEW l, Goto(t, l), kind' = kind
  PROVE  /\ place[t] = PlaceOf(pc[t], kind[t])
         /\ place' = [place EXCEPT ![t] = PlaceOf(l, kind[t])]
         /\ PlaceOf(l, kind[t]) = PlaceOf(pc[t], kind[t]) => place' = place
  BY DEF TypeOK, place, Goto

(* A step of one thread, action by action.                                 *)
LEMMA StepIsSpinning ==
  ASSUME TypeOK, NEW t \in Threads,
         \/ \E k \in Kinds, m \in {"try", "first"} : Call(t, k, m)
         \/ Upgrade(t)
         \/ Continue(t)
  PROVE  Spinning!Step(t) \/ UNCHANGED Spinning!vars
<1> USE DEF Spinning!vars, Spinning!Goto
<1>1. /\ kind = [kind EXCEPT ![t] = kind[t]] /\ kind[t] \in Kinds
      /\ Granted(t) \in {"held", "dequeue"} /\ Refused(t) \in {"idle", "enqueue", "sleep"}
      /\ Consistent(pc[t], kind[t], mode[t])
  BY DEF TypeOK, Granted, Refused, Consistent
<1>2. \A l \in {"idle", "attempt", "enqueue", "sleep", "wake_one", "wake_all"} :
        \A k : PlaceOf(l, k) = "idle"
  BY DEF PlaceOf
<1>3. \A l \in {"held", "dequeue"} : /\ PlaceOf(l, "read") = "reading"
                                     /\ PlaceOf(l, "write") = "writing"
                                     /\ PlaceOf(l, "upread") = "upreading"
  BY DEF PlaceOf
<1>4. /\ PlaceOf("undo", "read") = "read_undo" /\ PlaceOf("undo", "upread") = "upread_undo"
      /\ \A k : PlaceOf("upgrading", k) = "upgrading" /\ PlaceOf("upgraded", k) = "upgraded"
  BY DEF PlaceOf
<1>5. ASSUME NEW k \in Kinds, NEW m \in {"try", "first"}, Call(t, k, m)
      PROVE  UNCHANGED <<lock, place>>
  <2>1. /\ pc' = [pc EXCEPT ![t] = "attempt"] /\ kind' = [kind EXCEPT ![t] = k]
        /\ lock' = lock /\ pc[t] = "idle"
    BY <1>5 DEF Call, Goto
  <2>2. PlaceOf("attempt", k) = PlaceOf(pc[t], kind[t]) BY <1>2, <2>1
  <2>3. QED BY <2>1, <2>2, Placed
<1>6. ASSUME TryRead(t) PROVE Spinning!TryRead(t)
  <2> DEFINE l == IF RefusesReader(lock) THEN "undo" ELSE Granted(t)
  <2>1. /\ Goto(t, l) /\ kind' = kind /\ kind[t] = "read" /\ pc[t] = "attempt"
        /\ lock' = FetchAdd(lock, READER)
    BY <1>6 DEF TryRead, Attempting
  <2>2. PlaceOf(l, "read") = IF RefusesReader(lock) THEN "read_undo" ELSE "reading"
    BY <1>1, <1>3, <1>4
  <2> HIDE DEF l
  <2>3. /\ place[t] = "idle" /\ place' = [place EXCEPT ![t] = PlaceOf(l, "read")]
    BY SMTT(60), <1>2, <2>1, PlacedSame
  <2>4. QED BY <2>1, <2>2, <2>3, SameOperators DEF Spinning!TryRead
<1>7. ASSUME TryWrite(t) PROVE Spinning!TryWrite(t) \/ UNCHANGED <<lock, place>>
  <2>1. /\ kind' = kind /\ kind[t] = "write" /\ pc[t] = "attempt"
    BY <1>7 DEF TryWrite, Attempting
  <2>2. CASE lock = 0
    <3>1. Goto(t, Granted(t)) /\ lock' = WRITER BY <1>7, <2>2 DEF TryWrite
    <3>2. PlaceOf(Granted(t), "write") = "writing" BY <1>1, <1>3
    <3>3. /\ place[t] = "idle" /\ place' = [place EXCEPT ![t] = "writing"]
      BY SMTT(60), <1>2, <2>1, <3>1, <3>2, PlacedSame
    <3>4. QED BY <2>2, <3>1, <3>3, SameOperators DEF Spinning!TryWrite
  <2>3. CASE lock # 0
    <3>1. Goto(t, Refused(t)) /\ lock' = lock BY <1>7, <2>3 DEF TryWrite
    <3>2. PlaceOf(Refused(t), kind[t]) = PlaceOf(pc[t], kind[t]) BY <1>1, <1>2, <2>1
    <3>3. QED BY <2>1, <3>1, <3>2, PlacedSame
  <2>4. QED BY <2>2, <2>3
<1>8. ASSUME TryUpread(t) PROVE Spinning!TryUpread(t)
  <2> DEFINE l == IF HasUpgradeable(lock) THEN Refused(t)
                  ELSE IF HasWriter(lock) THEN "undo" ELSE Granted(t)
  <2>1. /\ Goto(t, l) /\ kind' = kind /\ kind[t] = "upread" /\ pc[t] = "attempt"
        /\ lock' = FetchOrUpgradeable(lock)
    BY <1>8 DEF TryUpread, Attempting
  <2>2. PlaceOf(l, "upread") =
          IF HasUpgradeable(lock) THEN "idle"
          ELSE IF HasWriter(lock) THEN "upread_undo" ELSE "upreading"
    BY SMTT(60), <1>1, <1>2, <1>3, <1>4
  <2> HIDE DEF l
  <2>3. /\ place[t] = "idle" /\ place' = [place EXCEPT ![t] = PlaceOf(l, "upread")]
    BY SMTT(60), <1>2, <2>1, PlacedSame
  <2>4. QED BY <2>1, <2>2, <2>3, SameOperators DEF Spinning!TryUpread
<1>9. ASSUME TryUndo(t) PROVE Spinning!TryReadUndo(t) \/ Spinning!TryUpreadUndo(t)
  <2>1. /\ kind[t] \in {"read", "upread"} /\ kind' = kind /\ Goto(t, Refused(t))
        /\ pc[t] = "undo"
    BY <1>1, <1>9 DEF TryUndo, Consistent, Kinds
  <2>2. PlaceOf(Refused(t), kind[t]) = "idle" BY <1>1, <1>2
  <2>3. /\ place[t] = PlaceOf("undo", kind[t]) /\ place' = [place EXCEPT ![t] = "idle"]
    BY <2>1, <2>2, PlacedSame
  <2>4. CASE kind[t] = "read"
    <3>1. lock' = FetchSub(lock, READER) BY <1>9, <2>4 DEF TryUndo
    <3>2. QED BY <1>4, <2>3, <2>4, <3>1, SameOperators DEF Spinning!TryReadUndo
  <2>5. CASE kind[t] = "upread"
    <3>1. lock' = FetchSub(lock, UPGRADEABLE_READER) BY <1>9, <2>5 DEF TryUndo
    <3>2. QED BY <1>4, <2>3, <2>5, <3>1, SameOperators DEF Spinning!TryUpreadUndo
  <2>6. QED BY <2>1, <2>4, <2>5
<1>10. ASSUME WaitEnqueue(t) \/ WaitWoken(t) \/ WaitDequeue(t) \/ DropWake(t)
       PROVE  UNCHANGED <<lock, place>>
  <2>1. PICK l \in {"attempt", "held", "idle"} :
          /\ Goto(t, l) /\ kind' = kind /\ lock' = lock
          /\ IF l = "held" THEN pc[t] = "dequeue"
             ELSE pc[t] \in {"enqueue", "sleep", "wake_one", "wake_all"}
    BY <1>10 DEF WaitEnqueue, WaitWoken, WaitDequeue, DropWake
  <2>2. PlaceOf(l, kind[t]) = PlaceOf(pc[t], kind[t]) BY <2>1 DEF PlaceOf
  <2>3. QED BY <2>1, <2>2, PlacedSame
<1>11. ASSUME DropReadGuard(t) PROVE Spinning!DropReadGuard(t)
  <2>1. PICK l \in {"wake_one", "idle"} :
          /\ Goto(t, l) /\ kind' = kind /\ pc[t] = "held" /\ kind[t] = "read"
          /\ lock' = FetchSub(lock, READER)
    BY <1>11 DEF DropReadGuard
  <2>2. place[t] = "reading" /\ place' = [place EXCEPT ![t] = "idle"]
    BY SMTT(60), <1>2, <1>3, <2>1, PlacedSame
  <2>3. QED BY <2>1, <2>2, SameOperators DEF Spinning!DropReadGuard
<1>12. ASSUME DropWriteGuard(t) PROVE Spinning!DropWriteGuard(t)
  <2>1. /\ Goto(t, "wake_all") /\ kind' = kind /\ pc[t] = "held" /\ kind[t] = "write"
        /\ lock' = FetchAndNotWriter(lock)
    BY <1>12 DEF DropWriteGuard
  <2>2. place[t] = "writing" /\ place' = [place EXCEPT ![t] = "idle"]
    BY SMTT(60), <1>2, <1>3, <2>1, PlacedSame
  <2>3. QED BY <2>1, <2>2, SameOperators DEF Spinning!DropWriteGuard
<1>13. ASSUME DropUpgradeableGuard(t)
       PROVE  Spinning!DropUpgradeableGuard(t) \/ Spinning!TryUpgradeDropSelf(t)
  <2>1. kind' = kind /\ lock' = FetchSub(lock, UPGRADEABLE_READER)
    BY <1>13 DEF DropUpgradeableGuard
  <2>2. CASE pc[t] = "held" /\ kind[t] = "upread"
    <3>1. PICK l \in {"wake_all", "idle"} : Goto(t, l)
      BY <1>13, <2>2 DEF DropUpgradeableGuard
    <3>2. place[t] = "upreading" /\ place' = [place EXCEPT ![t] = "idle"]
      BY SMTT(60), <1>2, <1>3, <2>1, <2>2, <3>1, PlacedSame
    <3>3. QED BY <2>1, <3>2, SameOperators DEF Spinning!DropUpgradeableGuard
  <2>3. CASE pc[t] = "upgraded"
    <3>1. kind[t] = "write" /\ Goto(t, "held")
      BY <1>1, <1>13, <2>3 DEF Consistent, DropUpgradeableGuard
    <3>2. place[t] = "upgraded" /\ place' = [place EXCEPT ![t] = "writing"]
      BY SMTT(60), <1>3, <1>4, <2>1, <2>3, <3>1, PlacedSame
    <3>3. QED BY <2>1, <3>2, SameOperators DEF Spinning!TryUpgradeDropSelf
  <2>4. QED BY <1>13, <2>2, <2>3 DEF DropUpgradeableGuard
<1>14. ASSUME Upgrade(t) PROVE Spinning!Upgrade(t)
  <2>1. /\ Goto(t, "upgrading") /\ kind' = kind /\ pc[t] = "held" /\ kind[t] = "upread"
        /\ lock' = FetchOrBeingUpgraded(lock)
    BY <1>14 DEF Upgrade
  <2>2. place[t] = "upreading" /\ place' = [place EXCEPT ![t] = "upgrading"]
    BY SMTT(60), <1>3, <1>4, <2>1, PlacedSame
  <2>3. QED BY <2>1, <2>2, SameOperators DEF Spinning!Upgrade
<1>15. ASSUME TryUpgrade(t) PROVE Spinning!TryUpgrade(t)
  <2>1. /\ pc' = [pc EXCEPT ![t] = "upgraded"] /\ kind' = [kind EXCEPT ![t] = "write"]
        /\ pc[t] = "upgrading" \/ (pc[t] = "held" /\ kind[t] = "upread")
        /\ lock = UPGRADEABLE_READER + BEING_UPGRADED
        /\ lock' = WRITER + UPGRADEABLE_READER
    BY <1>15 DEF TryUpgrade, Goto
  <2>2. /\ place[t] \in {"upreading", "upgrading"}
        /\ place' = [place EXCEPT ![t] = "upgraded"]
    <3>1. /\ place[t] = PlaceOf(pc[t], kind[t])
          /\ place' = [place EXCEPT ![t] = PlaceOf("upgraded", "write")]
      BY <2>1, Placed
    <3>2. PlaceOf(pc[t], kind[t]) \in {"upreading", "upgrading"} BY <1>3, <1>4, <2>1
    <3>3. QED BY <1>4, <3>1, <3>2
  <2>3. QED BY <2>1, <2>2, SameOperators DEF Spinning!TryUpgrade
<1>16. QED
  BY <1>5, <1>6, <1>7, <1>8, <1>9, <1>10, <1>11, <1>12, <1>13, <1>14, <1>15
  DEF Continue, Spinning!Step

-----------------------------------------------------------------------------
(* The invariant: that of the spinning lock, on the places.                *)
Inv == TypeOK /\ Spinning!Inv

(* An unlocked mutex is an unlocked spinning lock.                         *)
LEMMA InitIsSpinning == Init => Spinning!Init
  BY DEF Init, Spinning!Init, place, PlaceOf

(* Every step keeps the types and is a step of the spinning lock.          *)
LEMMA NextIsSpinning == TypeOK /\ [Next]_vars => TypeOK' /\ [Spinning!Next]_Spinning!vars
<1> SUFFICES ASSUME TypeOK, [Next]_vars PROVE TypeOK' /\ [Spinning!Next]_Spinning!vars
  OBVIOUS
<1>1. CASE UNCHANGED vars
  <2>1. TypeOK' BY <1>1 DEF vars, TypeOK, WaitTypeOK, NoDuplicates, Queued
  <2>2. UNCHANGED Spinning!vars BY <1>1 DEF vars, Spinning!vars, place
  <2>3. QED BY <2>1, <2>2
<1>2. CASE Next
  <2>1. PICK t \in Threads : \/ \E k \in Kinds, m \in {"try", "first"} : Call(t, k, m)
                             \/ Upgrade(t)
                             \/ Continue(t)
    BY <1>2 DEF Next
  <2>2. TypeOK' BY <2>1, NextKeepsTypes
  <2>3. Spinning!Step(t) \/ UNCHANGED Spinning!vars BY <2>1, StepIsSpinning
  <2>4. QED BY <2>2, <2>3 DEF Spinning!Next
<1>3. QED BY <1>1, <1>2

(* The invariant holds as long as the reader field cannot overflow into    *)
(* BEING_UPGRADED.                                                         *)
THEOREM Invariance ==
  ASSUME IsFiniteSet(Threads), Cardinality(Threads) < 2 * MAX_READER
  PROVE  Spec => []Inv
<1>1. /\ Spinning!IsFiniteSet(Threads) /\ Spinning!Cardinality(Threads) < 2 * MAX_READER
      /\ MAX_READER \in Nat \ {0}
  BY SameSets, MaxReaderAssumption
<1>2. Init => Inv
  BY <1>1, InitTypes, InitIsSpinning, Spinning!InitInv DEF Inv
<1>3. Inv /\ [Next]_vars => Inv'
  <2>1. Spinning!Inv /\ [Spinning!Next]_Spinning!vars => Spinning!Inv'
    BY <1>1, Spinning!NextInv
  <2>2. QED BY <2>1, NextIsSpinning DEF Inv
<1>4. QED BY <1>2, <1>3, PTL DEF Spec

(* The places say which guard a thread holds.                              *)
GuardsAgree == holds = Spinning!holds

(* Its guards are those of the spinning lock.                              *)
LEMMA SameHolds == TypeOK => GuardsAgree
<1> SUFFICES ASSUME TypeOK PROVE holds = Spinning!holds BY DEF GuardsAgree
<1>1. ASSUME NEW t \in Threads PROVE holds[t] = Spinning!holds[t]
  <2>1. /\ pc[t] \in PCs /\ kind[t] \in Kinds /\ Consistent(pc[t], kind[t], mode[t])
    BY DEF TypeOK, Consistent
  <2>2. place[t] = PlaceOf(pc[t], kind[t]) BY DEF place
  <2>3. QED BY <2>1, <2>2 DEF holds, Spinning!holds, PlaceOf, Consistent, PCs, Kinds
<1>2. QED BY <1>1 DEF holds, Spinning!holds

(* Its places account for the word as those of the spinning lock do.       *)
LEMMA SameWord == TypeOK /\ Spinning!WordIsSumOfHolders => WordIsSumOfHolders
<1> SUFFICES ASSUME TypeOK, Spinning!WordIsSumOfHolders PROVE WordIsSumOfHolders OBVIOUS
<1> DEFINE upgrading == {t \in Threads : pc[t] = "upgrading"}
           upgraded  == {t \in Threads : pc[t] = "upgraded"}
<1>1. ASSUME NEW t \in Threads
      PROVE  /\ t \in Announced("read") <=> t \in Spinning!In({"reading", "read_undo"})
             /\ t \in upgrading <=> t \in Spinning!In({"upgrading"})
             /\ t \in Announced("upread") \cup upgrading \cup upgraded <=>
                  t \in Spinning!In({"upreading", "upread_undo", "upgrading", "upgraded"})
             /\ t \in Announced("write") \cup upgraded <=>
                  t \in Spinning!In({"writing", "upgraded"})
  <2>1. /\ pc[t] \in PCs /\ kind[t] \in Kinds /\ Consistent(pc[t], kind[t], mode[t])
    BY DEF TypeOK, Consistent
  <2>2. place[t] = PlaceOf(pc[t], kind[t]) BY DEF place
  <2>3. QED BY <2>1, <2>2 DEF Announced, Spinning!In, PlaceOf, Consistent, PCs, Kinds
<1>2. /\ Announced("read") = Spinning!In({"reading", "read_undo"})
      /\ upgrading = Spinning!In({"upgrading"})
      /\ Announced("upread") \cup upgrading \cup upgraded =
           Spinning!In({"upreading", "upread_undo", "upgrading", "upgraded"})
      /\ Announced("write") \cup upgraded = Spinning!In({"writing", "upgraded"})
  BY <1>1 DEF Announced, Spinning!In
<1>3. QED
  BY <1>2, SameSets, SameOperators
  DEF WordIsSumOfHolders, Spinning!WordIsSumOfHolders, Bit, Spinning!Bit

(* rwmutex.rs: the word is the sum of what the guards and the attempts     *)
(* under way have put there, whoever sleeps, wakes or gives up.            *)
THEOREM WordCorrect ==
  ASSUME IsFiniteSet(Threads), Cardinality(Threads) < 2 * MAX_READER
  PROVE  Spec => []WordIsSumOfHolders
<1>1. Inv => WordIsSumOfHolders BY SameWord DEF Inv, Spinning!Inv
<1>2. QED BY <1>1, Invariance, PTL

(* rwmutex.rs: the sleeping mutex implements the reader-writer lock of     *)
(* RwSpec: a write guard is alone, there is one upread guard, and an       *)
(* upgrade lets no other writer in between.                                *)
THEOREM Refinement ==
  ASSUME IsFiniteSet(Threads), Cardinality(Threads) < 2 * MAX_READER
  PROVE  Spec => ImplementsRwSpec
<1>1. /\ Spinning!IsFiniteSet(Threads) /\ Spinning!Cardinality(Threads) < 2 * MAX_READER
      /\ MAX_READER \in Nat \ {0}
  BY SameSets, MaxReaderAssumption
<1>2. Init => Abstract!Init
  BY DEF Init, Abstract!Init, holds
<1>3. Inv /\ Inv' /\ [Next]_vars => [Abstract!Next]_holds
  <2> SUFFICES ASSUME Inv, Inv', [Next]_vars PROVE [Abstract!Next]_holds OBVIOUS
  <2>1. holds = Spinning!holds /\ holds' = Spinning!holds'
    <3>1. TypeOK => GuardsAgree BY SameHolds
    <3>2. TypeOK' => GuardsAgree' BY SameHolds, PTL
    <3>3. QED BY <3>1, <3>2 DEF Inv, GuardsAgree
  <2>2. [Spinning!Abstract!Next]_Spinning!holds
    BY <1>1, NextIsSpinning, Spinning!StepRefines DEF Inv
  <2>3. QED
    BY <2>1, <2>2
    DEF Abstract!Next, Abstract!AcquireRead, Abstract!AcquireUpread, Abstract!AcquireWrite,
        Abstract!Acquire, Abstract!OthersHoldNone, Abstract!Upgrade, Abstract!Release,
        Spinning!Abstract!Next, Spinning!Abstract!AcquireRead,
        Spinning!Abstract!AcquireUpread, Spinning!Abstract!AcquireWrite,
        Spinning!Abstract!Acquire, Spinning!Abstract!OthersHoldNone,
        Spinning!Abstract!Upgrade, Spinning!Abstract!Release
<1>4. QED BY <1>2, <1>3, Invariance, PTL DEF Spec, ImplementsRwSpec, Abstract!Spec

(* rwmutex.rs, read: with no more threads than MAX_READER, a reader that   *)
(* sleeps unwoken always has a writer, an upgrade or a pending wake_all in *)
(* front of it.  The word decides it when the attempt is refused, and from *)
(* then on every way out of that state passes through a wake_all.          *)
THEOREM ReadersAreRemembered ==
  ASSUME IsFiniteSet(Threads), Cardinality(Threads) <= MAX_READER
  PROVE  Spec => []ReaderNotForgotten
<1>1. Cardinality(Threads) < 2 * MAX_READER
  BY SMTT(60), MaxReaderAssumption, FS_CardinalityType
<1>2. Spec => []Inv BY <1>1, Invariance
<1>3. Init => RefusedRemembered
  BY DEF Init, RefusedRemembered, Forgotten
<1>4. Inv /\ Inv' /\ RefusedRemembered /\ [Next]_vars => RefusedRemembered'
  <2> SUFFICES ASSUME Inv, Inv', RefusedRemembered, [Next]_vars PROVE RefusedRemembered'
    OBVIOUS
  <2>1. CASE UNCHANGED vars
    BY <2>1 DEF vars, RefusedRemembered, Forgotten, Remembers, holds
  <2>2. CASE Next
    <3>1. PICK t \in Threads : \/ \E k \in Kinds, m \in {"try", "first"} : Call(t, k, m)
                               \/ Upgrade(t)
                               \/ Continue(t)
      BY <2>2 DEF Next
    <3>2. WordIsSumOfHolders BY SameWord DEF Inv, Spinning!Inv
    <3>3. QED BY <3>1, <3>2, NextRemembers DEF Inv
  <2>3. QED BY <2>1, <2>2
<1>5. Inv /\ RefusedRemembered => ReaderNotForgotten
  <2> SUFFICES ASSUME Inv, RefusedRemembered, NEW t \in Threads, Asleep(t, "read"), ~woken[t]
               PROVE  Present({"write"}) \/ \E u \in Threads : pc[u] \in {"upgrading", "wake_all"}
    BY DEF ReaderNotForgotten
  <2>1. Forgotten(t) BY DEF Asleep, Forgotten, Inv, TypeOK
  <2>2. PICK u \in Threads : Remembers(u) BY <2>1 DEF RefusedRemembered
  <2>3. QED BY <2>2 DEF Remembers, Present
<1>6. QED BY <1>2, <1>3, <1>4, <1>5, PTL DEF Spec
=============================================================================
