------------------------------- MODULE RwLock -------------------------------
(***************************************************************************)
(* The spin-based reader-writer lock of aster-frame (sync/rwlock.rs).      *)
(*                                                                         *)
(* Every atomic access to the lock word is one step, so the interleavings  *)
(* are those of any number of CPUs, or of one CPU whose interrupt handlers *)
(* take the lock too.  A thread holds at most one guard of the lock.  The  *)
(* spin loops read, write and upread retry the try_ operation until it     *)
(* succeeds: a thread that is "idle" may call any of them at any time,     *)
(* which includes retrying.  The IRQ-disabling variants perform the same   *)
(* accesses and differ in the guard they carry along, which is not part of *)
(* the state of the lock.                                                  *)
(***************************************************************************)
EXTENDS RwWord, FiniteSets, FiniteSetTheorems, TLAPS

CONSTANT Threads

ASSUME ThreadsAssumption ==
  /\ IsFiniteSet(Threads)
  /\ Cardinality(Threads) < 2 * MAX_READER   \* the reader field cannot overflow

VARIABLES lock,    \* the AtomicUsize
          pc       \* where each thread is; what guard it holds

vars == <<lock, pc>>

PCs == {"idle", "reading", "read_undo", "writing", "upreading", "upread_undo",
        "upgrading", "upgraded"}

In(S) == {t \in Threads : pc[t] \in S}

TypeOK == /\ lock \in Word
          /\ pc \in [Threads -> PCs]

Init == /\ lock = 0
        /\ pc = [t \in Threads |-> "idle"]

-----------------------------------------------------------------------------
Goto(t, l) == pc' = [pc EXCEPT ![t] = l]

(* try_read: announce the reader first, look at the old word afterwards.   *)
TryRead(t) ==
  /\ pc[t] = "idle"
  /\ lock' = FetchAdd(lock, READER)
  /\ Goto(t, IF RefusesReader(lock) THEN "read_undo" ELSE "reading")

(* try_read, the refused case: take the announcement back.                 *)
TryReadUndo(t) ==
  /\ pc[t] = "read_undo"
  /\ lock' = FetchSub(lock, READER)
  /\ Goto(t, "idle")

DropReadGuard(t) ==
  /\ pc[t] = "reading"
  /\ lock' = FetchSub(lock, READER)
  /\ Goto(t, "idle")

(* try_write: compare_exchange(0, WRITER); a failure changes nothing.      *)
TryWrite(t) ==
  /\ pc[t] = "idle"
  /\ lock = 0
  /\ lock' = WRITER
  /\ Goto(t, "writing")

DropWriteGuard(t) ==
  /\ pc[t] = "writing"
  /\ lock' = FetchAndNotWriter(lock)
  /\ Goto(t, "idle")

(* Mutant: an upreader does not refuse another one.                        *)
TryUpreadShared(t) ==
  /\ pc[t] = "idle"
  /\ lock' = FetchOrUpgradeable(lock)
  /\ Goto(t, IF HasWriter(lock) THEN "upread_undo" ELSE "upreading")

(* Mutant: every refused attempt takes the bit back, whoever set it.       *)
TryUpreadAlwaysUndo(t) ==
  /\ pc[t] = "idle"
  /\ lock' = FetchOrUpgradeable(lock)
  /\ Goto(t, IF ~HasWriter(lock) /\ ~HasUpgradeable(lock) THEN "upreading"
             ELSE "upread_undo")

(* try_upread: set the bit; the old word decides.  The bit is taken back   *)
(* only by a thread that found WRITER alone, for then it set the bit.      *)
TryUpread(t) ==
  /\ pc[t] = "idle"
  /\ lock' = FetchOrUpgradeable(lock)
  /\ Goto(t, IF ~HasWriter(lock) /\ ~HasUpgradeable(lock) THEN "upreading"
             ELSE IF ~HasUpgradeable(lock) THEN "upread_undo" ELSE "idle")

TryUpreadUndo(t) ==
  /\ pc[t] = "upread_undo"
  /\ lock' = FetchSub(lock, UPGRADEABLE_READER)
  /\ Goto(t, "idle")

DropUpgradeableGuard(t) ==
  /\ pc[t] = "upreading"
  /\ lock' = FetchSub(lock, UPGRADEABLE_READER)
  /\ Goto(t, "idle")

(* upgrade: block new readers, then spin on try_upgrade.                   *)
Upgrade(t) ==
  /\ pc[t] = "upreading"
  /\ lock' = FetchOrBeingUpgraded(lock)
  /\ Goto(t, "upgrading")

(* Mutant: the upgrade does not wait for the readers to finish.            *)
TryUpgradeAnyReaders(t) ==
  /\ pc[t] = "upgrading"
  /\ lock' = lock - BEING_UPGRADED + WRITER
  /\ Goto(t, "upgraded")

(* try_upgrade, called by upgrade or directly on an upread guard.          *)
TryUpgrade(t) ==
  /\ pc[t] \in {"upreading", "upgrading"}
  /\ lock = UPGRADEABLE_READER + BEING_UPGRADED
  /\ lock' = WRITER + UPGRADEABLE_READER
  /\ Goto(t, "upgraded")

(* try_upgrade, drop(self): the upread guard goes, the write guard stays.  *)
TryUpgradeDropSelf(t) ==
  /\ pc[t] = "upgraded"
  /\ lock' = FetchSub(lock, UPGRADEABLE_READER)
  /\ Goto(t, "writing")

Step(t) == \/ TryRead(t) \/ TryReadUndo(t) \/ DropReadGuard(t)
           \/ TryWrite(t) \/ DropWriteGuard(t)
           \/ TryUpread(t) \/ TryUpreadUndo(t) \/ DropUpgradeableGuard(t)
           \/ Upgrade(t) \/ TryUpgrade(t) \/ TryUpgradeDropSelf(t)

Next == \E t \in Threads : Step(t)

Spec == Init /\ [][Next]_vars

-----------------------------------------------------------------------------
(* The guard a thread holds: an upgrading thread still holds its upread    *)
(* guard, and from the successful compare_exchange on the write guard.     *)
holds == [t \in Threads |->
            IF pc[t] = "reading" THEN "read"
            ELSE IF pc[t] \in {"upreading", "upgrading"} THEN "upread"
            ELSE IF pc[t] \in {"writing", "upgraded"} THEN "write"
            ELSE "none"]

(* A write guard excludes every other guard, and there is at most one      *)
(* upread guard, although try_read and try_upread change the word before   *)
(* they know whether they may.                                             *)
Exclusion ==
  \A t, u \in Threads : t # u =>
    /\ holds[t] = "write" => holds[u] = "none"
    /\ holds[t] = "upread" => holds[u] # "upread"

Bit(S, b) == IF In(S) # {} THEN b ELSE 0

(* The word is exactly the sum of what the threads have put there, so a    *)
(* refused attempt leaves no trace and a lock nobody uses is free (0).     *)
WordIsSumOfHolders ==
  lock = Cardinality(In({"reading", "read_undo"}))
         + Bit({"upgrading"}, BEING_UPGRADED)
         + Bit({"upreading", "upread_undo", "upgrading", "upgraded"},
               UPGRADEABLE_READER)
         + Bit({"writing", "upgraded"}, WRITER)

(* rwlock.rs on upgrade: "subsequent readers will be blocked while         *)
(* previous readers remain unaffected".  While a thread is upgrading, no   *)
(* thread becomes a reader.                                                *)
UpgradeBlocksNewReaders ==
  [][In({"upgrading"}) # {} => In({"reading"})' \subseteq In({"reading"})]_vars

(* The lock implements the reader-writer lock of RwSpec.                   *)
Abstract == INSTANCE RwSpec WITH holds <- holds
ImplementsRwSpec == Abstract!Spec

-----------------------------------------------------------------------------
(* Proofs, for any number of threads below the reader limit.               *)
(*                                                                         *)
(* Exclusion alone is not inductive: a step decides from the word, so the  *)
(* invariant must say what the word tells about the threads.  Inv adds     *)
(* that the word is the sum of what the threads put there, that each flag  *)
(* bit was put there by one thread only, and that a writer's bit keeps     *)
(* readers and upreaders out.                                              *)
Readers  == In({"reading", "read_undo"})
Ups      == In({"upreading", "upread_undo", "upgrading", "upgraded"})
Being    == In({"upgrading"})
Writers  == In({"writing", "upgraded"})
Blocked  == In({"reading", "upreading", "upgrading"})

AtMostOne(S) == \A t, u \in S : t = u

Inv == /\ TypeOK
       /\ WordIsSumOfHolders
       /\ AtMostOne(Ups)
       /\ AtMostOne(Writers)
       /\ Writers # {} => Blocked = {}

-----------------------------------------------------------------------------
(* A leaf that names no prover is for Zenon.                               *)
USE ZenonT(30)

(* The flag bits of a word that is written as such a sum can be read off.  *)
LEMMA WordBits ==
  ASSUME NEW r \in Nat, r < 2 * MAX_READER,
         NEW b \in {0, BEING_UPGRADED}, NEW u \in {0, UPGRADEABLE_READER},
         NEW w \in {0, WRITER}, NEW x, x = r + b + u + w
  PROVE  /\ x \in Word
         /\ HasWriter(x) <=> w = WRITER
         /\ HasUpgradeable(x) <=> u = UPGRADEABLE_READER
         /\ HasBeingUpgraded(x) <=> b = BEING_UPGRADED
         /\ ReaderField(x) = r
         /\ HasMaxReader(x) <=> r >= MAX_READER
  BY SMTT(60), MaxReaderAssumption
  DEF Word, WordSize, WRITER, UPGRADEABLE_READER, BEING_UPGRADED, HasWriter,
      HasUpgradeable, HasBeingUpgraded, BelowWriter, BelowUpgradeable,
      ReaderField, HasMaxReader

(* Adding or removing one reader changes the count by one.                 *)
LEMMA ReaderCount ==
  /\ \A S \in SUBSET Threads : /\ IsFiniteSet(S)
                               /\ Cardinality(S) \in Nat
                               /\ Cardinality(S) < 2 * MAX_READER
  /\ \A S \in SUBSET Threads, t \in Threads :
        /\ t \notin S => Cardinality(S \cup {t}) = Cardinality(S) + 1
        /\ t \in S => Cardinality(S \ {t}) = Cardinality(S) - 1
                      /\ Cardinality(S) >= 1
<1>1. ASSUME NEW S \in SUBSET Threads
      PROVE  IsFiniteSet(S) /\ Cardinality(S) \in Nat
             /\ Cardinality(S) < 2 * MAX_READER
  BY SMTT(60), ThreadsAssumption, MaxReaderAssumption, FS_Subset, FS_CardinalityType
<1>2. ASSUME NEW S \in SUBSET Threads, NEW t \in Threads
      PROVE  /\ t \notin S => Cardinality(S \cup {t}) = Cardinality(S) + 1
             /\ t \in S => Cardinality(S \ {t}) = Cardinality(S) - 1
                           /\ Cardinality(S) >= 1
  <2>1. IsFiniteSet(S) BY <1>1
  <2>2. t \notin S => Cardinality(S \cup {t}) = Cardinality(S) + 1
    BY <2>1, FS_AddElement
  <2>3. t \in S => Cardinality(S \ {t}) = Cardinality(S) - 1
    BY <2>1, FS_RemoveElement
  <2>4. t \in S => Cardinality(S) >= 1
    <3>1. ASSUME t \in S PROVE Cardinality(S) # 0
      BY <2>1, <3>1, FS_EmptySet
    <3>2. QED BY SMTT(60), <3>1, <1>1
  <2>5. QED BY <2>2, <2>3, <2>4
<1>3. QED BY <1>1, <1>2

(* What a thread that changes place does to the sets of threads.           *)
Moved(S, L, t, l) == IF l \in L THEN S \cup {t} ELSE S \ {t}

(* One thread moves: how the sets of threads change.                       *)
LEMMA Move ==
  ASSUME TypeOK, NEW t \in Threads, NEW l \in PCs, Goto(t, l)
  PROVE  /\ Readers' = Moved(Readers, {"reading", "read_undo"}, t, l)
         /\ Ups' = Moved(Ups, {"upreading", "upread_undo", "upgrading",
                               "upgraded"}, t, l)
         /\ Being' = Moved(Being, {"upgrading"}, t, l)
         /\ Writers' = Moved(Writers, {"writing", "upgraded"}, t, l)
         /\ Blocked' = Moved(Blocked, {"reading", "upreading", "upgrading"},
                             t, l)
  BY DEF TypeOK, Goto, In, Moved, Readers, Ups, Being, Writers, Blocked

(* Where a thread is, is which of the sets it belongs to.                  *)
LEMMA Membership ==
  ASSUME NEW t \in Threads
  PROVE  /\ t \in Readers <=> pc[t] \in {"reading", "read_undo"}
         /\ t \in Ups <=> pc[t] \in {"upreading", "upread_undo", "upgrading",
                                       "upgraded"}
         /\ t \in Being <=> pc[t] = "upgrading"
         /\ t \in Writers <=> pc[t] \in {"writing", "upgraded"}
         /\ t \in Blocked <=> pc[t] \in {"reading", "upreading", "upgrading"}
  BY DEF In, Readers, Ups, Being, Writers, Blocked

-----------------------------------------------------------------------------
(* RwLock::new: a lock nobody has used yet satisfies the invariant.        *)
THEOREM InitInv == Init => Inv
<1> SUFFICES ASSUME Init PROVE Inv OBVIOUS
<1>1. \A S : "idle" \notin S => In(S) = {}
  BY DEF Init, In
<1>2. TypeOK
  BY SMTT(60), MaxReaderAssumption DEF Init, TypeOK, Word, WordSize, PCs
<1>3. /\ Readers = {} /\ Ups = {} /\ Being = {} /\ Writers = {}
      /\ Blocked = {}
  BY <1>1 DEF Readers, Ups, Being, Writers, Blocked
<1>4. WordIsSumOfHolders
  <2>1. Cardinality(Readers) = 0 BY <1>3, FS_EmptySet
  <2>2. QED
    BY SMTT(60), <1>3, <2>1
    DEF Init, WordIsSumOfHolders, Bit, Readers, Ups, Being, Writers
<1>5. QED BY <1>2, <1>3, <1>4 DEF Inv, AtMostOne

(* The word that four sets of threads determine.                           *)
Sum(R, B, U, W) ==
  Cardinality(R) + (IF B # {} THEN BEING_UPGRADED ELSE 0)
                 + (IF U # {} THEN UPGRADEABLE_READER ELSE 0)
                 + (IF W # {} THEN WRITER ELSE 0)

(* The word of four such sets: its bits and its reader field.              *)
LEMMA SumIsWord ==
  ASSUME NEW R \in SUBSET Threads, NEW B, NEW U, NEW W
  PROVE  /\ Sum(R, B, U, W) \in Word
         /\ HasWriter(Sum(R, B, U, W)) <=> W # {}
         /\ HasUpgradeable(Sum(R, B, U, W)) <=> U # {}
         /\ HasBeingUpgraded(Sum(R, B, U, W)) <=> B # {}
         /\ ReaderField(Sum(R, B, U, W)) = Cardinality(R)
<1>1. Cardinality(R) \in Nat /\ Cardinality(R) < 2 * MAX_READER
  BY ReaderCount
<1> DEFINE b == IF B # {} THEN BEING_UPGRADED ELSE 0
           u == IF U # {} THEN UPGRADEABLE_READER ELSE 0
           w == IF W # {} THEN WRITER ELSE 0
<1>2. /\ b = BEING_UPGRADED <=> B # {}
      /\ u = UPGRADEABLE_READER <=> U # {}
      /\ w = WRITER <=> W # {}
  BY SMTT(60), MaxReaderAssumption DEF BEING_UPGRADED, UPGRADEABLE_READER, WRITER
<1>3. Sum(R, B, U, W) = Cardinality(R) + b + u + w
  BY DEF Sum
<1>4. b \in {0, BEING_UPGRADED} /\ u \in {0, UPGRADEABLE_READER}
      /\ w \in {0, WRITER}
  OBVIOUS
<1> HIDE DEF b, u, w
<1>5. QED BY SMTT(60), <1>1, <1>2, <1>3, <1>4, WordBits

(* The invariant says that the word is that of the sets of threads.        *)
LEMMA InvWord ==
  /\ WordIsSumOfHolders <=> lock = Sum(Readers, Being, Ups, Writers)
  /\ WordIsSumOfHolders' <=> lock' = Sum(Readers', Being', Ups', Writers')
  BY DEF WordIsSumOfHolders, Sum, Bit, Readers, Being, Ups, Writers

(* The atomic operations on such a word, as operations on the four sets.   *)
LEMMA SumAddReader ==
  ASSUME NEW R \in SUBSET Threads, NEW B, NEW U, NEW W, NEW t \in Threads \ R
  PROVE  FetchAdd(Sum(R, B, U, W), READER) = Sum(R \cup {t}, B, U, W)
<1>1. /\ Cardinality(R) \in Nat
      /\ Cardinality(R \cup {t}) = Cardinality(R) + 1
      /\ Cardinality(R \cup {t}) < 2 * MAX_READER
  BY ReaderCount
<1>2. QED
  BY SMTT(60), <1>1, MaxReaderAssumption DEF Sum, FetchAdd, READER, WordSize,
     BEING_UPGRADED, UPGRADEABLE_READER, WRITER

(* A reader leaves.                                                        *)
LEMMA SumSubReader ==
  ASSUME NEW R \in SUBSET Threads, NEW B, NEW U, NEW W, NEW t \in R
  PROVE  FetchSub(Sum(R, B, U, W), READER) = Sum(R \ {t}, B, U, W)
<1>1. /\ Cardinality(R) \in Nat /\ Cardinality(R) >= 1
      /\ Cardinality(R \ {t}) = Cardinality(R) - 1
  BY ReaderCount
<1>2. QED
  BY SMTT(60), <1>1, MaxReaderAssumption DEF Sum, FetchSub, READER, WordSize,
     BEING_UPGRADED, UPGRADEABLE_READER, WRITER

(* The upgradeable reader leaves.                                          *)
LEMMA SumSubUpgradeable ==
  ASSUME NEW R \in SUBSET Threads, NEW B, NEW U, NEW W, U # {}
  PROVE  FetchSub(Sum(R, B, U, W), UPGRADEABLE_READER) = Sum(R, B, {}, W)
<1>1. Cardinality(R) \in Nat BY ReaderCount
<1>2. QED
  BY SMTT(60), <1>1, MaxReaderAssumption DEF Sum, FetchSub, WordSize, BEING_UPGRADED,
     UPGRADEABLE_READER, WRITER

(* A thread sets the bit of the upgradeable reader, set or not.            *)
LEMMA SumOrUpgradeable ==
  ASSUME NEW R \in SUBSET Threads, NEW B, NEW U, NEW W,
         NEW t \in Threads
  PROVE  FetchOrUpgradeable(Sum(R, B, U, W)) = Sum(R, B, U \cup {t}, W)
<1>1. Cardinality(R) \in Nat BY ReaderCount
<1>2. U = {} => Sum(R, B, U \cup {t}, W) = Sum(R, B, U, W) + UPGRADEABLE_READER
  BY SMTT(60), <1>1, MaxReaderAssumption
  DEF Sum, BEING_UPGRADED, UPGRADEABLE_READER, WRITER
<1>3. U # {} => Sum(R, B, U \cup {t}, W) = Sum(R, B, U, W)
  BY DEF Sum
<1>4. QED BY <1>2, <1>3, SumIsWord DEF FetchOrUpgradeable

(* The upgradeable reader announces the upgrade.                           *)
LEMMA SumOrBeingUpgraded ==
  ASSUME NEW R \in SUBSET Threads, NEW B, NEW U, NEW W,
         NEW t \in Threads
  PROVE  FetchOrBeingUpgraded(Sum(R, B, U, W)) = Sum(R, B \cup {t}, U, W)
<1>1. Cardinality(R) \in Nat BY ReaderCount
<1>2. B = {} => Sum(R, B \cup {t}, U, W) = Sum(R, B, U, W) + BEING_UPGRADED
  BY SMTT(60), <1>1, MaxReaderAssumption
  DEF Sum, BEING_UPGRADED, UPGRADEABLE_READER, WRITER
<1>3. B # {} => Sum(R, B \cup {t}, U, W) = Sum(R, B, U, W)
  BY DEF Sum
<1>4. QED BY <1>2, <1>3, SumIsWord DEF FetchOrBeingUpgraded

(* The writer leaves.                                                      *)
LEMMA SumAndNotWriter ==
  ASSUME NEW R \in SUBSET Threads, NEW B, NEW U, NEW W
  PROVE  FetchAndNotWriter(Sum(R, B, U, W)) = Sum(R, B, U, {})
<1>1. Cardinality(R) \in Nat BY ReaderCount
<1>2. W # {} => Sum(R, B, U, W) = Sum(R, B, U, {}) + WRITER
  BY SMTT(60), <1>1, MaxReaderAssumption
  DEF Sum, BEING_UPGRADED, UPGRADEABLE_READER, WRITER
<1>3. Sum(R, B, U, {}) \in Word /\ (HasWriter(Sum(R, B, U, W)) <=> W # {})
  BY SumIsWord
<1>4. QED
  BY SMTT(60), <1>2, <1>3, MaxReaderAssumption
  DEF FetchAndNotWriter, BelowWriter, Word, WRITER, WordSize

(* The two words the compare_exchange operations expect.                   *)
LEMMA SumExpected ==
  ASSUME NEW R \in SUBSET Threads, NEW B, NEW U, NEW W
  PROVE  /\ Sum(R, B, U, W) = 0 => R = {} /\ B = {} /\ U = {} /\ W = {}
         /\ Sum(R, B, U, W) = UPGRADEABLE_READER + BEING_UPGRADED
              => R = {} /\ B # {} /\ U # {} /\ W = {}
<1>1. Cardinality(R) \in Nat /\ Cardinality(R) < 2 * MAX_READER
  BY ReaderCount
<1>2. Cardinality(R) = 0 => R = {}
  BY ReaderCount, FS_EmptySet
<1>3. QED
  BY SMTT(60), <1>1, <1>2, MaxReaderAssumption
  DEF Sum, BEING_UPGRADED, UPGRADEABLE_READER, WRITER

-----------------------------------------------------------------------------
(* Every step preserves the invariant: the atomic operation changes the    *)
(* word as the move of the thread changes the sets.                        *)
THEOREM NextInv == Inv /\ [Next]_vars => Inv'
<1> SUFFICES ASSUME Inv, [Next]_vars PROVE Inv' OBVIOUS
<1>1. /\ TypeOK /\ AtMostOne(Ups) /\ AtMostOne(Writers)
      /\ Writers # {} => Blocked = {}
      /\ lock = Sum(Readers, Being, Ups, Writers)
      /\ Readers \in SUBSET Threads
  BY InvWord DEF Inv, In, Readers
<1>2. /\ HasWriter(lock) <=> Writers # {}
      /\ HasUpgradeable(lock) <=> Ups # {}
      /\ HasBeingUpgraded(lock) <=> Being # {}
  BY SMTT(60), <1>1, SumIsWord
<1>3. ASSUME NEW t \in Threads, NEW l \in PCs, Goto(t, l),
             lock' = Sum(Readers', Being', Ups', Writers'),
             AtMostOne(Ups'), AtMostOne(Writers'),
             Writers' # {} => Blocked' = {}
      PROVE  Inv'
  <2>1. Readers' \in SUBSET Threads BY DEF In, Readers
  <2>2. lock' \in Word BY <1>3, <2>1, SumIsWord
  <2>3. TypeOK' BY <1>1, <1>3, <2>2 DEF TypeOK, Goto
  <2>4. WordIsSumOfHolders' BY <1>3, InvWord
  <2>5. QED BY <1>3, <2>3, <2>4 DEF Inv
<1>4. ASSUME NEW t \in Threads, TryRead(t) PROVE Inv'
  <2>1. PICK l \in {"reading", "read_undo"} :
          /\ Goto(t, l)
          /\ l = "reading" => ~RefusesReader(lock)
    BY <1>4 DEF TryRead
  <2>2. l \in PCs BY DEF PCs
  <2>3. /\ t \notin Readers /\ Readers' = Readers \cup {t}
        /\ Being' = Being /\ Ups' = Ups /\ Writers' = Writers
        /\ Blocked' = IF l = "reading" THEN Blocked \cup {t} ELSE Blocked
    <3>1. /\ t \notin Readers /\ t \notin Being /\ t \notin Writers
          /\ t \notin Ups /\ t \notin Blocked
      BY <1>4, Membership DEF TryRead
    <3>2. CASE l = "reading"
      BY SMTT(60), <1>1, <2>1, <2>2, <3>1, <3>2, Move DEF Moved
    <3>3. CASE l = "read_undo"
      BY SMTT(60), <1>1, <2>1, <2>2, <3>1, <3>3, Move DEF Moved
    <3>4. QED BY <3>2, <3>3
  <2>4. lock' = Sum(Readers', Being', Ups', Writers')
    BY SMTT(60), <1>1, <1>4, <2>3, SumAddReader DEF TryRead
  <2>5. l = "reading" => Writers = {}
    BY <1>2, <2>1 DEF RefusesReader
  <2>6. QED BY <1>1, <1>3, <2>1, <2>2, <2>3, <2>4, <2>5
<1>5. ASSUME NEW t \in Threads, TryReadUndo(t) \/ DropReadGuard(t) PROVE Inv'
  <2>1. "idle" \in PCs /\ Goto(t, "idle")
    BY <1>5 DEF PCs, TryReadUndo, DropReadGuard
  <2>2. /\ t \in Readers /\ Readers' = Readers \ {t}
        /\ Being' = Being /\ Ups' = Ups /\ Writers' = Writers
        /\ Blocked' \subseteq Blocked
    <3>1. /\ t \in Readers /\ t \notin Being /\ t \notin Writers
          /\ t \notin Ups
      BY <1>5, Membership DEF TryReadUndo, DropReadGuard
    <3>2. QED BY SMTT(60), <1>1, <2>1, <3>1, Move DEF Moved
  <2>3. lock' = Sum(Readers', Being', Ups', Writers')
    BY SMTT(60), <1>1, <1>5, <2>2, SumSubReader DEF TryReadUndo, DropReadGuard
  <2>4. QED BY <1>1, <1>3, <2>1, <2>2, <2>3 DEF AtMostOne
<1>6. ASSUME NEW t \in Threads, TryWrite(t) PROVE Inv'
  <2>1. "writing" \in PCs /\ Goto(t, "writing")
    BY <1>6 DEF PCs, TryWrite
  <2>2. Readers = {} /\ Being = {} /\ Ups = {} /\ Writers = {}
    BY <1>1, <1>6, SumExpected DEF TryWrite
  <2>3. Blocked = {} BY <2>2 DEF In, Blocked, Readers, Ups
  <2>4. /\ Readers' = {} /\ Being' = {} /\ Ups' = {} /\ Writers' = {t}
        /\ Blocked' = {}
    BY SMTT(60), <1>1, <2>1, <2>2, <2>3, Move DEF Moved
  <2>5. lock' = Sum({}, {}, {}, {t})
    BY SMTT(60), <1>6, FS_EmptySet, MaxReaderAssumption DEF TryWrite, Sum, WRITER
  <2>6. QED BY <1>3, <2>1, <2>4, <2>5 DEF AtMostOne
<1>7. ASSUME NEW t \in Threads, DropWriteGuard(t) PROVE Inv'
  <2>1. "idle" \in PCs /\ Goto(t, "idle")
    BY <1>7 DEF PCs, DropWriteGuard
  <2>2. /\ Readers' = Readers /\ Being' = Being /\ Ups' = Ups
        /\ Writers = {t} /\ Writers' = {}
    <3>1. /\ t \notin Readers /\ t \notin Being /\ t \in Writers
          /\ t \notin Ups
      BY <1>7, Membership DEF DropWriteGuard
    <3>2. Writers = {t} BY <1>1, <3>1 DEF AtMostOne
    <3>3. QED BY SMTT(60), <1>1, <2>1, <3>1, <3>2, Move DEF Moved
  <2>3. lock' = Sum(Readers', Being', Ups', Writers')
    BY <1>1, <1>7, <2>2, SumAndNotWriter DEF DropWriteGuard
  <2>4. QED BY <1>1, <1>3, <2>1, <2>2, <2>3 DEF AtMostOne
<1>8. ASSUME NEW t \in Threads, TryUpread(t) PROVE Inv'
  <2>1. PICK l \in {"idle", "upreading", "upread_undo"} :
          /\ Goto(t, l)
          /\ l = "upreading" => ~HasWriter(lock) /\ ~HasUpgradeable(lock)
          /\ l # "idle" => ~HasUpgradeable(lock)
          /\ l = "idle" => HasUpgradeable(lock)
    BY <1>8 DEF TryUpread
  <2>2. l \in PCs BY DEF PCs
  <2>3. /\ Readers' = Readers /\ Being' = Being /\ Writers' = Writers
        /\ t \notin Ups
        /\ Ups' = IF l = "idle" THEN Ups ELSE Ups \cup {t}
        /\ Blocked' = IF l = "upreading" THEN Blocked \cup {t} ELSE Blocked
    <3>1. /\ t \notin Readers /\ t \notin Being /\ t \notin Writers
          /\ t \notin Ups /\ t \notin Blocked
      BY <1>8, Membership DEF TryUpread
    <3>2. CASE l = "idle"
      BY SMTT(60), <1>1, <2>1, <2>2, <3>1, <3>2, Move DEF Moved
    <3>3. CASE l = "upreading"
      BY SMTT(60), <1>1, <2>1, <2>2, <3>1, <3>3, Move DEF Moved
    <3>4. CASE l = "upread_undo"
      BY SMTT(60), <1>1, <2>1, <2>2, <3>1, <3>4, Move DEF Moved
    <3>5. QED BY <3>2, <3>3, <3>4
  <2>4. lock' = Sum(Readers', Being', Ups \cup {t}, Writers')
    BY SMTT(60), <1>1, <1>8, <2>3, SumOrUpgradeable DEF TryUpread
  <2>5. lock' = Sum(Readers', Being', Ups', Writers')
    BY <1>2, <2>1, <2>3, <2>4 DEF Sum
  <2>6. AtMostOne(Ups') BY <1>1, <1>2, <2>1, <2>3 DEF AtMostOne
  <2>7. QED BY <1>1, <1>2, <1>3, <2>1, <2>2, <2>3, <2>5, <2>6
<1>9. ASSUME NEW t \in Threads, TryUpreadUndo(t) \/ DropUpgradeableGuard(t)
      PROVE  Inv'
  <2>1. "idle" \in PCs /\ Goto(t, "idle")
    BY <1>9 DEF PCs, TryUpreadUndo, DropUpgradeableGuard
  <2>2. /\ Readers' = Readers /\ Being' = Being /\ Writers' = Writers
        /\ Ups = {t} /\ Ups' = {} /\ Blocked' \subseteq Blocked
    <3>1. /\ t \notin Readers /\ t \notin Being /\ t \notin Writers
          /\ t \in Ups
      BY <1>9, Membership DEF TryUpreadUndo, DropUpgradeableGuard
    <3>2. Ups = {t} BY <1>1, <3>1 DEF AtMostOne
    <3>3. QED BY SMTT(60), <1>1, <2>1, <3>1, <3>2, Move DEF Moved
  <2>3. lock' = Sum(Readers', Being', Ups', Writers')
    BY SMTT(60), <1>1, <1>9, <2>2, SumSubUpgradeable DEF TryUpreadUndo, DropUpgradeableGuard
  <2>4. QED BY <1>1, <1>3, <2>1, <2>2, <2>3 DEF AtMostOne
<1>10. ASSUME NEW t \in Threads, Upgrade(t) PROVE Inv'
  <2>1. "upgrading" \in PCs /\ Goto(t, "upgrading")
    BY <1>10 DEF PCs, Upgrade
  <2>2. /\ Readers' = Readers /\ Being' = Being \cup {t}
        /\ Writers' = Writers /\ Ups' = Ups /\ Blocked' = Blocked
    <3>1. t \notin Readers /\ t \notin Writers /\ t \in Ups /\ t \in Blocked
      BY <1>10, Membership DEF Upgrade
    <3>2. QED BY SMTT(60), <1>1, <2>1, <3>1, Move DEF Moved
  <2>3. lock' = Sum(Readers', Being', Ups', Writers')
    BY SMTT(60), <1>1, <1>10, <2>2, SumOrBeingUpgraded DEF Upgrade
  <2>4. QED BY <1>1, <1>3, <2>1, <2>2, <2>3 DEF AtMostOne
<1>11. ASSUME NEW t \in Threads, TryUpgrade(t) PROVE Inv'
  <2>1. "upgraded" \in PCs /\ Goto(t, "upgraded")
    BY <1>11 DEF PCs, TryUpgrade
  <2>2. Readers = {} /\ Being # {} /\ Ups # {} /\ Writers = {}
    BY <1>1, <1>11, SumExpected DEF TryUpgrade
  <2>3. Being \subseteq Ups /\ Blocked \subseteq Readers \cup Ups
    BY DEF In, Being, Ups, Blocked, Readers
  <2>4. t \in Ups BY <1>11, Membership DEF TryUpgrade
  <2>5. Ups = {t} /\ Being = {t} /\ Blocked \subseteq {t}
    BY <1>1, <2>2, <2>3, <2>4 DEF AtMostOne
  <2>6. /\ Readers' = {} /\ Being' = {} /\ Ups' = {t} /\ Writers' = {t}
        /\ Blocked' = {}
    BY <1>1, <2>1, <2>2, <2>5, Move DEF Moved
  <2>7. lock' = Sum({}, {}, {t}, {t})
    BY SMTT(60), <1>11, FS_EmptySet, MaxReaderAssumption
    DEF TryUpgrade, Sum, WRITER, UPGRADEABLE_READER
  <2>8. QED BY <1>3, <2>1, <2>6, <2>7 DEF AtMostOne
<1>12. ASSUME NEW t \in Threads, TryUpgradeDropSelf(t) PROVE Inv'
  <2>1. "writing" \in PCs /\ Goto(t, "writing")
    BY <1>12 DEF PCs, TryUpgradeDropSelf
  <2>2. /\ Readers' = Readers /\ Being' = Being /\ Writers' = Writers
        /\ Ups = {t} /\ Ups' = {} /\ Blocked' = Blocked
    <3>1. /\ t \notin Readers /\ t \notin Being /\ t \in Writers
          /\ t \in Ups /\ t \notin Blocked
      BY <1>12, Membership DEF TryUpgradeDropSelf
    <3>2. Ups = {t} BY <1>1, <3>1 DEF AtMostOne
    <3>3. QED BY <1>1, <2>1, <3>1, <3>2, Move DEF Moved
  <2>3. lock' = Sum(Readers', Being', Ups', Writers')
    BY <1>1, <1>12, <2>2, SumSubUpgradeable DEF TryUpgradeDropSelf
  <2>4. QED BY <1>1, <1>3, <2>1, <2>2, <2>3 DEF AtMostOne
<1>13. CASE UNCHANGED vars
  BY <1>13 DEF Inv, TypeOK, WordIsSumOfHolders, Bit, In, vars, AtMostOne, Ups,
               Writers, Blocked
<1>14. QED
  BY <1>4, <1>5, <1>6, <1>7, <1>8, <1>9, <1>10, <1>11, <1>12, <1>13
  DEF Next, Step

(* The inductive invariant holds in every reachable state.                 *)
THEOREM Invariance == Spec => []Inv
<1>1. Init => Inv BY InitInv
<1>2. Inv /\ [Next]_vars => Inv' BY NextInv
<1>3. QED BY <1>1, <1>2, PTL DEF Spec

(* The word stays a word and is the sum of what the threads put there:     *)
(* the undo of a refused try_read or try_upread restores it exactly.       *)
THEOREM WordCorrect == Spec => [](TypeOK /\ WordIsSumOfHolders)
<1>1. Inv => TypeOK /\ WordIsSumOfHolders BY DEF Inv
<1>2. QED BY <1>1, Invariance, PTL

(* A write guard excludes every other guard and there is at most one       *)
(* upread guard, for every number of threads below the reader limit.       *)
LEMMA InvExclusion == Inv => Exclusion
<1> SUFFICES ASSUME Inv, NEW t \in Threads, NEW u \in Threads, t # u
             PROVE  /\ holds[t] = "write" => holds[u] = "none"
                    /\ holds[t] = "upread" => holds[u] # "upread"
  BY DEF Exclusion
<1>1. /\ holds[t] = "write" <=> t \in Writers
      /\ holds[u] = "write" <=> u \in Writers
  BY DEF holds, Writers, In
<1>2. holds[u] \in {"read", "upread"} => u \in Blocked
  BY DEF holds, Blocked, In
<1>3. /\ holds[t] = "upread" => t \in Ups
      /\ holds[u] = "upread" => u \in Ups
  BY DEF holds, Ups, In
<1>4. holds[u] \in {"none", "read", "upread", "write"} BY DEF holds
<1>5. QED BY <1>1, <1>2, <1>3, <1>4 DEF Inv, AtMostOne

(* A writer excludes every other guard and there is one upgradeable reader *)
(* at most, for any number of threads.                                     *)
THEOREM ExclusionHolds == Spec => []Exclusion
  BY InvExclusion, Invariance, PTL

(* While an upgrade is waiting (BEING_UPGRADED), try_read admits nobody.   *)
THEOREM UpgradeBlocks == Spec => UpgradeBlocksNewReaders
<1>1. Inv /\ [Next]_vars =>
        [In({"upgrading"}) # {} => In({"reading"})' \subseteq In({"reading"})]_vars
  <2> SUFFICES ASSUME Inv, NEW t \in Threads, Step(t), In({"upgrading"}) # {}
               PROVE  In({"reading"})' \subseteq In({"reading"})
    BY DEF Next
  <2>1. HasBeingUpgraded(lock)
    <3>1. lock = Sum(Readers, Being, Ups, Writers) /\ Readers \in SUBSET Threads
      BY InvWord DEF Inv, In, Readers
    <3>2. QED BY <3>1, SumIsWord DEF Being
  <2>2. PICK l \in PCs \ {"reading"} : Goto(t, l)
    BY <2>1 DEF Step, TryRead, TryReadUndo, DropReadGuard, TryWrite,
       DropWriteGuard, TryUpread, TryUpreadUndo, DropUpgradeableGuard, Upgrade,
       TryUpgrade, TryUpgradeDropSelf, PCs, RefusesReader
  <2>3. QED BY <2>2 DEF Inv, TypeOK, Goto, In
<1>2. QED BY <1>1, Invariance, PTL DEF Spec, UpgradeBlocksNewReaders

-----------------------------------------------------------------------------
(* Refinement: the guard each place stands for.                            *)
GuardAt(l) == IF l = "reading" THEN "read"
              ELSE IF l \in {"upreading", "upgrading"} THEN "upread"
              ELSE IF l \in {"writing", "upgraded"} THEN "write"
              ELSE "none"

(* One thread moves: how its guard changes.                                *)
LEMMA HoldsMove ==
  ASSUME TypeOK, NEW t \in Threads, NEW l \in PCs, Goto(t, l)
  PROVE  /\ holds \in [Threads -> {"none", "read", "upread", "write"}]
         /\ holds[t] = GuardAt(pc[t])
         /\ holds' = [holds EXCEPT ![t] = GuardAt(l)]
  BY DEF TypeOK, Goto, holds, GuardAt

(* A step that leaves the thread's guard alone is a stuttering step of     *)
(* RwSpec.                                                                 *)
LEMMA SameGuard ==
  ASSUME TypeOK, NEW t \in Threads, NEW l \in PCs, Goto(t, l),
         GuardAt(l) = GuardAt(pc[t])
  PROVE  holds' = holds
  BY SMTT(60), HoldsMove

(* The drop of a guard is the release of RwSpec.                           *)
LEMMA DropGuard ==
  ASSUME TypeOK, NEW t \in Threads, Goto(t, "idle"), GuardAt(pc[t]) # "none"
  PROVE  Abstract!Next
<1>1. "idle" \in PCs /\ GuardAt("idle") = "none" BY DEF PCs, GuardAt
<1>2. Abstract!Release(t) BY <1>1, HoldsMove DEF Abstract!Release
<1>3. QED BY <1>2 DEF Abstract!Next

(* What the sets say about the guards of the threads.                      *)
LEMMA OthersHold ==
  ASSUME Inv, NEW t \in Threads
  PROVE  /\ Writers = {} => Abstract!OthersHoldNone(t, {"write"})
         /\ Writers = {} /\ Ups \subseteq {t}
              => Abstract!OthersHoldNone(t, {"upread", "write"})
         /\ Writers = {} /\ Ups \subseteq {t} /\ Readers = {}
              => Abstract!OthersHoldNone(t, {"read", "upread", "write"})
<1>1. ASSUME NEW u \in Threads
      PROVE  /\ holds[u] = "write" => u \in Writers
             /\ holds[u] = "upread" => u \in Ups
             /\ holds[u] = "read" => u \in Readers
  BY DEF holds, In, Writers, Ups, Readers
<1>2. QED BY <1>1 DEF Abstract!OthersHoldNone

(* Every step of RwLock maps to a step of RwSpec, or to none.              *)
LEMMA StepRefines == Inv /\ [Next]_vars => [Abstract!Next]_holds
<1> SUFFICES ASSUME Inv, [Next]_vars PROVE [Abstract!Next]_holds
  OBVIOUS
<1>1. /\ TypeOK /\ AtMostOne(Ups)
      /\ lock = Sum(Readers, Being, Ups, Writers)
      /\ Readers \in SUBSET Threads
  BY InvWord DEF Inv, In, Readers
<1>2. /\ HasWriter(lock) <=> Writers # {}
      /\ HasUpgradeable(lock) <=> Ups # {}
  BY <1>1, SumIsWord
<1>3. ASSUME NEW t \in Threads, TryRead(t) PROVE [Abstract!Next]_holds
  <2>1. CASE RefusesReader(lock)
    <3>1. Goto(t, "read_undo") /\ "read_undo" \in PCs
          /\ GuardAt("read_undo") = GuardAt(pc[t])
      BY <1>3, <2>1 DEF TryRead, PCs, GuardAt
    <3>2. QED BY <1>1, <3>1, SameGuard
  <2>2. CASE ~RefusesReader(lock)
    <3>1. Goto(t, "reading") /\ "reading" \in PCs /\ GuardAt(pc[t]) = "none"
          /\ GuardAt("reading") = "read"
      BY <1>3, <2>2 DEF TryRead, PCs, GuardAt
    <3>2. Abstract!OthersHoldNone(t, {"write"})
      BY <1>2, <2>2, OthersHold DEF RefusesReader
    <3>3. Abstract!AcquireRead(t)
      BY <1>1, <3>1, <3>2, HoldsMove
      DEF Abstract!AcquireRead, Abstract!Acquire
    <3>4. QED BY <3>3 DEF Abstract!Next
  <2>3. QED BY <2>1, <2>2
<1>4. ASSUME NEW t \in Threads, TryReadUndo(t) \/ TryUpreadUndo(t)
      PROVE  holds' = holds
  <2>1. Goto(t, "idle") /\ "idle" \in PCs /\ GuardAt("idle") = GuardAt(pc[t])
    BY <1>4 DEF TryReadUndo, TryUpreadUndo, PCs, GuardAt
  <2>2. QED BY <1>1, <2>1, SameGuard
<1>5. ASSUME NEW t \in Threads,
             DropReadGuard(t) \/ DropWriteGuard(t) \/ DropUpgradeableGuard(t)
      PROVE  Abstract!Next
  <2>1. Goto(t, "idle") /\ GuardAt(pc[t]) # "none"
    BY <1>5 DEF DropReadGuard, DropWriteGuard, DropUpgradeableGuard, GuardAt
  <2>2. QED BY <1>1, <2>1, DropGuard
<1>6. ASSUME NEW t \in Threads, TryWrite(t) PROVE Abstract!Next
  <2>1. Goto(t, "writing") /\ "writing" \in PCs /\ GuardAt(pc[t]) = "none"
        /\ GuardAt("writing") = "write"
    BY <1>6 DEF TryWrite, PCs, GuardAt
  <2>2. Readers = {} /\ Ups = {} /\ Writers = {}
    BY <1>1, <1>6, SumExpected DEF TryWrite
  <2>3. Abstract!OthersHoldNone(t, {"read", "upread", "write"})
    BY <2>2, OthersHold
  <2>4. Abstract!AcquireWrite(t)
    BY <1>1, <2>1, <2>3, HoldsMove DEF Abstract!AcquireWrite, Abstract!Acquire
  <2>5. QED BY <2>4 DEF Abstract!Next
<1>7. ASSUME NEW t \in Threads, TryUpread(t) PROVE [Abstract!Next]_holds
  <2>1. CASE HasWriter(lock) \/ HasUpgradeable(lock)
    <3>1. PICK l \in {"upread_undo", "idle"} : Goto(t, l)
      BY <1>7, <2>1 DEF TryUpread
    <3>2. l \in PCs /\ GuardAt(l) = GuardAt(pc[t])
      BY <1>7 DEF TryUpread, PCs, GuardAt
    <3>3. QED BY <1>1, <3>1, <3>2, SameGuard
  <2>2. CASE ~HasWriter(lock) /\ ~HasUpgradeable(lock)
    <3>1. Goto(t, "upreading") /\ "upreading" \in PCs
          /\ GuardAt(pc[t]) = "none" /\ GuardAt("upreading") = "upread"
      BY <1>7, <2>2 DEF TryUpread, PCs, GuardAt
    <3>2. Abstract!OthersHoldNone(t, {"upread", "write"})
      BY <1>2, <2>2, OthersHold
    <3>3. Abstract!AcquireUpread(t)
      BY <1>1, <3>1, <3>2, HoldsMove
      DEF Abstract!AcquireUpread, Abstract!Acquire
    <3>4. QED BY <3>3 DEF Abstract!Next
  <2>3. QED BY <2>1, <2>2
<1>8. ASSUME NEW t \in Threads, Upgrade(t) PROVE holds' = holds
  <2>1. Goto(t, "upgrading") /\ "upgrading" \in PCs
        /\ GuardAt("upgrading") = GuardAt(pc[t])
    BY <1>8 DEF Upgrade, PCs, GuardAt
  <2>2. QED BY <1>1, <2>1, SameGuard
<1>9. ASSUME NEW t \in Threads, TryUpgrade(t) PROVE Abstract!Next
  <2>1. Goto(t, "upgraded") /\ "upgraded" \in PCs
        /\ GuardAt(pc[t]) = "upread" /\ GuardAt("upgraded") = "write"
    BY <1>9 DEF TryUpgrade, PCs, GuardAt
  <2>2. Readers = {} /\ Ups # {} /\ Writers = {}
    BY <1>1, <1>9, SumExpected DEF TryUpgrade
  <2>3. t \in Ups BY <1>9, Membership DEF TryUpgrade
  <2>4. Ups \subseteq {t} BY <1>1, <2>3 DEF AtMostOne
  <2>5. Abstract!OthersHoldNone(t, {"read", "upread", "write"})
    BY <2>2, <2>4, OthersHold
  <2>6. Abstract!Upgrade(t)
    BY <1>1, <2>1, <2>5, HoldsMove DEF Abstract!Upgrade
  <2>7. QED BY <2>6 DEF Abstract!Next
<1>10. ASSUME NEW t \in Threads, TryUpgradeDropSelf(t) PROVE holds' = holds
  <2>1. Goto(t, "writing") /\ "writing" \in PCs
        /\ GuardAt("writing") = GuardAt(pc[t])
    BY <1>10 DEF TryUpgradeDropSelf, PCs, GuardAt
  <2>2. QED BY <1>1, <2>1, SameGuard
<1>11. CASE UNCHANGED vars
  BY <1>11 DEF vars, holds
<1>12. QED
  BY <1>3, <1>4, <1>5, <1>6, <1>7, <1>8, <1>9, <1>10, <1>11 DEF Next, Step

(* RwLock implements RwSpec: what a reader-writer lock promises is all     *)
(* that the guards handed out by the atomic operations show.               *)
THEOREM Refinement == Spec => ImplementsRwSpec
<1>1. Init => Abstract!Init
  BY DEF Init, Abstract!Init, holds
<1>2. QED
  BY <1>1, StepRefines, Invariance, PTL DEF Spec, ImplementsRwSpec, Abstract!Spec
=============================================================================
