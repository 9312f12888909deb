------------------------------- MODULE Guards -------------------------------
(***************************************************************************)
(* Guards on one CPU: local interrupts (trap/irq.rs), preemption           *)
(* (task/processor.rs), spin locks (sync/spin.rs) and the guards of        *)
(* reader-writer locks (sync/rwlock.rs; its word as such is RwLock.tla).   *)
(* A context is the running task or an interrupt handler on top of it.     *)
(* Guards are dropped in the reverse of the order they were made in, as    *)
(* scopes do; a drop is several steps, and an interrupt comes between any  *)
(* two steps while interrupts are enabled.                                 *)
(***************************************************************************)
EXTENDS Integers, Sequences, FiniteSets, FiniteSetTheorems, TLAPS

CONSTANTS SpinLocks, RwLocks,
          IrqLocks,      \* the locks that interrupt handlers take too
          MaxGuards,     \* bound: guards of one context
          MaxNesting     \* bound: contexts

VARIABLES enabled,       \* the interrupt flag of the CPU
          num_locks,     \* PREEMPT_COUNT
          word,          \* lock -> [w, up, readers]
          stack,         \* the contexts, the running one last
          halt           \* "none", "spins" (for ever) or "panic" (of schedule)

gvars == <<enabled, num_locks, word, stack, halt>>

Locks == SpinLocks \union RwLocks
NoLock == "none"

(* A guard: on which lock and how it holds it; whether it also disables    *)
(* interrupts, and the saved flag.                                         *)
Guard(lock, mode, irq, was) == [lock |-> lock, mode |-> mode, irq |-> irq, was_enabled |-> was]

(* pc: "run", or the step of the drop of the last guard.                   *)
Context(handler, was) == [handler |-> handler, was |-> was, guards |-> <<>>, pc |-> "run"]

GInit == /\ enabled = TRUE /\ num_locks = 0 /\ halt = "none"
         /\ word = [l \in Locks |-> [w |-> FALSE, up |-> FALSE, readers |-> 0]]
         /\ stack = <<Context(FALSE, TRUE)>>

top == Len(stack)
cx == stack[top]
last == cx.guards[Len(cx.guards)]
Running == halt = "none" /\ cx.pc = "run"
HeldByTop(l) == \E i \in 1 .. Len(cx.guards) : cx.guards[i].lock = l

Push(g) == stack' = [stack EXCEPT ![top].guards = Append(@, g)]

-----------------------------------------------------------------------------
(* Mutant: the guard of a nested call enables interrupts.                  *)
GuardForgetsNesting(l, mode, irq) ==
  /\ enabled' = (IF irq THEN FALSE ELSE enabled)
  /\ num_locks' = num_locks + 1
  /\ Push(Guard(l, mode, irq, irq))

(* DisabledLocalIrqGuard::new, or DisablePreemptGuard::new.                *)
NewGuard(l, mode, irq) ==
  /\ enabled' = (IF irq THEN FALSE ELSE enabled)
  /\ num_locks' = num_locks + 1
  /\ Push(Guard(l, mode, irq, irq /\ enabled))

disable_local == /\ Running /\ Len(cx.guards) < MaxGuards
                 /\ NewGuard(NoLock, "none", TRUE)
                 /\ UNCHANGED <<word, halt>>

disable_preempt == /\ Running /\ Len(cx.guards) < MaxGuards
                   /\ NewGuard(NoLock, "none", FALSE)
                   /\ UNCHANGED <<word, halt>>

(* The atomic operation of each kind of acquisition: does it succeed, and  *)
(* the word then.  (A refused try_read or try_upread takes back what it    *)
(* added, an upgrade its BEING_UPGRADED; nobody sees that on one CPU.)     *)
try_acquire_lock(l) == ~word[l].w
try_read(l) == ~word[l].w
try_write(l) == ~word[l].w /\ ~word[l].up /\ word[l].readers = 0
try_upread(l) == ~word[l].w /\ ~word[l].up

Free(l, mode) == CASE mode = "spin"  -> try_acquire_lock(l)
                   [] mode = "read"  -> try_read(l)
                   [] mode = "write" -> try_write(l)
                   [] mode = "up"    -> try_upread(l)

Acquired(l, mode) == CASE mode \in {"spin", "write"} -> [word EXCEPT ![l].w = TRUE]
                       [] mode = "read" -> [word EXCEPT ![l].readers = @ + 1]
                       [] mode = "up"   -> [word EXCEPT ![l].up = TRUE]

Modes(l) == IF l \in SpinLocks THEN {"spin"} ELSE {"read", "write", "up"}

(* A lock that handlers take is taken by tasks with interrupts disabled:   *)
(* the documentation of SpinLock::lock and RwLock::read asks for it.       *)
MayTake(l, irq) == IF cx.handler THEN l \in IrqLocks ELSE irq \/ l \notin IrqLocks

(* lock, lock_irq_disabled; read, write, upread and their _irq_disabled    *)
(* variants.  No context asks for what it holds.  What does not become     *)
(* free on one CPU is waited for in vain.                                  *)
acquire(l, mode, irq) ==
  /\ Running /\ Len(cx.guards) < MaxGuards
  /\ ~HeldByTop(l) /\ MayTake(l, irq)
  /\ IF Free(l, mode)
     THEN /\ word' = Acquired(l, mode)
          /\ NewGuard(l, mode, irq)
          /\ UNCHANGED halt
     ELSE /\ halt' = "spins"
          /\ UNCHANGED <<enabled, num_locks, word, stack>>

(* The try_ variants; a refusal drops the guard again.                     *)
try_acquire(l, mode, irq) ==
  /\ Running /\ Len(cx.guards) < MaxGuards
  /\ MayTake(l, irq)
  /\ IF Free(l, mode)
     THEN word' = Acquired(l, mode) /\ NewGuard(l, mode, irq) /\ UNCHANGED halt
     ELSE UNCHANGED gvars

spin_lock(l) == acquire(l, "spin", FALSE)
lock_irq_disabled(l) == acquire(l, "spin", TRUE)
try_lock(l) == try_acquire(l, "spin", FALSE)
try_lock_irq_disabled(l) == try_acquire(l, "spin", TRUE)
read(l) == acquire(l, "read", FALSE)
read_irq_disabled(l) == acquire(l, "read", TRUE)
try_read_irq_disabled(l) == try_acquire(l, "read", TRUE)
write(l) == acquire(l, "write", FALSE)
write_irq_disabled(l) == acquire(l, "write", TRUE)
try_write_irq_disabled(l) == try_acquire(l, "write", TRUE)
upread(l) == acquire(l, "up", FALSE)
upread_irq_disabled(l) == acquire(l, "up", TRUE)
try_upread_irq_disabled(l) == try_acquire(l, "up", TRUE)

-----------------------------------------------------------------------------
(* DisabledLocalIrqGuard::transfer_to: the new guard takes over the saved  *)
(* flag.                                                                   *)
transfer_to(g, mode) == [g EXCEPT !.mode = mode]
cleared(g) == [g EXCEPT !.was_enabled = FALSE]

(* upgrade: BEING_UPGRADED, then try_upgrade until there are no readers.   *)
(* The new guard is made, then the old one dropped.                        *)
upgrade ==
  /\ Running /\ cx.guards # <<>> /\ last.mode = "up"
  /\ \A i \in 1 .. Len(cx.guards) - 1 : cx.guards[i].lock # last.lock
  /\ IF word[last.lock].readers = 0
     THEN /\ word' = [word EXCEPT ![last.lock].w = TRUE]
          /\ num_locks' = num_locks + 1
          /\ stack' = [stack EXCEPT ![top].guards =
                         Append([@ EXCEPT ![Len(@)] = transfer_to(last, "write")], cleared(last)),
                                    ![top].pc = "release"]
          /\ UNCHANGED <<enabled, halt>>
     ELSE halt' = "spins" /\ UNCHANGED <<enabled, num_locks, word, stack>>

(* Drop of the last guard: the lock is released, the flag restored, the    *)
(* count decreased, in this order.                                         *)
Released(g) == CASE g.mode \in {"spin", "write"} -> [word EXCEPT ![g.lock].w = FALSE]
                 [] g.mode = "read" -> [word EXCEPT ![g.lock].readers = @ - 1]
                 [] g.mode = "up"   -> [word EXCEPT ![g.lock].up = FALSE]
                 [] g.mode = "none" -> word

drop == /\ Running /\ cx.guards # <<>>
        /\ stack' = [stack EXCEPT ![top].pc = "release"]
        /\ UNCHANGED <<enabled, num_locks, word, halt>>

release_lock == /\ halt = "none" /\ cx.pc = "release"
                /\ word' = Released(last)
                /\ stack' = [stack EXCEPT ![top].pc = "enable"]
                /\ UNCHANGED <<enabled, num_locks, halt>>

drop_irq_guard == /\ halt = "none" /\ cx.pc = "enable"
                  /\ enabled' = (enabled \/ last.was_enabled)
                  /\ stack' = [stack EXCEPT ![top].pc = "decrease"]
                  /\ UNCHANGED <<num_locks, word, halt>>

decrease_num_locks == /\ halt = "none" /\ cx.pc = "decrease"
                      /\ num_locks' = num_locks - 1
                      /\ stack' = [stack EXCEPT ![top].guards = SubSeq(@, 1, Len(@) - 1),
                                                ![top].pc = "run"]
                      /\ UNCHANGED <<enabled, word, halt>>

-----------------------------------------------------------------------------
(* The CPU clears the flag when it takes an interrupt, and restores it     *)
(* when the handler returns.                                               *)
interrupt == /\ halt = "none" /\ enabled /\ top < MaxNesting
             /\ enabled' = FALSE
             /\ stack' = Append(stack, Context(TRUE, enabled))
             /\ UNCHANGED <<num_locks, word, halt>>

iret == /\ Running /\ cx.handler /\ cx.guards = <<>>
        /\ enabled' = cx.was
        /\ stack' = SubSeq(stack, 1, top - 1)
        /\ UNCHANGED <<num_locks, word, halt>>

(* schedule, of a task that holds no guard: switch_to_task panics unless   *)
(* is_preemptive.                                                          *)
switch_to_task == /\ Running /\ ~cx.handler /\ cx.guards = <<>>
                  /\ halt' = (IF num_locks = 0 THEN "none" ELSE "panic")
                  /\ UNCHANGED <<enabled, num_locks, word, stack>>

GNext ==
  \/ disable_local \/ disable_preempt \/ upgrade
  \/ drop \/ release_lock \/ drop_irq_guard \/ decrease_num_locks
  \/ interrupt \/ iret \/ switch_to_task
  \/ \E l \in SpinLocks :
       spin_lock(l) \/ lock_irq_disabled(l) \/ try_lock(l) \/ try_lock_irq_disabled(l)
  \/ \E l \in RwLocks :
       \/ read(l) \/ read_irq_disabled(l) \/ try_read_irq_disabled(l)
       \/ write(l) \/ write_irq_disabled(l) \/ try_write_irq_disabled(l)
       \/ upread(l) \/ upread_irq_disabled(l) \/ try_upread_irq_disabled(l)

GSpec == GInit /\ [][GNext]_gvars

-----------------------------------------------------------------------------
Living == {x \in (1 .. top) \X (1 .. MaxGuards + 1) : x[2] <= Len(stack[x[1]].guards)}
Restoring(c, i) == stack[c].pc = "decrease" /\ i = Len(stack[c].guards)

(* Through nesting, upgrades and interrupts in the middle of a drop:       *)
(* interrupts are off exactly while a handler runs or a guard that         *)
(* disables them lives; nobody spins for what an interrupted context       *)
(* holds; and a task without guards may always be switched, since the      *)
(* count of locks is the number of living guards (disable_local:           *)
(* "works correctly even when it is called in a nested way").              *)
GuardsNest ==
  /\ halt = "none"
  /\ num_locks = Cardinality(Living)
  /\ enabled <=> /\ \A c \in 1 .. top : ~stack[c].handler
                 /\ \A x \in Living :
                      stack[x[1]].guards[x[2]].irq => Restoring(x[1], x[2])

-----------------------------------------------------------------------------
(* The proof that guards nest, for any locks and bounds.                   *)
Pcs == {"run", "release", "enable", "decrease"}
AnyGuard == [lock : Locks \cup {NoLock}, mode : {"none", "spin", "read", "write", "up"},
             irq : BOOLEAN, was_enabled : BOOLEAN]
AnyContext == [handler : BOOLEAN, was : BOOLEAN, guards : Seq(AnyGuard), pc : Pcs]

(* A lock is taken in its own modes.                                       *)
Fits(g) == IF g.mode = "none" THEN g.lock = NoLock
           ELSE g.lock \in Locks /\ g.mode \in Modes(g.lock)

GTypes ==
  /\ enabled \in BOOLEAN /\ num_locks \in Int
  /\ word \in [Locks -> [w : BOOLEAN, up : BOOLEAN, readers : Int]]
  /\ stack \in Seq(AnyContext) /\ top >= 1
  /\ \A c \in 1 .. top :
       LET n == Len(stack[c].guards)
       IN  IF stack[c].pc = "run" THEN n <= MaxGuards ELSE n \in 1 .. MaxGuards + 1

GuardOf(x) == stack[x[1]].guards[x[2]]
IsLast(x) == x[2] = Len(stack[x[1]].guards)

(* The guards that still hold their locks.                                 *)
Holding(x) == stack[x[1]].pc \in {"enable", "decrease"} => ~IsLast(x)
Holders(l, modes) ==
  {x \in Living : Holding(x) /\ GuardOf(x).lock = l /\ GuardOf(x).mode \in modes}

(* The words are what the guards in force have made of them, and a writer  *)
(* is with an upgradeable reader only while an upgrade drops the old guard. *)
WordsAgree ==
  \A l \in Locks :
    /\ word[l].w <=> Holders(l, {"spin", "write"}) # {}
    /\ word[l].up <=> Holders(l, {"up"}) # {}
    /\ word[l].readers = Cardinality(Holders(l, {"read"}))
    /\ \A x, y \in Holders(l, {"spin", "write"}) : x = y
    /\ \A x, y \in Holders(l, {"up"}) : x = y
    /\ \A x \in Holders(l, {"spin", "write"}), y \in Holders(l, {"up"}) :
         stack[y[1]].pc = "release" /\ IsLast(y)

(* Tasks take the locks of handlers with interrupts disabled only, and     *)
(* handlers take no others.                                                *)
Disciplined ==
  \A x \in Living :
    /\ Fits(GuardOf(x))
    /\ GuardOf(x).mode # "none" =>
         IF stack[x[1]].handler THEN GuardOf(x).lock \in IrqLocks
         ELSE GuardOf(x).irq \/ GuardOf(x).lock \notin IrqLocks

(* The first guard of the task that disables interrupts enables them.      *)
FlagsSaved ==
  \A x \in Living :
    GuardOf(x).was_enabled <=>
      /\ x[1] = 1 /\ GuardOf(x).irq
      /\ \A y \in Living : y[1] = 1 /\ y[2] < x[2] => ~GuardOf(y).irq

(* There is one handler at most, and it has interrupted the task where     *)
(* interrupts were enabled.                                                *)
OneHandler ==
  /\ top \in {1, 2} /\ ~stack[1].handler
  /\ top = 2 => stack[2].handler /\ stack[2].was

TaskEnabled ==
  \A x \in Living : x[1] = 1 /\ GuardOf(x).irq => stack[1].pc = "decrease" /\ IsLast(x)

GInv == /\ GTypes /\ OneHandler /\ WordsAgree /\ Disciplined /\ FlagsSaved
        /\ halt = "none"
        /\ num_locks = Cardinality(Living)
        /\ enabled <=> top = 1 /\ TaskEnabled
        /\ top = 2 => TaskEnabled

-----------------------------------------------------------------------------
(* A leaf that names no prover is for Zenon.                               *)
USE ZenonT(30)

(* The living guards are the elements of the sequences of guards.          *)
LEMMA LivingFacts ==
  ASSUME MaxGuards \in Nat, GTypes
  PROVE  /\ top \in Nat /\ top >= 1 /\ DOMAIN stack = 1 .. top
         /\ \A c \in 1 .. top : stack[c] \in AnyContext /\ Len(stack[c].guards) \in 0 .. MaxGuards + 1
         /\ \A x \in Living : /\ x[1] \in 1 .. top /\ x[2] \in 1 .. Len(stack[x[1]].guards)
                              /\ x = <<x[1], x[2]>> /\ GuardOf(x) \in AnyGuard
         /\ \A c \in 1 .. top, i \in 1 .. MaxGuards + 1 :
              <<c, i>> \in Living <=> i <= Len(stack[c].guards)
         /\ IsFiniteSet(Living)
<1>1. top \in Nat /\ top >= 1 /\ DOMAIN stack = 1 .. top BY SMTT(60) DEF GTypes, top
<1>2. ASSUME NEW c \in 1 .. top
      PROVE  stack[c] \in AnyContext /\ Len(stack[c].guards) \in 0 .. MaxGuards + 1
  <2>1. stack[c] \in AnyContext BY SMTT(60), <1>1 DEF GTypes, top
  <2>2. stack[c].guards \in Seq(AnyGuard) BY <2>1 DEF AnyContext
  <2>3. Len(stack[c].guards) \in Nat BY SMTT(60), <2>2
  <2>4. QED BY SMTT(60), <2>1, <2>3 DEF GTypes
<1>3. ASSUME NEW x \in Living
      PROVE  /\ x[1] \in 1 .. top /\ x[2] \in 1 .. Len(stack[x[1]].guards)
             /\ x = <<x[1], x[2]>> /\ GuardOf(x) \in AnyGuard
  <2>1. x \in (1 .. top) \X (1 .. MaxGuards + 1) /\ x[2] <= Len(stack[x[1]].guards) BY DEF Living
  <2>2. x[1] \in 1 .. top /\ x[2] \in 1 .. MaxGuards + 1 /\ x = <<x[1], x[2]>> BY SMTT(60), <2>1
  <2>3. x[2] \in 1 .. Len(stack[x[1]].guards) BY SMTT(60), <1>2, <2>1, <2>2
  <2>4. stack[x[1]].guards \in Seq(AnyGuard) BY <1>2, <2>2 DEF AnyContext
  <2>5. QED BY SMTT(60), <2>2, <2>3, <2>4 DEF GuardOf
<1>4. ASSUME NEW c \in 1 .. top, NEW i \in 1 .. MaxGuards + 1
      PROVE  <<c, i>> \in Living <=> i <= Len(stack[c].guards)
  BY DEF Living
<1>5. IsFiniteSet(Living)
  <2>1. IsFiniteSet(1 .. top) /\ IsFiniteSet(1 .. MaxGuards + 1)
    BY SMTT(60), <1>1, FS_Interval
  <2>2. IsFiniteSet((1 .. top) \X (1 .. MaxGuards + 1)) BY <2>1, FS_Product
  <2>3. QED BY <2>2, FS_Subset DEF Living
<1>6. QED BY <1>1, <1>2, <1>3, <1>4, <1>5

(* Functions on an initial interval are sequences.                         *)
LEMMA IsSequence ==
  ASSUME NEW S, NEW n \in Nat, NEW f \in [1 .. n -> S]
  PROVE  f \in Seq(S) /\ Len(f) = n
BY SMTT(60)

(* How long the guards of a context may be at its pc.                      *)
Bounded(k) == LET n == Len(k.guards)
              IN  IF k.pc = "run" THEN n <= MaxGuards ELSE n \in 1 .. MaxGuards + 1

StackTypes == /\ stack \in Seq(AnyContext) /\ top >= 1
              /\ \A c \in 1 .. top : Bounded(stack[c])

(* The running context changes, the others stay.                           *)
LEMMA TopChanges ==
  ASSUME MaxGuards \in Nat, GTypes, NEW k \in AnyContext, Bounded(k),
         stack' = [stack EXCEPT ![top] = k]
  PROVE  /\ StackTypes' /\ top' = top /\ stack'[top] = k
         /\ \A c \in 1 .. top : c # top => stack'[c] = stack[c]
<1>1. top \in 1 .. top /\ DOMAIN stack = 1 .. top /\ top \in Nat BY SMTT(60), LivingFacts
<1>2. stack' \in Seq(AnyContext) /\ Len(stack') = Len(stack) /\ stack'[top] = k
      /\ \A c \in 1 .. top : c # top => stack'[c] = stack[c]
  <2>1. stack \in Seq(AnyContext) BY DEF GTypes
  <2>2. DOMAIN stack' = DOMAIN stack /\ stack'[top] = k
        /\ \A c \in 1 .. top : c # top => stack'[c] = stack[c]
    BY <1>1
  <2>3. stack \in [1 .. top -> AnyContext] BY SMTT(60), <2>1 DEF top
  <2>4. stack' \in [1 .. top -> AnyContext] BY <2>3
  <2>5. stack' \in Seq(AnyContext) /\ Len(stack') = top BY <2>4, <1>1, IsSequence
  <2>6. QED BY <2>2, <2>5 DEF top
<1>3. top' = top BY <1>2 DEF top
<1>4. \A c \in 1 .. top : Bounded(stack[c]) BY DEF GTypes, Bounded
<1>5. \A c \in 1 .. top : Bounded(stack'[c]) BY <1>1, <1>2, <1>4
<1>6. QED BY SMTT(60), <1>1, <1>2, <1>3, <1>5 DEF StackTypes

(* The living guards afterwards.                                           *)
LEMMA LivingChanges ==
  ASSUME MaxGuards \in Nat, GTypes, NEW k \in AnyContext, Bounded(k),
         stack' = [stack EXCEPT ![top] = k]
  PROVE  /\ \A x \in Living : x[1] # top => x \in Living' /\ GuardOf(x)' = GuardOf(x)
         /\ \A i \in 1 .. Len(k.guards) : <<top, i>> \in Living'
         /\ \A x \in Living' : /\ x[1] # top => x \in Living
                               /\ x[1] = top => /\ x = <<top, x[2]>> /\ x[2] \in 1 .. Len(k.guards)
                                                /\ GuardOf(x)' = k.guards[x[2]]
<1>1. /\ top' = top /\ stack'[top] = k
      /\ \A c \in 1 .. top : c # top => stack'[c] = stack[c]
  BY TopChanges
<1>2. top \in 1 .. top /\ Len(k.guards) \in 0 .. MaxGuards + 1
  <2>1. k.guards \in Seq(AnyGuard) BY DEF AnyContext
  <2>2. Len(k.guards) \in Nat BY SMTT(60), <2>1
  <2>3. QED BY SMTT(60), <2>2, LivingFacts DEF Bounded
<1>3. \A x : x \in Living' <=> x \in (1 .. top) \X (1 .. MaxGuards + 1)
                               /\ x[2] <= Len(stack'[x[1]].guards)
  BY <1>1 DEF Living
<1>4. \A x : x \in Living <=> x \in (1 .. top) \X (1 .. MaxGuards + 1)
                              /\ x[2] <= Len(stack[x[1]].guards)
  BY DEF Living
<1>5. ASSUME NEW x \in Living, x[1] # top PROVE x \in Living' /\ GuardOf(x)' = GuardOf(x)
  <2>1. x[1] \in 1 .. top BY LivingFacts
  <2>2. stack'[x[1]] = stack[x[1]] BY <2>1, <1>1, <1>5
  <2>3. QED BY <2>2, <1>3, <1>4 DEF GuardOf
<1>6. ASSUME NEW i \in 1 .. Len(k.guards)
      PROVE  <<top, i>> \in Living'
  <2>1. <<top, i>> \in (1 .. top) \X (1 .. MaxGuards + 1) BY SMTT(60), <1>2
  <2>2. QED BY SMTT(60), <2>1, <1>1, <1>3
<1>7. ASSUME NEW x \in Living'
      PROVE  /\ x[1] # top => x \in Living
             /\ x[1] = top => /\ x = <<top, x[2]>> /\ x[2] \in 1 .. Len(k.guards)
                              /\ GuardOf(x)' = k.guards[x[2]]
  <2>1. x \in (1 .. top) \X (1 .. MaxGuards + 1) /\ x[2] <= Len(stack'[x[1]].guards) BY <1>3
  <2>2. x[1] \in 1 .. top /\ x[2] \in 1 .. MaxGuards + 1 /\ x = <<x[1], x[2]>> BY SMTT(60), <2>1
  <2>3. CASE x[1] # top
    <3>1. stack'[x[1]] = stack[x[1]] BY <2>2, <2>3, <1>1
    <3>2. QED BY <3>1, <2>1, <2>3, <1>4
  <2>4. CASE x[1] = top BY SMTT(60), <1>1, <1>2, <2>1, <2>2, <2>4 DEF GuardOf
  <2>5. QED BY <2>3, <2>4
<1>8. QED BY <1>5, <1>6, <1>7

(* A guard is pushed on the running context.                               *)
LEMMA PushFacts ==
  ASSUME MaxGuards \in Nat, GTypes, cx.pc = "run", Len(cx.guards) < MaxGuards,
         NEW g \in AnyGuard, Push(g), NEW new, new = <<top, Len(cx.guards) + 1>>
  PROVE  /\ StackTypes' /\ top' = top
         /\ new \notin Living /\ Living' = Living \cup {new} /\ new[1] = top
         /\ GuardOf(new)' = g /\ \A x \in Living : GuardOf(x)' = GuardOf(x)
         /\ \A x \in Living : x[1] = top => x[2] < new[2]
         /\ \A c \in 1 .. top : /\ stack'[c].handler = stack[c].handler
                                /\ stack'[c].pc = stack[c].pc /\ stack'[c].was = stack[c].was
         /\ \A x \in Living : x[1] # top => (IsLast(x)' <=> IsLast(x))
<1> DEFINE n == Len(cx.guards)
           k == [cx EXCEPT !.guards = Append(@, g)]
<1>1. top \in 1 .. top /\ cx \in AnyContext /\ n \in Nat
  BY SMTT(60), LivingFacts DEF cx
<1>2. cx.guards \in Seq(AnyGuard) BY <1>1 DEF AnyContext
<1>3. /\ Append(cx.guards, g) \in Seq(AnyGuard) /\ Len(Append(cx.guards, g)) = n + 1
      /\ \A i \in 1 .. n : Append(cx.guards, g)[i] = cx.guards[i]
      /\ Append(cx.guards, g)[n + 1] = g
  BY SMTT(60), <1>2
<1>4. /\ k \in AnyContext /\ k.guards = Append(cx.guards, g) /\ k.pc = cx.pc
      /\ k.handler = cx.handler /\ k.was = cx.was
  BY <1>1, <1>3 DEF AnyContext
<1>5. Bounded(k) BY SMTT(60), <1>1, <1>3, <1>4 DEF Bounded
<1>6. stack' = [stack EXCEPT ![top] = k] BY DEF Push, cx
<1> HIDE DEF k
<1>7. /\ StackTypes' /\ top' = top /\ stack'[top] = k
      /\ \A c \in 1 .. top : c # top => stack'[c] = stack[c]
  BY <1>4, <1>5, <1>6, TopChanges
<1>8. /\ \A x \in Living : x[1] # top => x \in Living' /\ GuardOf(x)' = GuardOf(x)
      /\ \A i \in 1 .. n + 1 : <<top, i>> \in Living'
      /\ \A x \in Living' : /\ x[1] # top => x \in Living
                            /\ x[1] = top => /\ x = <<top, x[2]>> /\ x[2] \in 1 .. n + 1
                                             /\ GuardOf(x)' = k.guards[x[2]]
  BY <1>3, <1>4, <1>5, <1>6, LivingChanges
<1>9. \A x \in Living : /\ x[1] \in 1 .. top
                        /\ x[1] = top => x = <<top, x[2]>> /\ x[2] \in 1 .. n
  BY LivingFacts DEF cx
<1>10. \A i \in 1 .. n : <<top, i>> \in Living BY SMTT(60), <1>1, LivingFacts DEF cx
<1>11. new \notin Living /\ new[1] = top /\ new[2] = n + 1 BY SMTT(60), <1>1, <1>9
<1>12. ASSUME NEW x \in Living, x[1] = top
       PROVE  x \in Living' /\ GuardOf(x)' = GuardOf(x)
  <2>1. x = <<top, x[2]>> /\ x[2] \in 1 .. n BY <1>9, <1>12
  <2>2. x[2] \in 1 .. n + 1 BY SMTT(60), <1>1, <2>1
  <2>3. GuardOf(x) = cx.guards[x[2]] BY <1>12 DEF GuardOf, cx
  <2>4. x \in Living' BY <1>8, <2>1, <2>2
  <2>5. GuardOf(x)' = k.guards[x[2]] BY <1>8, <1>12, <2>4
  <2>6. QED BY <1>3, <1>4, <2>1, <2>3, <2>4, <2>5
<1>13. new \in Living' /\ GuardOf(new)' = g BY SMTT(60), <1>1, <1>3, <1>4, <1>8, <1>11
<1>14. Living' = Living \cup {new}
  <2>1. ASSUME NEW x \in Living', x[1] = top PROVE x \in Living \cup {new}
    <3>1. x = <<top, x[2]>> /\ x[2] \in 1 .. n + 1 BY <1>8, <2>1
    <3>2. x[2] \in 1 .. n \/ x[2] = n + 1 BY SMTT(60), <1>1, <3>1
    <3>3. QED BY <3>1, <3>2, <1>10
  <2>2. QED BY <1>8, <1>12, <1>13, <2>1
<1>15. \A c \in 1 .. top : /\ stack'[c].handler = stack[c].handler
                           /\ stack'[c].pc = stack[c].pc /\ stack'[c].was = stack[c].was
  BY <1>4, <1>7 DEF cx
<1>16. \A x \in Living : x[1] # top => (IsLast(x)' <=> IsLast(x)) BY <1>7, <1>9 DEF IsLast
<1>17. \A x \in Living : x[1] = top => x[2] < new[2] BY SMTT(60), <1>1, <1>9, <1>11
<1>18. QED BY <1>7, <1>8, <1>11, <1>12, <1>13, <1>14, <1>15, <1>16, <1>17

(* The running context changes its pc.                                     *)
LEMMA PcFacts ==
  ASSUME MaxGuards \in Nat, GTypes, cx.guards # <<>>, NEW p \in Pcs \ {"run"},
         stack' = [stack EXCEPT ![top].pc = p]
  PROVE  /\ StackTypes' /\ top' = top /\ Living' = Living
         /\ \A x \in Living : GuardOf(x)' = GuardOf(x) /\ (IsLast(x)' <=> IsLast(x))
         /\ \A c \in 1 .. top : /\ stack'[c].handler = stack[c].handler
                                /\ stack'[c].was = stack[c].was
                                /\ stack'[c].pc = IF c = top THEN p ELSE stack[c].pc
<1> DEFINE n == Len(cx.guards)
           k == [cx EXCEPT !.pc = p]
<1>1. top \in 1 .. top /\ cx \in AnyContext /\ n \in 0 .. MaxGuards + 1
  BY SMTT(60), LivingFacts DEF cx
<1>2. cx.guards \in Seq(AnyGuard) BY <1>1 DEF AnyContext
<1>3. n \in 1 .. MaxGuards + 1 BY SMTT(60), <1>1, <1>2
<1>4. /\ k \in AnyContext /\ k.guards = cx.guards /\ k.pc = p
      /\ k.handler = cx.handler /\ k.was = cx.was
  BY <1>1 DEF AnyContext
<1>5. Bounded(k) BY <1>3, <1>4 DEF Bounded
<1>6. stack' = [stack EXCEPT ![top] = k] BY DEF cx
<1> HIDE DEF k
<1>7. /\ StackTypes' /\ top' = top /\ stack'[top] = k
      /\ \A c \in 1 .. top : c # top => stack'[c] = stack[c]
  BY <1>4, <1>5, <1>6, TopChanges
<1>8. \A c \in 1 .. top : /\ stack'[c].guards = stack[c].guards
                          /\ stack'[c].handler = stack[c].handler
                          /\ stack'[c].was = stack[c].was
                          /\ stack'[c].pc = IF c = top THEN p ELSE stack[c].pc
  BY SMTT(60), <1>4, <1>7 DEF cx
<1>9. Living' = Living BY <1>7, <1>8 DEF Living
<1>10. \A x \in Living : x[1] \in 1 .. top BY LivingFacts
<1>11. \A x \in Living : GuardOf(x)' = GuardOf(x) /\ (IsLast(x)' <=> IsLast(x))
  BY <1>8, <1>10 DEF GuardOf, IsLast
<1>12. QED BY <1>7, <1>8, <1>9, <1>11

(* The last guard of the running context goes.                             *)
LEMMA PopFacts ==
  ASSUME MaxGuards \in Nat, GTypes, cx.pc = "decrease",
         stack' = [stack EXCEPT ![top].guards = SubSeq(@, 1, Len(@) - 1), ![top].pc = "run"],
         NEW old, old = <<top, Len(cx.guards)>>
  PROVE  /\ StackTypes' /\ top' = top
         /\ old \in Living /\ Living' = Living \ {old} /\ GuardOf(old) = last
         /\ \A x \in Living' : GuardOf(x)' = GuardOf(x)
         /\ \A x \in Living : x[1] = top => (IsLast(x) <=> x = old) /\ x[2] <= old[2]
         /\ \A c \in 1 .. top : /\ stack'[c].handler = stack[c].handler
                                /\ stack'[c].was = stack[c].was
                                /\ stack'[c].pc = IF c = top THEN "run" ELSE stack[c].pc
         /\ \A x \in Living : x[1] # top => (IsLast(x)' <=> IsLast(x))
<1> DEFINE n == Len(cx.guards)
           s == SubSeq(cx.guards, 1, n - 1)
           k == [cx EXCEPT !.guards = s, !.pc = "run"]
<1>1. top \in 1 .. top /\ cx \in AnyContext BY SMTT(60), LivingFacts DEF cx
<1>2. cx.guards \in Seq(AnyGuard) BY <1>1 DEF AnyContext
<1>3. n \in 1 .. MaxGuards + 1 BY <1>1 DEF GTypes, cx
<1>4. s \in Seq(AnyGuard) /\ Len(s) = n - 1 /\ \A i \in 1 .. n - 1 : s[i] = cx.guards[i]
  BY SMTT(60), <1>2, <1>3
<1> HIDE DEF s
<1>5. /\ k \in AnyContext /\ k.guards = s /\ k.pc = "run"
      /\ k.handler = cx.handler /\ k.was = cx.was
  BY <1>1, <1>4 DEF AnyContext, Pcs
<1>6. Bounded(k) BY SMTT(60), <1>3, <1>4, <1>5 DEF Bounded
<1>7. stack' = [stack EXCEPT ![top] = k] BY DEF cx, s
<1> HIDE DEF k
<1>8. /\ StackTypes' /\ top' = top /\ stack'[top] = k
      /\ \A c \in 1 .. top : c # top => stack'[c] = stack[c]
  BY <1>5, <1>6, <1>7, TopChanges
<1>9. /\ \A x \in Living : x[1] # top => x \in Living' /\ GuardOf(x)' = GuardOf(x)
      /\ \A i \in 1 .. n - 1 : <<top, i>> \in Living'
      /\ \A x \in Living' : /\ x[1] # top => x \in Living
                            /\ x[1] = top => /\ x = <<top, x[2]>> /\ x[2] \in 1 .. n - 1
                                             /\ GuardOf(x)' = s[x[2]]
  BY <1>4, <1>5, <1>6, <1>7, LivingChanges
<1>10. \A x \in Living : /\ x[1] \in 1 .. top
                         /\ x[1] = top => x = <<top, x[2]>> /\ x[2] \in 1 .. n
  BY LivingFacts DEF cx
<1>11. \A i \in 1 .. n : <<top, i>> \in Living BY SMTT(60), <1>1, <1>3, LivingFacts DEF cx
<1>12. old \in Living /\ GuardOf(old) = last /\ old[1] = top /\ old[2] = n
  BY SMTT(60), <1>3, <1>11 DEF GuardOf, last, cx
<1>13. ASSUME NEW x \in Living', x[1] = top
       PROVE  x \in Living /\ x # old /\ GuardOf(x)' = GuardOf(x)
  <2>1. x = <<top, x[2]>> /\ x[2] \in 1 .. n - 1 /\ GuardOf(x)' = s[x[2]] BY <1>9, <1>13
  <2>2. x[2] \in 1 .. n BY SMTT(60), <1>3, <2>1
  <2>3. GuardOf(x) = cx.guards[x[2]] BY <1>13 DEF GuardOf, cx
  <2>4. x[2] # n BY SMTT(60), <1>3, <2>1
  <2>5. QED BY <1>4, <1>11, <1>12, <2>1, <2>2, <2>3, <2>4
<1>14. ASSUME NEW x \in Living, x[1] = top, x # old PROVE x \in Living'
  <2>1. x = <<top, x[2]>> /\ x[2] \in 1 .. n BY <1>10, <1>14
  <2>2. x[2] \in 1 .. n - 1 BY SMTT(60), <1>3, <1>14, <2>1
  <2>3. QED BY <1>9, <2>1, <2>2
<1>15. Living' = Living \ {old} BY <1>9, <1>12, <1>13, <1>14
<1>16. ASSUME NEW x \in Living, x[1] = top PROVE (IsLast(x) <=> x = old) /\ x[2] <= old[2]
  <2>1. x = <<top, x[2]>> /\ x[2] \in 1 .. n BY <1>10, <1>16
  <2>2. IsLast(x) <=> x[2] = n BY <1>16 DEF IsLast, cx
  <2>3. QED BY SMTT(60), <1>3, <1>12, <2>1, <2>2
<1>17. \A c \in 1 .. top : /\ stack'[c].handler = stack[c].handler
                           /\ stack'[c].was = stack[c].was
                           /\ stack'[c].pc = IF c = top THEN "run" ELSE stack[c].pc
  <2> TAKE c \in 1 .. top
  <2>1. CASE c = top BY <1>5, <1>8, <2>1 DEF cx
  <2>2. CASE c # top
    <3>1. stack'[c] = stack[c] BY <1>8, <2>2
    <3>2. QED BY SMTT(60), <2>2, <3>1
  <2>3. QED BY <2>1, <2>2
<1>18. \A x \in Living : x[1] # top => (IsLast(x)' <=> IsLast(x)) BY <1>8, <1>10 DEF IsLast
<1>19. QED BY <1>8, <1>9, <1>12, <1>13, <1>15, <1>16, <1>17, <1>18

(* The last guard of the running context is replaced by its upgraded one   *)
(* and is about to be dropped.                                             *)
LEMMA UpgradeFacts ==
  ASSUME MaxGuards \in Nat, GTypes, cx.pc = "run", cx.guards # <<>>,
         stack' = [stack EXCEPT ![top].guards =
                     Append([@ EXCEPT ![Len(@)] = transfer_to(last, "write")], cleared(last)),
                                ![top].pc = "release"],
         NEW old, old = <<top, Len(cx.guards)>>,
         NEW new, new = <<top, Len(cx.guards) + 1>>
  PROVE  /\ StackTypes' /\ top' = top
         /\ old \in Living /\ GuardOf(old) = last /\ old[1] = top
         /\ new \notin Living /\ Living' = Living \cup {new} /\ new[1] = top
         /\ GuardOf(old)' = transfer_to(last, "write") /\ GuardOf(new)' = cleared(last)
         /\ \A x \in Living \ {old} : GuardOf(x)' = GuardOf(x)
         /\ \A x \in Living : x[1] = top => x[2] <= old[2] /\ x[2] < new[2]
         /\ \A c \in 1 .. top : /\ stack'[c].handler = stack[c].handler
                                /\ stack'[c].was = stack[c].was
                                /\ stack'[c].pc = IF c = top THEN "release" ELSE stack[c].pc
         /\ IsLast(new)' /\ old[2] < new[2]
         /\ \A x \in Living : x[1] # top => (IsLast(x)' <=> IsLast(x))
<1> DEFINE n == Len(cx.guards)
           g == transfer_to(last, "write")
           h == cleared(last)
           r == [cx.guards EXCEPT ![n] = g]
           s == Append(r, h)
           k == [cx EXCEPT !.guards = s, !.pc = "release"]
<1>1. top \in 1 .. top /\ cx \in AnyContext BY SMTT(60), LivingFacts DEF cx
<1>2. cx.guards \in Seq(AnyGuard) BY <1>1 DEF AnyContext
<1>3. n \in 1 .. MaxGuards
  <2>1. n \in Nat /\ n # 0 BY SMTT(60), <1>2
  <2>2. n <= MaxGuards BY <1>1 DEF GTypes, cx
  <2>3. QED BY SMTT(60), <2>1, <2>2
<1>4. last \in AnyGuard BY SMTT(60), <1>2, <1>3 DEF last
<1>5. g \in AnyGuard /\ h \in AnyGuard BY <1>4 DEF AnyGuard, transfer_to, cleared
<1> HIDE DEF g, h
<1>6. /\ s \in Seq(AnyGuard) /\ Len(s) = n + 1 /\ s[n] = g /\ s[n + 1] = h
      /\ \A i \in 1 .. n - 1 : s[i] = cx.guards[i]
  <2>1. cx.guards \in [1 .. n -> AnyGuard] BY SMTT(60), <1>2
  <2>2. r \in [1 .. n -> AnyGuard] BY <1>5, <2>1
  <2>3. n \in Nat BY SMTT(60), <1>3
  <2>4. r \in Seq(AnyGuard) /\ Len(r) = n BY ZenonT(60), <2>2, <2>3, IsSequence
  <2>5. r[n] = g /\ \A i \in 1 .. n - 1 : r[i] = cx.guards[i] BY SMTT(60), <1>3, <2>1
  <2> HIDE DEF r
  <2>6. /\ s \in Seq(AnyGuard) /\ Len(s) = n + 1 /\ s[n + 1] = h
        /\ \A i \in 1 .. n : s[i] = r[i]
    BY SMTT(60), <1>5, <2>4
  <2>7. QED BY SMTT(60), <1>3, <2>5, <2>6
<1> HIDE DEF s
<1>7. /\ k \in AnyContext /\ k.guards = s /\ k.pc = "release"
      /\ k.handler = cx.handler /\ k.was = cx.was
  BY <1>1, <1>6 DEF AnyContext, Pcs
<1>8. Bounded(k) BY SMTT(60), <1>3, <1>6, <1>7 DEF Bounded
<1>9. stack' = [stack EXCEPT ![top] = k] BY DEF cx, r, s, g, h
<1> HIDE DEF k
<1>10. /\ StackTypes' /\ top' = top /\ stack'[top] = k
       /\ \A c \in 1 .. top : c # top => stack'[c] = stack[c]
  BY <1>7, <1>8, <1>9, TopChanges
<1>11. /\ \A x \in Living : x[1] # top => x \in Living' /\ GuardOf(x)' = GuardOf(x)
       /\ \A i \in 1 .. n + 1 : <<top, i>> \in Living'
       /\ \A x \in Living' : /\ x[1] # top => x \in Living
                             /\ x[1] = top => /\ x = <<top, x[2]>> /\ x[2] \in 1 .. n + 1
                                              /\ GuardOf(x)' = s[x[2]]
  BY <1>6, <1>7, <1>8, <1>9, LivingChanges
<1>12. \A x \in Living : /\ x[1] \in 1 .. top
                         /\ x[1] = top => x = <<top, x[2]>> /\ x[2] \in 1 .. n
  BY LivingFacts DEF cx
<1>13. \A i \in 1 .. n : <<top, i>> \in Living BY SMTT(60), <1>1, <1>3, LivingFacts DEF cx
<1>14. /\ old \in Living /\ GuardOf(old) = last /\ old[1] = top /\ old[2] = n
       /\ new[1] = top /\ new[2] = n + 1
  BY SMTT(60), <1>3, <1>13 DEF GuardOf, last, cx
<1>15. new \notin Living BY SMTT(60), <1>3, <1>12, <1>14
<1>16. new \in Living' /\ GuardOf(new)' = h BY SMTT(60), <1>3, <1>6, <1>11, <1>14
<1>17. old \in Living' /\ GuardOf(old)' = g
  <2>1. n \in 1 .. n + 1 BY SMTT(60), <1>3
  <2>2. old \in Living' BY <1>11, <2>1
  <2>3. QED BY <1>6, <1>11, <1>14, <2>2
<1>18. ASSUME NEW x \in Living, x[1] = top, x # old
       PROVE  x \in Living' /\ GuardOf(x)' = GuardOf(x)
  <2>1. x = <<top, x[2]>> /\ x[2] \in 1 .. n BY <1>12, <1>18
  <2>2. x[2] \in 1 .. n - 1 /\ x[2] \in 1 .. n + 1 BY SMTT(60), <1>3, <1>18, <2>1
  <2>3. x \in Living' BY <1>11, <2>1, <2>2
  <2>4. GuardOf(x)' = s[x[2]] BY <1>11, <1>18, <2>3
  <2>5. GuardOf(x) = cx.guards[x[2]] BY <1>18 DEF GuardOf, cx
  <2>6. QED BY <1>6, <2>2, <2>3, <2>4, <2>5
<1>19. Living' = Living \cup {new}
  <2>1. ASSUME NEW x \in Living', x[1] = top PROVE x \in Living \cup {new}
    <3>1. x = <<top, x[2]>> /\ x[2] \in 1 .. n + 1 BY <1>11, <2>1
    <3>2. x[2] \in 1 .. n \/ x[2] = n + 1 BY SMTT(60), <1>3, <3>1
    <3>3. QED BY <3>1, <3>2, <1>13
  <2>2. QED BY <1>11, <1>16, <1>17, <1>18, <2>1
<1>20. \A c \in 1 .. top : /\ stack'[c].handler = stack[c].handler
                           /\ stack'[c].was = stack[c].was
                           /\ stack'[c].pc = IF c = top THEN "release" ELSE stack[c].pc
  <2> TAKE c \in 1 .. top
  <2>1. CASE c = top BY <1>7, <1>10, <2>1 DEF cx
  <2>2. CASE c # top
    <3>1. stack'[c] = stack[c] BY <1>10, <2>2
    <3>2. QED BY SMTT(60), <2>2, <3>1
  <2>3. QED BY <2>1, <2>2
<1>21. IsLast(new)' BY <1>6, <1>7, <1>10, <1>14 DEF IsLast
<1>22. \A x \in Living : x[1] # top => (IsLast(x)' <=> IsLast(x)) BY <1>10, <1>12 DEF IsLast
<1>23. \A x \in Living : x[1] = top => x[2] <= old[2] /\ x[2] < new[2] BY SMTT(60), <1>3, <1>12, <1>14
<1>24. \A x \in Living \ {old} : GuardOf(x)' = GuardOf(x) BY <1>11, <1>18
<1>25. old[2] < new[2] BY SMTT(60), <1>3, <1>14
<1>26. QED
  BY <1>10, <1>14, <1>15, <1>16, <1>17, <1>19, <1>20, <1>21, <1>22, <1>23, <1>24, <1>25 DEF g, h

-----------------------------------------------------------------------------
(* Holders of a lock are finitely many, and hold it.                       *)
LEMMA HolderFacts ==
  ASSUME MaxGuards \in Nat, GTypes, NEW l, NEW ms
  PROVE  IsFiniteSet(Holders(l, ms)) /\ Holders(l, ms) \subseteq Living
<1>1. Holders(l, ms) \subseteq Living BY DEF Holders
<1>2. QED BY <1>1, LivingFacts, FS_Subset

(* A new guard holds its lock at once.                                     *)
LEMMA PushHolders ==
  ASSUME MaxGuards \in Nat, GTypes, cx.pc = "run", Len(cx.guards) < MaxGuards,
         NEW g \in AnyGuard, Push(g), NEW new, new = <<top, Len(cx.guards) + 1>>,
         NEW l, NEW ms
  PROVE  Holders(l, ms)' = IF g.lock = l /\ g.mode \in ms THEN Holders(l, ms) \cup {new}
                           ELSE Holders(l, ms)
<1>1. /\ new \notin Living /\ Living' = Living \cup {new} /\ new[1] = top
      /\ GuardOf(new)' = g /\ \A x \in Living : GuardOf(x)' = GuardOf(x)
      /\ \A c \in 1 .. top : stack'[c].pc = stack[c].pc
      /\ \A x \in Living : x[1] # top => (IsLast(x)' <=> IsLast(x))
  BY PushFacts
<1>2. top \in 1 .. top /\ \A x \in Living : x[1] \in 1 .. top BY SMTT(60), LivingFacts
<1>3. Holding(new)' BY <1>1, <1>2 DEF Holding, cx
<1>4. \A x \in Living : Holding(x)' <=> Holding(x) BY <1>1, <1>2 DEF Holding, cx
<1>5. \A x : x \in Holders(l, ms)' <=>
        x \in Living' /\ Holding(x)' /\ GuardOf(x)'.lock = l /\ GuardOf(x)'.mode \in ms
  BY DEF Holders
<1>6. \A x : x \in Holders(l, ms) <=>
        x \in Living /\ Holding(x) /\ GuardOf(x).lock = l /\ GuardOf(x).mode \in ms
  BY DEF Holders
<1>7. \A x \in Living : x \in Holders(l, ms)' <=> x \in Holders(l, ms)
  <2> TAKE x \in Living
  <2>1. x \in Living' /\ GuardOf(x)' = GuardOf(x) BY <1>1
  <2>2. QED BY <2>1, <1>4, <1>5, <1>6
<1>8. new \in Holders(l, ms)' <=> g.lock = l /\ g.mode \in ms BY <1>1, <1>3, <1>5
<1>9. Holders(l, ms)' \subseteq Living \cup {new} /\ Holders(l, ms) \subseteq Living
  BY <1>1, <1>5, <1>6
<1> DEFINE H == Holders(l, ms)
           K == Holders(l, ms)'
<1>10. /\ \A x \in Living : x \in K <=> x \in H
       /\ new \in K <=> g.lock = l /\ g.mode \in ms
       /\ K \subseteq Living \cup {new} /\ H \subseteq Living /\ new \notin Living
  BY <1>1, <1>7, <1>8, <1>9
<1> HIDE DEF H, K
<1>11. CASE g.lock = l /\ g.mode \in ms
  <2>1. K = H \cup {new} BY <1>10, <1>11
  <2>2. QED BY <1>11, <2>1 DEF H, K
<1>12. CASE ~(g.lock = l /\ g.mode \in ms)
  <2>1. K = H BY <1>10, <1>12
  <2>2. QED BY <1>12, <2>1 DEF H, K
<1>13. QED BY <1>11, <1>12

(* What a new guard needs of its lock.                                     *)
Taken(l, mode) == \/ mode = "none" /\ l = NoLock /\ UNCHANGED word
                  \/ /\ l \in Locks /\ mode \in Modes(l)
                     /\ Free(l, mode) /\ word' = Acquired(l, mode)

(* A guard that found its lock free leaves the words what the guards say.  *)
LEMMA PushKeepsWords ==
  ASSUME MaxGuards \in Nat, SpinLocks \cap RwLocks = {}, GTypes, WordsAgree, Disciplined,
         cx.pc = "run", Len(cx.guards) < MaxGuards,
         NEW g \in AnyGuard, Push(g), Taken(g.lock, g.mode)
  PROVE  WordsAgree'
<1> DEFINE new == <<top, Len(cx.guards) + 1>>
           E == {"spin", "write"}
           U == {"up"}
           R == {"read"}
<1>0. new = <<top, Len(cx.guards) + 1>> OBVIOUS
<1> HIDE DEF new
<1>1. \A l, ms : Holders(l, ms)' = IF g.lock = l /\ g.mode \in ms THEN Holders(l, ms) \cup {new}
                                   ELSE Holders(l, ms)
  BY SMTT(60), <1>0, PushHolders
<1>2. \A l, ms : IsFiniteSet(Holders(l, ms)) /\ Holders(l, ms) \subseteq Living BY HolderFacts
<1>3. /\ new \notin Living
      /\ \A x \in Living : stack'[x[1]].pc = stack[x[1]].pc
      /\ \A x \in Living : x[1] # top => (IsLast(x)' <=> IsLast(x))
      /\ \A x \in Living : x[1] = top => stack[x[1]].pc = "run"
  BY <1>0, PushFacts, LivingFacts DEF cx
<1> SUFFICES ASSUME NEW l \in Locks
             PROVE  /\ word'[l].w <=> Holders(l, E)' # {}
                    /\ word'[l].up <=> Holders(l, U)' # {}
                    /\ word'[l].readers = Cardinality(Holders(l, R))'
                    /\ \A x, y \in Holders(l, E)' : x = y
                    /\ \A x, y \in Holders(l, U)' : x = y
                    /\ \A x \in Holders(l, E)', y \in Holders(l, U)' :
                         stack'[y[1]].pc = "release" /\ IsLast(y)'
  BY DEF WordsAgree
<1>4. /\ word[l].w <=> Holders(l, E) # {}
      /\ word[l].up <=> Holders(l, U) # {}
      /\ word[l].readers = Cardinality(Holders(l, R))
      /\ \A x, y \in Holders(l, E) : x = y
      /\ \A x, y \in Holders(l, U) : x = y
      /\ \A x \in Holders(l, E), y \in Holders(l, U) : stack[y[1]].pc = "release" /\ IsLast(y)
  BY DEF WordsAgree
<1>5. \A x \in Holders(l, E), y \in Holders(l, U) : stack'[y[1]].pc = "release" /\ IsLast(y)'
  BY <1>2, <1>3, <1>4
<1>6. CASE g.lock # l \/ g.mode = "none"
  <2>1. Holders(l, E)' = Holders(l, E) /\ Holders(l, U)' = Holders(l, U)
        /\ Holders(l, R)' = Holders(l, R)
    BY <1>1, <1>6
  <2>2. word'[l] = word[l] BY <1>6 DEF Taken, Acquired, GTypes, Modes
  <2>3. Cardinality(Holders(l, R))' = Cardinality(Holders(l, R)) BY <2>1
  <2>4. QED BY <2>1, <2>2, <2>3, <1>4, <1>5
<1>7. CASE g.lock = l /\ g.mode \in E
  <2>1. Holders(l, E)' = Holders(l, E) \cup {new} /\ Holders(l, U)' = Holders(l, U)
        /\ Holders(l, R)' = Holders(l, R)
    BY <1>1, <1>7
  <2>2. ~word[l].w /\ word' = [word EXCEPT ![l].w = TRUE]
    BY <1>7 DEF Taken, Free, Acquired, try_acquire_lock, try_write
  <2>3. word'[l].w /\ word'[l].up = word[l].up /\ word'[l].readers = word[l].readers
    BY <2>2 DEF GTypes
  <2>4. Holders(l, U) = {}
    <3>1. CASE g.mode = "write" BY <1>4, <1>7, <3>1 DEF Taken, Free, try_write
    <3>2. CASE g.mode = "spin"
      <4>1. l \in SpinLocks BY <1>7, <3>2 DEF Taken, Modes
      <4>2. \A x \in Holders(l, U) : Fits(GuardOf(x)) /\ GuardOf(x).lock = l /\ GuardOf(x).mode = "up"
        BY DEF Holders, Disciplined
      <4>3. QED BY <4>1, <4>2 DEF Fits, Modes
    <3>3. QED BY <1>7, <3>1, <3>2
  <2>5. Holders(l, E) = {} BY <1>4, <2>2
  <2>6. Cardinality(Holders(l, R))' = Cardinality(Holders(l, R)) BY <2>1
  <2>7. QED BY <2>1, <2>3, <2>4, <2>5, <2>6, <1>4
<1>8. CASE g.lock = l /\ g.mode = "up"
  <2>1. Holders(l, U)' = Holders(l, U) \cup {new} /\ Holders(l, E)' = Holders(l, E)
        /\ Holders(l, R)' = Holders(l, R)
    BY <1>1, <1>8
  <2>2. ~word[l].w /\ ~word[l].up /\ word' = [word EXCEPT ![l].up = TRUE]
    BY <1>8 DEF Taken, Free, Acquired, try_upread
  <2>3. word'[l].up /\ word'[l].w = word[l].w /\ word'[l].readers = word[l].readers
    BY <2>2 DEF GTypes
  <2>4. Holders(l, E) = {} /\ Holders(l, U) = {} BY <1>4, <2>2
  <2>5. Cardinality(Holders(l, R))' = Cardinality(Holders(l, R)) BY <2>1
  <2>6. QED BY ONLY SMTT(60), <1>8, <2>1, <2>3, <2>4, <2>5, <1>4
<1>9. CASE g.lock = l /\ g.mode = "read"
  <2>1. Holders(l, R)' = Holders(l, R) \cup {new} /\ Holders(l, E)' = Holders(l, E)
        /\ Holders(l, U)' = Holders(l, U)
    BY <1>1, <1>9
  <2>2. word' = [word EXCEPT ![l].readers = @ + 1] BY <1>9 DEF Taken, Acquired
  <2>3. word'[l].readers = word[l].readers + 1 /\ word'[l].w = word[l].w /\ word'[l].up = word[l].up
    BY <2>2 DEF GTypes
  <2>4. Cardinality(Holders(l, R) \cup {new}) = Cardinality(Holders(l, R)) + 1
    BY <1>2, <1>3, FS_AddElement
  <2>5. Cardinality(Holders(l, R))' = Cardinality(Holders(l, R)) + 1 BY <2>1, <2>4
  <2>6. QED BY SMTT(60), <2>1, <2>3, <2>5, <1>4, <1>5
<1>10. g.mode \in E \cup {"none", "up", "read"} BY DEF AnyGuard
<1>11. QED BY <1>6, <1>7, <1>8, <1>9, <1>10

(* A new guard keeps the invariant: only the first of the task that        *)
(* disables interrupts finds them enabled.                                 *)
LEMMA NewGuardKeeps ==
  ASSUME MaxGuards \in Nat, SpinLocks \cap RwLocks = {}, GInv, Running, Len(cx.guards) < MaxGuards,
         NEW l \in Locks \cup {NoLock}, NEW mode \in {"none", "spin", "read", "write", "up"},
         NEW irq \in BOOLEAN, NewGuard(l, mode, irq), UNCHANGED halt, Taken(l, mode),
         mode # "none" => MayTake(l, irq)
  PROVE  GInv'
<1> DEFINE g == Guard(l, mode, irq, irq /\ enabled)
<1>0. /\ GTypes /\ OneHandler /\ WordsAgree /\ Disciplined /\ FlagsSaved /\ halt = "none"
      /\ num_locks = Cardinality(Living)
      /\ enabled <=> top = 1 /\ TaskEnabled
      /\ top = 2 => TaskEnabled
      /\ cx.pc = "run"
  BY DEF GInv, Running
<1>1. /\ g \in AnyGuard /\ g.lock = l /\ g.mode = mode /\ g.irq = irq
      /\ g.was_enabled = (irq /\ enabled)
  BY <1>0 DEF Guard, AnyGuard, GTypes
<1>2. Push(g) BY DEF NewGuard
<1>3. enabled' = (IF irq THEN FALSE ELSE enabled) /\ num_locks' = num_locks + 1 BY DEF NewGuard
<1> HIDE DEF g
<1>4. PICK new : new = <<top, Len(cx.guards) + 1>> OBVIOUS
<1>5. /\ StackTypes' /\ top' = top
      /\ new \notin Living /\ Living' = Living \cup {new} /\ new[1] = top
      /\ GuardOf(new)' = g /\ \A x \in Living : GuardOf(x)' = GuardOf(x)
      /\ \A x \in Living : x[1] = top => x[2] < new[2]
      /\ \A c \in 1 .. top : /\ stack'[c].handler = stack[c].handler
                             /\ stack'[c].pc = stack[c].pc /\ stack'[c].was = stack[c].was
      /\ \A x \in Living : x[1] # top => (IsLast(x)' <=> IsLast(x))
  BY <1>0, <1>1, <1>2, <1>4, PushFacts
<1>6. /\ top \in {1, 2} /\ 1 \in 1 .. top /\ top \in 1 .. top
      /\ \A x \in Living : x[1] \in 1 .. top
  BY SMTT(60), <1>0, LivingFacts DEF OneHandler
<1>7. WordsAgree' BY <1>0, <1>1, <1>2, PushKeepsWords
<1>8. GTypes'
  <2>1. word' \in [Locks -> [w : BOOLEAN, up : BOOLEAN, readers : Int]]
    <3>0. word \in [Locks -> [w : BOOLEAN, up : BOOLEAN, readers : Int]] BY <1>0 DEF GTypes
    <3>1. CASE UNCHANGED word BY <3>0, <3>1
    <3>2. CASE l \in Locks /\ word' = [word EXCEPT ![l].w = TRUE]
      BY <3>2, <1>0 DEF GTypes
    <3>3. CASE l \in Locks /\ word' = [word EXCEPT ![l].up = TRUE]
      BY <3>3, <1>0 DEF GTypes
    <3>4. CASE l \in Locks /\ word' = [word EXCEPT ![l].readers = @ + 1]
      <4>1. word'[l] = [word[l] EXCEPT !.readers = @ + 1] /\ word[l].readers \in Int
        BY ONLY ZenonT(30), <3>0, <3>4
      <4>2. word'[l] \in [w : BOOLEAN, up : BOOLEAN, readers : Int]
        BY ONLY SMTT(60), <3>0, <3>4, <4>1
      <4>3. QED BY ONLY ZenonT(30), <3>0, <3>4, <4>2
    <3>5. QED BY <3>1, <3>2, <3>3, <3>4 DEF Taken, Acquired, Modes
  <2>2. enabled' \in BOOLEAN BY <1>0, <1>3 DEF GTypes
  <2>3. num_locks' \in Int BY SMTT(60), <1>0, <1>3 DEF GTypes
  <2>4. QED BY <2>1, <2>2, <2>3, <1>5 DEF GTypes, StackTypes, Bounded
<1>9. OneHandler' BY <1>0, <1>5, <1>6 DEF OneHandler
<1>10. Disciplined'
  <2>1. ASSUME NEW x \in Living
        PROVE  /\ Fits(GuardOf(x))'
               /\ GuardOf(x)'.mode # "none" =>
                    IF stack'[x[1]].handler THEN GuardOf(x)'.lock \in IrqLocks
                    ELSE GuardOf(x)'.irq \/ GuardOf(x)'.lock \notin IrqLocks
    BY <1>0, <1>5, <1>6 DEF Disciplined, Fits
  <2>2. Fits(GuardOf(new))' BY <1>1, <1>5 DEF Taken, Fits, Modes
  <2>3. GuardOf(new)'.mode # "none" =>
          IF stack'[new[1]].handler THEN GuardOf(new)'.lock \in IrqLocks
          ELSE GuardOf(new)'.irq \/ GuardOf(new)'.lock \notin IrqLocks
    BY <1>1, <1>5, <1>6 DEF MayTake, cx
  <2>4. QED BY <1>5, <2>1, <2>2, <2>3 DEF Disciplined
<1>11. top = 1 => \A x \in Living : x[1] = 1 /\ GuardOf(x).irq => ~TaskEnabled
  BY <1>0 DEF TaskEnabled, cx
<1>12. FlagsSaved'
  <2>1. ASSUME NEW x \in Living
        PROVE  GuardOf(x)'.was_enabled <=>
                 /\ x[1] = 1 /\ GuardOf(x)'.irq
                 /\ \A y \in Living' : y[1] = 1 /\ y[2] < x[2] => ~GuardOf(y)'.irq
    <3>1. GuardOf(x).was_enabled <=>
            /\ x[1] = 1 /\ GuardOf(x).irq
            /\ \A y \in Living : y[1] = 1 /\ y[2] < x[2] => ~GuardOf(y).irq
      BY <1>0 DEF FlagsSaved
    <3>2. x[1] = 1 => ~(new[1] = 1 /\ new[2] < x[2])
      <4>1. x[2] \in Int /\ new[2] \in Int BY SMTT(60), <1>0, <1>4, <1>6, LivingFacts DEF cx
      <4>2. QED BY SMTT(60), <1>5, <4>1
    <3>3. QED BY <1>5, <3>1, <3>2
  <2>2. g.was_enabled <=> /\ new[1] = 1 /\ g.irq
                          /\ \A y \in Living' : y[1] = 1 /\ y[2] < new[2] => ~GuardOf(y)'.irq
    <3>1. CASE top # 1 BY <3>1, <1>0, <1>1, <1>5
    <3>2. CASE top = 1
      <4>1. enabled <=> \A y \in Living : y[1] = 1 => ~GuardOf(y).irq
        BY <3>2, <1>0, <1>11 DEF TaskEnabled
      <4>2. ~(new[2] < new[2])
        <5>1. new[2] \in Int BY SMTT(60), <1>0, <1>4, <1>6, LivingFacts DEF cx
        <5>2. QED BY SMTT(60), <5>1
      <4>3. (\A y \in Living' : y[1] = 1 /\ y[2] < new[2] => ~GuardOf(y)'.irq)
              <=> \A y \in Living : y[1] = 1 => ~GuardOf(y).irq
        BY <3>2, <1>5, <4>2
      <4>4. QED BY <3>2, <1>1, <1>5, <4>1, <4>3
    <3>3. QED BY <3>1, <3>2
  <2>3. QED BY <1>5, <2>1, <2>2 DEF FlagsSaved
<1>13. num_locks' = Cardinality(Living)'
  <2>1. Cardinality(Living \cup {new}) = Cardinality(Living) + 1
    BY <1>0, <1>5, LivingFacts, FS_AddElement
  <2>2. QED BY <1>0, <1>3, <1>5, <2>1
<1>14. top = 2 => (TaskEnabled' <=> TaskEnabled)
  BY SMTT(60), <1>5, <1>6 DEF TaskEnabled
<1>15. top = 1 => (TaskEnabled' <=> TaskEnabled /\ ~irq)
  <2> SUFFICES ASSUME top = 1 PROVE TaskEnabled' <=> TaskEnabled /\ ~irq OBVIOUS
  <2>1. stack[1].pc = "run" /\ stack'[1].pc = "run" BY <1>0, <1>5, <1>6 DEF cx
  <2>2. TaskEnabled <=> \A x \in Living : x[1] = 1 => ~GuardOf(x).irq BY <2>1 DEF TaskEnabled
  <2>3. TaskEnabled' <=> \A x \in Living' : x[1] = 1 => ~GuardOf(x)'.irq BY <2>1 DEF TaskEnabled
  <2>4. QED BY <2>2, <2>3, <1>1, <1>5
<1>16. QED
  BY <1>0, <1>3, <1>5, <1>6, <1>7, <1>8, <1>9, <1>10, <1>12, <1>13, <1>14, <1>15 DEF GInv

-----------------------------------------------------------------------------
(* What the interrupted task holds is no lock of handlers.                 *)
LEMMA HeldBelow ==
  ASSUME MaxGuards \in Nat, GInv, NEW x \in Living, x[1] # top, Holding(x), GuardOf(x).mode # "none"
  PROVE  top = 2 /\ GuardOf(x).lock \notin IrqLocks
<1>1. x[1] \in 1 .. top /\ top \in {1, 2} BY LivingFacts DEF GInv, OneHandler
<1>2. top = 2 /\ x[1] = 1 BY SMTT(60), <1>1
<1>3. ~GuardOf(x).irq BY <1>2 DEF GInv, TaskEnabled, Holding
<1>4. QED BY <1>2, <1>3 DEF GInv, OneHandler, Disciplined

(* Who waits for a lock gets it: its holders are in the same context or    *)
(* nowhere.                                                                *)
LEMMA LockIsFree ==
  ASSUME MaxGuards \in Nat, GInv, NEW l \in Locks, NEW mode \in Modes(l), NEW irq \in BOOLEAN,
         ~HeldByTop(l), MayTake(l, irq)
  PROVE  Free(l, mode)
<1>1. ASSUME NEW ms, "none" \notin ms, NEW x \in Holders(l, ms) PROVE FALSE
  <2>1. x \in Living /\ Holding(x) /\ GuardOf(x).lock = l /\ GuardOf(x).mode # "none"
    BY <1>1 DEF Holders
  <2>2. CASE x[1] = top
    <3>1. x[2] \in 1 .. Len(cx.guards) /\ GuardOf(x) = cx.guards[x[2]]
      BY <2>1, <2>2, LivingFacts DEF GuardOf, cx, GInv
    <3>2. QED BY <2>1, <3>1 DEF HeldByTop
  <2>3. CASE x[1] # top
    <3>1. top = 2 /\ l \notin IrqLocks BY <2>1, <2>3, HeldBelow
    <3>2. QED BY <3>1 DEF MayTake, GInv, OneHandler, cx
  <2>4. QED BY <2>2, <2>3
<1>2. /\ Holders(l, {"spin", "write"}) = {} /\ Holders(l, {"up"}) = {}
      /\ Holders(l, {"read"}) = {}
  BY <1>1
<1>3. ~word[l].w /\ ~word[l].up /\ word[l].readers = Cardinality({})
  BY <1>2 DEF GInv, WordsAgree
<1>4. Cardinality({}) = 0 BY FS_EmptySet
<1>5. QED BY <1>3, <1>4 DEF Free, Modes, try_acquire_lock, try_read, try_write, try_upread

(* lock, read, write, upread and their try_ forms.                         *)
LEMMA AcquireKeeps ==
  ASSUME MaxGuards \in Nat, SpinLocks \cap RwLocks = {}, GInv,
         NEW l \in Locks, NEW mode \in Modes(l), NEW irq \in BOOLEAN,
         acquire(l, mode, irq) \/ try_acquire(l, mode, irq)
  PROVE  GInv' \/ UNCHANGED gvars
<1>1. mode \in {"none", "spin", "read", "write", "up"} /\ mode # "none" /\ l \in Locks \cup {NoLock}
  BY DEF Modes
<1>2. ASSUME Running, Len(cx.guards) < MaxGuards, MayTake(l, irq), Free(l, mode),
             word' = Acquired(l, mode), NewGuard(l, mode, irq), UNCHANGED halt
      PROVE  GInv'
  BY <1>1, <1>2, NewGuardKeeps DEF Taken
<1>3. CASE acquire(l, mode, irq)
  <2>1. Free(l, mode) BY <1>3, LockIsFree DEF acquire
  <2>2. QED BY <1>2, <1>3, <2>1 DEF acquire
<1>4. CASE try_acquire(l, mode, irq) BY <1>2, <1>4 DEF try_acquire
<1>5. QED BY <1>3, <1>4

(* disable_local and disable_preempt: guards without a lock.               *)
LEMMA DisableKeeps ==
  ASSUME MaxGuards \in Nat, SpinLocks \cap RwLocks = {}, GInv, disable_local \/ disable_preempt
  PROVE  GInv'
<1>1. PICK irq \in BOOLEAN : /\ Running /\ Len(cx.guards) < MaxGuards
                             /\ NewGuard(NoLock, "none", irq) /\ UNCHANGED <<word, halt>>
  BY DEF disable_local, disable_preempt
<1>2. QED BY <1>1, NewGuardKeeps DEF Taken

-----------------------------------------------------------------------------
(* The last guard of the context that runs.                                *)
LEMMA LastOfTop ==
  ASSUME MaxGuards \in Nat, GTypes, cx.guards # <<>>, NEW old, old = <<top, Len(cx.guards)>>
  PROVE  /\ old \in Living /\ IsLast(old) /\ GuardOf(old) = last /\ old[1] = top
         /\ \A x \in Living : x[1] = top => (IsLast(x) <=> x = old) /\ x[2] <= old[2]
<1>0. top \in 1 .. top /\ \A x \in Living : x[1] \in 1 .. top BY SMTT(60), LivingFacts
<1>1. cx \in AnyContext BY <1>0, LivingFacts DEF cx
<1>2. cx.guards \in Seq(AnyGuard) BY <1>1 DEF AnyContext
<1>3. Len(cx.guards) \in 1 .. MaxGuards + 1
  <2>1. Len(cx.guards) \in 0 .. MaxGuards + 1 BY <1>0, LivingFacts DEF cx
  <2>2. Len(cx.guards) # 0 BY SMTT(60), <1>2
  <2>3. QED BY SMTT(60), <2>1, <2>2
<1>4. <<top, Len(cx.guards)>> \in Living BY SMTT(60), <1>0, <1>3, LivingFacts DEF cx
<1>5. old \in Living /\ old[1] = top /\ old[2] = Len(cx.guards) BY <1>4
<1>6. IsLast(old) /\ GuardOf(old) = last BY <1>5 DEF IsLast, GuardOf, last, cx
<1>7. ASSUME NEW x \in Living, x[1] = top PROVE (IsLast(x) <=> x = old) /\ x[2] <= old[2]
  <2>1. x = <<top, x[2]>> /\ x[2] \in 1 .. Len(cx.guards) BY <1>7, LivingFacts DEF cx
  <2>2. IsLast(x) <=> x[2] = Len(cx.guards) BY <1>7 DEF IsLast, cx
  <2>3. QED BY SMTT(60), <1>3, <1>5, <2>1, <2>2
<1>8. QED BY <1>5, <1>6, <1>7

(* The last guard lets go of its lock when its drop has released it.       *)
LEMMA PcHolders ==
  ASSUME MaxGuards \in Nat, GTypes, cx.guards # <<>>, NEW p \in Pcs \ {"run"},
         stack' = [stack EXCEPT ![top].pc = p], cx.pc # "decrease",
         p # "release" \/ cx.pc # "enable",
         NEW old, old = <<top, Len(cx.guards)>>
  PROVE  /\ p = "release" => \A l, ms : Holders(l, ms)' = Holders(l, ms)
         /\ p # "release" => \A l, ms : Holders(l, ms)' = Holders(l, ms) \ {old}
<1>1. /\ top' = top /\ Living' = Living
      /\ \A x \in Living : GuardOf(x)' = GuardOf(x) /\ (IsLast(x)' <=> IsLast(x))
      /\ \A c \in 1 .. top : stack'[c].pc = IF c = top THEN p ELSE stack[c].pc
  BY PcFacts
<1>2. top \in 1 .. top /\ \A x \in Living : x[1] \in 1 .. top BY SMTT(60), LivingFacts
<1>3. /\ old \in Living /\ IsLast(old) /\ GuardOf(old) = last /\ old[1] = top
      /\ \A x \in Living : x[1] = top => (IsLast(x) <=> x = old) /\ x[2] <= old[2]
  BY LastOfTop
<1>4. ASSUME NEW x \in Living
      PROVE  Holding(x)' <=> Holding(x) /\ (p # "release" => x # old)
  <2>1. IsLast(x)' <=> IsLast(x) BY <1>1
  <2>2. CASE x[1] = top
    <3>1. stack'[x[1]].pc = p BY <1>1, <1>2, <2>2
    <3>2. stack[x[1]].pc = cx.pc BY <2>2 DEF cx
    <3>3. CASE p = "release" BY <2>1, <3>1, <3>2, <3>3 DEF Holding
    <3>4. CASE p # "release"
      <4>1. p \in {"enable", "decrease"} BY <3>4 DEF Pcs
      <4>2. QED BY <1>3, <2>1, <2>2, <3>1, <3>2, <3>4, <4>1 DEF Holding
    <3>5. QED BY <3>3, <3>4
  <2>3. CASE x[1] # top
    <3>1. stack'[x[1]].pc = stack[x[1]].pc BY <1>1, <1>2, <2>3
    <3>2. QED BY <1>3, <2>1, <2>3, <3>1 DEF Holding
  <2>4. QED BY <2>2, <2>3
<1>5. ASSUME NEW l, NEW ms
      PROVE  /\ p = "release" => Holders(l, ms)' = Holders(l, ms)
             /\ p # "release" => Holders(l, ms)' = Holders(l, ms) \ {old}
  <2>1. \A x : x \in Holders(l, ms)' <=>
          x \in Living' /\ Holding(x)' /\ GuardOf(x)'.lock = l /\ GuardOf(x)'.mode \in ms
    BY DEF Holders
  <2>2. \A x : x \in Holders(l, ms) <=>
          x \in Living /\ Holding(x) /\ GuardOf(x).lock = l /\ GuardOf(x).mode \in ms
    BY DEF Holders
  <2>3. ASSUME NEW x \in Living
        PROVE  x \in Holders(l, ms)' <=> x \in Holders(l, ms) /\ (p # "release" => x # old)
    <3>1. GuardOf(x)' = GuardOf(x) /\ x \in Living' BY <1>1
    <3>2. QED BY <3>1, <1>4, <2>1, <2>2
  <2> DEFINE H == Holders(l, ms)
             K == Holders(l, ms)'
  <2>4. /\ \A x \in Living : x \in K <=> x \in H /\ (p # "release" => x # old)
        /\ K \subseteq Living /\ H \subseteq Living
    BY <1>1, <2>1, <2>2, <2>3
  <2> HIDE DEF H, K
  <2>5. CASE p = "release"
    <3>1. K = H BY <2>4, <2>5
    <3>2. QED BY <2>5, <3>1 DEF H, K
  <2>6. CASE p # "release"
    <3>1. K = H \ {old} BY <2>4, <2>6
    <3>2. QED BY <2>6, <3>1 DEF H, K
  <2>7. QED BY <2>5, <2>6
<1>6. QED BY <1>5

(* A context that drops a guard has one.                                   *)
LEMMA DropsSome ==
  ASSUME MaxGuards \in Nat, GTypes, cx.pc # "run"
  PROVE  cx.guards # <<>>
<1>1. top \in 1 .. top BY SMTT(60), LivingFacts
<1>2. Len(cx.guards) \in 1 .. MaxGuards + 1 BY <1>1 DEF GTypes, cx
<1>3. QED BY SMTT(60), <1>2

(* What no step of a drop changes, except the last.                        *)
LEMMA PcKeeps ==
  ASSUME MaxGuards \in Nat, GInv, cx.guards # <<>>, NEW p \in Pcs \ {"run"},
         stack' = [stack EXCEPT ![top].pc = p], UNCHANGED <<num_locks, halt>>
  PROVE  /\ StackTypes' /\ OneHandler' /\ Disciplined' /\ FlagsSaved' /\ halt' = "none"
         /\ num_locks' = Cardinality(Living)'
         /\ top' = top /\ top \in {1, 2}
         /\ top = 2 => TaskEnabled /\ TaskEnabled'
         /\ top = 1 /\ p # "decrease" => (TaskEnabled' <=> \A x \in Living : x[1] = 1 => ~GuardOf(x).irq)
         /\ top = 1 /\ p = "decrease" =>
              (TaskEnabled' <=> \A x \in Living : x[1] = 1 /\ GuardOf(x).irq => IsLast(x))
<1>1. /\ StackTypes' /\ top' = top /\ Living' = Living
      /\ \A x \in Living : GuardOf(x)' = GuardOf(x) /\ (IsLast(x)' <=> IsLast(x))
      /\ \A c \in 1 .. top : /\ stack'[c].handler = stack[c].handler
                             /\ stack'[c].was = stack[c].was
                             /\ stack'[c].pc = IF c = top THEN p ELSE stack[c].pc
  BY PcFacts DEF GInv
<1>2. /\ top \in {1, 2} /\ 1 \in 1 .. top /\ top \in 1 .. top
      /\ \A x \in Living : x[1] \in 1 .. top
  BY SMTT(60), LivingFacts DEF OneHandler, GInv
<1>3. OneHandler' BY <1>1, <1>2 DEF OneHandler, GInv
<1>4. Disciplined' BY SMTT(60), <1>1, <1>2 DEF Disciplined, Fits, GInv
<1>5. FlagsSaved' BY SMTT(60), <1>1 DEF FlagsSaved, GInv
<1>6. num_locks' = Cardinality(Living)' /\ halt' = "none" BY <1>1 DEF GInv
<1>7. ASSUME top = 2 PROVE TaskEnabled /\ TaskEnabled'
  <2>1. TaskEnabled BY <1>7 DEF GInv
  <2>2. stack'[1].pc = stack[1].pc BY SMTT(60), <1>1, <1>2, <1>7
  <2>3. QED BY <1>1, <2>1, <2>2 DEF TaskEnabled
<1>8. ASSUME top = 1 PROVE stack'[1].pc = p BY <1>1, <1>2, <1>8
<1>9. top = 1 /\ p # "decrease" => (TaskEnabled' <=> \A x \in Living : x[1] = 1 => ~GuardOf(x).irq)
  BY <1>1, <1>8 DEF TaskEnabled
<1>10. top = 1 /\ p = "decrease" =>
         (TaskEnabled' <=> \A x \in Living : x[1] = 1 /\ GuardOf(x).irq => IsLast(x))
  BY <1>1, <1>8 DEF TaskEnabled
<1>11. QED BY <1>1, <1>2, <1>3, <1>4, <1>5, <1>6, <1>7, <1>9, <1>10

(* Before the flag is restored the task's interrupts are enabled only if   *)
(* it has no guard that disables them.                                     *)
LEMMA NotYetEnabled ==
  ASSUME GInv, cx.pc # "decrease"
  PROVE  enabled <=> top = 1 /\ \A x \in Living : x[1] = 1 => ~GuardOf(x).irq
<1>1. enabled <=> top = 1 /\ TaskEnabled BY DEF GInv
<1>2. top = 1 => stack[1].pc # "decrease" BY DEF cx
<1>3. QED BY <1>1, <1>2 DEF TaskEnabled

(* The first step of a drop changes nothing that others see.               *)
LEMMA DropKeeps ==
  ASSUME MaxGuards \in Nat, GInv, drop
  PROVE  GInv'
<1>1. /\ cx.pc = "run" /\ cx.guards # <<>> /\ stack' = [stack EXCEPT ![top].pc = "release"]
      /\ UNCHANGED <<enabled, num_locks, word, halt>>
  BY DEF drop, Running
<1>0. "release" \in Pcs \ {"run"} /\ "release" # "decrease" BY DEF Pcs
<1>2. /\ StackTypes' /\ OneHandler' /\ Disciplined' /\ FlagsSaved' /\ halt' = "none"
      /\ num_locks' = Cardinality(Living)'
      /\ top' = top /\ top \in {1, 2}
      /\ top = 2 => TaskEnabled /\ TaskEnabled'
      /\ top = 1 => (TaskEnabled' <=> \A x \in Living : x[1] = 1 => ~GuardOf(x).irq)
  <2>1. UNCHANGED <<num_locks, halt>> BY <1>1
  <2>2. QED BY <1>0, <1>1, <2>1, PcKeeps
<1>3. PICK old : old = <<top, Len(cx.guards)>> OBVIOUS
<1>4. \A l, ms : Holders(l, ms)' = Holders(l, ms)
  BY <1>0, <1>1, <1>3, PcHolders DEF GInv
<1>9. \A x \in Living : IsLast(x) => IsLast(x)'
  <2>1. \A x \in Living : GuardOf(x)' = GuardOf(x) /\ (IsLast(x)' <=> IsLast(x))
    BY <1>0, <1>1, PcFacts DEF GInv
  <2>2. QED BY <2>1
<1>10. \A c \in 1 .. top : stack[c].pc = "release" => stack'[c].pc = "release"
  BY SMTT(60), <1>0, <1>1, PcFacts DEF GInv
<1>5. WordsAgree'
  <2> SUFFICES ASSUME NEW l \in Locks
               PROVE  /\ word[l].w <=> Holders(l, {"spin", "write"})' # {}
                      /\ word[l].up <=> Holders(l, {"up"})' # {}
                      /\ word[l].readers = Cardinality(Holders(l, {"read"})')
                      /\ \A x, y \in Holders(l, {"spin", "write"})' : x = y
                      /\ \A x, y \in Holders(l, {"up"})' : x = y
                      /\ \A x \in Holders(l, {"spin", "write"})', y \in Holders(l, {"up"})' :
                           stack'[y[1]].pc = "release" /\ IsLast(y)'
    BY <1>1 DEF WordsAgree
  <2>1. /\ word[l].w <=> Holders(l, {"spin", "write"}) # {}
        /\ word[l].up <=> Holders(l, {"up"}) # {}
        /\ word[l].readers = Cardinality(Holders(l, {"read"}))
        /\ \A x, y \in Holders(l, {"spin", "write"}) : x = y
        /\ \A x, y \in Holders(l, {"up"}) : x = y
        /\ \A x \in Holders(l, {"spin", "write"}), y \in Holders(l, {"up"}) :
             stack[y[1]].pc = "release" /\ IsLast(y)
    BY DEF WordsAgree, GInv
  <2>2. ASSUME NEW x \in Holders(l, {"spin", "write"}), NEW y \in Holders(l, {"up"})
        PROVE  stack'[y[1]].pc = "release" /\ IsLast(y)'
    <3>1. y \in Living /\ y[1] \in 1 .. top BY HolderFacts, LivingFacts DEF GInv
    <3>2. stack[y[1]].pc = "release" /\ IsLast(y) BY <2>1
    <3>3. IsLast(y)' BY <1>9, <3>1, <3>2
    <3>4. QED BY <1>10, <3>1, <3>2, <3>3
  <2>3. QED BY <1>4, <2>1, <2>2
<1>6. GTypes' BY <1>1, <1>2 DEF GTypes, StackTypes, Bounded, GInv
<1>7. enabled' <=> top' = 1 /\ TaskEnabled' BY <1>1, <1>2, NotYetEnabled
<1>8. QED BY <1>2, <1>5, <1>6, <1>7 DEF GInv

(* The lock is released for exactly the guard that goes: the others of its *)
(* lock, if any, are readers, or the writer it was upgraded to.            *)
LEMMA ReleaseKeeps ==
  ASSUME MaxGuards \in Nat, GInv, release_lock
  PROVE  GInv'
<1>1. /\ cx.pc = "release" /\ stack' = [stack EXCEPT ![top].pc = "enable"]
      /\ word' = Released(last) /\ UNCHANGED <<enabled, num_locks, halt>>
  BY DEF release_lock
<1>2. cx.guards # <<>> BY <1>1, DropsSome DEF GInv
<1>3. /\ "enable" \in Pcs \ {"run"} /\ "enable" # "decrease" /\ "enable" # "release"
      /\ UNCHANGED <<num_locks, halt>> /\ cx.pc # "decrease"
  BY <1>1 DEF Pcs
<1>4. /\ StackTypes' /\ OneHandler' /\ Disciplined' /\ FlagsSaved' /\ halt' = "none"
      /\ num_locks' = Cardinality(Living)'
      /\ top' = top /\ top \in {1, 2}
      /\ top = 2 => TaskEnabled /\ TaskEnabled'
      /\ top = 1 => (TaskEnabled' <=> \A x \in Living : x[1] = 1 => ~GuardOf(x).irq)
  BY <1>1, <1>2, <1>3, PcKeeps
<1>5. PICK old : old = <<top, Len(cx.guards)>> OBVIOUS
<1>6. GTypes /\ WordsAgree /\ Disciplined BY DEF GInv
<1>7. /\ \A l, ms : Holders(l, ms)' = Holders(l, ms) \ {old}
      /\ old \in Living /\ GuardOf(old) = last /\ old[1] = top
      /\ \A x \in Living : x[1] = top => (IsLast(x) <=> x = old)
  <2>1. cx.pc # "decrease" /\ ("enable" # "release" \/ cx.pc # "enable")
        /\ "enable" \in Pcs \ {"run"} /\ stack' = [stack EXCEPT ![top].pc = "enable"]
    BY <1>1, <1>3
  <2>2. \A l, ms : Holders(l, ms)' = Holders(l, ms) \ {old}
    <3>1. "enable" # "release" OBVIOUS
    <3>2. QED BY ONLY ZenonT(60), MaxGuards \in Nat, <1>2, <1>5, <1>6, <2>1, <3>1, PcHolders
  <2>3. /\ old \in Living /\ GuardOf(old) = last /\ old[1] = top
        /\ \A x \in Living : x[1] = top => (IsLast(x) <=> x = old)
    BY ONLY ZenonT(30), MaxGuards \in Nat, <1>2, <1>5, <1>6, LastOfTop
  <2>4. QED BY <2>2, <2>3
<1>8. Holding(old) BY <1>1, <1>7 DEF Holding, cx
<1>9. \A l, ms : old \in Holders(l, ms) <=> last.lock = l /\ last.mode \in ms
  BY <1>7, <1>8 DEF Holders
<1>10. /\ last \in AnyGuard
       /\ last.mode # "none" => last.lock \in Locks
  BY <1>6, <1>7, LivingFacts DEF Disciplined, Fits
<1>11. ASSUME NEW x \in Living, x # old, stack[x[1]].pc = "release" /\ IsLast(x)
       PROVE  stack'[x[1]].pc = "release" /\ IsLast(x)'
  <2>1. x[1] # top BY <1>7, <1>11
  <2>2. x[1] \in 1 .. top BY <1>6, LivingFacts
  <2>3. /\ \A c \in 1 .. top : stack'[c].pc = IF c = top THEN "enable" ELSE stack[c].pc
        /\ \A y \in Living : GuardOf(y)' = GuardOf(y) /\ (IsLast(y)' <=> IsLast(y))
    BY <1>1, <1>2, <1>3, <1>6, PcFacts
  <2>4. stack'[x[1]].pc = stack[x[1]].pc BY <2>1, <2>2, <2>3
  <2>5. QED BY <1>11, <2>3, <2>4
<1>12. word' \in [Locks -> [w : BOOLEAN, up : BOOLEAN, readers : Int]]
  <2>1. CASE last.mode = "none" BY <1>1, <1>6, <2>1 DEF Released, GTypes
  <2>2. CASE last.mode \in {"spin", "write"}
    <3>1. word' = [word EXCEPT ![last.lock].w = FALSE] BY <1>1, <2>2 DEF Released
    <3>2. QED BY <1>6, <1>10, <2>2, <3>1 DEF GTypes
  <2>3. CASE last.mode = "up"
    <3>1. word' = [word EXCEPT ![last.lock].up = FALSE] BY <1>1, <2>3 DEF Released
    <3>2. QED BY <1>6, <1>10, <2>3, <3>1 DEF GTypes
  <2>4. CASE last.mode = "read"
    <3>1. word' = [word EXCEPT ![last.lock].readers = @ - 1] BY <1>1, <2>4 DEF Released
    <3>2. last.lock \in Locks BY <1>10, <2>4
    <3>3. \A i, k : i \in Locks /\ k \in [Locks -> [w : BOOLEAN, up : BOOLEAN, readers : Int]]
                      => [k EXCEPT ![i].readers = @ - 1]
                         \in [Locks -> [w : BOOLEAN, up : BOOLEAN, readers : Int]]
      BY SMTT(60)
    <3>4. QED BY <1>6, <3>1, <3>2, <3>3 DEF GTypes
  <2>5. QED BY <1>10, <2>1, <2>2, <2>3, <2>4 DEF AnyGuard
<1>13. GTypes' BY <1>1, <1>4, <1>6, <1>12 DEF GTypes, StackTypes, Bounded
<1>14. WordsAgree'
  <2> DEFINE E(l) == Holders(l, {"spin", "write"})
             U(l) == Holders(l, {"up"})
             R(l) == Holders(l, {"read"})
  <2> SUFFICES ASSUME NEW l \in Locks
               PROVE  /\ word'[l].w <=> E(l) \ {old} # {}
                      /\ word'[l].up <=> U(l) \ {old} # {}
                      /\ word'[l].readers = Cardinality(R(l) \ {old})
                      /\ \A x, y \in E(l) \ {old} : x = y
                      /\ \A x, y \in U(l) \ {old} : x = y
                      /\ \A x \in E(l) \ {old}, y \in U(l) \ {old} :
                           stack'[y[1]].pc = "release" /\ IsLast(y)'
    BY <1>7 DEF WordsAgree
  <2>1. /\ word[l].w <=> E(l) # {}
        /\ word[l].up <=> U(l) # {}
        /\ word[l].readers = Cardinality(R(l))
        /\ \A x, y \in E(l) : x = y
        /\ \A x, y \in U(l) : x = y
        /\ \A x \in E(l), y \in U(l) : stack[y[1]].pc = "release" /\ IsLast(y)
    BY <1>6 DEF WordsAgree
  <2>2. /\ old \in E(l) <=> last.lock = l /\ last.mode \in {"spin", "write"}
        /\ old \in U(l) <=> last.lock = l /\ last.mode = "up"
        /\ old \in R(l) <=> last.lock = l /\ last.mode = "read"
    BY SMTT(60), <1>9
  <2>3. U(l) \subseteq Living /\ IsFiniteSet(R(l)) BY <1>6, HolderFacts
  <2> HIDE DEF E, U, R
  <2>4. \A x \in E(l) \ {old}, y \in U(l) \ {old} : stack'[y[1]].pc = "release" /\ IsLast(y)'
    <3> TAKE x \in E(l) \ {old}, y \in U(l) \ {old}
    <3>1. y \in Living /\ y # old /\ stack[y[1]].pc = "release" /\ IsLast(y) BY <2>1, <2>3
    <3>2. QED BY <1>11, <3>1
  <2>5. CASE last.lock # l \/ last.mode = "none"
    <3>1. E(l) \ {old} = E(l) /\ U(l) \ {old} = U(l) /\ R(l) \ {old} = R(l) BY <2>2, <2>5
    <3>2. word'[l] = word[l] BY <1>1, <1>6, <1>10, <2>5 DEF Released, GTypes, AnyGuard
    <3>3. QED BY <2>1, <2>4, <3>1, <3>2
  <2>6. CASE last.lock = l /\ last.mode \in {"spin", "write"}
    <3>1. E(l) \ {old} = {} /\ U(l) \ {old} = U(l) /\ R(l) \ {old} = R(l) BY <2>1, <2>2, <2>6
    <3>2. word' = [word EXCEPT ![l].w = FALSE] BY <1>1, <2>6 DEF Released
    <3>3. ~word'[l].w /\ word'[l].up = word[l].up /\ word'[l].readers = word[l].readers
      BY <1>6, <3>2 DEF GTypes
    <3>4. QED BY <2>1, <2>4, <3>1, <3>3
  <2>7. CASE last.lock = l /\ last.mode = "up"
    <3>1. E(l) \ {old} = E(l) /\ U(l) \ {old} = {} /\ R(l) \ {old} = R(l) BY SMTT(60), <2>1, <2>2, <2>7
    <3>2. word' = [word EXCEPT ![l].up = FALSE] BY <1>1, <2>7 DEF Released
    <3>3. ~word'[l].up /\ word'[l].w = word[l].w /\ word'[l].readers = word[l].readers
      BY <1>6, <3>2 DEF GTypes
    <3>4. QED BY <2>1, <2>4, <3>1, <3>3
  <2>8. CASE last.lock = l /\ last.mode = "read"
    <3>1. E(l) \ {old} = E(l) /\ U(l) \ {old} = U(l) /\ old \in R(l) BY <2>2, <2>8
    <3>2. word' = [word EXCEPT ![l].readers = @ - 1] BY <1>1, <2>8 DEF Released
    <3>3. word'[l].readers = word[l].readers - 1 /\ word'[l].w = word[l].w /\ word'[l].up = word[l].up
      BY <1>6, <3>2 DEF GTypes
    <3>4. Cardinality(R(l) \ {old}) = Cardinality(R(l)) - 1 BY <2>3, <3>1, FS_RemoveElement
    <3>5. QED BY <2>1, <2>4, <3>1, <3>3, <3>4
  <2>9. QED BY <1>10, <2>5, <2>6, <2>7, <2>8 DEF AnyGuard
<1>15. enabled' <=> top' = 1 /\ TaskEnabled' BY <1>1, <1>4, NotYetEnabled
<1>16. QED BY <1>4, <1>13, <1>14, <1>15 DEF GInv

(* Interrupts are enabled again by the guard that disabled them, when it   *)
(* is the only one left of those that disable them.                        *)
LEMMA DropIrqKeeps ==
  ASSUME MaxGuards \in Nat, GInv, drop_irq_guard
  PROVE  GInv'
<1>1. /\ cx.pc = "enable" /\ stack' = [stack EXCEPT ![top].pc = "decrease"]
      /\ enabled' = (enabled \/ last.was_enabled) /\ UNCHANGED <<num_locks, word, halt>>
  BY DEF drop_irq_guard
<1>2. cx.guards # <<>> BY <1>1, DropsSome DEF GInv
<1>3. /\ "decrease" \in Pcs \ {"run"} /\ "decrease" # "release"
      /\ UNCHANGED <<num_locks, halt>> /\ cx.pc # "decrease"
  BY <1>1 DEF Pcs
<1>4. /\ StackTypes' /\ OneHandler' /\ Disciplined' /\ FlagsSaved' /\ halt' = "none"
      /\ num_locks' = Cardinality(Living)'
      /\ top' = top /\ top \in {1, 2}
      /\ top = 2 => TaskEnabled /\ TaskEnabled'
      /\ top = 1 => (TaskEnabled' <=> \A x \in Living : x[1] = 1 /\ GuardOf(x).irq => IsLast(x))
  BY <1>1, <1>2, <1>3, PcKeeps
<1>5. PICK old : old = <<top, Len(cx.guards)>> OBVIOUS
<1>6. GTypes /\ WordsAgree /\ FlagsSaved BY DEF GInv
<1>7. /\ \A l, ms : Holders(l, ms)' = Holders(l, ms) \ {old}
      /\ old \in Living /\ GuardOf(old) = last /\ old[1] = top /\ IsLast(old)
      /\ \A x \in Living : x[1] = top => (IsLast(x) <=> x = old) /\ x[2] <= old[2]
  <2>1. cx.pc # "decrease" /\ ("decrease" # "release" \/ cx.pc # "enable")
        /\ "decrease" \in Pcs \ {"run"} /\ stack' = [stack EXCEPT ![top].pc = "decrease"]
    BY <1>1, <1>3
  <2>2. \A l, ms : Holders(l, ms)' = Holders(l, ms) \ {old}
    <3>1. "decrease" # "release" OBVIOUS
    <3>2. QED BY ONLY ZenonT(60), MaxGuards \in Nat, <1>2, <1>5, <1>6, <2>1, <3>1, PcHolders
  <2>3. /\ old \in Living /\ GuardOf(old) = last /\ old[1] = top /\ IsLast(old)
    BY ONLY ZenonT(30), MaxGuards \in Nat, <1>2, <1>5, <1>6, LastOfTop
  <2>4. /\ \A x \in Living : x[1] = top => (IsLast(x) <=> x = old) /\ x[2] <= old[2]
    BY ONLY ZenonT(30), MaxGuards \in Nat, <1>2, <1>5, <1>6, LastOfTop
  <2>5. QED BY <2>2, <2>3, <2>4
<1>8. ~Holding(old) BY <1>1, <1>7 DEF Holding, cx
<1>9. \A l, ms : Holders(l, ms)' = Holders(l, ms)
  <2> TAKE l, ms
  <2> DEFINE H == Holders(l, ms)
  <2>1. old \notin H BY <1>8 DEF Holders
  <2>2. Holders(l, ms)' = H \ {old} BY <1>7
  <2> HIDE DEF H
  <2>3. H \ {old} = H BY <2>1
  <2>4. QED BY <2>2, <2>3 DEF H
<1>10. ASSUME NEW x \in Living, stack[x[1]].pc = "release" /\ IsLast(x)
       PROVE  stack'[x[1]].pc = "release" /\ IsLast(x)'
  <2>1. x[1] # top BY <1>1, <1>10 DEF cx
  <2>2. x[1] \in 1 .. top BY <1>6, LivingFacts
  <2>3. /\ \A c \in 1 .. top : stack'[c].pc = IF c = top THEN "decrease" ELSE stack[c].pc
        /\ \A y \in Living : GuardOf(y)' = GuardOf(y) /\ (IsLast(y)' <=> IsLast(y))
    BY <1>1, <1>2, <1>3, <1>6, PcFacts
  <2>4. stack'[x[1]].pc = stack[x[1]].pc BY <2>1, <2>2, <2>3
  <2>5. QED BY <1>10, <2>3, <2>4
<1>11. WordsAgree'
  <2> SUFFICES ASSUME NEW l \in Locks
               PROVE  /\ word[l].w <=> Holders(l, {"spin", "write"})' # {}
                      /\ word[l].up <=> Holders(l, {"up"})' # {}
                      /\ word[l].readers = Cardinality(Holders(l, {"read"})')
                      /\ \A x, y \in Holders(l, {"spin", "write"})' : x = y
                      /\ \A x, y \in Holders(l, {"up"})' : x = y
                      /\ \A x \in Holders(l, {"spin", "write"})', y \in Holders(l, {"up"})' :
                           stack'[y[1]].pc = "release" /\ IsLast(y)'
    BY <1>1 DEF WordsAgree
  <2>1. /\ word[l].w <=> Holders(l, {"spin", "write"}) # {}
        /\ word[l].up <=> Holders(l, {"up"}) # {}
        /\ word[l].readers = Cardinality(Holders(l, {"read"}))
        /\ \A x, y \in Holders(l, {"spin", "write"}) : x = y
        /\ \A x, y \in Holders(l, {"up"}) : x = y
        /\ \A x \in Holders(l, {"spin", "write"}), y \in Holders(l, {"up"}) :
             stack[y[1]].pc = "release" /\ IsLast(y)
    BY <1>6 DEF WordsAgree
  <2>2. ASSUME NEW x \in Holders(l, {"spin", "write"}), NEW y \in Holders(l, {"up"})
        PROVE  stack'[y[1]].pc = "release" /\ IsLast(y)'
    <3>1. y \in Living BY <1>6, HolderFacts
    <3>2. stack[y[1]].pc = "release" /\ IsLast(y) BY <2>1
    <3>3. QED BY <1>10, <3>1, <3>2
  <2>3. QED BY <1>9, <2>1, <2>2
<1>12. last \in AnyGuard BY <1>6, <1>7, LivingFacts
<1>13. GTypes' BY <1>1, <1>4, <1>6, <1>12 DEF GTypes, StackTypes, Bounded, AnyGuard
<1>14. enabled <=> top = 1 /\ \A x \in Living : x[1] = 1 => ~GuardOf(x).irq
  BY <1>3, NotYetEnabled
<1>15. last.was_enabled <=>
         /\ top = 1 /\ last.irq
         /\ \A y \in Living : y[1] = 1 /\ y[2] < old[2] => ~GuardOf(y).irq
  BY <1>6, <1>7 DEF FlagsSaved
<1>16. CASE top = 2 BY <1>1, <1>4, <1>13, <1>11, <1>14, <1>15, <1>16 DEF GInv
<1>17. CASE top = 1
  <2>1. \A y \in Living : y[1] = 1 => (y[2] < old[2] <=> y # old)
    <3> TAKE y \in Living
    <3> HAVE y[1] = 1
    <3>1. /\ y = <<y[1], y[2]>> /\ y[2] \in Int /\ old = <<old[1], old[2]>> /\ old[2] \in Int
          /\ y[2] <= old[2] /\ old[1] = 1
      BY SMTT(60), <1>6, <1>7, <1>17, LivingFacts
    <3>2. y[2] = old[2] <=> y = old BY <3>1
    <3>3. QED BY SMTT(60), <3>1, <3>2
  <2>2. last.was_enabled <=>
          last.irq /\ \A y \in Living : y[1] = 1 /\ y # old => ~GuardOf(y).irq
    BY <1>15, <1>17, <2>1
  <2>3. TaskEnabled' <=> \A x \in Living : x[1] = 1 /\ GuardOf(x).irq => x = old
    BY <1>4, <1>7, <1>17
  <2>4. enabled <=> \A x \in Living : x[1] = 1 => ~GuardOf(x).irq BY <1>14, <1>17
  <2>5. enabled \/ last.was_enabled <=> \A x \in Living : x[1] = 1 /\ GuardOf(x).irq => x = old
    BY <1>7, <1>17, <2>2, <2>4
  <2>6. enabled' <=> top' = 1 /\ TaskEnabled' BY <1>1, <1>4, <1>17, <2>3, <2>5
  <2>7. QED BY <1>4, <1>11, <1>13, <1>17, <2>6 DEF GInv
<1>18. QED BY <1>4, <1>16, <1>17

(* The guard that goes last holds nothing any more.                        *)
LEMMA DecreaseKeeps ==
  ASSUME MaxGuards \in Nat, GInv, decrease_num_locks
  PROVE  GInv'
<1>0. /\ GTypes /\ OneHandler /\ WordsAgree /\ Disciplined /\ FlagsSaved /\ halt = "none"
      /\ num_locks = Cardinality(Living)
      /\ enabled <=> top = 1 /\ TaskEnabled
      /\ top = 2 => TaskEnabled
  BY DEF GInv
<1>1. /\ cx.pc = "decrease" /\ num_locks' = num_locks - 1
      /\ stack' = [stack EXCEPT ![top].guards = SubSeq(@, 1, Len(@) - 1), ![top].pc = "run"]
      /\ UNCHANGED <<enabled, word, halt>>
  BY DEF decrease_num_locks
<1>2. PICK old : old = <<top, Len(cx.guards)>> OBVIOUS
<1>3. /\ StackTypes' /\ top' = top
      /\ old \in Living /\ Living' = Living \ {old}
      /\ \A x \in Living' : GuardOf(x)' = GuardOf(x)
      /\ \A x \in Living : x[1] = top => (IsLast(x) <=> x = old) /\ x[2] <= old[2]
      /\ \A c \in 1 .. top : /\ stack'[c].handler = stack[c].handler
                             /\ stack'[c].was = stack[c].was
                             /\ stack'[c].pc = IF c = top THEN "run" ELSE stack[c].pc
      /\ \A x \in Living : x[1] # top => (IsLast(x)' <=> IsLast(x))
  BY <1>0, <1>1, <1>2, PopFacts
<1>4. /\ top \in {1, 2} /\ 1 \in 1 .. top /\ top \in 1 .. top
      /\ \A x \in Living : x[1] \in 1 .. top
  BY SMTT(60), <1>0, LivingFacts DEF OneHandler
<1>5. OneHandler' BY <1>0, <1>3, <1>4 DEF OneHandler
<1>6. GTypes'
  <2>1. num_locks' \in Int BY SMTT(60), <1>0, <1>1 DEF GTypes
  <2>2. QED BY <1>0, <1>1, <1>3, <2>1 DEF GTypes, StackTypes, Bounded
<1>7. Disciplined'
  <2>1. ASSUME NEW x \in Living'
        PROVE  /\ Fits(GuardOf(x))'
               /\ GuardOf(x)'.mode # "none" =>
                    IF stack'[x[1]].handler THEN GuardOf(x)'.lock \in IrqLocks
                    ELSE GuardOf(x)'.irq \/ GuardOf(x)'.lock \notin IrqLocks
    <3>1. x \in Living /\ GuardOf(x)' = GuardOf(x) /\ stack'[x[1]].handler = stack[x[1]].handler
      BY <1>3, <1>4
    <3>2. QED BY <1>0, <3>1 DEF Disciplined, Fits
  <2>2. QED BY <2>1 DEF Disciplined
<1>8. \A x \in Living : x[1] = top => ~(old[2] < x[2])
  <2> TAKE x \in Living
  <2> HAVE x[1] = top
  <2>1. x[2] \in Int /\ old[2] \in Int /\ x[2] <= old[2] BY SMTT(60), <1>0, <1>3, <1>4, LivingFacts
  <2>2. QED BY SMTT(60), <2>1
<1>9. FlagsSaved'
  <2>1. ASSUME NEW x \in Living'
        PROVE  GuardOf(x)'.was_enabled <=>
                 /\ x[1] = 1 /\ GuardOf(x)'.irq
                 /\ \A y \in Living' : y[1] = 1 /\ y[2] < x[2] => ~GuardOf(y)'.irq
    <3>1. x \in Living /\ GuardOf(x)' = GuardOf(x) BY <1>3
    <3>2. GuardOf(x).was_enabled <=>
            /\ x[1] = 1 /\ GuardOf(x).irq
            /\ \A y \in Living : y[1] = 1 /\ y[2] < x[2] => ~GuardOf(y).irq
      BY <1>0, <3>1 DEF FlagsSaved
    <3>3. x[1] = 1 => ~(old[1] = 1 /\ old[2] < x[2]) BY <1>2, <1>8, <3>1
    <3>4. x[1] = 1 => ((\A y \in Living : y[1] = 1 /\ y[2] < x[2] => ~GuardOf(y).irq)
                         <=> \A y \in Living' : y[1] = 1 /\ y[2] < x[2] => ~GuardOf(y)'.irq)
      BY <1>3, <3>3
    <3>5. QED BY <3>1, <3>2, <3>4
  <2>2. QED BY <2>1 DEF FlagsSaved
<1>10. num_locks' = Cardinality(Living)'
  <2>1. Cardinality(Living \ {old}) = Cardinality(Living) - 1
    BY <1>0, <1>3, LivingFacts, FS_RemoveElement
  <2>2. QED BY <1>0, <1>1, <1>3, <2>1
<1>11. ASSUME NEW l, NEW ms PROVE Holders(l, ms)' = Holders(l, ms)
  <2>1. ~Holding(old) BY <1>1, <1>2, <1>3 DEF Holding, cx
  <2>2. \A x \in Living' : Holding(x)' <=> Holding(x)
    <3> TAKE x \in Living'
    <3>1. x \in Living /\ x # old BY <1>3
    <3>2. CASE x[1] = top
      <4>1. stack'[x[1]].pc = "run" BY <1>3, <1>4, <3>1, <3>2
      <4>2. ~IsLast(x) BY <1>3, <3>1, <3>2
      <4>3. QED BY <4>1, <4>2 DEF Holding
    <3>3. CASE x[1] # top
      <4>1. stack'[x[1]].pc = stack[x[1]].pc BY <1>3, <1>4, <3>1, <3>3
      <4>2. IsLast(x)' <=> IsLast(x) BY <1>3, <3>1, <3>3
      <4>3. QED BY <4>1, <4>2 DEF Holding
    <3>4. QED BY <3>2, <3>3
  <2>3. \A x : x \in Holders(l, ms)' <=>
          x \in Living' /\ Holding(x)' /\ GuardOf(x)'.lock = l /\ GuardOf(x)'.mode \in ms
    BY DEF Holders
  <2>4. \A x : x \in Holders(l, ms) <=>
          x \in Living /\ Holding(x) /\ GuardOf(x).lock = l /\ GuardOf(x).mode \in ms
    BY DEF Holders
  <2>5. \A x \in Living' : x \in Holders(l, ms)' <=> x \in Holders(l, ms)
    <3> TAKE x \in Living'
    <3>1. x \in Living /\ GuardOf(x)' = GuardOf(x) BY <1>3
    <3>2. QED BY <3>1, <2>2, <2>3, <2>4
  <2> DEFINE H == Holders(l, ms)
             K == Holders(l, ms)'
  <2>6. /\ \A x \in Living' : x \in K <=> x \in H
        /\ K \subseteq Living' /\ H \subseteq Living'
    BY <1>3, <2>1, <2>3, <2>4, <2>5
  <2> HIDE DEF H, K
  <2>7. K = H BY ONLY ZenonT(30), <2>6
  <2>8. QED BY <2>7 DEF H, K
<1>12. WordsAgree'
  <2> SUFFICES ASSUME NEW l \in Locks
               PROVE  /\ word[l].w <=> Holders(l, {"spin", "write"})' # {}
                      /\ word[l].up <=> Holders(l, {"up"})' # {}
                      /\ word[l].readers = Cardinality(Holders(l, {"read"})')
                      /\ \A x, y \in Holders(l, {"spin", "write"})' : x = y
                      /\ \A x, y \in Holders(l, {"up"})' : x = y
                      /\ \A x \in Holders(l, {"spin", "write"})', y \in Holders(l, {"up"})' :
                           stack'[y[1]].pc = "release" /\ IsLast(y)'
    BY <1>1 DEF WordsAgree
  <2>1. /\ word[l].w <=> Holders(l, {"spin", "write"}) # {}
        /\ word[l].up <=> Holders(l, {"up"}) # {}
        /\ word[l].readers = Cardinality(Holders(l, {"read"}))
        /\ \A x, y \in Holders(l, {"spin", "write"}) : x = y
        /\ \A x, y \in Holders(l, {"up"}) : x = y
        /\ \A x \in Holders(l, {"spin", "write"}), y \in Holders(l, {"up"}) :
             stack[y[1]].pc = "release" /\ IsLast(y)
    BY <1>0 DEF WordsAgree
  <2>2. ASSUME NEW x \in Holders(l, {"spin", "write"}), NEW y \in Holders(l, {"up"})
        PROVE  stack'[y[1]].pc = "release" /\ IsLast(y)'
    <3>1. y \in Living BY <1>0, HolderFacts
    <3>2. stack[y[1]].pc = "release" /\ IsLast(y) BY <2>1
    <3>3. y[1] # top BY <1>1, <3>2 DEF cx
    <3>4. stack'[y[1]].pc = stack[y[1]].pc BY <1>3, <1>4, <3>1, <3>3
    <3>5. QED BY <1>3, <3>1, <3>2, <3>3, <3>4
  <2>3. QED BY <1>11, <2>1, <2>2
<1>13. (top = 1 => (TaskEnabled' <=> TaskEnabled)) /\ (top = 2 => TaskEnabled')
  <2>1. ASSUME top = 2 PROVE TaskEnabled'
    <3>1. stack'[1].pc = stack[1].pc BY SMTT(60), <1>3, <1>4, <2>1
    <3>2. \A x \in Living' : x[1] = 1 => x \in Living /\ GuardOf(x)' = GuardOf(x) /\ (IsLast(x)' <=> IsLast(x))
      BY SMTT(60), <1>3, <2>1
    <3>3. TaskEnabled BY <1>0, <2>1
    <3>4. QED BY <3>1, <3>2, <3>3 DEF TaskEnabled
  <2>2. ASSUME top = 1 PROVE TaskEnabled' <=> TaskEnabled
    <3>1. stack'[1].pc = "run" /\ stack[1].pc = "decrease" BY <1>1, <1>3, <1>4, <2>2 DEF cx
    <3>2. TaskEnabled' <=> \A x \in Living' : x[1] = 1 => ~GuardOf(x)'.irq
      BY <3>1 DEF TaskEnabled
    <3>3. TaskEnabled <=> \A x \in Living : x[1] = 1 /\ GuardOf(x).irq => IsLast(x)
      BY <3>1 DEF TaskEnabled
    <3>4. QED BY SMTT(60), <1>3, <2>2, <3>2, <3>3
  <2>3. QED BY <2>1, <2>2
<1>14. QED BY <1>0, <1>1, <1>3, <1>5, <1>6, <1>7, <1>9, <1>10, <1>12, <1>13, <1>4 DEF GInv

-----------------------------------------------------------------------------
(* A context without guards comes or goes on top of the task, and nothing  *)
(* that is said of the guards changes.                                     *)
LEMMA ContextKeeps ==
  ASSUME MaxGuards \in Nat, GInv, UNCHANGED <<num_locks, word, halt>>,
         enabled' \in BOOLEAN, StackTypes', OneHandler',
         top = 2 => stack[2].guards = <<>>, top' = 2 => stack'[2].guards = <<>>,
         stack'[1] = stack[1], TaskEnabled, enabled' <=> top' = 1
  PROVE  GInv'
<1>1. /\ GTypes /\ OneHandler /\ WordsAgree /\ Disciplined /\ FlagsSaved /\ halt = "none"
      /\ num_locks = Cardinality(Living)
  BY DEF GInv
<1>2. top \in {1, 2} /\ top' \in {1, 2} BY <1>1 DEF OneHandler
<1>3. GTypes' BY <1>1 DEF GTypes, StackTypes, Bounded
<1>4. \A x : x \in Living <=> /\ x \in {1} \X (1 .. MaxGuards + 1)
                              /\ x[2] <= Len(stack[1].guards)
  <2>1. Len(<<>>) = 0 OBVIOUS
  <2>2. CASE top = 1
    <3>1. 1 .. top = {1} BY SMTT(60), <2>2
    <3>2. QED BY <3>1 DEF Living
  <2>3. CASE top = 2
    <3>1. 1 .. top = {1, 2} BY SMTT(60), <2>3
    <3>2. \A x \in {1, 2} \X (1 .. MaxGuards + 1) :
            /\ x[1] \in {1, 2} /\ x[2] \in 1 .. MaxGuards + 1
            /\ x[1] = 1 <=> x \in {1} \X (1 .. MaxGuards + 1)
      OBVIOUS
    <3>3. \A x \in {1, 2} \X (1 .. MaxGuards + 1) :
            x[1] = 2 => ~(x[2] <= Len(stack[x[1]].guards))
      BY SMTT(60), <2>1, <2>3, <3>2
    <3>4. \A x : x \in Living <=> x \in {1, 2} \X (1 .. MaxGuards + 1)
                                  /\ x[2] <= Len(stack[x[1]].guards)
      BY <3>1 DEF Living
    <3>5. {1} \X (1 .. MaxGuards + 1) \subseteq {1, 2} \X (1 .. MaxGuards + 1) OBVIOUS
    <3>6. QED BY <3>2, <3>3, <3>4, <3>5
  <2>4. QED BY <1>2, <2>2, <2>3
<1>5. \A x : x \in Living' <=> /\ x \in {1} \X (1 .. MaxGuards + 1)
                               /\ x[2] <= Len(stack'[1].guards)
  <2>1. Len(<<>>) = 0 OBVIOUS
  <2>2. CASE top' = 1
    <3>1. 1 .. top' = {1} BY SMTT(60), <2>2
    <3>2. QED BY <3>1 DEF Living
  <2>3. CASE top' = 2
    <3>1. 1 .. top' = {1, 2} BY SMTT(60), <2>3
    <3>2. \A x \in {1, 2} \X (1 .. MaxGuards + 1) :
            /\ x[1] \in {1, 2} /\ x[2] \in 1 .. MaxGuards + 1
            /\ x[1] = 1 <=> x \in {1} \X (1 .. MaxGuards + 1)
      OBVIOUS
    <3>3. \A x \in {1, 2} \X (1 .. MaxGuards + 1) :
            x[1] = 2 => ~(x[2] <= Len(stack'[x[1]].guards))
      BY SMTT(60), <2>1, <2>3, <3>2
    <3>4. \A x : x \in Living' <=> x \in {1, 2} \X (1 .. MaxGuards + 1)
                                   /\ x[2] <= Len(stack'[x[1]].guards)
      BY <3>1 DEF Living
    <3>5. {1} \X (1 .. MaxGuards + 1) \subseteq {1, 2} \X (1 .. MaxGuards + 1) OBVIOUS
    <3>6. QED BY <3>2, <3>3, <3>4, <3>5
  <2>4. QED BY <1>2, <2>2, <2>3
<1>6. \A x \in Living : x[1] = 1 BY SMTT(60), <1>4
<1>7. Living' = Living BY <1>4, <1>5
<1>8. \A x \in Living : /\ GuardOf(x)' = GuardOf(x) /\ (IsLast(x)' <=> IsLast(x))
                        /\ (Holding(x)' <=> Holding(x)) /\ stack'[x[1]] = stack[x[1]]
  BY <1>6 DEF GuardOf, IsLast, Holding
<1>9. ASSUME NEW l, NEW ms PROVE Holders(l, ms)' = Holders(l, ms)
  BY <1>7, <1>8 DEF Holders
<1>10. Disciplined' BY <1>1, <1>7, <1>8 DEF Disciplined, Fits
<1>11. FlagsSaved' BY SMTT(60), <1>1, <1>7, <1>8 DEF FlagsSaved
<1>12. TaskEnabled' BY <1>7, <1>8 DEF TaskEnabled
<1>13. WordsAgree'
  <2> SUFFICES ASSUME NEW l \in Locks
               PROVE  /\ word[l].w <=> Holders(l, {"spin", "write"})' # {}
                      /\ word[l].up <=> Holders(l, {"up"})' # {}
                      /\ word[l].readers = Cardinality(Holders(l, {"read"})')
                      /\ \A x, y \in Holders(l, {"spin", "write"})' : x = y
                      /\ \A x, y \in Holders(l, {"up"})' : x = y
                      /\ \A x \in Holders(l, {"spin", "write"})', y \in Holders(l, {"up"})' :
                           stack'[y[1]].pc = "release" /\ IsLast(y)'
    BY DEF WordsAgree
  <2>1. /\ word[l].w <=> Holders(l, {"spin", "write"}) # {}
        /\ word[l].up <=> Holders(l, {"up"}) # {}
        /\ word[l].readers = Cardinality(Holders(l, {"read"}))
        /\ \A x, y \in Holders(l, {"spin", "write"}) : x = y
        /\ \A x, y \in Holders(l, {"up"}) : x = y
        /\ \A x \in Holders(l, {"spin", "write"}), y \in Holders(l, {"up"}) :
             stack[y[1]].pc = "release" /\ IsLast(y)
    BY <1>1 DEF WordsAgree
  <2>2. ASSUME NEW x \in Holders(l, {"spin", "write"}), NEW y \in Holders(l, {"up"})
        PROVE  stack'[y[1]].pc = "release" /\ IsLast(y)'
    <3>1. y \in Living BY <1>1, HolderFacts
    <3>2. stack[y[1]].pc = "release" /\ IsLast(y) BY <2>1
    <3>3. QED BY <1>8, <3>1, <3>2
  <2>3. QED BY <1>9, <2>1, <2>2
<1>14. num_locks' = Cardinality(Living)' /\ halt' = "none" BY <1>1, <1>7
<1>15. QED BY <1>3, <1>10, <1>11, <1>12, <1>13, <1>14 DEF GInv

(* An interrupt finds the task where interrupts are enabled.               *)
LEMMA InterruptKeeps ==
  ASSUME MaxGuards \in Nat, GInv, interrupt
  PROVE  GInv'
<1>0. PICK k : k = Context(TRUE, enabled) OBVIOUS
<1>1. /\ enabled /\ enabled' = FALSE /\ stack' = Append(stack, k)
      /\ UNCHANGED <<num_locks, word, halt>>
  BY <1>0 DEF interrupt
<1>2. GTypes /\ OneHandler /\ top = 1 /\ TaskEnabled BY <1>1 DEF GInv
<1>3. <<>> \in Seq(AnyGuard) /\ Len(<<>>) = 0 BY SMTT(60)
<1>4. /\ k \in AnyContext /\ k.guards = <<>> /\ k.handler /\ k.was = enabled /\ k.pc = "run"
  BY <1>0, <1>1, <1>2, <1>3 DEF Context, AnyContext, Pcs, GTypes
<1>5. Bounded(k)
  <2>1. Len(k.guards) = 0 BY <1>3, <1>4
  <2>2. QED BY SMTT(60), <1>4, <2>1 DEF Bounded
<1>6. /\ stack' \in Seq(AnyContext) /\ Len(stack') = 2
      /\ stack'[1] = stack[1] /\ stack'[2] = k
  <2>1. stack \in Seq(AnyContext) /\ Len(stack) = 1 BY <1>2 DEF GTypes, top
  <2>2. /\ Append(stack, k) \in Seq(AnyContext) /\ Len(Append(stack, k)) = Len(stack) + 1
        /\ \A i \in 1 .. Len(stack) : Append(stack, k)[i] = stack[i]
        /\ Append(stack, k)[Len(stack) + 1] = k
    <3>1. k \in AnyContext /\ stack \in Seq(AnyContext) BY <1>4, <2>1
    <3>2. QED BY ONLY SMTT(60), <3>1
  <2>3. 1 \in 1 .. Len(stack) /\ Len(stack) + 1 = 2 BY SMTT(60), <2>1
  <2>4. QED BY <1>1, <2>2, <2>3
<1>7. top' = 2 BY <1>6 DEF top
<1>8. Bounded(stack[1]) BY SMTT(60), <1>2 DEF GTypes, Bounded
<1>9. StackTypes'
  <2>1. \A c \in 1 .. 2 : c = 1 \/ c = 2 BY SMTT(60)
  <2>2. \A c \in 1 .. 2 : Bounded(stack'[c]) BY <1>5, <1>6, <1>8, <2>1
  <2>3. QED BY SMTT(60), <1>6, <1>7, <2>2 DEF StackTypes
<1>10. OneHandler' BY <1>1, <1>2, <1>4, <1>6, <1>7 DEF OneHandler
<1>11. /\ enabled' \in BOOLEAN /\ (enabled' <=> top' = 1) /\ stack'[1] = stack[1]
       /\ (top = 2 => stack[2].guards = <<>>) /\ (top' = 2 => stack'[2].guards = <<>>)
  <2>1. 1 # 2 BY SMTT(60)
  <2>2. stack'[2].guards = <<>> BY <1>4, <1>6
  <2>3. enabled' = FALSE /\ top = 1 /\ top' = 2 /\ stack'[1] = stack[1] BY <1>1, <1>2, <1>6, <1>7
  <2>4. QED BY ONLY ZenonT(30), <2>1, <2>2, <2>3, Zenon
<1>12. QED BY <1>1, <1>2, <1>9, <1>10, <1>11, ContextKeeps

(* The handler returns to it.                                              *)
LEMMA IretKeeps ==
  ASSUME MaxGuards \in Nat, GInv, iret
  PROVE  GInv'
<1>1. /\ cx.handler /\ cx.guards = <<>> /\ enabled' = cx.was
      /\ stack' = SubSeq(stack, 1, top - 1) /\ UNCHANGED <<num_locks, word, halt>>
  BY DEF iret
<1>2. GTypes /\ OneHandler /\ top = 2 /\ TaskEnabled
  BY <1>1 DEF GInv, OneHandler, cx
<1>3. stack[2].was /\ ~stack[1].handler /\ stack[2].guards = <<>> BY <1>1, <1>2 DEF OneHandler, cx
<1>4. enabled' = TRUE
  <2>1. 2 \in 1 .. top BY SMTT(60), <1>2
  <2>2. stack[2] \in AnyContext BY <1>2, <2>1, LivingFacts
  <2>3. stack[2].was \in BOOLEAN BY <2>2 DEF AnyContext
  <2>4. enabled' = stack[2].was BY <1>1, <1>2 DEF cx
  <2>5. QED BY <1>3, <2>3, <2>4
<1>5. stack' \in Seq(AnyContext) /\ Len(stack') = 1 /\ stack'[1] = stack[1]
  <2>1. stack \in Seq(AnyContext) /\ Len(stack) = 2 BY <1>2 DEF GTypes, top
  <2>2. stack' = SubSeq(stack, 1, 1) BY SMTT(60), <1>1, <1>2
  <2>3. QED BY SMTT(60), <2>1, <2>2
<1>6. top' = 1 BY <1>5 DEF top
<1>7. Bounded(stack[1]) BY SMTT(60), <1>2 DEF GTypes, Bounded
<1>8. StackTypes'
  <2>1. \A c \in 1 .. 1 : Bounded(stack'[c]) BY SMTT(60), <1>5, <1>7
  <2>2. QED BY SMTT(60), <1>5, <1>6, <2>1 DEF StackTypes
<1>9. OneHandler' BY SMTT(60), <1>3, <1>5, <1>6 DEF OneHandler
<1>10. QED BY <1>1, <1>2, <1>3, <1>4, <1>5, <1>6, <1>8, <1>9, ContextKeeps

(* A task without guards has left no trace in the count.                   *)
LEMMA SwitchKeeps ==
  ASSUME MaxGuards \in Nat, GInv, switch_to_task
  PROVE  UNCHANGED gvars
<1>1. /\ halt = "none" /\ ~cx.handler /\ cx.guards = <<>>
      /\ halt' = (IF num_locks = 0 THEN "none" ELSE "panic")
      /\ UNCHANGED <<enabled, num_locks, word, stack>>
  BY DEF switch_to_task, Running
<1>2. top = 1 BY <1>1 DEF GInv, OneHandler, cx
<1>3. Len(stack[1].guards) = 0 BY SMTT(60), <1>1, <1>2 DEF cx
<1>4. \A x \in Living : x[1] \in 1 .. top /\ x[2] \in 1 .. Len(stack[x[1]].guards)
  BY LivingFacts DEF GInv
<1>5. Living = {} BY SMTT(60), <1>2, <1>3, <1>4
<1>6. num_locks = 0 BY <1>5, FS_EmptySet DEF GInv
<1>7. QED BY <1>1, <1>6 DEF gvars

-----------------------------------------------------------------------------
(* An upgrade waits for no reader: the ones of its own context it may not  *)
(* have, and those of the interrupted task read no lock of handlers.       *)
LEMMA NoReaders ==
  ASSUME MaxGuards \in Nat, GInv, cx.guards # <<>>, last.mode = "up",
         \A i \in 1 .. Len(cx.guards) - 1 : cx.guards[i].lock # last.lock
  PROVE  last.lock \in RwLocks /\ word[last.lock].readers = 0
<1>1. GTypes /\ Disciplined /\ WordsAgree /\ OneHandler BY DEF GInv
<1>2. PICK old : old = <<top, Len(cx.guards)>> OBVIOUS
<1>3. top \in 1 .. top /\ Len(cx.guards) \in 1 .. MaxGuards + 1
  <2>1. top \in 1 .. top /\ cx \in AnyContext /\ Len(cx.guards) \in 0 .. MaxGuards + 1
    BY SMTT(60), <1>1, LivingFacts DEF cx
  <2>2. cx.guards \in Seq(AnyGuard) BY <2>1 DEF AnyContext
  <2>3. Len(cx.guards) # 0 BY SMTT(60), <2>2
  <2>4. QED BY SMTT(60), <2>1, <2>3
<1>4. old \in Living /\ old[1] = top /\ GuardOf(old) = last
  <2>1. <<top, Len(cx.guards)>> \in Living BY SMTT(60), <1>1, <1>3, LivingFacts DEF cx
  <2>2. QED BY <1>2, <2>1 DEF GuardOf, last, cx
<1>5. last.lock \in RwLocks BY <1>1, <1>4 DEF Disciplined, Fits, Modes, Locks
<1>6. top = 2 => last.lock \in IrqLocks BY <1>1, <1>4 DEF Disciplined, OneHandler
<1>7. ASSUME NEW x \in Holders(last.lock, {"read"}) PROVE FALSE
  <2>1. x \in Living /\ Holding(x) /\ GuardOf(x).lock = last.lock /\ GuardOf(x).mode = "read"
    BY DEF Holders
  <2>2. CASE x[1] = top
    <3>1. x[2] \in 1 .. Len(cx.guards) /\ GuardOf(x) = cx.guards[x[2]]
      BY <1>1, <2>1, <2>2, LivingFacts DEF GuardOf, cx
    <3>2. x[2] # Len(cx.guards) BY <2>1, <3>1 DEF last
    <3>3. x[2] \in 1 .. Len(cx.guards) - 1 BY SMTT(60), <1>3, <3>1, <3>2
    <3>4. QED BY <2>1, <3>1, <3>3
  <2>3. CASE x[1] # top
    <3>1. top = 2 /\ GuardOf(x).lock \notin IrqLocks BY <2>1, <2>3, HeldBelow
    <3>2. QED BY <1>6, <2>1, <3>1
  <2>4. QED BY <2>2, <2>3
<1>8. Holders(last.lock, {"read"}) = {} BY <1>7
<1>9. word[last.lock].readers = Cardinality({}) BY <1>1, <1>5, <1>8 DEF WordsAgree, Locks
<1>10. QED BY <1>5, <1>9, FS_EmptySet

(* The upgraded guard takes over the saved flag, and the old one that is   *)
(* about to be dropped enables nothing.                                    *)
LEMMA UpgradeKeeps ==
  ASSUME MaxGuards \in Nat, SpinLocks \cap RwLocks = {}, GInv, upgrade
  PROVE  GInv'
<1>0. /\ GTypes /\ OneHandler /\ WordsAgree /\ Disciplined /\ FlagsSaved /\ halt = "none"
      /\ num_locks = Cardinality(Living)
      /\ enabled <=> top = 1 /\ TaskEnabled
      /\ top = 2 => TaskEnabled
  BY DEF GInv
<1>1. /\ cx.pc = "run" /\ cx.guards # <<>> /\ last.mode = "up"
      /\ last.lock \in RwLocks /\ word[last.lock].readers = 0
  BY NoReaders DEF upgrade, Running
<1>2. /\ word' = [word EXCEPT ![last.lock].w = TRUE] /\ num_locks' = num_locks + 1
      /\ stack' = [stack EXCEPT ![top].guards =
                     Append([@ EXCEPT ![Len(@)] = transfer_to(last, "write")], cleared(last)),
                                ![top].pc = "release"]
      /\ UNCHANGED <<enabled, halt>>
  BY <1>1 DEF upgrade
<1>3. PICK old : old = <<top, Len(cx.guards)>> OBVIOUS
<1>4. PICK new : new = <<top, Len(cx.guards) + 1>> OBVIOUS
<1>5. PICK g : g = last OBVIOUS
<1>6. /\ StackTypes' /\ top' = top
      /\ old \in Living /\ GuardOf(old) = last /\ old[1] = top
      /\ new \notin Living /\ Living' = Living \cup {new} /\ new[1] = top
      /\ GuardOf(old)' = transfer_to(last, "write") /\ GuardOf(new)' = cleared(last)
      /\ \A x \in Living \ {old} : GuardOf(x)' = GuardOf(x)
      /\ \A x \in Living : x[1] = top => x[2] <= old[2] /\ x[2] < new[2]
      /\ \A c \in 1 .. top : /\ stack'[c].handler = stack[c].handler
                             /\ stack'[c].was = stack[c].was
                             /\ stack'[c].pc = IF c = top THEN "release" ELSE stack[c].pc
      /\ IsLast(new)' /\ old[2] < new[2]
      /\ \A x \in Living : x[1] # top => (IsLast(x)' <=> IsLast(x))
  BY <1>0, <1>1, <1>2, <1>3, <1>4, UpgradeFacts
<1>7. /\ top \in {1, 2} /\ 1 \in 1 .. top /\ top \in 1 .. top
      /\ \A x \in Living : x[1] \in 1 .. top
  BY SMTT(60), <1>0, LivingFacts DEF OneHandler
<1>8. /\ g \in AnyGuard /\ g.mode = "up" /\ g.lock \in RwLocks /\ GuardOf(old) = g
      /\ GuardOf(old)' = [g EXCEPT !.mode = "write"]
      /\ GuardOf(new)' = [g EXCEPT !.was_enabled = FALSE]
  BY <1>0, <1>1, <1>5, <1>6, LivingFacts DEF transfer_to, cleared
<1>9. /\ GuardOf(old)'.mode = "write" /\ GuardOf(old)'.lock = g.lock /\ GuardOf(old)'.irq = g.irq
      /\ GuardOf(old)'.was_enabled = g.was_enabled
      /\ GuardOf(new)'.mode = "up" /\ GuardOf(new)'.lock = g.lock /\ GuardOf(new)'.irq = g.irq
      /\ GuardOf(new)'.was_enabled = FALSE
  BY <1>8 DEF AnyGuard
<1>10. \A x \in Living : GuardOf(x)'.irq = GuardOf(x).irq /\ GuardOf(x)'.was_enabled = GuardOf(x).was_enabled
                         /\ GuardOf(x)'.lock = GuardOf(x).lock
  <2> TAKE x \in Living
  <2>1. CASE x = old BY <1>8, <1>9, <2>1
  <2>2. CASE x # old BY <1>6, <2>2
  <2>3. QED BY <2>1, <2>2
<1>11. GTypes'
  <2>1. word' \in [Locks -> [w : BOOLEAN, up : BOOLEAN, readers : Int]]
    BY <1>0, <1>1, <1>2 DEF GTypes, Locks
  <2>2. num_locks' \in Int BY SMTT(60), <1>0, <1>2 DEF GTypes
  <2>3. QED BY <1>0, <1>2, <1>6, <2>1, <2>2 DEF GTypes, StackTypes, Bounded
<1>12. OneHandler' BY <1>0, <1>6, <1>7 DEF OneHandler
<1>13. Disciplined'
  <2>1. ASSUME NEW x \in Living'
        PROVE  /\ Fits(GuardOf(x))'
               /\ GuardOf(x)'.mode # "none" =>
                    IF stack'[x[1]].handler THEN GuardOf(x)'.lock \in IrqLocks
                    ELSE GuardOf(x)'.irq \/ GuardOf(x)'.lock \notin IrqLocks
    <3>0. stack'[x[1]].handler = stack[x[1]].handler BY <1>6, <1>7
    <3>1. CASE x \in Living \ {old}
      <4>1. GuardOf(x)' = GuardOf(x) BY <1>6, <3>1
      <4>2. QED BY <1>0, <3>0, <3>1, <4>1 DEF Disciplined, Fits
    <3>2. CASE x = old \/ x = new
      <4>1. /\ GuardOf(x)'.mode \in {"write", "up"} /\ GuardOf(x)'.lock = g.lock
            /\ GuardOf(x)'.irq = g.irq /\ x[1] = old[1]
        BY <1>6, <1>9, <3>2
      <4>2. Fits(GuardOf(x))' BY <1>8, <4>1 DEF Fits, Modes, Locks
      <4>3. IF stack[old[1]].handler THEN g.lock \in IrqLocks ELSE g.irq \/ g.lock \notin IrqLocks
        BY <1>0, <1>6, <1>8 DEF Disciplined
      <4>4. QED BY <3>0, <4>1, <4>2, <4>3
    <3>3. QED BY <1>6, <3>1, <3>2
  <2>2. QED BY <2>1 DEF Disciplined
<1>14. \A x \in Living : x[1] = top => ~(new[2] < x[2])
  <2> TAKE x \in Living
  <2> HAVE x[1] = top
  <2>1. x[2] \in Int /\ new[2] \in Int /\ x[2] < new[2] BY SMTT(60), <1>0, <1>4, <1>6, <1>7, LivingFacts DEF cx
  <2>2. QED BY SMTT(60), <2>1
<1>15. FlagsSaved'
  <2>1. ASSUME NEW x \in Living
        PROVE  GuardOf(x)'.was_enabled <=>
                 /\ x[1] = 1 /\ GuardOf(x)'.irq
                 /\ \A y \in Living' : y[1] = 1 /\ y[2] < x[2] => ~GuardOf(y)'.irq
    <3>1. GuardOf(x).was_enabled <=>
            /\ x[1] = 1 /\ GuardOf(x).irq
            /\ \A y \in Living : y[1] = 1 /\ y[2] < x[2] => ~GuardOf(y).irq
      BY <1>0 DEF FlagsSaved
    <3>2. x[1] = 1 => ~(new[1] = 1 /\ new[2] < x[2]) BY <1>6, <1>14
    <3>3. QED BY <1>6, <1>10, <3>1, <3>2
  <2>2. ~ /\ new[1] = 1 /\ GuardOf(new)'.irq
          /\ \A y \in Living' : y[1] = 1 /\ y[2] < new[2] => ~GuardOf(y)'.irq
    BY <1>6, <1>9
  <2>3. GuardOf(new)'.was_enabled <=>
          /\ new[1] = 1 /\ GuardOf(new)'.irq
          /\ \A y \in Living' : y[1] = 1 /\ y[2] < new[2] => ~GuardOf(y)'.irq
    BY <1>9, <2>2
  <2>4. QED BY <1>6, <2>1, <2>3 DEF FlagsSaved
<1>16. num_locks' = Cardinality(Living)'
  <2>1. Cardinality(Living \cup {new}) = Cardinality(Living) + 1
    BY <1>0, <1>6, LivingFacts, FS_AddElement
  <2>2. QED BY <1>0, <1>2, <1>6, <2>1
<1>17. (top = 1 => (TaskEnabled' <=> TaskEnabled)) /\ (top = 2 => TaskEnabled')
  <2>1. ASSUME top = 2 PROVE TaskEnabled'
    <3>1. stack'[1].pc = stack[1].pc BY SMTT(60), <1>6, <1>7, <2>1
    <3>2. \A x \in Living' : x[1] = 1 => x \in Living /\ GuardOf(x)'.irq = GuardOf(x).irq
                                         /\ (IsLast(x)' <=> IsLast(x))
      BY SMTT(60), <1>6, <1>10, <2>1
    <3>3. TaskEnabled BY <1>0, <2>1
    <3>4. QED BY <3>1, <3>2, <3>3 DEF TaskEnabled
  <2>2. ASSUME top = 1 PROVE TaskEnabled' <=> TaskEnabled
    <3>1. stack'[1].pc = "release" /\ stack[1].pc = "run" BY <1>1, <1>6, <1>7, <2>2 DEF cx
    <3>2. TaskEnabled' <=> \A x \in Living' : x[1] = 1 => ~GuardOf(x)'.irq
      BY <3>1 DEF TaskEnabled
    <3>3. TaskEnabled <=> \A x \in Living : x[1] = 1 => ~GuardOf(x).irq
      BY <3>1 DEF TaskEnabled
    <3>4. GuardOf(new)'.irq = GuardOf(old).irq /\ old[1] = 1 /\ new[1] = 1 BY <1>6, <1>8, <1>9, <2>2
    <3>5. QED BY <1>6, <1>10, <3>2, <3>3, <3>4
  <2>3. QED BY <2>1, <2>2
<1>18. ASSUME NEW l, NEW ms
       PROVE  \A x : x \in Holders(l, ms)' <=>
                       \/ x \in Holders(l, ms) /\ x # old
                       \/ x = old /\ g.lock = l /\ "write" \in ms
                       \/ x = new /\ g.lock = l /\ "up" \in ms
  <2>1. \A x : x \in Holders(l, ms)' <=>
          x \in Living' /\ Holding(x)' /\ GuardOf(x)'.lock = l /\ GuardOf(x)'.mode \in ms
    BY DEF Holders
  <2>2. \A x : x \in Holders(l, ms) <=>
          x \in Living /\ Holding(x) /\ GuardOf(x).lock = l /\ GuardOf(x).mode \in ms
    BY DEF Holders
  <2>3. Holding(new)' /\ Holding(old)' BY <1>6, <1>7 DEF Holding
  <2>4. \A x \in Living : Holding(x)' <=> Holding(x)
    <3> TAKE x \in Living
    <3>1. CASE x[1] = top
      <4>1. stack'[x[1]].pc = "release" /\ stack[x[1]].pc = "run" BY <1>1, <1>6, <1>7, <3>1 DEF cx
      <4>2. QED BY <4>1 DEF Holding
    <3>2. CASE x[1] # top
      <4>1. stack'[x[1]].pc = stack[x[1]].pc BY <1>6, <1>7, <3>2
      <4>2. IsLast(x)' <=> IsLast(x) BY <1>6, <3>2
      <4>3. QED BY <4>1, <4>2 DEF Holding
    <3>3. QED BY <3>1, <3>2
  <2> TAKE x
  <2>5. CASE x = new BY <1>6, <1>9, <2>1, <2>2, <2>3, <2>5
  <2>6. CASE x = old BY <1>6, <1>9, <2>1, <2>3, <2>6
  <2>7. CASE x \in Living \ {old}
    <3>1. x \in Living' /\ GuardOf(x)' = GuardOf(x) /\ x # new BY <1>6, <2>7
    <3>2. QED BY <2>1, <2>2, <2>4, <2>7, <3>1
  <2>8. CASE x \notin Living' BY <1>6, <2>1, <2>2, <2>8
  <2>9. QED BY <1>6, <2>5, <2>6, <2>7, <2>8
<1>19. WordsAgree'
  <2> DEFINE E(l) == Holders(l, {"spin", "write"})
             U(l) == Holders(l, {"up"})
             R(l) == Holders(l, {"read"})
  <2> SUFFICES ASSUME NEW l \in Locks
               PROVE  /\ word'[l].w <=> E(l)' # {}
                      /\ word'[l].up <=> U(l)' # {}
                      /\ word'[l].readers = Cardinality(R(l)')
                      /\ \A x, y \in E(l)' : x = y
                      /\ \A x, y \in U(l)' : x = y
                      /\ \A x \in E(l)', y \in U(l)' :
                           stack'[y[1]].pc = "release" /\ IsLast(y)'
    BY DEF WordsAgree
  <2>1. /\ word[l].w <=> E(l) # {}
        /\ word[l].up <=> U(l) # {}
        /\ word[l].readers = Cardinality(R(l))
        /\ \A x, y \in E(l) : x = y
        /\ \A x, y \in U(l) : x = y
        /\ \A x \in E(l), y \in U(l) : stack[y[1]].pc = "release" /\ IsLast(y)
    BY <1>0 DEF WordsAgree
  <2>2. /\ \A x : x \in E(l)' <=> (x \in E(l) /\ x # old) \/ (x = old /\ g.lock = l)
        /\ \A x : x \in U(l)' <=> (x \in U(l) /\ x # old) \/ (x = new /\ g.lock = l)
        /\ \A x : x \in R(l)' <=> x \in R(l) /\ x # old
    BY SMTT(60), <1>18
  <2>3. Holding(old) BY <1>1, <1>6 DEF Holding, cx
  <2>4. (old \in U(l) <=> g.lock = l) /\ old \notin E(l) /\ old \notin R(l)
    BY <1>6, <1>8, <2>3 DEF Holders
  <2>5. U(l) \subseteq Living BY <1>0, HolderFacts
  <2> DEFINE EP == E(l)'
             UP == U(l)'
             RP == R(l)'
  <2> HIDE DEF E, U, R, EP, UP, RP
  <2>6. RP = R(l) BY <2>2, <2>4 DEF RP
  <2>7. CASE g.lock = l
    <3>1. stack[old[1]].pc = "run" BY <1>1, <1>6 DEF cx
    <3>2. E(l) = {} BY <2>1, <2>4, <2>7, <3>1
    <3>3. EP = {old} BY <2>2, <2>7, <3>2 DEF EP
    <3>4. UP = {new} BY <2>1, <2>2, <2>4, <2>7 DEF UP
    <3>5. word'[l].w /\ word'[l].up = word[l].up /\ word'[l].readers = word[l].readers
      BY <1>0, <1>2, <1>5, <2>7 DEF GTypes
    <3>6. word[l].up BY <2>1, <2>4, <2>7
    <3>7. stack'[new[1]].pc = "release" /\ IsLast(new)' BY <1>6, <1>7
    <3>8. QED BY <2>1, <2>6, <3>3, <3>4, <3>5, <3>6, <3>7 DEF EP, UP, RP
  <2>8. CASE g.lock # l
    <3>1. EP = E(l) BY <2>2, <2>4, <2>8 DEF EP
    <3>2. UP = U(l) BY <2>2, <2>4, <2>8 DEF UP
    <3>3. word'[l] = word[l] BY <1>0, <1>2, <1>5, <2>8 DEF GTypes
    <3>4. ASSUME NEW x \in E(l), NEW y \in U(l) PROVE stack'[y[1]].pc = "release" /\ IsLast(y)'
      <4>1. y \in Living /\ stack[y[1]].pc = "release" /\ IsLast(y) BY <2>1, <2>5
      <4>2. y[1] # top BY <1>1, <4>1 DEF cx
      <4>3. stack'[y[1]].pc = stack[y[1]].pc BY <1>6, <1>7, <4>1, <4>2
      <4>4. QED BY <1>6, <4>1, <4>2, <4>3
    <3>5. QED BY <2>1, <2>6, <3>1, <3>2, <3>3, <3>4 DEF EP, UP, RP
  <2>9. QED BY <2>7, <2>8
<1>20. QED BY <1>0, <1>2, <1>6, <1>7, <1>11, <1>12, <1>13, <1>15, <1>16, <1>17, <1>19 DEF GInv

-----------------------------------------------------------------------------
(* A task starts without guards, its interrupts enabled.                   *)
LEMMA GuardsStart ==
  ASSUME MaxGuards \in Nat, GInit
  PROVE  GInv
<1>1. <<>> \in Seq(AnyGuard) /\ Len(<<>>) = 0 BY SMTT(60)
<1>2. PICK k : k = Context(FALSE, TRUE) OBVIOUS
<1>3. k \in AnyContext BY <1>1, <1>2 DEF Context, AnyContext, Pcs
<1>4. Len(k.guards) = 0 /\ k.handler = FALSE /\ k.pc = "run" BY <1>1, <1>2 DEF Context
<1>5. stack = <<k>> BY <1>2 DEF GInit
<1>6. stack \in Seq(AnyContext) /\ Len(stack) = 1 /\ stack[1] = k BY SMTT(60), <1>3, <1>5
<1>7. top = 1 BY <1>6 DEF top
<1>8. GTypes
  <2>1. \A c \in 1 .. top : stack[c] = k BY SMTT(60), <1>6, <1>7
  <2>2. enabled \in BOOLEAN /\ num_locks \in Int BY SMTT(60) DEF GInit
  <2>3. word \in [Locks -> [w : BOOLEAN, up : BOOLEAN, readers : Int]] BY SMTT(60) DEF GInit
  <2>4. QED BY SMTT(60), <1>4, <1>6, <1>7, <2>1, <2>2, <2>3 DEF GTypes
<1>9. Living = {}
  <2>1. \A x \in Living : x[1] \in 1 .. top /\ x[2] \in 1 .. Len(stack[x[1]].guards)
    BY <1>8, LivingFacts
  <2>2. \A x \in Living : x[1] = 1 BY SMTT(60), <1>7, <2>1
  <2>3. \A x \in Living : x[2] \in 1 .. 0 BY <1>4, <1>6, <2>1, <2>2
  <2>4. 1 .. 0 = {} BY SMTT(60)
  <2>5. QED BY <2>3, <2>4
<1>10. \A l, ms : Holders(l, ms) = {} BY <1>9 DEF Holders
<1>11. Cardinality({}) = 0 BY FS_EmptySet
<1>12. WordsAgree BY <1>10, <1>11 DEF WordsAgree, GInit
<1>13. Disciplined /\ FlagsSaved /\ TaskEnabled BY <1>9 DEF Disciplined, FlagsSaved, TaskEnabled
<1>14. OneHandler BY SMTT(60), <1>4, <1>6, <1>7 DEF OneHandler
<1>15. num_locks = Cardinality(Living) BY <1>9, <1>11 DEF GInit
<1>16. enabled = TRUE /\ halt = "none" BY DEF GInit
<1>17. QED BY <1>7, <1>8, <1>12, <1>13, <1>14, <1>15, <1>16 DEF GInv

(* Every step keeps the invariant.                                         *)
LEMMA GuardsStep ==
  ASSUME MaxGuards \in Nat, SpinLocks \cap RwLocks = {}, GInv, [GNext]_gvars
  PROVE  GInv'
<1>1. ASSUME UNCHANGED gvars PROVE GInv'
  <2>1. UNCHANGED <<enabled, num_locks, word, stack, halt>> BY <1>1 DEF gvars
  <2>2. Living' = Living /\ top' = top BY <2>1 DEF Living, top
  <2>3. ASSUME NEW x
        PROVE  /\ GuardOf(x)' = GuardOf(x) /\ (IsLast(x)' <=> IsLast(x))
               /\ (Holding(x)' <=> Holding(x)) /\ (Fits(GuardOf(x))' <=> Fits(GuardOf(x)))
    BY <2>1 DEF GuardOf, IsLast, Holding, Fits
  <2>4. ASSUME NEW l, NEW ms PROVE Holders(l, ms)' = Holders(l, ms)
    BY SMTT(60), <2>2, <2>3 DEF Holders
  <2>5. GTypes' /\ OneHandler' BY <2>1, <2>2 DEF GInv, GTypes, OneHandler
  <2>6. WordsAgree' BY <2>1, <2>3, <2>4 DEF GInv, WordsAgree
  <2>7. Disciplined' BY <2>1, <2>2, <2>3 DEF GInv, Disciplined
  <2>8. FlagsSaved' BY SMTT(60), <2>2, <2>3 DEF GInv, FlagsSaved
  <2>9. TaskEnabled' <=> TaskEnabled BY <2>1, <2>2, <2>3 DEF TaskEnabled
  <2>10. QED BY <2>1, <2>2, <2>5, <2>6, <2>7, <2>8, <2>9 DEF GInv
<1>2. CASE disable_local \/ disable_preempt BY <1>2, DisableKeeps
<1>3. CASE upgrade BY <1>3, UpgradeKeeps
<1>4. CASE drop BY <1>4, DropKeeps
<1>5. CASE release_lock BY <1>5, ReleaseKeeps
<1>6. CASE drop_irq_guard BY <1>6, DropIrqKeeps
<1>7. CASE decrease_num_locks BY <1>7, DecreaseKeeps
<1>8. CASE interrupt BY <1>8, InterruptKeeps
<1>9. CASE iret BY <1>9, IretKeeps
<1>10. CASE switch_to_task BY <1>1, <1>10, SwitchKeeps
<1>11. ASSUME NEW l \in Locks, NEW mode \in Modes(l), NEW irq \in BOOLEAN,
              acquire(l, mode, irq) \/ try_acquire(l, mode, irq)
       PROVE  GInv'
  BY <1>1, <1>11, AcquireKeeps
<1>12. ASSUME NEW l \in SpinLocks,
              spin_lock(l) \/ lock_irq_disabled(l) \/ try_lock(l) \/ try_lock_irq_disabled(l)
       PROVE  GInv'
  <2>1. l \in Locks /\ "spin" \in Modes(l) BY DEF Locks, Modes
  <2>2. QED BY <1>11, <1>12, <2>1 DEF spin_lock, lock_irq_disabled, try_lock, try_lock_irq_disabled
<1>13. ASSUME NEW l \in RwLocks,
              \/ read(l) \/ read_irq_disabled(l) \/ try_read_irq_disabled(l)
              \/ write(l) \/ write_irq_disabled(l) \/ try_write_irq_disabled(l)
              \/ upread(l) \/ upread_irq_disabled(l) \/ try_upread_irq_disabled(l)
       PROVE  GInv'
  <2>1. l \in Locks /\ "read" \in Modes(l) /\ "write" \in Modes(l) /\ "up" \in Modes(l)
    BY DEF Locks, Modes
  <2>2. QED
    BY <1>11, <1>13, <2>1
    DEF read, read_irq_disabled, try_read_irq_disabled, write, write_irq_disabled,
        try_write_irq_disabled, upread, upread_irq_disabled, try_upread_irq_disabled
<1>14. QED
  BY <1>1, <1>2, <1>3, <1>4, <1>5, <1>6, <1>7, <1>8, <1>9, <1>10, <1>12, <1>13 DEF GNext

(* The inductive invariant says what is asked of the guards.               *)
LEMMA GuardsImplied ==
  ASSUME MaxGuards \in Nat, GInv
  PROVE  GuardsNest
<1>1. (\A c \in 1 .. top : ~stack[c].handler) <=> top = 1
  BY SMTT(60) DEF GInv, OneHandler
<1>2. top = 1 => (TaskEnabled <=> \A x \in Living : stack[x[1]].guards[x[2]].irq => Restoring(x[1], x[2]))
  <2> SUFFICES ASSUME top = 1
               PROVE  TaskEnabled <=> \A x \in Living : stack[x[1]].guards[x[2]].irq => Restoring(x[1], x[2])
    OBVIOUS
  <2>1. \A x \in Living : x[1] = 1 BY SMTT(60), LivingFacts DEF GInv
  <2>2. QED BY <2>1 DEF TaskEnabled, GuardOf, IsLast, Restoring
<1>3. QED BY <1>1, <1>2 DEF GInv, GuardsNest

(* GuardsNest, for any number of locks, guards and contexts, of spin locks *)
(* that are no reader-writer locks: guards of one CPU nest.                *)
THEOREM GuardsAlwaysNest ==
  ASSUME MaxGuards \in Nat, SpinLocks \cap RwLocks = {}
  PROVE  GSpec => []GuardsNest
<1>1. GInit => GInv BY GuardsStart
<1>2. GInv /\ [GNext]_gvars => GInv' BY GuardsStep
<1>3. GInv => GuardsNest BY GuardsImplied
<1>4. QED BY <1>1, <1>2, <1>3, PTL DEF GSpec

=============================================================================
