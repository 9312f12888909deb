------------------------------ MODULE IrqLines ------------------------------
(***************************************************************************)
(* Interrupt lines (trap/irq.rs, arch/x86/irq.rs), the allocator of their  *)
(* numbers (util/recycle_allocator.rs) and the IO APIC entries that lead   *)
(* to them.  A line object is a counted reference to a number; callbacks   *)
(* belong to the object they were registered through and go with it.       *)
(***************************************************************************)
EXTENDS Integers, Sequences, FiniteSets, SequencesExt

CONSTANTS START, MAX,     \* interrupt numbers START..MAX-1, START > 0
          MaxObjects,     \* bound on live line objects
          MaxCallbacks,   \* bound on callbacks of one object
          Entries         \* redirection entries of the IO APIC

VARIABLES numbers,        \* NOT_USING_IRQ
          ids,            \* ID_ALLOCATOR
          lines,          \* the IrqLine objects outside the IO APIC
          callback_list,  \* IRQ_LIST: number -> sequence of callback ids
          entry,          \* redirection entry -> number, 0 if disabled
          irqs            \* IoApic.irqs: line objects it keeps

lvars == <<numbers, ids, lines, callback_list, entry, irqs>>

Nums == START..(MAX - 1)
None == -1

----------------------------------------------------------------------------
\* RecycleAllocator

with_start_max(start, max) == [current |-> start, recycled |-> <<>>, skip |-> {}, max |-> max]

\* The first number from current on that was not taken by get_target.
FirstFree(a) == CHOOSE n \in a.current..a.max :
                  (n \notin a.skip \/ n = a.max) /\ \A m \in a.current..(n - 1) : m \in a.skip

\* Result: <<number or None, allocator>>
alloc(a) ==
    IF a.recycled # <<>> THEN <<Last(a.recycled), [a EXCEPT !.recycled = Front(@)]>>
    ELSE LET n == FirstFree(a)
         IN IF n = a.max THEN <<None, [a EXCEPT !.current = n]>>
            ELSE <<n, [a EXCEPT !.current = n + 1]>>

\* Asserted by dealloc: a number that is in use.
CanDealloc(a, id) == id \in a.skip \/ (id < a.current /\ \A i \in 1..Len(a.recycled) : a.recycled[i] # id)

dealloc(a, id) == [a EXCEPT !.skip = @ \ {id}, !.recycled = Append(@, id)]

get_target(a, target) ==
    CASE target >= a.max -> <<FALSE, a>>
      [] target < a.max /\ target >= a.current ->
           IF target \in a.skip THEN <<FALSE, a>> ELSE <<TRUE, [a EXCEPT !.skip = @ \cup {target}]>>
      [] target < a.current ->
           IF \E i \in 1..Len(a.recycled) : a.recycled[i] = target
           THEN <<TRUE, [a EXCEPT !.recycled = SelectSeq(@, LAMBDA x : x # target)]>>
           ELSE <<FALSE, a>>

----------------------------------------------------------------------------
\* Line objects.  "arc" names the reference counter that clones share.

Objects == lines \cup irqs
strong_count(l, objs) == Cardinality({k \in objs : k.arc = l.arc})

FreshArc == CHOOSE a \in 0..MaxObjects : \A k \in Objects : k.arc # a
NewLine(num) == [num |-> num, arc |-> FreshArc, copy |-> 0, callbacks |-> {}]

\* Objects are told apart by a copy number within their counter.
FreeCopy(l) == CHOOSE c \in 0..MaxObjects : \A k \in Objects : k.arc = l.arc => k.copy # c
CloneOf(l) == [l EXCEPT !.copy = FreeCopy(l), !.callbacks = {}]

DropNumberAlways(a, l, objs) == IF CanDealloc(a, l.num) THEN dealloc(a, l.num) ELSE a
\* Dropping an object: the last one of its counter releases the number, then its
\* callback handles leave the list and release their ids.
DropNumber(a, l, objs) == IF strong_count(l, objs) = 1 THEN dealloc(a, l.num) ELSE a

DropHandle(state, id) ==
    [list |-> SelectSeq(state.list, LAMBDA x : x # id), ids |-> dealloc(state.ids, id)]

RECURSIVE DropHandles(_, _)
DropHandles(state, hs) ==
    IF hs = {} THEN state
    ELSE LET id == CHOOSE x \in hs : \A y \in hs : x <= y IN DropHandles(DropHandle(state, id), hs \ {id})

Dropped(l, objs) ==
    \E after \in {DropHandles([list |-> callback_list[l.num], ids |-> ids], l.callbacks)} :
        /\ numbers' = DropNumber(numbers, l, objs)
        /\ callback_list' = [callback_list EXCEPT ![l.num] = after.list]
        /\ ids' = after.ids

----------------------------------------------------------------------------
\* Operations

alloc_line ==
    /\ Cardinality(Objects) < MaxObjects
    /\ LET r == alloc(numbers)
       IN /\ numbers' = r[2]
          /\ lines' = IF r[1] = None THEN lines ELSE lines \cup {NewLine(r[1])}
    /\ UNCHANGED <<ids, callback_list, entry, irqs>>

alloc_specific(num) ==
    /\ Cardinality(Objects) < MaxObjects
    /\ LET r == get_target(numbers, num)
       IN /\ numbers' = r[2]
          /\ lines' = IF r[1] THEN lines \cup {NewLine(num)} ELSE lines
    /\ UNCHANGED <<ids, callback_list, entry, irqs>>

clone(l) ==
    /\ Cardinality(Objects) < MaxObjects
    /\ lines' = lines \cup {CloneOf(l)}
    /\ UNCHANGED <<numbers, ids, callback_list, entry, irqs>>

on_active(l) ==
    /\ Cardinality(l.callbacks) < MaxCallbacks
    /\ LET r == alloc(ids)
       IN /\ ids' = r[2]
          /\ callback_list' = [callback_list EXCEPT ![l.num] = Append(@, r[1])]
          /\ lines' = (lines \ {l}) \cup {[l EXCEPT !.callbacks = @ \cup {r[1]}]}
    /\ UNCHANGED <<numbers, entry, irqs>>

\* Only numbers that alloc has passed are ever released: the ones taken with
\* alloc_specific ahead of it (timer and serial port without APIC) are kept.
drop_line(l) ==
    /\ strong_count(l, Objects) = 1 => l.num \notin numbers.skip
    /\ Dropped(l, Objects)
    /\ lines' = lines \ {l}
    /\ UNCHANGED <<entry, irqs>>

\* An entry whose number is not 0 is in use.  A line leads from one entry.
enable(index, l) ==
    /\ entry[index] = 0 /\ \A i \in Entries : entry[i] # l.num
    /\ Cardinality(Objects) < MaxObjects
    /\ entry' = [entry EXCEPT ![index] = l.num]
    /\ irqs' = irqs \cup {CloneOf(l)}
    /\ UNCHANGED <<numbers, ids, lines, callback_list>>

\* The entry is masked and the IO APIC's line of that number dropped; this is what
\* the calibration callbacks do from within the interrupt of that line.
disable(index) ==
    /\ entry[index] # 0
    /\ entry' = [entry EXCEPT ![index] = 0]
    /\ \E l \in irqs : /\ l.num = entry[index]
                       /\ strong_count(l, Objects) = 1 => l.num \notin numbers.skip
                       /\ Dropped(l, Objects) /\ irqs' = irqs \ {l}
    /\ UNCHANGED lines

LInit ==
    /\ numbers = with_start_max(START, MAX)
    /\ ids = with_start_max(0, MaxObjects * MaxCallbacks + 1)
    /\ lines = {} /\ irqs = {}
    /\ callback_list = [n \in Nums |-> <<>>]
    /\ entry = [i \in Entries |-> 0]

LNext ==
    \/ alloc_line
    \/ \E n \in START..MAX : alloc_specific(n)
    \/ \E l \in lines : clone(l) \/ on_active(l) \/ drop_line(l) \/ \E i \in Entries : enable(i, l)
    \/ \E i \in Entries : disable(i)

LSpec == LInit /\ [][LNext]_lvars

----------------------------------------------------------------------------
\* The lines keep what the unsafe acquire relies on: two objects with one number are
\* clones of each other and the number is not free; the list of a number holds
\* exactly the callbacks of the live objects, each once, under ids that no other
\* callback has; an entry of the IO APIC that is in use leads to a live line; and
\* nothing is released twice.
LinesSound ==
    /\ \A k, l \in Objects : k.num = l.num => k.arc = l.arc
    /\ \A l \in Objects : CanDealloc(numbers, l.num)
    /\ \A n \in Nums : ToSet(callback_list[n]) = UNION {l.callbacks : l \in {k \in Objects : k.num = n}}
                       /\ IsInjective(callback_list[n])
    /\ \A k, l \in Objects : k # l => k.callbacks \cap l.callbacks = {}
    /\ \A l \in Objects : \A c \in l.callbacks : CanDealloc(ids, c)
    /\ \A i \in Entries : entry[i] # 0 => \E l \in irqs : l.num = entry[i]
=============================================================================
