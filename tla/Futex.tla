------------------------------- MODULE Futex -------------------------------
(***************************************************************************)
(* Futexes (process/posix_thread/futex.rs, syscall/futex.rs) and the part  *)
(* of PosixThread's exit that joins threads through them, in one process.  *)
(*                                                                         *)
(* The kernel switches only in yield_now, so that a call runs to its end   *)
(* or to the loop of FutexWaiter::wait in one step.  User code changes a   *)
(* futex word and wakes its waiters in two steps, between which others     *)
(* run.                                                                    *)
(***************************************************************************)
EXTENDS Integers, Sequences, FiniteSets

CONSTANTS Threads,
          Addrs,       \* addresses of futex words
          Bucket,      \* FutexBucketVec::get_bucket of each address
          Bits,        \* the bits of a FutexBitSet
          Child,       \* the thread with a clear_child_tid
          ctid         \* the address of that word

Buckets == {Bucket[a] : a \in Addrs}
MATCH_ANY == Bits
All == Cardinality(Threads)
Anything == -1     \* what a requeued thread expects of its new word
None == [addr |-> ctid, val |-> Anything]

VARIABLES val,      \* the futex words, 0 or 1
          queue,    \* FutexBucket::queue: the items [key, bitset, waiter]
          is_woken, \* FutexWaiter::is_woken of the wait of each thread
          expected, \* [addr, val] of that wait
          pc        \* <<"user">>, <<"wait">>, <<"exited">>, or <<"stored", addr>>

vars == <<val, queue, is_woken, expected, pc>>

Item == [key : Addrs, bitset : SUBSET Bits, waiter : Threads]
Items(q) == {q[i] : i \in DOMAIN q}

(* Each bucket holds items with keys of that bucket.                       *)
TypeOK ==
  /\ val \in [Addrs -> {0, 1}]
  /\ \A b \in Buckets : Items(queue[b]) \subseteq {i \in Item : Bucket[i.key] = b}
  /\ is_woken \in [Threads -> BOOLEAN]
  /\ expected \in [Threads -> [addr : Addrs, val : {0, 1, Anything}]]
  /\ pc \in [Threads -> {<<"user">>, <<"wait">>, <<"exited">>} \cup ({"stored"} \X Addrs)]

Init == /\ val = [a \in Addrs |-> IF a = ctid THEN 1 ELSE 0]
        /\ queue = [b \in Buckets |-> <<>>]
        /\ is_woken = [t \in Threads |-> FALSE]
        /\ expected = [t \in Threads |-> None]
        /\ pc = [t \in Threads |-> <<"user">>]

InUser(t) == pc[t] = <<"user">>

-----------------------------------------------------------------------------
(* futex_wait_bitset, up to the loop of yields.  A word that does not have *)
(* the expected value is an error.                                         *)
Wait(t, a, v, bitset) ==
  /\ InUser(t)
  /\ val[a] = v
  /\ queue' = [queue EXCEPT ![Bucket[a]] =
                 Append(@, [key |-> a, bitset |-> bitset, waiter |-> t])]
  /\ is_woken' = [is_woken EXCEPT ![t] = FALSE]
  /\ expected' = [expected EXCEPT ![t] = [addr |-> a, val |-> v]]
  /\ pc' = [pc EXCEPT ![t] = <<"wait">>]
  /\ UNCHANGED val

(* The loop ends, and the waiter is dropped.                               *)
WaitReturn(t) ==
  /\ pc[t] = <<"wait">> /\ is_woken[t]
  /\ pc' = [pc EXCEPT ![t] = <<"user">>]
  /\ is_woken' = [is_woken EXCEPT ![t] = FALSE]
  /\ expected' = [expected EXCEPT ![t] = None]
  /\ UNCHANGED <<val, queue>>

-----------------------------------------------------------------------------
(* The first n items of q with the key and a common bit.                   *)
Matching(q, key, bitset, n) ==
  LET match == {i \in DOMAIN q : q[i].key = key /\ q[i].bitset \cap bitset # {}}
  IN  {q[i] : i \in {j \in match : Cardinality({k \in match : k < j}) < n}}

Without(q, items) == SelectSeq(q, LAMBDA item : item \notin items)
Only(q, items) == SelectSeq(q, LAMBDA item : item \in items)
Rekeyed(q, items, key) ==
  [i \in DOMAIN q |-> IF q[i] \in items THEN [q[i] EXCEPT !.key = key] ELSE q[i]]
Waiters(items) == {i.waiter : i \in items}

(* dequeue_and_wake_items.                                                 *)
DequeueAndWakeItems(key, n, bitset) ==
  LET items == Matching(queue[Bucket[key]], key, bitset, n)
  IN  /\ is_woken' = [t \in Threads |-> is_woken[t] \/ t \in Waiters(items)]
      /\ queue' = [queue EXCEPT ![Bucket[key]] = Without(@, items)]

Wake(t, a, n, bitset) ==
  /\ InUser(t)
  /\ DequeueAndWakeItems(a, n, bitset)
  /\ UNCHANGED <<val, expected, pc>>

(* User code changes a word, and then wakes all that wait on it.           *)
Store(t, a) ==
  /\ InUser(t) /\ a # ctid
  /\ val' = [val EXCEPT ![a] = 1 - @]
  /\ pc' = [pc EXCEPT ![t] = <<"stored", a>>]
  /\ UNCHANGED <<queue, is_woken, expected>>

StoreWake(t, a) ==
  /\ pc[t] = <<"stored", a>>
  /\ DequeueAndWakeItems(a, All, MATCH_ANY)
  /\ pc' = [pc EXCEPT ![t] = <<"user">>]
  /\ UNCHANGED <<val, expected>>

(* The buckets after futex_requeue has moved items of one key to another:  *)
(* update_item_keys or requeue_items_to_another_bucket.                    *)
Requeued(q, old, new, nrequeues) ==
  LET b == Bucket[old]
      c == Bucket[new]
      moved == Matching(q[b], old, MATCH_ANY, nrequeues)
  IN  IF b = c THEN [q EXCEPT ![b] = Rekeyed(@, moved, new)]
      ELSE [q EXCEPT ![b] = Without(@, moved),
                     ![c] = @ \o Rekeyed(Only(q[b], moved), moved, new)]

Requeue(t, old, new, nwakes, nrequeues) ==
  /\ InUser(t) /\ old # new
  /\ LET items == Matching(queue[Bucket[old]], old, MATCH_ANY, nwakes)
         left == [queue EXCEPT ![Bucket[old]] = Without(@, items)]
         moved == Waiters(Matching(left[Bucket[old]], old, MATCH_ANY, nrequeues))
     IN  /\ is_woken' = [u \in Threads |-> is_woken[u] \/ u \in Waiters(items)]
         /\ queue' = Requeued(left, old, new, nrequeues)
         /\ expected' = [u \in Threads |-> IF u \in moved THEN [addr |-> new, val |-> Anything]
                                           ELSE expected[u]]
  /\ UNCHANGED <<val, pc>>

-----------------------------------------------------------------------------
(* Mutant: the waiter is not woken.                                        *)
ExitWithoutWake(t) ==
  /\ InUser(t) /\ t = Child
  /\ val' = [val EXCEPT ![ctid] = 0]
  /\ pc' = [pc EXCEPT ![t] = <<"exited">>]
  /\ UNCHANGED <<queue, is_woken, expected>>

(* PosixThread::exit of a thread with a clear_child_tid: its waiter is     *)
(* woken, and the word is cleared.                                         *)
Exit(t) ==
  /\ InUser(t) /\ t = Child
  /\ DequeueAndWakeItems(ctid, 1, MATCH_ANY)
  /\ val' = [val EXCEPT ![ctid] = 0]
  /\ pc' = [pc EXCEPT ![t] = <<"exited">>]
  /\ UNCHANGED expected

(* One thread at most joins the child, and it waits for 0 with all bits.   *)
Joins(t, a, v, bits) ==
  a = ctid => /\ t # Child /\ v = 1 /\ bits = MATCH_ANY
              /\ \A u \in Threads : ~(pc[u] = <<"wait">> /\ expected[u].addr = ctid)

Words == Addrs \ {ctid}

Next == \E t \in Threads :
  \/ \E a \in Addrs, v \in {0, 1}, bits \in SUBSET Bits \ {{}} :
       Joins(t, a, v, bits) /\ Wait(t, a, v, bits)
  \/ WaitReturn(t)
  \/ \E a \in Words, n \in {0, 1, All}, bits \in SUBSET Bits \ {{}} : Wake(t, a, n, bits)
  \/ \E a \in Addrs : Store(t, a) \/ StoreWake(t, a)
  \/ \E old, new \in Words, n, m \in {0, 1, All} : Requeue(t, old, new, n, m)
  \/ Exit(t)

Spec == Init /\ [][Next]_vars

-----------------------------------------------------------------------------
Queued(t) == {<<b, i>> \in Buckets \X (1 .. All) :
                i \in DOMAIN queue[b] /\ queue[b][i].waiter = t}
Asleep(t) == pc[t] = <<"wait">> /\ ~is_woken[t]

(* The queues and the flags agree: a thread that waits and is not woken is *)
(* in the queues exactly once, under the key of the word it waits on,      *)
(* where a wake will find it, and no other thread is in them.              *)
WaiterIsQueued ==
  \A t \in Threads :
    /\ Cardinality(Queued(t)) = IF Asleep(t) THEN 1 ELSE 0
    /\ \A p \in Queued(t) : queue[p[1]][p[2]].key = expected[t].addr

(* What a futex is for, and why futex_wait_bitset holds the bucket lock    *)
(* from the load to the enqueue: a thread that waits for a word to change, *)
(* and was not requeued, is not left waiting after a change and a wake, or *)
(* after the exit of the thread it joins.                                  *)
NoLostWake ==
  \A t \in Threads :
    Asleep(t) =>
      \/ expected[t].val \in {Anything, val[expected[t].addr]}
      \/ \E u \in Threads : pc[u] = <<"stored", expected[t].addr>>
=============================================================================
