--------------------------- MODULE TaskSchedProofs --------------------------
(***************************************************************************)
(* Proofs about TaskSched, for any set of tasks, any environments and any  *)
(* bounds: the scheduler and the waits are sound, and no real-time task is *)
(* passed over twice.                                                      *)
(*                                                                         *)
(* Inv is the inductive invariant.  Beside the types it says where a task  *)
(* may be for each status, which waiters are in the queue, what a sleeper  *)
(* knows of the condition and of its timer, and who is linked.  The lemmas *)
(* say first what the operations do to the set of linked tasks, then what  *)
(* a step of each kind leaves alone, and then that each conjunct of Inv is *)
(* kept.                                                                   *)
(***************************************************************************)
EXTENDS TaskSched, TLAPS

NoDuplicates(s) == \A i, j \in DOMAIN s : s[i] = s[j] => i = j

(* The status of a task says where it is, and a task that does not run     *)
(* left the CPU in one of the calls of schedule.                           *)
StatusFits ==
  /\ pc[InitTask] \in {"run", "added"}
  /\ \A t \in Tasks : /\ status[t] = "Sleeping" <=> pc[t] \in {"sleep", "doze"}
                      /\ status[t] = "Exited" <=> pc[t] \in {"exit", "dead"}
                      /\ t # current => pc[t] \in {"new", "run", "sleep", "dead"}
  /\ fetched # NoTask => pc[current] \in {"run", "sleep", "dead"}

(* The queue holds the waiters of the tasks between enqueue and dequeue,   *)
(* one of each.                                                            *)
Inside == {"timer", "check", "dequeue", "expired", "dequeueExpired", "wait", "sleep", "doze",
           "reset"}

QueueFits ==
  /\ \A w \in Elems(waiters) : w = Own(w[1]) /\ pc[w[1]] \in Inside
  /\ NoDuplicates(waiters)
  /\ \A t \in Tasks : pc[t] \in Inside => Own(t) \in Elems(waiters)

(* Since a task saw the condition fail, wake_all has woken it or the       *)
(* condition still fails.                                                  *)
WokenSinceCheck ==
  "one" \notin env.wakes =>
    \A t \in Tasks :
      pc[t] \in {"expired", "wait", "sleep", "doze"} /\ Own(t) \notin woken => ready = 0

(* A timer that a task relies on is not cancelled and not past.            *)
Armed(t) ==
  \E c \in timers : c.waiter = Own(t) /\ c.expire >= tick /\ c.waiter \notin cancelled

TimersFit ==
  /\ \A t \in Tasks : pc[t] = "timer" => timeout[t] # NoTimeout
  /\ \A w \in cancelled : \/ w[2] < nth[w[1]]
                          \/ w[2] = nth[w[1]] /\ pc[w[1]] \in {"run", "added", "exit", "dead"}
  /\ \A t \in Tasks :
       /\ pc[t] \in {"wait", "sleep", "doze"} /\ timeout[t] # NoTimeout /\ Own(t) \notin woken
       => Armed(t)

(* Only tasks that may run are linked, each once, and never the current    *)
(* one, where only tasks wake and there are no timeouts and no real-time   *)
(* tasks.                                                                  *)
Calm == ~env.irq /\ env.timeouts = {NoTimeout} /\ env.realtime = {}

MayGoOn(t) == pc[t] = "run" \/ (pc[t] = "sleep" /\ Own(t) \in woken)

LinksFit ==
  /\ rq.realtime = <<>> /\ NoDuplicates(rq.normal)
  /\ timers = {} /\ \A t \in Tasks : timeout[t] = NoTimeout /\ pc[t] # "timer"
  /\ pc[current] # "new" /\ (fetched = NoTask => pc[current] # "dead")
  /\ fetched \notin Elems(rq.normal)
  /\ \A t \in Elems(rq.normal) \cup {fetched} :
       t = NoTask \/ (t # current /\ MayGoOn(t))

(* The current task, on its way into switch_to_task since it tested that   *)
(* it was not woken, is linked or fetched itself if it was woken since.    *)
DozerLinked ==
  (pc[current] = "doze" \/ (fetched # NoTask /\ pc[current] = "sleep")) /\ Own(current) \in woken
  => current \in Linked(rq) \cup {fetched}

(* A real-time task is in the queue that is served first.                  *)
RealTimeLinked == Elems(rq.realtime) \subseteq env.realtime

(* The tasks passed over wait in that queue; once a normal task is fetched *)
(* there is none.                                                          *)
PassedWait ==
  /\ passed \subseteq Elems(rq.realtime)
  /\ fetched # NoTask /\ fetched \notin env.realtime => passed = {}

Inv == /\ TypeOK
       /\ RealTimeLinked
       /\ Calm => broken = "no"
       /\ broken = "no" => /\ StatusFits /\ QueueFits /\ WokenSinceCheck /\ TimersFit
                           /\ NoTaskLost /\ DozerLinked /\ PassedWait
                           /\ Calm => LinksFit

-----------------------------------------------------------------------------
(* Sequences as sets of their elements.                                    *)
Image(s, K) == {s[k] : k \in K}
Distinct(s, K) == \A i, j \in K : s[i] = s[j] => i = j

(* A leaf that names no prover is for Zenon.                               *)
USE ZenonT(30)

(* What the provers know of sequences, as facts to cite.                   *)
LEMMA SeqShape ==
  ASSUME NEW S, NEW s \in Seq(S)
  PROVE  Len(s) \in Nat /\ DOMAIN s = 1 .. Len(s) /\ s \in [1 .. Len(s) -> S]
BY SMTT(60)

(* Only the empty list has length 0.                                       *)
LEMMA SeqEmpty == ASSUME NEW S, NEW s \in Seq(S) PROVE s = <<>> <=> Len(s) = 0
BY SMTT(60)

(* An element of a list over S is in S.                                    *)
LEMMA SeqElement ==
  ASSUME NEW S, NEW s \in Seq(S), NEW i \in 1 .. Len(s) PROVE s[i] \in S
BY SMTT(60)

(* The first element of a list and the rest.                               *)
LEMMA SeqHeadTail ==
  ASSUME NEW S, NEW s \in Seq(S), s # <<>>
  PROVE  /\ Head(s) = s[1] /\ Head(s) \in S
         /\ Tail(s) \in Seq(S) /\ Len(Tail(s)) = Len(s) - 1
         /\ \A i \in 1 .. Len(Tail(s)) : Tail(s)[i] = s[i + 1]
BY SMTT(60)

(* One element is put at the end.                                          *)
LEMMA SeqAppend ==
  ASSUME NEW S, NEW s \in Seq(S), NEW e \in S
  PROVE  /\ Append(s, e) \in Seq(S) /\ Len(Append(s, e)) = Len(s) + 1
         /\ \A i \in 1 .. Len(s) : Append(s, e)[i] = s[i]
         /\ Append(s, e)[Len(s) + 1] = e
BY SMTT(60)

(* Two lists one after the other.                                          *)
LEMMA SeqConcat ==
  ASSUME NEW S, NEW a \in Seq(S), NEW b \in Seq(S)
  PROVE  /\ a \o b \in Seq(S) /\ Len(a \o b) = Len(a) + Len(b)
         /\ \A i \in 1 .. Len(a) + Len(b) :
              (a \o b)[i] = IF i <= Len(a) THEN a[i] ELSE b[i - Len(a)]
BY SMTT(60)

(* A function on 1 .. n is a list.                                         *)
LEMMA SeqOfFunction ==
  ASSUME NEW S, NEW n \in Nat, NEW s \in [1 .. n -> S] PROVE s \in Seq(S)
BY SMTT(60)

(* To append is to concatenate a list of one.                              *)
LEMMA SeqAppended ==
  ASSUME NEW S, NEW s \in Seq(S), NEW e \in S PROVE Append(s, e) = s \o <<e>>
BY SMTT(60)

(* The empty list adds nothing.                                            *)
LEMMA SeqNothing == ASSUME NEW S, NEW s \in Seq(S) PROVE s \o <<>> = s /\ <<>> \o s = s
BY SMTT(60)

(* A listing of a set is a list of its elements, all of them.              *)
LEMMA ListingIsList ==
  ASSUME NEW S, NEW f \in Listings(S)
  PROVE  /\ \E n \in Nat : f \in [1 .. n -> S]
         /\ \A k \in S : \E i \in DOMAIN f : f[i] = k
<1>1. PICK n \in 0 .. Cardinality(S) : f \in [1 .. n -> S] BY DEF Listings
<1>2. n \in Nat BY SMTT(60), <1>1
<1>3. QED BY <1>1, <1>2 DEF Listings

(* The elements at the positions in K, taken in their order.               *)
LEMMA AlongElems ==
  ASSUME NEW S, NEW m \in Nat, NEW K \in SUBSET (1 .. m), NEW f \in Ascending(K),
         NEW s, \A k \in K : s[k] \in S
  PROVE  /\ Along(s, f) \in Seq(S)
         /\ Elems(Along(s, f)) = Image(s, K)
         /\ Distinct(s, K) => NoDuplicates(Along(s, f))
<1>1. f \in Listings(K) /\ \A i, j \in DOMAIN f : i < j => f[i] < f[j] BY DEF Ascending
<1>2. PICK n \in Nat : f \in [1 .. n -> K] BY <1>1, ListingIsList
<1> DEFINE r == Along(s, f)
<1>3. /\ f \in [1 .. n -> K]
      /\ \A k \in K : \E i \in DOMAIN f : f[i] = k
      /\ \A i, j \in DOMAIN f : i < j => f[i] < f[j]
  BY <1>1, <1>2 DEF Listings
<1>4. DOMAIN r = 1 .. n /\ \A i \in 1 .. n : r[i] = s[f[i]] BY <1>3 DEF Along
<1>5. r \in [1 .. n -> S] BY <1>3, <1>4 DEF Along
<1>6. r \in Seq(S) BY <1>2, <1>5, SeqOfFunction
<1> HIDE DEF r
<1>7. Elems(r) = Image(s, K)
  <2>1. \A i \in DOMAIN r : f[i] \in K /\ r[i] = s[f[i]] BY <1>3, <1>4
  <2>2. \A k \in K : \E i \in DOMAIN r : r[i] = s[k] BY SMTT(60), <1>3, <1>4
  <2>3. \A i \in DOMAIN r : r[i] \in Image(s, K) BY <2>1 DEF Image
  <2>4. \A k \in K : s[k] \in Elems(r) BY <2>2 DEF Elems
  <2>5. Elems(r) \subseteq Image(s, K) BY <2>3 DEF Elems
  <2>6. Image(s, K) \subseteq Elems(r) BY <2>4 DEF Image
  <2>7. QED BY <2>5, <2>6
<1>8. ASSUME Distinct(s, K) PROVE NoDuplicates(r)
  <2>1. ASSUME NEW i \in DOMAIN r, NEW j \in DOMAIN r, r[i] = r[j] PROVE i = j
    <3>0. f[i] \in K /\ f[j] \in K /\ s[f[i]] = s[f[j]] BY <1>3, <1>4, <2>1
    <3>1. f[i] = f[j] /\ f[i] \in 1 .. m /\ f[j] \in 1 .. m
      BY <1>8, <3>0 DEF Distinct
    <3>2. ~(i < j) /\ ~(j < i) BY SMTT(60), <1>3, <1>4, <3>1
    <3>3. QED BY SMTT(60), <1>2, <1>4, <3>2
  <2>2. QED BY <2>1 DEF NoDuplicates
<1>9. QED BY <1>6, <1>7, <1>8 DEF r

(* The elements of two lists one after the other.                          *)
LEMMA ConcatElems ==
  ASSUME NEW S, NEW a \in Seq(S), NEW b \in Seq(S)
  PROVE  /\ a \o b \in Seq(S)
         /\ Elems(a \o b) = Elems(a) \cup Elems(b)
         /\ NoDuplicates(a) /\ NoDuplicates(b) /\ Elems(a) \cap Elems(b) = {}
              => NoDuplicates(a \o b)
<1> DEFINE r == a \o b
<1>1. /\ Len(a) \in Nat /\ DOMAIN a = 1 .. Len(a)
      /\ Len(b) \in Nat /\ DOMAIN b = 1 .. Len(b)
  BY SeqShape
<1>2. /\ r \in Seq(S) /\ Len(r) = Len(a) + Len(b)
      /\ \A i \in 1 .. Len(a) + Len(b) : r[i] = IF i <= Len(a) THEN a[i] ELSE b[i - Len(a)]
  BY SeqConcat
<1>3. DOMAIN r = 1 .. Len(a) + Len(b) BY <1>2, SeqShape
<1> HIDE DEF r
<1>4. \A i \in DOMAIN a : i \in DOMAIN r /\ r[i] = a[i] BY SMTT(60), <1>1, <1>2, <1>3
<1>5. \A i \in DOMAIN b : i + Len(a) \in DOMAIN r /\ r[i + Len(a)] = b[i]
  BY SMTT(60), <1>1, <1>2, <1>3
<1>6. \A i \in DOMAIN r : \/ i \in DOMAIN a /\ r[i] = a[i]
                          \/ i - Len(a) \in DOMAIN b /\ r[i] = b[i - Len(a)]
  BY SMTT(60), <1>1, <1>2, <1>3
<1>7. Elems(r) = Elems(a) \cup Elems(b)
  <2>1. Elems(r) \subseteq Elems(a) \cup Elems(b) BY <1>6 DEF Elems
  <2>2. Elems(a) \subseteq Elems(r) BY <1>4 DEF Elems
  <2>3. Elems(b) \subseteq Elems(r) BY <1>5 DEF Elems
  <2>4. QED BY <2>1, <2>2, <2>3
<1>8. ASSUME NoDuplicates(a), NoDuplicates(b), Elems(a) \cap Elems(b) = {}
      PROVE  NoDuplicates(r)
  <2>1. \A i \in DOMAIN a, j \in DOMAIN b : a[i] # b[j] BY <1>8 DEF Elems
  <2>2. ASSUME NEW i \in DOMAIN r, NEW j \in DOMAIN r, r[i] = r[j] PROVE i = j
    BY SMTT(60), <1>1, <1>3, <1>6, <1>8, <2>1, <2>2 DEF NoDuplicates
  <2>3. QED BY <2>2 DEF NoDuplicates
<1>9. QED BY <1>2, <1>7, <1>8 DEF r

(* The elements of a list are its head and those of the rest.              *)
LEMMA HeadElems ==
  ASSUME NEW S, NEW s \in Seq(S), s # <<>>
  PROVE  /\ Head(s) \in S /\ Tail(s) \in Seq(S)
         /\ Elems(s) = {Head(s)} \cup Elems(Tail(s))
         /\ NoDuplicates(s) => NoDuplicates(Tail(s)) /\ Head(s) \notin Elems(Tail(s))
<1> DEFINE r == Tail(s)
<1>1. Len(s) \in Nat \ {0} /\ DOMAIN s = 1 .. Len(s) BY SMTT(60), SeqShape, SeqEmpty
<1>2. /\ Head(s) = s[1] /\ Head(s) \in S /\ r \in Seq(S) /\ Len(r) = Len(s) - 1
      /\ \A i \in 1 .. Len(r) : r[i] = s[i + 1]
  BY SeqHeadTail
<1>3. DOMAIN r = 1 .. Len(s) - 1 BY <1>2, SeqShape
<1> HIDE DEF r
<1>4. \A i \in DOMAIN r : i + 1 \in DOMAIN s /\ i + 1 # 1 /\ r[i] = s[i + 1]
  BY SMTT(60), <1>1, <1>2, <1>3
<1>5. \A i \in DOMAIN s : i = 1 \/ (i - 1 \in DOMAIN r /\ s[i] = r[i - 1])
  BY SMTT(60), <1>1, <1>2, <1>3
<1>6. 1 \in DOMAIN s BY SMTT(60), <1>1
<1>7. Elems(s) = {s[1]} \cup Elems(r)
  <2>1. Elems(s) \subseteq {s[1]} \cup Elems(r) BY SMTT(60), <1>5 DEF Elems
  <2>2. Elems(r) \subseteq Elems(s) BY <1>4 DEF Elems
  <2>3. s[1] \in Elems(s) BY <1>6 DEF Elems
  <2>4. QED BY <2>1, <2>2, <2>3
<1>8. ASSUME NoDuplicates(s) PROVE NoDuplicates(r) /\ s[1] \notin Elems(r)
  <2>1. \A i, j \in DOMAIN r : r[i] = r[j] => i = j
    BY SMTT(60), <1>1, <1>3, <1>4, <1>8 DEF NoDuplicates
  <2>2. \A i \in DOMAIN r : r[i] # s[1] BY <1>4, <1>6, <1>8 DEF NoDuplicates
  <2>3. QED BY <2>1, <2>2 DEF NoDuplicates, Elems
<1>9. QED BY <1>2, <1>7, <1>8 DEF r

-----------------------------------------------------------------------------
(* What the operations on the run queues do to the set of linked tasks.    *)
LEMMA AppendElems ==
  ASSUME NEW S, NEW s \in Seq(S), NEW x \in S
  PROVE  /\ Append(s, x) \in Seq(S) /\ Append(s, x) # <<>>
         /\ Elems(Append(s, x)) = Elems(s) \cup {x}
         /\ NoDuplicates(s) /\ x \notin Elems(s) => NoDuplicates(Append(s, x))
<1>1. Append(s, x) = s \o <<x>> /\ Append(s, x) # <<>>
  BY SMTT(60), SeqAppended, SeqAppend
<1> DEFINE b == <<x>>
<1>2. b \in Seq(S) /\ Elems(b) = {x} /\ NoDuplicates(b)
  BY SMTT(60) DEF Elems, NoDuplicates
<1>3. Append(s, x) = s \o b BY <1>1
<1> HIDE DEF b
<1>4. /\ s \o b \in Seq(S) /\ Elems(s \o b) = Elems(s) \cup Elems(b)
      /\ NoDuplicates(s) /\ NoDuplicates(b) /\ Elems(s) \cap Elems(b) = {}
           => NoDuplicates(s \o b)
  BY SMTT(60), <1>2, ConcatElems
<1>5. QED BY <1>1, <1>2, <1>3, <1>4

(* The scheduler's enqueue links the task, in the list of its kind.        *)
LEMMA PushLinks ==
  ASSUME NEW q \in RunQueues, NEW t \in Tasks
  PROVE  /\ Push(q, t) \in RunQueues /\ ~Empty(Push(q, t))
         /\ Linked(Push(q, t)) = Linked(q) \cup {t}
         /\ Elems(q.realtime) \subseteq env.realtime
              => Elems(Push(q, t).realtime) \subseteq env.realtime
         /\ Elems(q.realtime) \subseteq Elems(Push(q, t).realtime)
         /\ Push(q, t).realtime = <<>> => q.realtime = <<>>
         /\ env.realtime = {} => Push(q, t).realtime = q.realtime
         /\ NoDuplicates(q.normal) /\ t \notin Elems(q.normal)
              => NoDuplicates(Push(q, t).normal)
<1>1. q.realtime \in Seq(Tasks) /\ q.normal \in Seq(Tasks) BY DEF RunQueues
<1>2. CASE t \in env.realtime
  <2>1. Push(q, t) = [realtime |-> Append(q.realtime, t), normal |-> q.normal]
    BY <1>2 DEF Push, RunQueues
  <2>2. /\ Append(q.realtime, t) \in Seq(Tasks) /\ Append(q.realtime, t) # <<>>
        /\ Elems(Append(q.realtime, t)) = Elems(q.realtime) \cup {t}
    BY SMTT(60), <1>1, AppendElems
  <2>3. QED BY SMTT(60), <1>1, <1>2, <2>1, <2>2 DEF RunQueues, Empty, Linked
<1>3. CASE t \notin env.realtime
  <2>1. Push(q, t) = [realtime |-> q.realtime, normal |-> Append(q.normal, t)]
    BY <1>3 DEF Push, RunQueues
  <2>2. /\ Append(q.normal, t) \in Seq(Tasks) /\ Append(q.normal, t) # <<>>
        /\ Elems(Append(q.normal, t)) = Elems(q.normal) \cup {t}
        /\ NoDuplicates(q.normal) /\ t \notin Elems(q.normal)
             => NoDuplicates(Append(q.normal, t))
    BY <1>1, AppendElems
  <2>3. QED BY SMTT(60), <1>1, <1>3, <2>1, <2>2 DEF RunQueues, Empty, Linked
<1>4. QED BY <1>2, <1>3

(* Where the real-time queue is empty, the linked tasks are the normal ones. *)
LEMMA OnlyNormal ==
  ASSUME NEW q, q.realtime = <<>> PROVE Linked(q) = Elems(q.normal)
BY SMTT(60) DEF Linked, Elems

(* What fetch_next_task takes from the queues.                             *)
LEMMA PopLinks ==
  ASSUME NEW q \in RunQueues, ~Empty(q)
  PROVE  /\ First(q) \in Tasks /\ Pop(q) \in RunQueues
         /\ Linked(q) = {First(q)} \cup Linked(Pop(q))
         /\ Elems(Pop(q).realtime) \subseteq Elems(q.realtime)
         /\ Elems(q.realtime) \subseteq {First(q)} \cup Elems(Pop(q).realtime)
         /\ q.realtime # <<>> => First(q) \in Elems(q.realtime)
         /\ q.realtime = <<>> =>
              /\ Pop(q).realtime = <<>>
              /\ NoDuplicates(q.normal) => /\ NoDuplicates(Pop(q).normal)
                                           /\ First(q) \notin Elems(Pop(q).normal)
<1>1. q.realtime \in Seq(Tasks) /\ q.normal \in Seq(Tasks) BY DEF RunQueues
<1>2. CASE q.realtime # <<>>
  <2>1. /\ Pop(q) = [realtime |-> Tail(q.realtime), normal |-> q.normal]
        /\ First(q) = Head(q.realtime)
    BY <1>2 DEF Pop, First, RealTimeServed, RunQueues
  <2>2. /\ Head(q.realtime) \in Tasks /\ Tail(q.realtime) \in Seq(Tasks)
        /\ Elems(q.realtime) = {Head(q.realtime)} \cup Elems(Tail(q.realtime))
    BY <1>1, <1>2, HeadElems
  <2>3. QED BY SMTT(60), <1>1, <1>2, <2>1, <2>2 DEF RunQueues, Linked
<1>3. CASE q.realtime = <<>>
  <2>1. /\ Pop(q) = [realtime |-> q.realtime, normal |-> Tail(q.normal)]
        /\ First(q) = Head(q.normal) /\ q.normal # <<>>
    BY <1>3 DEF Pop, First, RealTimeServed, RunQueues, Empty
  <2>2. /\ Head(q.normal) \in Tasks /\ Tail(q.normal) \in Seq(Tasks)
        /\ Elems(q.normal) = {Head(q.normal)} \cup Elems(Tail(q.normal))
        /\ NoDuplicates(q.normal) => /\ NoDuplicates(Tail(q.normal))
                                     /\ Head(q.normal) \notin Elems(Tail(q.normal))
    BY <1>1, <2>1, HeadElems
  <2>3. QED BY SMTT(60), <1>1, <1>3, <2>1, <2>2 DEF RunQueues, Linked
<1>4. QED BY <1>2, <1>3

(* Waking a list of waiters links the tasks of those not yet woken.        *)
LEMMA WakeUpLinks ==
  ASSUME rq \in RunQueues, NEW ws \in Seq(Waiters), WakeUp(ws)
  PROVE  /\ woken' = woken \cup Elems(ws) /\ Elems(ws) \subseteq Waiters
         /\ rq' \in RunQueues
         /\ Elems(rq.realtime) \subseteq env.realtime => Elems(rq'.realtime) \subseteq env.realtime
         /\ Elems(rq.realtime) \subseteq Elems(rq'.realtime)
         /\ \/ broken' = "linked"
            \/ /\ broken' = broken
               /\ Linked(rq') = Linked(rq) \cup {w[1] : w \in Elems(ws) \ woken}
<1> DEFINE ts == [i \in DOMAIN ws |-> ws[i][1]]
           K == {i \in DOMAIN ws : ws[i] \notin woken}
           RT == {i \in K : ts[i] \in env.realtime}
           NT == {i \in K : ts[i] \notin env.realtime}
<1>1. /\ Len(ws) \in Nat /\ DOMAIN ws = 1 .. Len(ws)
      /\ \A i \in DOMAIN ws : ws[i] \in Waiters
  BY SeqShape, SeqElement
<1>2. \A i \in DOMAIN ws : ts[i] \in Tasks /\ ts[i] = ws[i][1] BY <1>1 DEF Waiters
<1>3. Elems(ws) \subseteq Waiters BY <1>1 DEF Elems
<1>4. woken' = woken \cup Elems(ws) /\ AddTasks(ts, K) BY DEF WakeUp
<1>5. K \in SUBSET (1 .. Len(ws)) BY <1>1
<1>6. RT \in SUBSET (1 .. Len(ws)) /\ NT \in SUBSET (1 .. Len(ws)) BY <1>5
<1>7. Image(ts, K) = {w[1] : w \in Elems(ws) \ woken} BY <1>2 DEF Elems, Image
<1>8. /\ \A i \in RT : ts[i] \in Tasks /\ ts[i] \in env.realtime
      /\ \A i \in NT : ts[i] \in Tasks /\ ts[i] \notin env.realtime
      /\ Image(ts, K) = Image(ts, RT) \cup Image(ts, NT)
  BY <1>2 DEF Image
<1>9. rq.realtime \in Seq(Tasks) /\ rq.normal \in Seq(Tasks) BY DEF RunQueues
<1> HIDE DEF ts, K, RT, NT
<1>10. CASE broken' = "linked" /\ rq' = rq
  BY <1>3, <1>4, <1>10
<1>11. CASE /\ broken' = broken
            /\ \E r \in Ascending(RT), n \in Ascending(NT) :
                 rq' = [realtime |-> rq.realtime \o Along(ts, r),
                        normal |-> rq.normal \o Along(ts, n)]
  <2>1. PICK r \in Ascending(RT), n \in Ascending(NT) :
          rq' = [realtime |-> rq.realtime \o Along(ts, r),
                 normal |-> rq.normal \o Along(ts, n)]
    BY <1>11
  <2>2. Along(ts, r) \in Seq(Tasks) /\ Elems(Along(ts, r)) = Image(ts, RT)
    <3>1. \A k \in RT : ts[k] \in Tasks BY <1>8
    <3>2. Len(ws) \in Nat BY <1>1
    <3>3. QED BY ZenonT(60), <1>6, <3>1, <3>2, AlongElems
  <2>3. Along(ts, n) \in Seq(Tasks) /\ Elems(Along(ts, n)) = Image(ts, NT)
    <3>1. \A k \in NT : ts[k] \in Tasks BY <1>8
    <3>2. Len(ws) \in Nat BY <1>1
    <3>3. QED BY ZenonT(60), <1>6, <3>1, <3>2, AlongElems
  <2>4. /\ rq'.realtime \in Seq(Tasks)
        /\ Elems(rq'.realtime) = Elems(rq.realtime) \cup Image(ts, RT)
    BY SMTT(60), <1>9, <2>1, <2>2, ConcatElems
  <2>5. /\ rq'.normal \in Seq(Tasks)
        /\ Elems(rq'.normal) = Elems(rq.normal) \cup Image(ts, NT)
    BY SMTT(60), <1>9, <2>1, <2>3, ConcatElems
  <2>6. rq' \in RunQueues BY <2>1, <2>4, <2>5 DEF RunQueues
  <2>7. Linked(rq') = Linked(rq) \cup {w[1] : w \in Elems(ws) \ woken}
    BY <1>7, <1>8, <2>4, <2>5 DEF Linked
  <2>8. Elems(rq.realtime) \subseteq env.realtime => Elems(rq'.realtime) \subseteq env.realtime
    BY <1>8, <2>4 DEF Image
  <2>9. QED BY <1>3, <1>4, <1>11, <2>4, <2>6, <2>7, <2>8
<1>12. QED BY <1>4, <1>10, <1>11 DEF AddTasks, RT, NT

(* Waking sleepers that are linked nowhere does not panic.                 *)
LEMMA WakeUpSafe ==
  ASSUME rq \in RunQueues, NEW ws \in Seq(Waiters), WakeUp(ws),
         env.realtime = {}, rq.realtime = <<>>, NoDuplicates(rq.normal),
         \A i, j \in DOMAIN ws : ws[i][1] = ws[j][1] => i = j,
         \A i \in DOMAIN ws : ws[i] \notin woken => ws[i][1] \notin Elems(rq.normal)
  PROVE  broken' = broken /\ rq'.realtime = <<>> /\ NoDuplicates(rq'.normal)
<1> DEFINE ts == [i \in DOMAIN ws |-> ws[i][1]]
           K == {i \in DOMAIN ws : ws[i] \notin woken}
<1>1. /\ Len(ws) \in Nat /\ DOMAIN ws = 1 .. Len(ws)
      /\ \A i \in DOMAIN ws : ws[i] \in Waiters
  BY SMTT(60), SeqShape, SeqElement
<1>2. /\ K \in SUBSET (1 .. Len(ws))
      /\ \A i \in K : ts[i] \in Tasks /\ ts[i] \notin Elems(rq.normal)
      /\ \A i, j \in K : ts[i] = ts[j] => i = j
  BY <1>1 DEF Waiters
<1>3. AddTasks(ts, K) BY DEF WakeUp
<1>4. {i \in K : ts[i] \in env.realtime} = {} /\ {i \in K : ts[i] \notin env.realtime} = K
  OBVIOUS
<1>5. Linked(rq) = Elems(rq.normal) BY SMTT(60) DEF Linked, Elems
<1> HIDE DEF ts, K
<1>6. ~(\E i \in K : ts[i] \in Linked(rq) \/ \E j \in K : j < i /\ ts[j] = ts[i])
  <2>1. \A i \in K : ts[i] \notin Linked(rq) BY <1>2, <1>5
  <2>2. \A i \in K : i \in Nat BY ONLY SMTT(60), <1>1, <1>2
  <2>3. \A i \in Nat : ~(i < i) BY ONLY SMTT(60)
  <2>4. \A i, j \in K : j < i => ts[j] # ts[i] BY <1>2, <2>2, <2>3
  <2>5. QED BY <2>1, <2>4
<1>7. /\ broken' = broken
      /\ \E r \in Ascending({}), n \in Ascending(K) :
           rq' = [realtime |-> rq.realtime \o Along(ts, r),
                  normal |-> rq.normal \o Along(ts, n)]
  BY <1>3, <1>4, <1>6 DEF AddTasks
<1>8. PICK r \in Ascending({}), n \in Ascending(K) :
        rq' = [realtime |-> rq.realtime \o Along(ts, r),
               normal |-> rq.normal \o Along(ts, n)]
  BY <1>7
<1>9. Along(ts, r) = <<>>
  <2>1. 0 \in Nat /\ {} \in SUBSET (1 .. 0) /\ \A k \in {} : ts[k] \in Tasks OBVIOUS
  <2>2. Along(ts, r) \in Seq(Tasks) /\ Elems(Along(ts, r)) = Image(ts, {})
    BY <2>1, AlongElems
  <2>3. Elems(Along(ts, r)) = {} BY <2>2 DEF Image
  <2> DEFINE a == Along(ts, r)
  <2> HIDE DEF a
  <2>4. a \in Seq(Tasks) /\ Elems(a) = {} BY <2>2, <2>3 DEF a
  <2>5. a # <<>> => Elems(a) = {Head(a)} \cup Elems(Tail(a)) BY <2>4, HeadElems
  <2>6. a = <<>> BY <2>4, <2>5
  <2>7. QED BY <2>6 DEF a
<1>10. /\ Along(ts, n) \in Seq(Tasks) /\ Elems(Along(ts, n)) = Image(ts, K)
       /\ NoDuplicates(Along(ts, n))
  <2>1. \A k \in K : ts[k] \in Tasks BY <1>2
  <2>2. Len(ws) \in Nat /\ K \in SUBSET (1 .. Len(ws)) BY <1>1, <1>2
  <2>3. Distinct(ts, K) BY <1>2 DEF Distinct
  <2>4. n \in Ascending(K) OBVIOUS
  <2>5. QED BY ONLY ZenonT(60), <2>1, <2>2, <2>3, <2>4, AlongElems
<1>11. Elems(rq.normal) \cap Image(ts, K) = {}
  <2>1. ASSUME NEW x \in Image(ts, K) PROVE x \notin Elems(rq.normal) BY <1>2 DEF Image
  <2>2. QED BY <2>1
<1>12. rq.normal \in Seq(Tasks) BY DEF RunQueues
<1>13. NoDuplicates(rq.normal \o Along(ts, n)) BY <1>10, <1>11, <1>12, ConcatElems
<1>14. rq.realtime \o <<>> = <<>> BY SMTT(60), SeqNothing
<1>15. QED BY <1>7, <1>8, <1>9, <1>13, <1>14

-----------------------------------------------------------------------------
(* The steps.                                                              *)
LEMMA OwnStepLeaves ==
  ASSUME TypeOK, NEW t \in Tasks, OwnStep(t)
  PROVE  /\ current = t /\ fetched = NoTask /\ UNCHANGED <<current, fetched, rq, broken, passed>>
         /\ tick' = tick
         /\ \A u \in Tasks \ {t} : /\ pc'[u] = pc[u] /\ status'[u] = status[u]
                                   /\ nth'[u] = nth[u] /\ timeout'[u] = timeout[u]
<1> USE DEF TypeOK, At, Goto, timerVars, waitVars
<1>1. CASE Exit(t) BY <1>1 DEF Exit
<1>2. CASE \E d \in env.timeouts : DoWait(t, d) BY <1>2 DEF DoWait
<1>3. CASE Enqueue(t) BY <1>3 DEF Enqueue
<1>4. CASE AddTimeoutList(t) BY <1>4 DEF AddTimeoutList
<1>5. CASE CheckCond(t) BY <1>5 DEF CheckCond
<1>6. CASE Dequeue(t) BY <1>6 DEF Dequeue
<1>7. CASE Cancel(t) BY <1>7 DEF Cancel
<1>8. CASE CheckExpired(t) BY <1>8 DEF CheckExpired
<1>9. CASE LastCond(t) BY <1>9 DEF LastCond
<1>10. CASE WaitSleep(t) BY <1>10 DEF WaitSleep
<1>11. CASE WaitAwake(t) BY <1>11 DEF WaitAwake
<1>12. CASE WaitReset(t) BY <1>12 DEF WaitReset
<1>13. CASE WaitTest(t) BY <1>13 DEF WaitTest
<1>14. QED
  BY <1>1, <1>2, <1>3, <1>4, <1>5, <1>6, <1>7, <1>8, <1>9, <1>10, <1>11, <1>12, <1>13
  DEF OwnStep

(* enqueue adds the waiter of the task to the queue.                       *)
LEMMA EnqueueElems ==
  ASSUME TypeOK, QueueFits, NEW t \in Tasks, Enqueue(t)
  PROVE  /\ waiters' \in Seq(Waiters) /\ NoDuplicates(waiters')
         /\ Elems(waiters') = Elems(waiters) \cup {Own(t)}
<1> DEFINE a == <<Own(t)>>
<1>1. Own(t) \in Waiters BY DEF TypeOK, Waiters, Own
<1>2. a \in Seq(Waiters) /\ Elems(a) = {Own(t)} /\ NoDuplicates(a)
  BY SMTT(60), <1>1 DEF Elems, NoDuplicates
<1>3. waiters' = a \o waiters /\ pc[t] = "enqueue" BY DEF Enqueue, At
<1>4. Own(t) \notin Elems(waiters) BY <1>3 DEF QueueFits, Own, Inside
<1>5. waiters \in Seq(Waiters) /\ NoDuplicates(waiters) BY DEF TypeOK, QueueFits
<1> HIDE DEF a
<1>6. Elems(a) \cap Elems(waiters) = {} BY <1>2, <1>4
<1>7. QED BY ONLY SMTT(60), <1>2, <1>3, <1>5, <1>6, ConcatElems

(* dequeue takes the waiter of the task out of the queue, and no other.    *)
LEMMA DequeueElems ==
  ASSUME TypeOK, QueueFits, NEW t \in Tasks, Dequeue(t)
  PROVE  /\ waiters' \in Seq(Waiters) /\ NoDuplicates(waiters')
         /\ Elems(waiters') = Elems(waiters) \ {Own(t)}
<1> DEFINE K == {i \in DOMAIN waiters : waiters[i] # Own(t)}
<1>1. waiters \in Seq(Waiters) /\ NoDuplicates(waiters) BY DEF TypeOK, QueueFits
<1>2. /\ Len(waiters) \in Nat /\ DOMAIN waiters = 1 .. Len(waiters)
      /\ \A i \in DOMAIN waiters : waiters[i] \in Waiters
  BY <1>1, SeqShape, SeqElement
<1>3. /\ K \in SUBSET (1 .. Len(waiters)) /\ \A i \in K : waiters[i] \in Waiters
      /\ Distinct(waiters, K)
  BY <1>1, <1>2 DEF NoDuplicates, Distinct
<1>4. PICK f \in Ascending(K) : waiters' = Along(waiters, f) BY DEF Dequeue
<1>5. Image(waiters, K) = Elems(waiters) \ {Own(t)} BY DEF Image, Elems
<1> HIDE DEF K
<1>6. f \in Ascending(K) OBVIOUS
<1>7. /\ Along(waiters, f) \in Seq(Waiters)
      /\ Elems(Along(waiters, f)) = Image(waiters, K)
      /\ NoDuplicates(Along(waiters, f))
  <2>1. Len(waiters) \in Nat BY <1>2
  <2>2. QED BY ONLY ZenonT(60), <2>1, <1>3, <1>6, AlongElems
<1>8. QED BY <1>4, <1>5, <1>7

(* wake_one and wake_all wake waiters of the queue; wake_all all of them.  *)
LEMMA WakeSeq ==
  ASSUME TypeOK, Wake
  PROVE  \E ws \in Seq(Waiters) :
           /\ WakeUp(ws) /\ Elems(ws) \subseteq Elems(waiters)
           /\ "one" \notin env.wakes => Elems(ws) = Elems(waiters)
           /\ NoDuplicates(waiters) => NoDuplicates(ws)
<1>1. waiters \in Seq(Waiters) BY DEF TypeOK
<1>2. CASE WakeAll BY <1>1, <1>2 DEF WakeAll
<1>3. CASE "one" \in env.wakes /\ WakeOne
  <2>1. CASE waiters = <<>>
    <3>1. WakeUp(waiters) BY <1>3, <2>1 DEF WakeOne
    <3>2. QED BY <1>1, <3>1
  <2>2. CASE waiters # <<>>
    <3>1. Head(waiters) \in Waiters /\ Head(waiters) \in Elems(waiters)
      BY SMTT(60), <1>1, <2>2, HeadElems
    <3>2. /\ <<Head(waiters)>> \in Seq(Waiters) /\ NoDuplicates(<<Head(waiters)>>)
          /\ Elems(<<Head(waiters)>>) = {Head(waiters)}
      BY SMTT(60), <3>1 DEF Elems, NoDuplicates
    <3>3. WakeUp(<<Head(waiters)>>) BY <1>3, <2>2 DEF WakeOne
    <3>4. QED BY <1>3, <3>1, <3>2, <3>3
  <2>3. QED BY <2>1, <2>2
<1>4. QED BY <1>2, <1>3 DEF Wake

Due == {c \in timers : c.waiter \notin cancelled /\ c.expire <= tick}

(* The timer interrupt wakes the waiters of all the timers that are due.   *)
LEMMA TimerSeq ==
  ASSUME TypeOK, TimerCallback
  PROVE  \E ws \in Seq(Waiters) :
           WakeUp(ws) /\ \A c \in Due : c.waiter \in Elems(ws)
<1>1. PICK order \in Listings(Due) : WakeUp([i \in DOMAIN order |-> order[i].waiter])
  BY DEF TimerCallback, Due
<1>2. PICK n \in Nat : order \in [1 .. n -> Due] BY <1>1, ListingIsList
<1>3. \A c \in Due : \E i \in DOMAIN order : order[i] = c BY <1>1, ListingIsList
<1> DEFINE ws == [i \in DOMAIN order |-> order[i].waiter]
<1>4. \A c \in Due : c.waiter \in Waiters BY DEF TypeOK, Due
<1>5. ws \in [1 .. n -> Waiters] BY <1>2, <1>4
<1>6. ws \in Seq(Waiters) BY <1>5, SeqOfFunction
<1>7. \A c \in Due : c.waiter \in Elems(ws) BY <1>3 DEF Elems
<1>8. WakeUp(ws) BY <1>1
<1> HIDE DEF ws
<1>9. QED BY <1>6, <1>7, <1>8

(* switch_to_task links the task it leaves when that one can still run.    *)
LEMMA SwitchLinks ==
  ASSUME TypeOK, broken = "no", NEW t \in Tasks, SwitchToTask(t)
  PROVE  /\ t = current /\ fetched \in Tasks
         /\ rq' \in RunQueues
         /\ Elems(rq.realtime) \subseteq Elems(rq'.realtime)
         /\ Elems(rq.realtime) \subseteq env.realtime => Elems(rq'.realtime) \subseteq env.realtime
         /\ \/ broken' = "linked" /\ UNCHANGED <<current, fetched, rq, passed>>
            \/ /\ current' = fetched /\ fetched' = NoTask
               /\ broken' = IF fetched = t THEN "self" ELSE "no"
               /\ Linked(rq') = Linked(rq) \cup (IF status[t] = "Runnable" THEN {t} ELSE {})
               /\ passed' = passed \/ passed' = Elems(rq'.realtime)
<1>0. rq \in RunQueues /\ t = current /\ fetched \in Tasks BY DEF TypeOK, SwitchToTask
<1>1. CASE status[t] = "Runnable" /\ t \in Linked(rq)
  BY <1>0, <1>1 DEF SwitchToTask
<1>2. CASE ~(status[t] = "Runnable" /\ t \in Linked(rq))
  <2>1. /\ rq' = IF status[t] = "Runnable" THEN Push(rq, t) ELSE rq
        /\ current' = fetched /\ fetched' = NoTask
        /\ broken' = IF fetched = t THEN "self" ELSE "no"
        /\ passed' = passed \/ passed' = Elems(rq'.realtime)
    BY <1>2 DEF SwitchToTask
  <2>2. CASE status[t] = "Runnable" BY <1>0, <2>1, <2>2, PushLinks
  <2>3. CASE status[t] # "Runnable" BY <1>0, <2>1, <2>3
  <2>4. QED BY <2>2, <2>3
<1>3. QED BY <1>1, <1>2

(* Every step keeps the types.                                             *)
LEMMA TypeKept ==
  ASSUME TypeOK, QueueFits, TimersFit, broken = "no", Next
  PROVE  TypeOK'
<1>0. env' = env BY DEF Next
<1> USE TaskAssumption, <1>0
<1>1. ASSUME NEW t \in Tasks, Exit(t) PROVE TypeOK'
  BY <1>1 DEF TypeOK, Exit, At, Goto, PCs, waitVars, timerVars
<1>2. ASSUME NEW t \in Tasks, NEW d \in env.timeouts, DoWait(t, d) PROVE TypeOK'
  <2>1. CASE ready > 0 BY SMTT(60), <1>2, <2>1 DEF TypeOK, DoWait, timerVars
  <2>2. CASE ~(ready > 0)
    <3>1. nth[t] + 1 \in 0 .. MaxWaits BY SMTT(60), <1>2 DEF TypeOK, DoWait
    <3>2. pc' \in [Tasks -> PCs] BY <1>2, <2>2 DEF TypeOK, DoWait, Goto, PCs
    <3>3. nth' \in [Tasks -> 0 .. MaxWaits] BY <1>2, <2>2, <3>1 DEF TypeOK, DoWait
    <3>4. timeout' \in [Tasks -> env.timeouts \cup {NoTimeout}]
      BY <1>2, <2>2 DEF TypeOK, DoWait
    <3>5. QED BY <1>2, <2>2, <3>2, <3>3, <3>4 DEF TypeOK, DoWait, timerVars
  <2>3. QED BY <2>1, <2>2
<1>3. ASSUME NEW t \in Tasks, Enqueue(t) PROVE TypeOK'
  BY <1>3, EnqueueElems DEF TypeOK, Enqueue, At, Goto, PCs, Own, timerVars
<1>4. ASSUME NEW t \in Tasks, AddTimeoutList(t) PROVE TypeOK'
  <2>1. Own(t) \in Waiters BY DEF TypeOK, Own, Waiters
  <2>2. timeout[t] \in Nat BY <1>4 DEF TypeOK, TimersFit, AddTimeoutList, At
  <2>3. [waiter |-> Own(t), expire |-> tick + timeout[t]] \in [waiter : Waiters, expire : Nat]
    BY SMTT(60), <2>1, <2>2 DEF TypeOK
  <2>4. pc' \in [Tasks -> PCs] BY <1>4 DEF TypeOK, AddTimeoutList, Goto, PCs
  <2>5. QED BY <1>4, <2>3, <2>4 DEF TypeOK, AddTimeoutList, waitVars
<1>5. ASSUME NEW t \in Tasks, CheckCond(t) PROVE TypeOK'
  <2>1. pc' \in [Tasks -> PCs] BY <1>5 DEF TypeOK, CheckCond, Goto, PCs
  <2>2. ready' \in 0 .. MaxReady BY SMTT(60), <1>5 DEF TypeOK, CheckCond
  <2>3. QED BY <1>5, <2>1, <2>2 DEF TypeOK, CheckCond, waitVars, timerVars
<1>6. ASSUME NEW t \in Tasks, Dequeue(t) PROVE TypeOK'
  BY <1>6, DequeueElems DEF TypeOK, Dequeue, At, Goto, PCs, Own, timerVars
<1>7. ASSUME NEW t \in Tasks, Cancel(t) PROVE TypeOK'
  BY SMTT(60), <1>7 DEF TypeOK, Cancel, At, Goto, PCs, Own, Waiters, waitVars
<1>8. ASSUME NEW t \in Tasks, CheckExpired(t) PROVE TypeOK'
  BY <1>8 DEF TypeOK, CheckExpired, At, Goto, PCs, waitVars, timerVars
<1>9. ASSUME NEW t \in Tasks, LastCond(t) PROVE TypeOK'
  BY SMTT(60), <1>9 DEF TypeOK, LastCond, At, Goto, PCs, waitVars, timerVars
<1>10. ASSUME NEW t \in Tasks, WaitSleep(t) PROVE TypeOK'
  BY <1>10 DEF TypeOK, WaitSleep, At, Goto, PCs, waitVars, timerVars
<1>11. ASSUME NEW t \in Tasks, WaitAwake(t) PROVE TypeOK'
  BY <1>11 DEF TypeOK, WaitAwake, At, Goto, PCs, waitVars, timerVars
<1>12. ASSUME NEW t \in Tasks, WaitReset(t) PROVE TypeOK'
  BY <1>12 DEF TypeOK, WaitReset, At, Goto, PCs, timerVars
<1>13. ASSUME NEW t \in Tasks, Fetch(t) PROVE TypeOK'
  <2>1. pc' \in [Tasks -> PCs]
    BY <1>13 DEF TypeOK, Fetch, At, Goto, PCs
  <2>2. rq' \in RunQueues /\ fetched' \in Tasks \cup {NoTask} /\ passed' \subseteq Tasks
    <3>1. CASE Empty(rq) BY <1>13, <3>1 DEF Fetch, TypeOK
    <3>2. CASE ~Empty(rq)
      <4>1. First(rq) \in Tasks /\ Pop(rq) \in RunQueues BY <3>2, PopLinks DEF TypeOK
      <4>2. QED BY <1>13, <3>2, <4>1 DEF Fetch, TypeOK
    <3>3. QED BY <3>1, <3>2
  <2>3. UNCHANGED <<current, status, waitVars, timerVars, ready, broken>> BY <1>13 DEF Fetch
  <2>4. QED BY <2>1, <2>2, <2>3 DEF TypeOK, waitVars, timerVars
<1>20. ASSUME NEW t \in Tasks, SwitchToTask(t) PROVE TypeOK'
  <2>1. /\ rq' \in RunQueues /\ current' \in Tasks /\ fetched' \in Tasks \cup {NoTask}
        /\ broken' \in {"no", "linked", "self"}
    BY <1>20, SwitchLinks DEF TypeOK
  <2>2. Elems(rq'.realtime) \subseteq Tasks
    <3>1. rq'.realtime \in Seq(Tasks) BY <2>1 DEF RunQueues
    <3>2. DOMAIN rq'.realtime = 1 .. Len(rq'.realtime) BY <3>1, SeqShape
    <3>3. \A i \in DOMAIN rq'.realtime : rq'.realtime[i] \in Tasks BY <3>1, <3>2, SeqElement
    <3>4. QED BY <3>3 DEF Elems
  <2>3. passed' \subseteq Tasks BY <1>20, <2>2, SwitchLinks DEF TypeOK
  <2>4. UNCHANGED <<status, pc, waitVars, timerVars, ready>> BY <1>20 DEF SwitchToTask
  <2>5. QED BY <2>1, <2>3, <2>4 DEF TypeOK, waitVars, timerVars
<1>14. ASSUME NEW t \in Tasks, NEW u \in Tasks, Run(t, u) PROVE TypeOK'
  <2>1. pc' \in [Tasks -> PCs]
    BY <1>14 DEF TypeOK, Run, At, Goto, PCs
  <2>2. rq' \in RunQueues BY <1>14, PushLinks DEF TypeOK, Run
  <2>3. QED BY <1>14, <2>1, <2>2 DEF TypeOK, Run, waitVars, timerVars
<1>21. ASSUME NEW t \in Tasks, WaitTest(t) PROVE TypeOK'
  BY <1>21 DEF TypeOK, WaitTest, At, Goto, PCs, waitVars, timerVars
<1>15. ASSUME NEW t \in Tasks, Preempt(t) PROVE TypeOK'
  <2>1. rq \in RunQueues /\ ~Empty(rq) BY <1>15 DEF Preempt, ShouldPreempt, Empty, TypeOK
  <2>2. Pop(rq) \in RunQueues BY <2>1, PopLinks
  <2>3. QED BY <1>15, <2>2 DEF TypeOK, Preempt, waitVars, timerVars
<1>16. ASSUME NEW t \in Tasks, Unreachable(t) PROVE TypeOK'
  BY <1>16 DEF TypeOK, Unreachable, taskVars, waitVars, timerVars
<1>17. ASSUME Wake PROVE TypeOK'
  <2>1. PICK ws \in Seq(Waiters) : WakeUp(ws) BY <1>17, WakeSeq
  <2>2. rq' \in RunQueues /\ woken' \subseteq Waiters /\ broken' \in {"no", "linked"}
    BY <2>1, WakeUpLinks DEF TypeOK
  <2>3. QED BY SMTT(60), <1>17, <2>2 DEF TypeOK, Wake, timerVars
<1>18. ASSUME TimerCallback PROVE TypeOK'
  <2>1. PICK ws \in Seq(Waiters) : WakeUp(ws) BY <1>18, TimerSeq
  <2>2. rq' \in RunQueues /\ woken' \subseteq Waiters /\ broken' \in {"no", "linked"}
    BY <2>1, WakeUpLinks DEF TypeOK
  <2>3. QED BY SMTT(60), <1>18, <2>2 DEF TypeOK, TimerCallback
<1>19. QED
  BY <1>1, <1>2, <1>3, <1>4, <1>5, <1>6, <1>7, <1>8, <1>9, <1>10, <1>11, <1>12, <1>13,
     <1>14, <1>15, <1>16, <1>17, <1>18, <1>20, <1>21
  DEF Next, TaskStep, OwnStep, TaskWakes, DeviceIrq

(* What fetch_task leaves alone, and whom it takes.                        *)
LEMMA FetchStep ==
  ASSUME TypeOK, NEW t \in Tasks, Fetch(t)
  PROVE  /\ UNCHANGED <<current, status, waitVars, timerVars, ready, broken>>
         /\ t = current /\ fetched = NoTask /\ pc[t] \in {"run", "added", "doze", "exit"}
         /\ pc'[t] = CASE pc[t] = "doze" -> "sleep" [] pc[t] = "exit" -> "dead" [] OTHER -> "run"
         /\ \A u \in Tasks \ {t} : pc'[u] = pc[u]
         /\ \/ Empty(rq) /\ UNCHANGED <<fetched, rq, passed>>
            \/ /\ ~Empty(rq) /\ fetched' \in Tasks /\ rq' \in RunQueues
               /\ fetched' = First(rq) /\ rq' = Pop(rq)
               /\ Linked(rq) = {fetched'} \cup Linked(rq')
               /\ passed' = passed \ {fetched'}
<1>1. /\ UNCHANGED <<current, status, waitVars, timerVars, ready, broken>>
      /\ t = current /\ fetched = NoTask /\ pc[t] \in {"run", "added", "doze", "exit"}
  BY DEF Fetch, At
<1>2. /\ pc'[t] = CASE pc[t] = "doze" -> "sleep" [] pc[t] = "exit" -> "dead" [] OTHER -> "run"
      /\ \A u \in Tasks \ {t} : pc'[u] = pc[u]
  BY DEF Fetch, Goto, TypeOK
<1>3. CASE Empty(rq) BY <1>1, <1>2, <1>3 DEF Fetch
<1>4. CASE ~Empty(rq)
  <2>1. fetched' = First(rq) /\ rq' = Pop(rq) /\ passed' = passed \ {First(rq)}
    BY <1>4 DEF Fetch
  <2>2. /\ First(rq) \in Tasks /\ Pop(rq) \in RunQueues
        /\ Linked(rq) = {First(rq)} \cup Linked(Pop(rq))
    BY <1>4, PopLinks DEF TypeOK
  <2>3. QED BY <1>1, <1>2, <1>4, <2>1, <2>2
<1>5. QED BY <1>3, <1>4

(* What switch_to_task does where it does not panic.                       *)
LEMMA SwitchStep ==
  ASSUME TypeOK, broken = "no", broken' = "no", NEW t \in Tasks, SwitchToTask(t)
  PROVE  /\ UNCHANGED <<status, pc, waitVars, timerVars, ready>>
         /\ t = current /\ fetched \in Tasks /\ fetched # t /\ fetched # NoTask
         /\ current' = fetched /\ fetched' = NoTask
         /\ Linked(rq') = Linked(rq) \cup (IF status[t] = "Runnable" THEN {t} ELSE {})
<1>1. UNCHANGED <<status, pc, waitVars, timerVars, ready>> /\ fetched # NoTask
  BY DEF SwitchToTask
<1>2. QED BY <1>1, SwitchLinks

(* What add_task in run leaves alone, and whom it links.                   *)
LEMMA RunStep ==
  ASSUME TypeOK, NEW t \in Tasks, NEW u \in Tasks, Run(t, u)
  PROVE  /\ UNCHANGED <<current, fetched, status, passed, waitVars, timerVars, ready, broken>>
         /\ t = current /\ fetched = NoTask /\ u # t
         /\ pc[t] = "run" /\ pc'[t] = "added" /\ pc[u] = "new" /\ pc'[u] = "run"
         /\ \A v \in Tasks \ {t, u} : pc'[v] = pc[v]
         /\ rq' = Push(rq, u) /\ Linked(rq') = Linked(rq) \cup {u}
<1>1. /\ UNCHANGED <<current, fetched, status, passed, waitVars, timerVars, ready, broken>>
      /\ t = current /\ fetched = NoTask /\ pc[t] = "run" /\ pc[u] = "new"
      /\ rq' = Push(rq, u) /\ pc' = [pc EXCEPT ![t] = "added", ![u] = "run"]
  BY DEF Run, At
<1>2. u # t BY <1>1
<1>3. pc'[t] = "added" /\ pc'[u] = "run" /\ \A v \in Tasks \ {t, u} : pc'[v] = pc[v]
  BY <1>1, <1>2 DEF TypeOK
<1>4. Linked(rq') = Linked(rq) \cup {u} BY <1>1, PushLinks DEF TypeOK
<1>5. QED BY <1>1, <1>2, <1>3, <1>4

(* What a wake-up leaves alone, and whom it links.                         *)
LEMMA WakeStep ==
  ASSUME TypeOK, TimersFit, broken = "no", broken' = "no", Wake \/ TimerCallback
  PROVE  /\ UNCHANGED <<current, fetched, passed, status, pc, nth, timeout, waiters, cancelled>>
         /\ Elems(rq.realtime) \subseteq Elems(rq'.realtime)
         /\ \E W \in SUBSET Waiters :
              /\ woken' = woken \cup W
              /\ Linked(rq') = Linked(rq) \cup {w[1] : w \in W \ woken}
              /\ Wake /\ "one" \notin env.wakes => W = Elems(waiters)
              /\ TimerCallback => \A c \in Due : c.waiter \in W
<1>1. rq \in RunQueues BY DEF TypeOK
<1>2. CASE Wake
  <2>1. PICK ws \in Seq(Waiters) :
          WakeUp(ws) /\ ("one" \notin env.wakes => Elems(ws) = Elems(waiters))
    BY <1>2, WakeSeq
  <2>2. /\ woken' = woken \cup Elems(ws) /\ Elems(ws) \in SUBSET Waiters
        /\ Linked(rq') = Linked(rq) \cup {w[1] : w \in Elems(ws) \ woken}
        /\ Elems(rq.realtime) \subseteq Elems(rq'.realtime)
    BY <1>1, <2>1, WakeUpLinks
  <2>3. /\ UNCHANGED <<current, fetched, passed, status, pc, nth, timeout, waiters, cancelled>>
        /\ ~TimerCallback
    BY SMTT(60), <1>2 DEF Wake, TimerCallback, timerVars, TypeOK
  <2>4. QED BY <2>1, <2>2, <2>3
<1>3. CASE TimerCallback
  <2>1. PICK ws \in Seq(Waiters) : WakeUp(ws) /\ \A c \in Due : c.waiter \in Elems(ws)
    BY <1>3, TimerSeq
  <2>2. /\ woken' = woken \cup Elems(ws) /\ Elems(ws) \in SUBSET Waiters
        /\ Linked(rq') = Linked(rq) \cup {w[1] : w \in Elems(ws) \ woken}
        /\ Elems(rq.realtime) \subseteq Elems(rq'.realtime)
    BY <1>1, <2>1, WakeUpLinks
  <2>3. /\ UNCHANGED <<current, fetched, passed, status, pc, nth, timeout, waiters, cancelled>>
        /\ ~Wake
    BY SMTT(60), <1>3 DEF Wake, TimerCallback, timerVars, TypeOK
  <2>4. QED BY <2>1, <2>2, <2>3
<1>4. QED BY <1>2, <1>3

(* Next by the kind of the step, where it does not panic.                  *)
LEMMA Steps ==
  ASSUME broken = "no", broken' = "no", Next
  PROVE  /\ env' = env
         /\ \/ \E t \in Tasks : OwnStep(t)
            \/ \E t \in Tasks : Fetch(t) \/ SwitchToTask(t) \/ \E u \in Tasks : Run(t, u)
            \/ Wake \/ TimerCallback
BY DEF Next, TaskStep, Preempt, Unreachable, TaskWakes, DeviceIrq

(* Every step keeps StatusFits.                                            *)
LEMMA StatusKept ==
  ASSUME TypeOK, StatusFits, TimersFit, broken = "no", broken' = "no", Next
  PROVE  StatusFits'
<1>1. ASSUME NEW t \in Tasks, OwnStep(t) PROVE StatusFits'
  <2>1. /\ t = current /\ current' = t /\ fetched' = NoTask
        /\ \A u \in Tasks \ {t} : pc'[u] = pc[u] /\ status'[u] = status[u]
    BY <1>1, OwnStepLeaves
  <2>2. /\ t # InitTask
        /\ status'[t] = "Sleeping" <=> pc'[t] \in {"sleep", "doze"}
        /\ status'[t] = "Exited" <=> pc'[t] \in {"exit", "dead"}
    <3> USE DEF StatusFits, TypeOK, At, Goto
    <3>1. CASE Exit(t) BY <3>1 DEF Exit
    <3>2. CASE \E d \in env.timeouts : DoWait(t, d) BY SMTT(60), <3>2 DEF DoWait
    <3>3. CASE Enqueue(t) BY <3>3 DEF Enqueue
    <3>4. CASE AddTimeoutList(t) BY <3>4 DEF AddTimeoutList
    <3>5. CASE CheckCond(t) BY <3>5 DEF CheckCond
    <3>6. CASE Dequeue(t) BY <3>6 DEF Dequeue
    <3>7. CASE Cancel(t) BY <3>7 DEF Cancel
    <3>8. CASE CheckExpired(t) BY <3>8 DEF CheckExpired
    <3>9. CASE LastCond(t) BY <3>9 DEF LastCond
    <3>10. CASE WaitSleep(t) BY <3>10 DEF WaitSleep
    <3>11. CASE WaitAwake(t) BY <3>11 DEF WaitAwake
    <3>12. CASE WaitReset(t) BY <3>12 DEF WaitReset
    <3>13. CASE WaitTest(t) BY <3>13 DEF WaitTest
    <3>14. QED
      BY <1>1, <3>1, <3>2, <3>3, <3>4, <3>5, <3>6, <3>7, <3>8, <3>9,
         <3>10, <3>11, <3>12, <3>13
      DEF OwnStep
  <2>3. QED BY SMTT(60), <2>1, <2>2, TaskAssumption DEF StatusFits
<1>2. ASSUME NEW t \in Tasks, Fetch(t) PROVE StatusFits'
  BY SMTT(60), <1>2, FetchStep, TaskAssumption DEF StatusFits, TypeOK
<1>3. ASSUME NEW t \in Tasks, SwitchToTask(t) PROVE StatusFits'
  BY SMTT(60), <1>3, SwitchStep, TaskAssumption DEF StatusFits, TypeOK
<1>4. ASSUME NEW t \in Tasks, NEW u \in Tasks, Run(t, u) PROVE StatusFits'
  BY SMTT(60), <1>4, RunStep, TaskAssumption DEF StatusFits, TypeOK
<1>5. ASSUME Wake \/ TimerCallback PROVE StatusFits'
  BY <1>5, WakeStep DEF StatusFits
<1>6. QED BY <1>1, <1>2, <1>3, <1>4, <1>5, Steps

(* Every step keeps QueueFits.                                             *)
LEMMA QueueKept ==
  ASSUME TypeOK, QueueFits, TimersFit, broken = "no", broken' = "no", Next
  PROVE  QueueFits'
<1>0. \A w \in Elems(waiters) : w[1] \in Tasks
  <2>1. \A i \in DOMAIN waiters : waiters[i] \in Waiters
    BY SeqShape, SeqElement DEF TypeOK
  <2>2. QED BY <2>1 DEF Elems, Waiters
<1>1. ASSUME NEW t \in Tasks, OwnStep(t) PROVE QueueFits'
  <2>1. \A u \in Tasks \ {t} : pc'[u] = pc[u] /\ Own(u)' = Own(u)
    BY <1>1, OwnStepLeaves DEF Own
  <2>2. CASE Enqueue(t)
    <3>1. pc'[t] \in Inside /\ Own(t)' = Own(t)
      BY <2>2 DEF Enqueue, Goto, TypeOK, Inside, Own
    <3>2. /\ NoDuplicates(waiters') /\ Elems(waiters') = Elems(waiters) \cup {Own(t)}
      BY <2>2, EnqueueElems
    <3>3. Own(t)[1] = t BY DEF Own
    <3>4. QED BY <1>0, <2>1, <3>1, <3>2, <3>3 DEF QueueFits
  <2>3. CASE Dequeue(t)
    <3>1. pc'[t] \notin Inside /\ Own(t)' = Own(t)
      BY <2>3 DEF Dequeue, Goto, TypeOK, Inside, Own
    <3>2. /\ NoDuplicates(waiters') /\ Elems(waiters') = Elems(waiters) \ {Own(t)}
      BY <2>3, DequeueElems
    <3>3. QED BY <1>0, <2>1, <3>1, <3>2 DEF QueueFits, Own
  <2>4. CASE \E d \in env.timeouts : DoWait(t, d)
    <3>1. waiters' = waiters /\ pc[t] \notin Inside /\ pc'[t] \notin Inside
      BY <2>4 DEF DoWait, At, Goto, TypeOK, Inside
    <3>2. \A w \in Elems(waiters) : w[1] # t BY <3>1 DEF QueueFits
    <3>3. QED BY <1>0, <2>1, <3>1, <3>2 DEF QueueFits
  <2>5. ASSUME ~Enqueue(t), ~Dequeue(t), ~\E d \in env.timeouts : DoWait(t, d)
        PROVE  waiters' = waiters /\ Own(t)' = Own(t) /\ (pc[t] \in Inside <=> pc'[t] \in Inside)
    <3> USE DEF TypeOK, At, Goto, Inside, Own, waitVars
    <3>1. CASE Exit(t) BY <3>1 DEF Exit
    <3>2. CASE AddTimeoutList(t) BY <3>2 DEF AddTimeoutList
    <3>3. CASE CheckCond(t) BY <3>3 DEF CheckCond
    <3>4. CASE Cancel(t) BY <3>4 DEF Cancel
    <3>5. CASE CheckExpired(t) BY <3>5 DEF CheckExpired
    <3>6. CASE LastCond(t) BY <3>6 DEF LastCond
    <3>7. CASE WaitSleep(t) BY <3>7 DEF WaitSleep
    <3>8. CASE WaitAwake(t) BY <3>8 DEF WaitAwake
    <3>9. CASE WaitReset(t) BY <3>9 DEF WaitReset
    <3>10. CASE WaitTest(t) BY <3>10 DEF WaitTest
    <3>11. QED
      BY <1>1, <2>5, <3>1, <3>2, <3>3, <3>4, <3>5, <3>6, <3>7, <3>8, <3>9, <3>10 DEF OwnStep
  <2>6. CASE ~Enqueue(t) /\ ~Dequeue(t) /\ ~\E d \in env.timeouts : DoWait(t, d)
    <3>1. waiters' = waiters /\ \A u \in Tasks : Own(u)' = Own(u) BY <2>1, <2>5, <2>6
    <3>2. \A u \in Tasks : pc[u] \in Inside <=> pc'[u] \in Inside BY <2>1, <2>5, <2>6
    <3>3. QED BY <1>0, <3>1, <3>2 DEF QueueFits
  <2>7. QED BY <2>2, <2>3, <2>4, <2>6
<1>2. ASSUME NEW t \in Tasks, Fetch(t) \/ SwitchToTask(t) \/ \E u \in Tasks : Run(t, u)
      PROVE  QueueFits'
  <2>1. waiters' = waiters /\ \A u \in Tasks : Own(u)' = Own(u)
    BY <1>2 DEF Fetch, SwitchToTask, Run, waitVars, Own
  <2>2. \A u \in Tasks : pc[u] \in Inside <=> pc'[u] \in Inside
    <3>1. CASE Fetch(t) BY SMTT(60), <3>1, FetchStep DEF Inside
    <3>2. CASE SwitchToTask(t) BY <3>2 DEF SwitchToTask
    <3>3. CASE \E v \in Tasks : Run(t, v) BY SMTT(60), <3>3, RunStep DEF Inside
    <3>4. QED BY <1>2, <3>1, <3>2, <3>3
  <2>3. QED BY <1>0, <2>1, <2>2 DEF QueueFits
<1>3. ASSUME Wake \/ TimerCallback PROVE QueueFits'
  BY <1>3, WakeStep DEF QueueFits, Own
<1>4. QED BY <1>1, <1>2, <1>3, Steps

(* Every step keeps WokenSinceCheck: who saw the condition fail is woken.  *)
LEMMA WokenKept ==
  ASSUME TypeOK, QueueFits, TimersFit, WokenSinceCheck, broken = "no", broken' = "no", Next
  PROVE  WokenSinceCheck'
<1> DEFINE Saw(u) == pc[u] \in {"expired", "wait", "sleep", "doze"} /\ Own(u) \notin woken
<1>0. SUFFICES ASSUME env' = env, "one" \notin env.wakes, NEW u \in Tasks, Saw(u)'
               PROVE  ready' = 0
  BY Steps DEF WokenSinceCheck
<1>1. ASSUME NEW t \in Tasks, OwnStep(t) PROVE ready' = 0
  <2>1. CASE u # t
    <3>1. pc'[u] = pc[u] /\ Own(u)' = Own(u) BY <1>1, <2>1, OwnStepLeaves DEF Own
    <3>2. Own(u) # Own(t) BY <2>1 DEF Own
    <3>3. Own(u) \in woken' <=> Own(u) \in woken
      BY <1>1, <3>2 DEF OwnStep, Exit, DoWait, Enqueue, AddTimeoutList, CheckCond, Dequeue,
           Cancel, CheckExpired, LastCond, WaitSleep, WaitTest, WaitAwake, WaitReset, waitVars
    <3>4. ready = 0 BY <1>0, <3>1, <3>3 DEF WokenSinceCheck
    <3>5. QED
      BY SMTT(60), <1>1, <3>4 DEF OwnStep, Exit, DoWait, Enqueue, AddTimeoutList, CheckCond, Dequeue,
           Cancel, CheckExpired, LastCond, WaitSleep, WaitTest, WaitAwake, WaitReset
  <2>2. CASE u = t
    <3> USE DEF TypeOK, At, Goto
    <3>1. CASE Exit(t) BY <1>0, <2>2, <3>1 DEF Exit
    <3>2. CASE \E d \in env.timeouts : DoWait(t, d) BY SMTT(60), <1>0, <2>2, <3>2 DEF DoWait
    <3>3. CASE Enqueue(t) BY <1>0, <2>2, <3>3 DEF Enqueue
    <3>4. CASE AddTimeoutList(t) BY <1>0, <2>2, <3>4 DEF AddTimeoutList
    <3>5. CASE CheckCond(t) BY SMTT(60), <1>0, <2>2, <3>5 DEF CheckCond
    <3>6. CASE Dequeue(t) BY <1>0, <2>2, <3>6 DEF Dequeue
    <3>7. CASE Cancel(t) BY <1>0, <2>2, <3>7 DEF Cancel
    <3>8. CASE CheckExpired(t)
      BY <1>0, <2>2, <3>8 DEF CheckExpired, waitVars, Own, WokenSinceCheck
    <3>9. CASE LastCond(t) BY <1>0, <2>2, <3>9 DEF LastCond
    <3>10. CASE WaitSleep(t)
      BY <1>0, <2>2, <3>10 DEF WaitSleep, waitVars, Own, WokenSinceCheck
    <3>11. CASE WaitAwake(t) BY <1>0, <2>2, <3>11 DEF WaitAwake
    <3>12. CASE WaitReset(t) BY <1>0, <2>2, <3>12 DEF WaitReset
    <3>13. CASE WaitTest(t)
      BY <1>0, <2>2, <3>13 DEF WaitTest, waitVars, Own, WokenSinceCheck
    <3>14. QED
      BY <1>1, <3>1, <3>2, <3>3, <3>4, <3>5, <3>6, <3>7, <3>8, <3>9,
         <3>10, <3>11, <3>12, <3>13
      DEF OwnStep
  <2>3. QED BY <2>1, <2>2
<1>2. ASSUME NEW t \in Tasks, Fetch(t) \/ SwitchToTask(t) \/ \E v \in Tasks : Run(t, v)
      PROVE  ready' = 0
  <2>1. UNCHANGED <<nth, woken, ready>> BY <1>2 DEF Fetch, SwitchToTask, Run, waitVars
  <2>2. pc'[u] \in {"expired", "wait", "sleep", "doze"}
          => pc[u] \in {"expired", "wait", "sleep", "doze"}
    <3>1. CASE Fetch(t) BY SMTT(60), <3>1, FetchStep
    <3>2. CASE SwitchToTask(t) BY <3>2 DEF SwitchToTask
    <3>3. CASE \E v \in Tasks : Run(t, v) BY SMTT(60), <3>3, RunStep
    <3>4. QED BY <1>2, <3>1, <3>2, <3>3
  <2>3. QED BY <1>0, <2>1, <2>2 DEF WokenSinceCheck, Own
<1>3. ASSUME Wake PROVE ready' = 0
  <2>1. UNCHANGED <<pc, nth>> /\ Elems(waiters) \subseteq woken' BY <1>0, <1>3, WakeStep
  <2>2. pc[u] \in Inside BY <1>0, <2>1 DEF Inside
  <2>3. Own(u) \in woken' /\ Own(u)' = Own(u) BY <2>1, <2>2 DEF QueueFits, Own
  <2>4. QED BY <1>0, <2>3
<1>4. ASSUME TimerCallback PROVE ready' = 0
  <2>1. UNCHANGED <<pc, nth, ready>> /\ woken \subseteq woken'
    BY <1>4, WakeStep DEF TimerCallback
  <2>2. QED BY <1>0, <2>1 DEF WokenSinceCheck, Own
<1>5. QED BY <1>1, <1>2, <1>3, <1>4, Steps

(* A timer that was cancelled belongs to a wait that is over.              *)
Over(w) == \/ w[2] < nth[w[1]]
           \/ w[2] = nth[w[1]] /\ pc[w[1]] \in {"run", "added", "exit", "dead"}

(* Every step keeps TimersFit: a timed sleeper has a timer to come.        *)
LEMMA TimersKept ==
  ASSUME TypeOK, TimersFit, broken = "no", broken' = "no", Next
  PROVE  TimersFit'
<1>0. /\ \A w \in cancelled : Over(w) /\ w[1] \in Tasks /\ w[2] \in Nat
      /\ \A u \in Tasks : nth[u] \in Nat /\ (pc[u] = "timer" => timeout[u] # NoTimeout)
      /\ \A u \in Tasks :
           /\ pc[u] \in {"wait", "sleep", "doze"} /\ timeout[u] # NoTimeout /\ Own(u) \notin woken
           => Armed(u)
      /\ tick \in Nat
  BY SMTT(60), TaskAssumption DEF TypeOK, TimersFit, Waiters, Over
<1>1. ASSUME NEW t \in Tasks, OwnStep(t) PROVE TimersFit'
  <2>1. /\ tick' = tick
        /\ \A u \in Tasks \ {t} : /\ pc'[u] = pc[u] /\ nth'[u] = nth[u]
                                  /\ timeout'[u] = timeout[u] /\ Own(u)' = Own(u)
    BY <1>1, OwnStepLeaves DEF Own
  <2>2. /\ timers' = timers \/ \E x : timers' = timers \cup {x}
        /\ cancelled' = cancelled \/ (cancelled' = cancelled \cup {Own(t)} /\ Cancel(t))
        /\ woken' = woken \/ woken' = woken \ {Own(t)}
    BY <1>1 DEF OwnStep, Exit, DoWait, Enqueue, AddTimeoutList, CheckCond, Dequeue,
         Cancel, CheckExpired, LastCond, WaitSleep, WaitTest, WaitAwake, WaitReset, waitVars, timerVars
  <2>4. /\ pc'[t] = "timer" => timeout'[t] # NoTimeout
        /\ \A w \in cancelled : w[1] = t => Over(w)'
        /\ /\ pc'[t] \in {"wait", "sleep", "doze"} /\ timeout'[t] # NoTimeout
           /\ Own(t)' \notin woken'
           => Armed(t)'
    <3> USE <1>0 DEF TypeOK, At, Goto, Over
    <3>1. CASE Exit(t) BY <3>1 DEF Exit, waitVars
    <3>2. CASE \E d \in env.timeouts : DoWait(t, d) BY SMTT(60), <3>2 DEF DoWait
    <3>3. CASE Enqueue(t) BY <3>3 DEF Enqueue
    <3>4. CASE AddTimeoutList(t) BY <3>4 DEF AddTimeoutList, waitVars
    <3>5. CASE CheckCond(t) BY <3>5 DEF CheckCond, waitVars, Armed
    <3>6. CASE Dequeue(t) BY <3>6 DEF Dequeue
    <3>7. CASE Cancel(t) BY <3>7 DEF Cancel, waitVars
    <3>8. CASE CheckExpired(t)
      <4>1. UNCHANGED <<nth, timeout, woken, timers, cancelled, tick>> /\ pc[t] = "expired"
        BY <3>8 DEF CheckExpired, waitVars, timerVars
      <4>2. /\ pc' = [pc EXCEPT ![t] = IF \E c \in timers : c.waiter = Own(t) /\ c.expire > tick
                                      THEN "wait" ELSE "dequeueExpired"]
        BY <3>8 DEF CheckExpired
      <4>3. nth[t] \in Nat /\ tick \in Nat /\ \A w \in cancelled : w[1] = t => w[2] < nth[t]
        BY <4>1
      <4>4. Own(t) \notin cancelled
        <5>1. Own(t)[1] = t /\ Own(t)[2] = nth[t] BY ONLY ZenonT(30) DEF Own
        <5>2. ~(nth[t] < nth[t]) BY ONLY SMTT(60), <4>3
        <5>3. QED BY ONLY ZenonT(30), <4>3, <5>1, <5>2
      <4>5. ASSUME pc'[t] = "wait" PROVE Armed(t)'
        <5>1. PICK c \in timers : c.waiter = Own(t) /\ c.expire > tick BY <4>2, <4>5
        <5>2. c.expire \in Nat OBVIOUS
        <5>3. Own(t)' = Own(t) BY <4>1 DEF Own
        <5>4. c.expire >= tick BY ONLY SMTT(60), <4>3, <5>1, <5>2
        <5>5. QED BY <4>1, <4>4, <5>1, <5>3, <5>4 DEF Armed
      <4>6. pc'[t] \in {"wait", "dequeueExpired"} BY <4>2
      <4>7. \A w \in cancelled : w[1] = t => Over(w)' BY <4>1, <4>3
      <4>8. QED BY <4>5, <4>6, <4>7
    <3>9. CASE LastCond(t) BY <3>9 DEF LastCond, waitVars
    <3>10. CASE WaitSleep(t) BY <3>10 DEF WaitSleep, waitVars, timerVars, Armed, Own
    <3>11. CASE WaitAwake(t) BY <3>11 DEF WaitAwake, waitVars
    <3>12. CASE WaitReset(t) BY <3>12 DEF WaitReset
    <3>13. CASE WaitTest(t) BY <3>13 DEF WaitTest, waitVars, timerVars, Armed, Own
    <3>14. QED
      BY <1>1, <3>1, <3>2, <3>3, <3>4, <3>5, <3>6, <3>7, <3>8, <3>9,
         <3>10, <3>11, <3>12, <3>13
      DEF OwnStep
  <2>5. \A w \in cancelled' : Over(w)'
    <3>1. \A w \in cancelled : Over(w)' BY <1>0, <2>1, <2>4 DEF Over
    <3>3. CASE cancelled' = cancelled BY <3>1, <3>3
    <3>4. CASE cancelled' = cancelled \cup {Own(t)} /\ Cancel(t)
      <4>1. ASSUME NEW w \in cancelled', w \notin cancelled PROVE Over(w)'
        <5>1. w = Own(t) BY <3>4, <4>1
        <5>2. nth' = nth /\ pc'[t] = "run" BY <3>4 DEF Cancel, Goto, TypeOK, waitVars
        <5>3. w[1] = t /\ w[2] = nth[t] BY <5>1 DEF Own
        <5>4. QED BY <5>2, <5>3 DEF Over
      <4>2. QED BY <3>1, <4>1
    <3>5. QED BY <2>2, <3>3, <3>4
  <2>6. ASSUME NEW u \in Tasks, u # t, pc'[u] \in {"wait", "sleep", "doze"},
               timeout'[u] # NoTimeout, Own(u)' \notin woken'
        PROVE  Armed(u)'
    <3>1. Own(u) # Own(t) BY <2>6 DEF Own
    <3>2. Own(u) \notin woken BY SMTT(60), <2>1, <2>2, <2>6, <3>1
    <3>3. Armed(u) BY <1>0, <2>1, <2>6, <3>2
    <3>4. QED BY <2>1, <2>2, <2>6, <3>1, <3>3 DEF Armed
  <2>7. QED BY ZenonT(60), <1>0, <2>1, <2>4, <2>5, <2>6 DEF TimersFit, Over
<1>2. ASSUME NEW t \in Tasks, Fetch(t) \/ SwitchToTask(t) \/ \E u \in Tasks : Run(t, u)
      PROVE  TimersFit'
  <2>1. UNCHANGED <<nth, woken, timeout, timers, cancelled, tick>>
    BY <1>2 DEF Fetch, SwitchToTask, Run, waitVars, timerVars
  <2>2. \A u \in Tasks :
          /\ pc'[u] = "timer" => pc[u] = "timer"
          /\ pc'[u] \in {"wait", "sleep", "doze"} => pc[u] \in {"wait", "sleep", "doze"}
          /\ pc[u] \in {"run", "added", "exit", "dead"}
               => pc'[u] \in {"run", "added", "exit", "dead"}
    <3>1. CASE Fetch(t) BY SMTT(60), <3>1, FetchStep
    <3>2. CASE SwitchToTask(t) BY <3>2 DEF SwitchToTask
    <3>3. CASE \E v \in Tasks : Run(t, v) BY SMTT(60), <3>3, RunStep
    <3>4. QED BY <1>2, <3>1, <3>2, <3>3
  <2>3. QED BY <1>0, <2>1, <2>2 DEF TimersFit, Over, Armed, Own
<1>3. ASSUME Wake PROVE TimersFit'
  <2>1. UNCHANGED <<pc, nth, timeout, timers, cancelled, tick>> /\ woken \subseteq woken'
    BY <1>3, WakeStep DEF Wake, timerVars
  <2>2. QED BY <1>0, <2>1 DEF TimersFit, Over, Armed, Own
<1>4. ASSUME TimerCallback PROVE TimersFit'
  <2>1. /\ UNCHANGED <<pc, nth, timeout, cancelled>> /\ woken \subseteq woken'
        /\ \A c \in Due : c.waiter \in woken'
    BY <1>4, WakeStep
  <2>2. /\ tick' = tick + 1
        /\ timers' = {c \in timers : c.waiter \notin cancelled /\ c.expire > tick}
    BY <1>4 DEF TimerCallback
  <2>4. ASSUME NEW u \in Tasks, pc'[u] \in {"wait", "sleep", "doze"},
               timeout'[u] # NoTimeout, Own(u)' \notin woken'
        PROVE  Armed(u)'
    <3>1. Own(u)' = Own(u) /\ Own(u) \notin woken BY <2>1, <2>4 DEF Own
    <3>2. PICK c \in timers : c.waiter = Own(u) /\ c.expire >= tick /\ c.waiter \notin cancelled
      BY <1>0, <2>1, <2>4, <3>1 DEF Armed
    <3>3. c \notin Due BY <2>1, <2>4, <3>1, <3>2
    <3>4. c.expire \in Nat BY DEF TypeOK
    <3>5. c \in timers' /\ c.expire >= tick' BY SMTT(60), <1>0, <2>2, <3>2, <3>3, <3>4 DEF Due
    <3>6. QED BY <2>1, <3>1, <3>2, <3>5 DEF Armed
  <2>5. QED BY <1>0, <2>1, <2>4 DEF TimersFit, Over
<1>5. QED BY <1>1, <1>2, <1>3, <1>4, Steps


(* No step loses a task: the one that leaves the CPU is linked, sleeps     *)
(* unwoken or has exited, and whoever wakes a sleeper links it.            *)
LEMMA TasksKept ==
  ASSUME TypeOK, StatusFits, TimersFit, NoTaskLost, DozerLinked, broken = "no", broken' = "no",
         Next
  PROVE  NoTaskLost'
<1> DEFINE Kept(u) == \/ pc[u] = "new" \/ u \in Linked(rq)
                      \/ status[u] = "Exited"
                      \/ status[u] = "Sleeping" /\ Own(u) \notin woken
<1>0. \A u \in Tasks \ {current, fetched} : Kept(u) BY DEF NoTaskLost
<1>1. SUFFICES ASSUME NEW u \in Tasks, u # current', u # fetched' PROVE Kept(u)'
  BY DEF NoTaskLost
<1>no. u # NoTask BY TaskAssumption
<1>2. ASSUME NEW t \in Tasks, OwnStep(t) PROVE Kept(u)'
  <2>1. /\ u # t /\ u # current /\ u # fetched /\ rq' = rq
        /\ pc'[u] = pc[u] /\ status'[u] = status[u] /\ Own(u)' = Own(u)
    BY SMTT(60), <1>1, <1>2, OwnStepLeaves DEF Own
  <2>2. woken' \subseteq woken
    BY <1>2 DEF OwnStep, Exit, DoWait, Enqueue, AddTimeoutList, CheckCond, Dequeue,
         Cancel, CheckExpired, LastCond, WaitSleep, WaitTest, WaitAwake, WaitReset, waitVars
  <2>3. QED BY <1>0, <2>1, <2>2
<1>3. ASSUME NEW t \in Tasks, Fetch(t) PROVE Kept(u)'
  <2>1. /\ u # current /\ u # fetched /\ u # t
        /\ status' = status /\ woken' = woken /\ Own(u)' = Own(u) /\ pc'[u] = pc[u]
    BY <1>1, <1>3, <1>no, FetchStep DEF waitVars, Own
  <2>2. u \in Linked(rq) => u \in Linked(rq') BY <1>1, <1>3, FetchStep
  <2>3. QED BY <1>0, <2>1, <2>2
<1>4. ASSUME NEW t \in Tasks, SwitchToTask(t) PROVE Kept(u)'
  <2>1. /\ status' = status /\ woken' = woken /\ pc' = pc /\ Own(u)' = Own(u) /\ t = current
        /\ fetched # NoTask /\ u # fetched
        /\ Linked(rq') = Linked(rq) \cup (IF status[t] = "Runnable" THEN {t} ELSE {})
    BY <1>1, <1>4, SwitchStep DEF waitVars, Own
  <2>2. CASE u = t
    <3>1. CASE status[t] = "Runnable" BY <2>1, <2>2, <3>1
    <3>2. CASE status[t] = "Sleeping"
      <4>1. pc[t] = "sleep" BY <2>1, <3>2 DEF StatusFits
      <4>2. Own(t) \in woken => t \in Linked(rq) BY <2>1, <2>2, <4>1 DEF DozerLinked
      <4>3. QED BY <2>1, <2>2, <3>2, <4>2
    <3>3. CASE status[t] = "Exited" BY <2>1, <2>2, <3>3
    <3>4. QED BY <3>1, <3>2, <3>3 DEF TypeOK
  <2>3. CASE u # t
    <3>1. Kept(u) BY <1>0, <2>1, <2>3
    <3>2. QED BY <2>1, <3>1
  <2>4. QED BY <2>2, <2>3
<1>5. ASSUME NEW t \in Tasks, NEW v \in Tasks, Run(t, v) PROVE Kept(u)'
  <2>1. /\ u # current /\ u # fetched /\ u # t
        /\ status' = status /\ woken' = woken /\ Own(u)' = Own(u)
        /\ Linked(rq') = Linked(rq) \cup {v}
        /\ u # v => pc'[u] = pc[u]
    BY <1>1, <1>5, RunStep DEF waitVars, Own
  <2>2. CASE u = v BY <2>1, <2>2
  <2>3. CASE u # v
    <3>1. Kept(u) BY <1>0, <2>1
    <3>2. QED BY <2>1, <2>3, <3>1
  <2>4. QED BY <2>2, <2>3
<1>6. ASSUME Wake \/ TimerCallback PROVE Kept(u)'
  <2>1. UNCHANGED <<current, fetched, status, pc, nth>> /\ Own(u)' = Own(u)
    BY <1>6, WakeStep DEF Own
  <2>2. PICK W \in SUBSET Waiters :
          /\ woken' = woken \cup W
          /\ Linked(rq') = Linked(rq) \cup {w[1] : w \in W \ woken}
    BY <1>6, WakeStep
  <2>3. Kept(u) BY <1>0, <1>1, <2>1
  <2>4. Own(u)[1] = u BY DEF Own
  <2>5. Own(u) \in W \ woken => u \in Linked(rq') BY <2>2, <2>4
  <2>6. QED BY <2>1, <2>2, <2>3, <2>5
<1>7. QED BY <1>2, <1>3, <1>4, <1>5, <1>6, Steps

(* A task that is woken after its last test, on the way to the switch, is  *)
(* linked when it leaves the CPU.                                          *)
LEMMA DozerKept ==
  ASSUME TypeOK, StatusFits, TimersFit, DozerLinked, broken = "no", broken' = "no", Next
  PROVE  DozerLinked'
<1>0. current \in Tasks /\ NoTask \notin Tasks BY TaskAssumption DEF TypeOK
<1>1. ASSUME NEW t \in Tasks, OwnStep(t) PROVE DozerLinked'
  <2>1. t = current /\ current' = current /\ fetched' = NoTask BY <1>1, OwnStepLeaves
  <2>2. pc'[t] = "doze" => WaitTest(t)
    BY <1>1 DEF OwnStep, Exit, DoWait, Enqueue, AddTimeoutList, CheckCond, Dequeue, Cancel,
         CheckExpired, LastCond, WaitSleep, WaitAwake, WaitReset, At, Goto, TypeOK
  <2>3. WaitTest(t) => Own(t) \notin woken /\ Own(t)' = Own(t) /\ woken' = woken
    BY DEF WaitTest, waitVars, Own
  <2>4. Own(current)' = Own(t)' BY <2>1 DEF Own
  <2>5. QED BY <2>1, <2>2, <2>3, <2>4 DEF DozerLinked
<1>2. ASSUME NEW t \in Tasks, Fetch(t) PROVE DozerLinked'
  <2>1. /\ t = current /\ current' = current /\ woken' = woken /\ nth' = nth
        /\ pc'[t] = "sleep" => pc[t] = "doze"
        /\ pc'[t] # "doze" /\ fetched = NoTask
    BY SMTT(60), <1>2, FetchStep DEF waitVars
  <2>2. Own(current)' = Own(current) BY <2>1 DEF Own
  <2>3. \/ fetched' = NoTask
        \/ Linked(rq) = {fetched'} \cup Linked(rq')
    BY <1>2, FetchStep
  <2>4. QED BY <1>0, <2>1, <2>2, <2>3 DEF DozerLinked
<1>3. ASSUME NEW t \in Tasks, SwitchToTask(t) PROVE DozerLinked'
  <2>1. /\ current' = fetched /\ fetched \in Tasks /\ fetched # current /\ fetched' = NoTask
        /\ pc' = pc
    BY <1>3, SwitchStep
  <2>2. pc[fetched] # "doze" BY <2>1 DEF StatusFits
  <2>3. QED BY <2>1, <2>2 DEF DozerLinked
<1>4. ASSUME NEW t \in Tasks, NEW u \in Tasks, Run(t, u) PROVE DozerLinked'
  <2>1. t = current /\ current' = current /\ pc'[t] = "added" /\ fetched' = NoTask
    BY <1>4, RunStep
  <2>2. QED BY <2>1 DEF DozerLinked
<1>5. ASSUME Wake \/ TimerCallback PROVE DozerLinked'
  <2>1. UNCHANGED <<current, fetched, pc, nth>> /\ Own(current)' = Own(current)
    BY <1>5, WakeStep DEF Own
  <2>2. PICK W \in SUBSET Waiters :
          /\ woken' = woken \cup W
          /\ Linked(rq') = Linked(rq) \cup {w[1] : w \in W \ woken}
    BY <1>5, WakeStep
  <2>3. Own(current)[1] = current BY DEF Own
  <2>4. Own(current) \in W \ woken => current \in Linked(rq') BY <2>2, <2>3
  <2>5. QED BY <2>1, <2>2, <2>4 DEF DozerLinked
<1>6. QED BY <1>1, <1>2, <1>3, <1>4, <1>5, Steps

(* The real-time queue holds real-time tasks only, whatever is linked.     *)
LEMMA RealTimeKept ==
  ASSUME TypeOK, TimersFit, RealTimeLinked, broken = "no", Next
  PROVE  RealTimeLinked'
<1>0. env' = env /\ rq \in RunQueues /\ Elems(rq.realtime) \subseteq env.realtime
  BY DEF Next, TypeOK, RealTimeLinked
<1>1. ASSUME NEW t \in Tasks, OwnStep(t) PROVE rq' = rq BY <1>1, OwnStepLeaves
<1>2. ASSUME NEW t \in Tasks, Fetch(t) PROVE Elems(rq'.realtime) \subseteq env.realtime
  <2>1. CASE Empty(rq) BY <1>0, <1>2, <2>1 DEF Fetch
  <2>2. CASE ~Empty(rq) BY <1>0, <1>2, <2>2, PopLinks DEF Fetch
  <2>3. QED BY <2>1, <2>2
<1>3. ASSUME NEW t \in Tasks, SwitchToTask(t) PROVE Elems(rq'.realtime) \subseteq env.realtime
  BY <1>0, <1>3, SwitchLinks
<1>9. ASSUME NEW t \in Tasks, NEW u \in Tasks, Run(t, u)
      PROVE  Elems(rq'.realtime) \subseteq env.realtime
  BY <1>0, <1>9, PushLinks DEF Run
<1>4. ASSUME NEW t \in Tasks, Preempt(t) PROVE Elems(rq'.realtime) \subseteq env.realtime
  <2>1. ~Empty(rq) /\ rq' = Pop(rq) BY <1>4 DEF Preempt, ShouldPreempt, Empty
  <2>2. QED BY <1>0, <2>1, PopLinks
<1>5. ASSUME NEW t \in Tasks, Unreachable(t) PROVE rq' = rq
  BY <1>5 DEF Unreachable, taskVars
<1>6. ASSUME Wake PROVE Elems(rq'.realtime) \subseteq env.realtime
  <2>1. PICK ws \in Seq(Waiters) : WakeUp(ws) BY <1>6, WakeSeq
  <2>2. QED BY <1>0, <2>1, WakeUpLinks
<1>7. ASSUME TimerCallback PROVE Elems(rq'.realtime) \subseteq env.realtime
  <2>1. PICK ws \in Seq(Waiters) : WakeUp(ws) BY <1>7, TimerSeq
  <2>2. QED BY <1>0, <2>1, WakeUpLinks
<1>8. QED
  BY <1>0, <1>1, <1>2, <1>3, <1>4, <1>5, <1>6, <1>7, <1>9
  DEF Next, TaskStep, TaskWakes, DeviceIrq, RealTimeLinked

(* The tasks passed over stay in the real-time queue until one of them is  *)
(* fetched, and no normal task is fetched while there is one.              *)
LEMMA PassedKept ==
  ASSUME TypeOK, TimersFit, RealTimeLinked, PassedWait, broken = "no", broken' = "no", Next
  PROVE  PassedWait'
<1>0. /\ env' = env /\ rq \in RunQueues /\ Elems(rq.realtime) \subseteq env.realtime
      /\ passed \subseteq Elems(rq.realtime)
      /\ fetched # NoTask /\ fetched \notin env.realtime => passed = {}
  BY DEF Next, TypeOK, RealTimeLinked, PassedWait
<1>1. ASSUME NEW t \in Tasks, OwnStep(t) PROVE PassedWait'
  <2>1. UNCHANGED <<fetched, rq, passed>> BY <1>1, OwnStepLeaves
  <2>2. QED BY <1>0, <2>1 DEF PassedWait
<1>2. ASSUME NEW t \in Tasks, Fetch(t) PROVE PassedWait'
  <2>1. CASE Empty(rq)
    <3>1. UNCHANGED <<fetched, rq, passed>> BY <1>2, <2>1 DEF Fetch
    <3>2. QED BY <1>0, <3>1 DEF PassedWait
  <2>2. CASE ~Empty(rq)
    <3>1. fetched' = First(rq) /\ rq' = Pop(rq) /\ passed' = passed \ {First(rq)}
      BY <1>2, <2>2 DEF Fetch
    <3>2. /\ Elems(rq.realtime) \subseteq {First(rq)} \cup Elems(Pop(rq).realtime)
          /\ rq.realtime # <<>> => First(rq) \in Elems(rq.realtime)
      BY <1>0, <2>2, PopLinks
    <3>3. passed' \subseteq Elems(rq'.realtime) BY <1>0, <3>1, <3>2
    <3>4. Elems(<<>>) = {} BY SMTT(60) DEF Elems
    <3>5. First(rq) \notin env.realtime => passed = {} BY <1>0, <3>2, <3>4
    <3>6. QED BY <1>0, <3>1, <3>3, <3>5 DEF PassedWait
  <2>3. QED BY <2>1, <2>2
<1>3. ASSUME NEW t \in Tasks, SwitchToTask(t) PROVE PassedWait'
  <2>1. /\ fetched' = NoTask /\ (passed' = passed \/ passed' = Elems(rq'.realtime))
        /\ Elems(rq.realtime) \subseteq Elems(rq'.realtime)
    BY <1>3, SwitchLinks
  <2>2. QED BY <1>0, <2>1 DEF PassedWait
<1>4. ASSUME NEW t \in Tasks, NEW u \in Tasks, Run(t, u) PROVE PassedWait'
  <2>1. UNCHANGED <<fetched, passed>> /\ rq' = Push(rq, u) BY <1>4, RunStep
  <2>2. Elems(rq.realtime) \subseteq Elems(rq'.realtime) BY <1>0, <2>1, PushLinks
  <2>3. QED BY <1>0, <2>1, <2>2 DEF PassedWait
<1>5. ASSUME Wake \/ TimerCallback PROVE PassedWait'
  <2>1. UNCHANGED <<fetched, passed>> /\ Elems(rq.realtime) \subseteq Elems(rq'.realtime)
    BY <1>5, WakeStep
  <2>2. QED BY <1>0, <2>1 DEF PassedWait
<1>6. QED BY <1>1, <1>2, <1>3, <1>4, <1>5, Steps

(* Where only tasks wake, waits have no timeout and no task is real-time,  *)
(* no step links a task twice, switches to the current task or comes back  *)
(* to a task that has exited.                                              *)
LEMMA LinksKept ==
  ASSUME TypeOK, StatusFits, QueueFits, TimersFit, NoTaskLost, Calm, LinksFit,
         broken = "no", Next
  PROVE  broken' = "no" /\ LinksFit'
<1>0. /\ env' = env /\ ~env.irq /\ env.timeouts = {NoTimeout} /\ env.realtime = {}
      /\ rq \in RunQueues /\ current \in Tasks
      /\ rq.realtime = <<>> /\ NoDuplicates(rq.normal) /\ timers = {}
      /\ \A u \in Tasks : timeout[u] = NoTimeout /\ pc[u] # "timer"
      /\ pc[current] # "new" /\ (fetched = NoTask => pc[current] # "dead")
      /\ fetched \notin Elems(rq.normal)
      /\ fetched # NoTask => fetched # current /\ MayGoOn(fetched)
      /\ NoTask \notin Tasks
  BY TaskAssumption DEF Next, Calm, TypeOK, LinksFit
<1>1. \A u \in Elems(rq.normal) : u # current /\ u \in Tasks /\ MayGoOn(u)
  <2>1. rq.normal \in Seq(Tasks) BY <1>0 DEF RunQueues
  <2>2. \A i \in DOMAIN rq.normal : rq.normal[i] \in Tasks
    BY <2>1, SeqShape, SeqElement
  <2>3. \A u \in Elems(rq.normal) : u \in Tasks BY <2>2 DEF Elems
  <2>4. QED BY <1>0, <2>3 DEF LinksFit
<1>2. Linked(rq) = Elems(rq.normal)
  <2>1. rq.realtime = <<>> BY ONLY ZenonT(30), <1>0
  <2>2. QED BY ONLY ZenonT(30), <2>1, OnlyNormal
<1>3. ASSUME NEW t \in Tasks, OwnStep(t) PROVE broken' = "no" /\ LinksFit'
  <2>1. /\ current = t /\ current' = current /\ rq' = rq /\ broken' = "no"
        /\ fetched = NoTask /\ fetched' = NoTask
        /\ \A u \in Tasks \ {t} : /\ pc'[u] = pc[u] /\ timeout'[u] = timeout[u]
                                  /\ Own(u)' = Own(u)
    BY <1>3, OwnStepLeaves DEF Own
  <2>2. /\ timers' = timers /\ timeout'[t] = NoTimeout
        /\ pc'[t] \notin {"timer", "new", "dead"}
        /\ woken' = woken \/ woken' = woken \ {Own(t)}
    <3> USE <1>0 DEF TypeOK, At, Goto, waitVars, timerVars
    <3>1. CASE Exit(t) BY <3>1 DEF Exit
    <3>2. CASE \E d \in env.timeouts : DoWait(t, d)
      <4>1. PICK d \in env.timeouts : DoWait(t, d) BY <3>2
      <4>2. d = NoTimeout BY ONLY ZenonT(30), <1>0, d \in env.timeouts
      <4>3. timers' = timers /\ woken' = woken /\ pc[t] = "run" BY <4>1 DEF DoWait
      <4>4. timeout'[t] = NoTimeout
        <5>1. timeout' = timeout \/ timeout' = [timeout EXCEPT ![t] = d]
          BY ONLY ZenonT(30), <4>1 DEF DoWait
        <5>2. t \in DOMAIN timeout BY DEF TypeOK
        <5>3. QED BY ONLY ZenonT(30), <1>0, t \in Tasks, <4>2, <5>1, <5>2
      <4>5. pc'[t] \in {"run", "enqueue"}
        <5>1. pc' = pc \/ pc' = [pc EXCEPT ![t] = "enqueue"]
          BY ONLY ZenonT(30), <4>1 DEF DoWait, Goto
        <5>2. t \in DOMAIN pc BY DEF TypeOK
        <5>3. QED BY ONLY ZenonT(30), <4>3, <5>1, <5>2
      <4>6. QED BY ONLY ZenonT(30), <4>3, <4>4, <4>5
    <3>dom. t \in DOMAIN pc /\ t \in DOMAIN timeout
      BY DEF TypeOK
    <3>pre. timeout[t] = NoTimeout /\ pc[t] \notin {"timer", "new", "dead"}
      BY ONLY ZenonT(30), <1>0, <2>1, t \in Tasks
    <3>3. CASE Enqueue(t)
      BY ONLY ZenonT(30), <3>dom, <3>pre, <3>3 DEF Enqueue
    <3>4. CASE AddTimeoutList(t)
      BY ONLY ZenonT(30), <3>dom, <3>pre, <3>4 DEF AddTimeoutList
    <3>5. CASE CheckCond(t)
      BY ONLY ZenonT(30), <3>dom, <3>pre, <3>5 DEF CheckCond
    <3>6. CASE Dequeue(t)
      BY ONLY ZenonT(30), <3>dom, <3>pre, <3>6 DEF Dequeue
    <3>7. CASE Cancel(t)
      BY ONLY ZenonT(30), <3>dom, <3>pre, <3>7 DEF Cancel
    <3>8. CASE CheckExpired(t)
      BY ONLY ZenonT(30), <3>dom, <3>pre, <3>8 DEF CheckExpired
    <3>9. CASE LastCond(t)
      BY ONLY ZenonT(30), <3>dom, <3>pre, <3>9 DEF LastCond
    <3>10. CASE WaitSleep(t)
      BY ONLY ZenonT(30), <3>dom, <3>pre, <3>10 DEF WaitSleep
    <3>11. CASE WaitAwake(t)
      BY ONLY ZenonT(30), <3>dom, <3>pre, <3>11 DEF WaitAwake
    <3>12. CASE WaitReset(t)
      BY ONLY ZenonT(30), <3>dom, <3>pre, <3>12 DEF WaitReset
    <3>13. CASE WaitTest(t)
      BY ONLY ZenonT(30), <3>dom, <3>pre, <3>13 DEF WaitTest
    <3>14. QED
      BY <1>3, <3>1, <3>2, <3>3, <3>4, <3>5, <3>6, <3>7, <3>8, <3>9,
         <3>10, <3>11, <3>12, <3>13
      DEF OwnStep
  <2>3. \A u \in Elems(rq.normal) : Own(u) # Own(t) BY <1>1, <2>1 DEF Own
  <2>4. \A u \in Elems(rq.normal) : u # current' /\ MayGoOn(u)'
    BY <1>1, <2>1, <2>2, <2>3 DEF MayGoOn
  <2>5. \A u \in Tasks : timeout'[u] = NoTimeout /\ pc'[u] # "timer" BY <1>0, <2>1, <2>2
  <2>6. QED BY <1>0, <2>1, <2>2, <2>4, <2>5 DEF LinksFit
<1>4. ASSUME NEW t \in Tasks, Fetch(t) PROVE broken' = "no" /\ LinksFit'
  <2>1. /\ UNCHANGED <<current, nth, timeout, woken, timers, broken>> /\ t = current
        /\ fetched = NoTask /\ pc'[t] \in {"run", "sleep", "dead"}
        /\ pc'[t] = "dead" => pc[t] = "exit"
        /\ \A u \in Tasks \ {t} : pc'[u] = pc[u]
    BY SMTT(60), <1>4, FetchStep DEF waitVars, timerVars
  <2>2. \A u \in Tasks : timeout'[u] = NoTimeout /\ pc'[u] # "timer" /\ Own(u)' = Own(u)
    BY <1>0, <2>1 DEF Own
  <2>3. \A u \in Elems(rq.normal) : u # current' /\ MayGoOn(u)'
    BY <1>1, <2>1, <2>2 DEF MayGoOn
  <2>4. CASE Empty(rq)
    <3>1. UNCHANGED <<fetched, rq>> BY <1>4, <2>4 DEF Fetch
    <3>2. InitTask \notin Linked(rq) BY SMTT(60), <2>4 DEF Empty, Linked, Elems
    <3>3. pc[t] # "exit"
      BY <1>0, <2>1, <3>2, TaskAssumption DEF StatusFits, NoTaskLost
    <3>4. QED BY <1>0, <2>1, <2>2, <2>3, <3>1, <3>3 DEF LinksFit
  <2>5. CASE ~Empty(rq)
    <3>1. /\ fetched' = First(rq) /\ rq' = Pop(rq) /\ fetched' \in Tasks /\ rq' \in RunQueues
          /\ Linked(rq) = {fetched'} \cup Linked(rq')
      BY <1>4, <2>5, FetchStep
    <3>2. /\ rq'.realtime = <<>> /\ NoDuplicates(rq'.normal)
          /\ fetched' \notin Elems(rq'.normal)
      BY <1>0, <2>5, <3>1, PopLinks
    <3>3. Linked(rq') = Elems(rq'.normal) BY ONLY ZenonT(30), <3>2, OnlyNormal
    <3>4. Elems(rq'.normal) \cup {fetched'} = Elems(rq.normal) BY <1>2, <3>1, <3>3
    <3>5. fetched' # NoTask BY <1>0, <3>1
    <3>6. QED BY <1>0, <2>1, <2>2, <2>3, <3>2, <3>4, <3>5 DEF LinksFit
  <2>6. QED BY <2>4, <2>5
<1>10. ASSUME NEW t \in Tasks, SwitchToTask(t) PROVE broken' = "no" /\ LinksFit'
  <2>1. /\ UNCHANGED <<status, pc, nth, timeout, woken, timers>> /\ t = current
        /\ fetched # NoTask
    BY <1>10 DEF SwitchToTask, waitVars, timerVars
  <2>2. \A u \in Tasks : timeout'[u] = NoTimeout /\ pc'[u] # "timer" /\ Own(u)' = Own(u)
    BY <1>0, <2>1 DEF Own
  <2>3. t \notin Elems(rq.normal) /\ fetched # t /\ fetched \in Tasks
    BY <1>0, <1>1, <2>1 DEF TypeOK
  <2>4. /\ rq' = IF status[t] = "Runnable" THEN Push(rq, t) ELSE rq
        /\ current' = fetched /\ fetched' = NoTask /\ broken' = "no"
    BY <1>2, <1>10, <2>3 DEF SwitchToTask
  <2>5. /\ rq'.realtime = <<>> /\ NoDuplicates(rq'.normal)
        /\ Elems(rq'.normal) = Elems(rq.normal) \cup (IF status[t] = "Runnable" THEN {t} ELSE {})
    <3>1. CASE status[t] = "Runnable"
      <4>1. /\ rq'.realtime = <<>> /\ NoDuplicates(rq'.normal)
            /\ Linked(rq') = Linked(rq) \cup {t}
        BY <1>0, <2>3, <2>4, <3>1, PushLinks
      <4>2. Linked(rq') = Elems(rq'.normal) BY ONLY ZenonT(30), <4>1, OnlyNormal
      <4>3. QED BY <1>2, <3>1, <4>1, <4>2
    <3>2. CASE status[t] # "Runnable" BY <1>0, <2>4, <3>2
    <3>3. QED BY <3>1, <3>2
  <2>6. status[t] = "Runnable" => pc[t] = "run" BY <2>1, <2>3 DEF StatusFits
  <2>7. \A u \in Elems(rq.normal) \cup {fetched} : MayGoOn(u)'
    <3>1. \A u \in Elems(rq.normal) \cup {fetched} : u \in Tasks /\ MayGoOn(u)
      BY <1>0, <1>1, <2>1, <2>3
    <3>2. QED BY <2>1, <2>2, <3>1 DEF MayGoOn
  <2>8. \A u \in Elems(rq'.normal) : u # current' /\ MayGoOn(u)'
    <3>1. status[t] = "Runnable" => MayGoOn(t)' BY <2>1, <2>6 DEF MayGoOn
    <3>2. \A u \in Elems(rq'.normal) : u \in Elems(rq.normal) \/ (u = t /\ status[t] = "Runnable")
      BY <2>5
    <3>3. QED BY <1>0, <2>3, <2>4, <2>7, <3>1, <3>2
  <2>9. pc'[current'] \notin {"new", "dead"} BY <2>4, <2>7 DEF MayGoOn
  <2>10. NoTask \notin Elems(rq'.normal)
    <3>1. \A u \in Elems(rq'.normal) : u \in Tasks BY <1>1, <2>5
    <3>2. QED BY <1>0, <3>1
  <2>11. QED BY <1>0, <2>1, <2>2, <2>4, <2>5, <2>8, <2>9, <2>10 DEF LinksFit
<1>5. ASSUME NEW t \in Tasks, NEW v \in Tasks, Run(t, v) PROVE broken' = "no" /\ LinksFit'
  <2>1. /\ UNCHANGED <<current, fetched, nth, timeout, woken, timers, broken>> /\ t = current
        /\ fetched = NoTask /\ v # t /\ pc[v] = "new" /\ pc'[v] = "run" /\ pc'[t] = "added"
        /\ \A u \in Tasks \ {t, v} : pc'[u] = pc[u]
        /\ rq' = Push(rq, v) /\ Linked(rq') = Linked(rq) \cup {v}
    BY <1>5, RunStep DEF waitVars, timerVars
  <2>2. \A u \in Tasks : timeout'[u] = NoTimeout /\ pc'[u] # "timer" /\ Own(u)' = Own(u)
    BY <1>0, <2>1 DEF Own
  <2>3. v \notin Elems(rq.normal) BY <1>1, <2>1 DEF MayGoOn
  <2>4. rq'.realtime = <<>> /\ NoDuplicates(rq'.normal)
    BY ONLY ZenonT(30), <1>0, v \in Tasks, <2>1, <2>3, PushLinks
  <2>5. Elems(rq'.normal) = Elems(rq.normal) \cup {v}
    BY ONLY ZenonT(30), <1>2, <2>1, <2>4, OnlyNormal
  <2>6. \A u \in Elems(rq'.normal) : u # current' /\ MayGoOn(u)' /\ u \in Tasks
    BY ZenonT(60), <1>1, <2>1, <2>2, <2>5 DEF MayGoOn
  <2>7. NoTask \notin Elems(rq'.normal) BY <1>0, <2>6
  <2>8. QED BY <1>0, <2>1, <2>2, <2>4, <2>6, <2>7 DEF LinksFit
<1>6. ASSUME NEW t \in Tasks, TaskWakes(t) PROVE broken' = "no" /\ LinksFit'
  <2>1. Wake /\ t = current /\ pc[t] = "run" /\ fetched = NoTask BY <1>6 DEF TaskWakes, At
  <2>2. UNCHANGED <<current, fetched, pc, nth, timeout, timers>> BY <2>1 DEF Wake, timerVars
  <2>3. PICK ws \in Seq(Waiters) :
          WakeUp(ws) /\ Elems(ws) \subseteq Elems(waiters) /\ NoDuplicates(ws)
    BY <2>1, WakeSeq DEF QueueFits
  <2>4. \A w \in Elems(ws) : w = Own(w[1]) /\ pc[w[1]] \in Inside BY <2>3 DEF QueueFits
  <2>5. \A i \in DOMAIN ws : ws[i] \in Elems(ws) BY DEF Elems
  <2>6. \A i, j \in DOMAIN ws : ws[i][1] = ws[j][1] => i = j
    BY SMTT(60), <2>3, <2>4, <2>5 DEF NoDuplicates
  <2>7. \A w \in Elems(ws) : w \notin woken => w[1] \notin Elems(rq.normal)
    BY <1>1, <2>4 DEF Inside, MayGoOn
  <2>8. \A i \in DOMAIN ws : ws[i] \notin woken => ws[i][1] \notin Elems(rq.normal)
    BY <2>5, <2>7
  <2>9. broken' = "no" /\ rq'.realtime = <<>> /\ NoDuplicates(rq'.normal)
    BY <1>0, <2>3, <2>6, <2>8, WakeUpSafe
  <2>10. /\ woken' = woken \cup Elems(ws) /\ Elems(ws) \subseteq Waiters
         /\ Linked(rq') = Linked(rq) \cup {w[1] : w \in Elems(ws) \ woken}
    BY <1>0, <2>3, <2>9, WakeUpLinks
  <2>11. Linked(rq') = Elems(rq'.normal) BY SMTT(60), <2>9 DEF Linked, Elems
  <2>12. ASSUME NEW u \in Elems(rq'.normal), u \notin Elems(rq.normal)
         PROVE  u # current /\ u \in Tasks /\ pc[u] = "sleep" /\ Own(u) \in woken'
    <3>1. PICK w \in Elems(ws) : u = w[1] BY <1>2, <2>10, <2>11, <2>12
    <3>2. Own(u) = w /\ pc[u] \in Inside /\ u \in Tasks BY <2>4, <2>10, <3>1 DEF Waiters
    <3>3. u # current BY <2>1, <3>2 DEF Inside
    <3>4. QED BY <2>10, <3>2, <3>3 DEF StatusFits, Inside
  <2>13. \A u \in Elems(rq'.normal) : u # current' /\ u \in Tasks /\ MayGoOn(u)'
    BY <1>1, <2>2, <2>10, <2>12 DEF Own, MayGoOn
  <2>14. NoTask \notin Elems(rq'.normal) BY <1>0, <2>13
  <2>15. QED BY <1>0, <2>1, <2>2, <2>9, <2>13, <2>14 DEF LinksFit
<1>7. \A t \in Tasks : ~Preempt(t) /\ ~Unreachable(t)
  BY <1>0 DEF Preempt, ShouldPreempt, Unreachable, At
<1>8. ~DeviceIrq /\ ~TimerCallback BY <1>0 DEF DeviceIrq, TimerCallback
<1>9. QED BY <1>3, <1>4, <1>5, <1>6, <1>7, <1>8, <1>10 DEF Next, TaskStep


-----------------------------------------------------------------------------
(* Inv holds at first.                                                     *)
LEMMA InvHoldsFirst == Init => Inv
<1> SUFFICES ASSUME Init PROVE Inv OBVIOUS
<1> USE TaskAssumption
<1>1. /\ Elems(<<>>) = {} /\ NoDuplicates(<<>>) /\ <<>> \in Seq(Tasks) /\ <<>> \in Seq(Waiters)
  BY SMTT(60) DEF Elems, NoDuplicates
<1>2. TypeOK
  BY SMTT(60), <1>1 DEF Init, TypeOK, RunQueues, PCs
<1>3. \A t \in Tasks : pc[t] \in {"new", "run"} /\ status[t] = "Runnable" /\ timeout[t] = NoTimeout
  BY DEF Init
<1>4. pc[InitTask] = "run" /\ current = InitTask /\ fetched = NoTask /\ passed = {} /\ \A t \in Tasks \ {InitTask} : pc[t] = "new"
  BY DEF Init
<1>5. /\ waiters = <<>> /\ rq.realtime = <<>> /\ rq.normal = <<>> /\ timers = {}
      /\ cancelled = {} /\ broken = "no"
  BY DEF Init
<1>7. StatusFits BY <1>3, <1>4 DEF StatusFits
<1>8. QueueFits BY <1>1, <1>3, <1>5 DEF QueueFits, Inside
<1>9. WokenSinceCheck BY <1>3 DEF WokenSinceCheck
<1>10. TimersFit BY <1>3, <1>5 DEF TimersFit
<1>11. NoTaskLost BY <1>4 DEF NoTaskLost
<1>12. LinksFit BY <1>1, <1>3, <1>4, <1>5 DEF LinksFit
<1>13. DozerLinked /\ PassedWait BY <1>4 DEF DozerLinked, PassedWait
<1>14. QED
  BY <1>1, <1>2, <1>5, <1>7, <1>8, <1>9, <1>10, <1>11, <1>12, <1>13 DEF Inv, RealTimeLinked

(* Every step keeps Inv.                                                   *)
LEMMA InvIsKept == Inv /\ [Next]_vars => Inv'
<1> SUFFICES ASSUME Inv, [Next]_vars PROVE Inv' OBVIOUS
<1>1. CASE UNCHANGED vars
  BY ZenonT(60), <1>1
  DEF Inv, vars, taskVars, waitVars, timerVars, TypeOK, RealTimeLinked, StatusFits,
       QueueFits, WokenSinceCheck, TimersFit, NoTaskLost, LinksFit, Calm, Own, Armed,
       DozerLinked, PassedWait, MayGoOn
<1>2. CASE Next
  <2>1. /\ broken = "no" /\ env' = env
        /\ TypeOK /\ RealTimeLinked /\ StatusFits /\ QueueFits /\ WokenSinceCheck /\ TimersFit
        /\ NoTaskLost /\ DozerLinked /\ PassedWait /\ (Calm => LinksFit)
    BY <1>2 DEF Inv, Next
  <2>2. TypeOK' BY <1>2, <2>1, TypeKept
  <2>3. RealTimeLinked' BY <1>2, <2>1, RealTimeKept
  <2>4. Calm' <=> Calm BY <2>1 DEF Calm
  <2>5. ASSUME Calm PROVE broken' = "no" /\ LinksFit' BY <1>2, <2>1, <2>5, LinksKept
  <2>6. ASSUME broken' = "no"
        PROVE  /\ StatusFits' /\ QueueFits' /\ WokenSinceCheck' /\ TimersFit'
               /\ NoTaskLost' /\ DozerLinked' /\ PassedWait'
    BY <1>2, <2>1, <2>6, StatusKept, QueueKept, WokenKept, TimersKept, TasksKept, DozerKept,
       PassedKept
  <2>7. QED BY <2>2, <2>3, <2>4, <2>5, <2>6 DEF Inv
<1>3. QED BY <1>1, <1>2

(* The scheduler and the waits are sound for any number of tasks, any wait *)
(* and tick bounds and any environment: nothing panics where only tasks    *)
(* wake, no task is lost, wake_all loses no wakeup and no timeout is       *)
(* overslept.                                                              *)
THEOREM SchedulerIsSound == Spec => []SchedSound
<1>1. Inv => SchedSound
  <2>1. ASSUME Inv, broken = "no", NEW t \in Tasks, pc[t] \in {"sleep", "doze"},
               timeout[t] # NoTimeout, Own(t) \notin woken
        PROVE  Armed(t)
    BY <2>1 DEF Inv, TimersFit
  <2>2. Inv => NoOversleep BY <2>1 DEF NoOversleep, Armed
  <2>3. ASSUME Inv, broken = "no", "one" \notin env.wakes, ready > 0, NEW t \in Tasks,
               pc[t] \in {"sleep", "doze"}
        PROVE  Own(t) \in woken
    BY SMTT(60), <2>3 DEF Inv, WokenSinceCheck, TypeOK
  <2>4. Inv => NoWakeupLost BY <2>3 DEF NoWakeupLost
  <2>5. Inv => NothingBreaks BY DEF Inv, NothingBreaks, Calm
  <2>6. Inv => NoTaskLost BY DEF Inv, NoTaskLost
  <2>7. QED BY <2>2, <2>4, <2>5, <2>6 DEF SchedSound
<1>2. QED BY <1>1, InvHoldsFirst, InvIsKept, PTL DEF Spec

(* No real-time task is passed over twice: a normal task is fetched only   *)
(* when the real-time queue is empty, so that none of the tasks that an    *)
(* interrupt adds before the switch has been passed over before.           *)
THEOREM RealTimeGoesFirst == Spec => RealTimeFirst
<1>1. ASSUME Inv, Next, current' # current, current' \notin env.realtime
      PROVE  passed = {}
  <2>1. TypeOK /\ PassedWait /\ broken = "no" BY <1>1 DEF Inv, Next
  <2>2. ASSUME NEW t \in Tasks, SwitchToTask(t) PROVE passed = {}
    <3>1. fetched # NoTask /\ current' = fetched
      BY <1>1, <2>1, <2>2, SwitchLinks DEF SwitchToTask
    <3>2. QED BY <1>1, <2>1, <3>1 DEF PassedWait
  <2>3. \A t \in Tasks : OwnStep(t) => current' = current BY <2>1, OwnStepLeaves
  <2>4. \A t \in Tasks : Fetch(t) \/ Preempt(t) \/ Unreachable(t) \/ TaskWakes(t)
                         => current' = current
    BY DEF Fetch, Preempt, Unreachable, TaskWakes, Wake, taskVars
  <2>5. \A t, u \in Tasks : Run(t, u) => current' = current BY DEF Run
  <2>6. DeviceIrq \/ TimerCallback => current' = current
    BY DEF DeviceIrq, Wake, TimerCallback, taskVars
  <2>7. ASSUME NEW t \in Tasks, TaskStep(t) PROVE passed = {}
    BY <1>1, <2>2, <2>3, <2>4, <2>5, <2>7 DEF TaskStep
  <2>8. PICK t \in Tasks : TaskStep(t) BY <1>1, <2>6 DEF Next
  <2>9. QED BY <2>7, <2>8
<1>2. ASSUME Inv, [Next]_vars
      PROVE  [current' # current /\ current' \notin env.realtime => passed = {}]_vars
  BY <1>1, <1>2
<1>3. QED BY <1>2, InvHoldsFirst, InvIsKept, PTL DEF Spec, RealTimeFirst
=============================================================================
