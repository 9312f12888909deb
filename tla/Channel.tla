------------------------------ MODULE Channel ------------------------------
(***************************************************************************)
(* The channel behind pipes and stream sockets (fs/utils/channel.rs) with  *)
(* the pollees of its two ends, the pollers that wait on them and the      *)
(* observer tables between them (process/signal/poll.rs,                   *)
(* events/subject.rs).                                                     *)
(*                                                                         *)
(* The two ends are symmetric: an end is "P" (producer) or "C" (consumer). *)
(* A thread reads or writes at its end, or polls it.  The kernel runs one  *)
(* thread at a time and switches only when it sleeps or returns, so that a *)
(* call is one step up to its return or to Poller::wait.                   *)
(***************************************************************************)
EXTENDS Integers, FiniteSets, TLAPS

CONSTANTS Writers, Readers, Capacity, MaxLen

ASSUME ChannelAssumption == /\ Writers \cap Readers = {}
                            /\ Capacity \in Nat \ {0} /\ MaxLen \in Nat \ {0}

Threads == Writers \cup Readers
Ends == {"P", "C"}
side(t) == IF t \in Writers THEN "P" ELSE "C"
peer(e) == IF e = "P" THEN "C" ELSE "P"
ready_event(e) == IF e = "P" THEN "OUT" ELSE "IN"
gone_event(e) == IF e = "P" THEN "ERR" ELSE "HUP"    \* at e when its peer is dropped

VARIABLES len,         \* items in the ring buffer
          is_shutdown, \* the ends that are shut down
          dropped,     \* the ends whose last file was closed
          events,      \* Pollee.events of each end
          observers,   \* the threads whose poller is registered at each end
          counter,     \* the threads whose EventCounter is not 0
          pc,          \* "user", asleep in a call ("io", "poll"), or "spins" in it
          want,        \* the items the call of each thread asks for
          result       \* of the last call of each thread

vars == <<len, is_shutdown, dropped, events, observers, counter, pc, want, result>>

Init == /\ len = 0
        /\ is_shutdown = {} /\ dropped = {}
        /\ events = [e \in Ends |-> IF e = "P" THEN {"OUT"} ELSE {}]
        /\ observers = [e \in Ends |-> {}]
        /\ counter = {}
        /\ pc = [t \in Threads |-> "user"]
        /\ want = [t \in Threads |-> 0]
        /\ result = [t \in Threads |-> "none"]

Least(a, b) == IF a < b THEN a ELSE b
Blocked(e, n) == IF e = "P" THEN n = Capacity ELSE n = 0

(* Subject::notify_observers: the pollers that add_events wakes up.        *)
(* Every poller asks for the ready event of its end, ERR and HUP.          *)
Notify(e) == observers[e]

(* The call of t returns r, and its poller is dropped.                     *)
Return(t, r) ==
  /\ pc' = [pc EXCEPT ![t] = "user"]
  /\ want' = [want EXCEPT ![t] = 0]
  /\ result' = [result EXCEPT ![t] = r]
  /\ observers' = [observers EXCEPT ![side(t)] = @ \ {t}]

-----------------------------------------------------------------------------
(* Mutant: the end that was blocked forgets to withdraw its event.         *)
UpdatePolleeKeeps(e, n) ==
  events' = [events EXCEPT
    ![peer(e)] = IF Blocked(peer(e), n) THEN @ ELSE @ \cup {ready_event(peer(e))}]

(* update_pollee of end e, with n items in the buffer: its own event goes  *)
(* when it is blocked, that of the other end comes when it is not.         *)
UpdatePollee(e, n) ==
  events' = [events EXCEPT
    ![e] = IF Blocked(e, n) THEN @ \ {ready_event(e)} ELSE @,
    ![peer(e)] = IF Blocked(peer(e), n) THEN @ ELSE @ \cup {ready_event(peer(e))}]

(* EPIPE: the tests at the start of try_write and try_read.                *)
Refused(t) == is_shutdown \cap (IF side(t) = "P" THEN Ends ELSE {"C"}) # {}

(* Mutant: a reader that finds the writers gone does not look at the data. *)
MovedUnlessPeerGone(t, n) ==
  IF side(t) = "P" THEN Least(n, Capacity - len)
  ELSE IF "P" \in is_shutdown THEN 0 ELSE Least(n, len)

(* push_slice and pop_slice of n items.                                    *)
Moved(t, n) == IF side(t) = "P" THEN Least(n, Capacity - len) ELSE Least(n, len)

(* What the loop of read and write does after it moved nothing: it polls   *)
(* its end and tries again if there is an event, else it sleeps.           *)
SleepOrSpin(t, n) ==
  /\ LET e == side(t)
         ready == events'[e] \cap {ready_event(e), "ERR", "HUP"} # {}
     IN  /\ pc' = [pc EXCEPT ![t] = IF ready THEN "spins" ELSE "io"]
         /\ observers' = [observers EXCEPT ![e] = IF ready THEN @ ELSE @ \cup {t}]
  /\ want' = [want EXCEPT ![t] = n]
  /\ UNCHANGED result

(* Producer::write and Consumer::read: try_write or try_read, update_pollee*)
(* and, on EAGAIN, SleepOrSpin.                                            *)
Attempt(t, n, nonblocking) ==
  LET e == side(t)
      k == Moved(t, n)
      new == IF e = "P" THEN len + k ELSE len - k
      eof == e = "C" /\ "P" \in is_shutdown
  IN  /\ IF Refused(t)
         THEN UNCHANGED <<len, events>> /\ counter' = counter \ {t}
         ELSE /\ len' = new
              /\ UpdatePollee(e, new)
              /\ counter' = (counter \ {t}) \cup
                            (IF Blocked(peer(e), new) THEN {}
                             ELSE Notify(peer(e)))
      /\ \/ Refused(t) /\ Return(t, "EPIPE")
         \/ ~Refused(t) /\ k > 0 /\ Return(t, "data")
         \/ ~Refused(t) /\ k = 0 /\ eof /\ Return(t, "eof")
         \/ ~Refused(t) /\ k = 0 /\ ~eof /\ nonblocking /\ Return(t, "EAGAIN")
         \/ ~Refused(t) /\ k = 0 /\ ~eof /\ ~nonblocking /\ SleepOrSpin(t, n)
      /\ UNCHANGED <<is_shutdown, dropped>>

Io(t, n, nonblocking) ==
  pc[t] = "user" /\ side(t) \notin dropped /\ Attempt(t, n, nonblocking)

(* Poller::wait returns for an event, and the loop goes round.             *)
IoWoken(t) == pc[t] = "io" /\ t \in counter /\ Attempt(t, want[t], FALSE)

-----------------------------------------------------------------------------
(* do_poll of the end of t: Pollee::poll, and Poller::wait without events. *)
PollOnce(t) ==
  LET e == side(t)
      ready == events[e] \cap {ready_event(e), "ERR", "HUP"} # {}
  IN  /\ \/ ready /\ Return(t, "events")
         \/ /\ ~ready
            /\ pc' = [pc EXCEPT ![t] = "poll"]
            /\ observers' = [observers EXCEPT ![e] = @ \cup {t}]
            /\ UNCHANGED <<want, result>>
      /\ counter' = counter \ {t}
      /\ UNCHANGED <<len, is_shutdown, dropped, events>>

Poll(t) == pc[t] = "user" /\ side(t) \notin dropped /\ PollOnce(t)

PollWoken(t) == pc[t] = "poll" /\ t \in counter /\ PollOnce(t)

(* Poller::wait ends with a signal or, in poll, with the timeout.          *)
Interrupted(t) ==
  /\ pc[t] \in {"io", "poll"}
  /\ Return(t, "EINTR")
  /\ counter' = counter \ {t}
  /\ UNCHANGED <<len, is_shutdown, dropped, events>>

-----------------------------------------------------------------------------
(* Endpoint::shutdown of a stream socket: the flag, and nothing else.      *)
Shutdown(e) ==
  /\ e \notin dropped \cup is_shutdown
  /\ is_shutdown' = is_shutdown \cup {e}
  /\ UNCHANGED <<len, dropped, events, observers, counter, pc, want, result>>

(* Drop of Producer and Consumer, when no thread uses the end any more.    *)
Drop(e) ==
  /\ e \notin dropped
  /\ \A t \in Threads : side(t) = e => pc[t] = "user"
  /\ is_shutdown' = is_shutdown \cup {e}
  /\ dropped' = dropped \cup {e}
  /\ events' = [events EXCEPT ![peer(e)] = @ \cup {gone_event(peer(e))}]
  /\ counter' = counter \cup Notify(peer(e))
  /\ UNCHANGED <<len, observers, pc, want, result>>

Next == \/ \E t \in Threads :
             \/ \E n \in 1 .. MaxLen, nonblocking \in BOOLEAN : Io(t, n, nonblocking)
             \/ IoWoken(t) \/ Poll(t) \/ PollWoken(t) \/ Interrupted(t)
        \/ \E e \in Ends : Shutdown(e) \/ Drop(e)

Spec == Init /\ [][Next]_vars

-----------------------------------------------------------------------------
(* The comment in update_pollee: the events of a pollee reflect the true   *)
(* state of the ring buffer, here whenever no thread is inside a call; and *)
(* an end has HUP or ERR exactly when the other one was dropped.           *)
PolleeIsTrue ==
  \A e \in Ends : /\ ready_event(e) \in events[e] <=> ~Blocked(e, len)
                  /\ gone_event(e) \in events[e] <=> peer(e) \in dropped

(* No thread sleeps in read, write or poll while its end is ready or the   *)
(* other end was dropped, unless its poller was notified; and none tries   *)
(* over and over because an event calls it to an end where nothing moves.  *)
NoForgottenSleeper ==
  \A t \in Threads :
    /\ pc[t] # "spins"
    /\ pc[t] \in {"io", "poll"} /\ t \notin counter =>
         Blocked(side(t), len) /\ peer(side(t)) \notin dropped

(* A pipe or stream socket: its pollees tell the truth, and nobody         *)
(* oversleeps what they wait for.                                          *)
ChannelSound == PolleeIsTrue /\ NoForgottenSleeper

(* read reports the end of the data only when all data was read: nothing   *)
(* that was written is lost by a close.                                    *)
EofOnlyWhenDrained ==
  [][\A t \in Readers : result'[t] = "eof" /\ result[t] # "eof" => len = 0]_vars

-----------------------------------------------------------------------------
(* The proofs, for any number of readers and writers and any capacity.     *)
(* ChanInv is inductive.                                                   *)
TypeOK ==
  /\ len \in 0 .. Capacity
  /\ is_shutdown \subseteq Ends /\ dropped \subseteq is_shutdown
  /\ events \in [Ends -> SUBSET {"IN", "OUT", "ERR", "HUP"}]
  /\ \A e \in Ends : events[e] \subseteq {ready_event(e), gone_event(e)}
  /\ observers \in [Ends -> SUBSET Threads]
  /\ counter \subseteq Threads
  /\ pc \in [Threads -> {"user", "io", "poll", "spins"}]
  /\ want \in [Threads -> Nat]
  /\ result \in [Threads -> {"none", "data", "eof", "EPIPE", "EAGAIN", "EINTR", "events"}]

(* A thread that sleeps is an observer of an end that is still open, and   *)
(* its read or write asks for something.                                   *)
SleepersObserve ==
  \A t \in Threads :
    /\ pc[t] \in {"io", "poll"} => t \in observers[side(t)] /\ side(t) \notin dropped
    /\ pc[t] = "io" => want[t] > 0

ChanInv == TypeOK /\ PolleeIsTrue /\ NoForgottenSleeper /\ SleepersObserve

-----------------------------------------------------------------------------
(* A leaf that names no prover is for Zenon.                               *)
USE ZenonT(30)

(* Every thread uses one of the two ends, and the two are each other's     *)
(* peers.                                                                  *)
LEMMA EndFacts ==
  /\ \A t : side(t) \in Ends
  /\ \A e \in Ends : peer(e) \in Ends /\ peer(e) # e /\ peer(peer(e)) = e
  /\ \A e, f \in Ends : f # e => f = peer(e)
  /\ \A e \in Ends : /\ ready_event(e) # gone_event(e) /\ gone_event(e) \in {"ERR", "HUP"}
                     /\ ready_event(e) \notin {"ERR", "HUP"}
                     /\ ready_event(e) \in {"IN", "OUT", "ERR", "HUP"}
BY DEF Ends, side, peer, ready_event, gone_event

(* The events that a poller of end e asks for are there exactly when the   *)
(* end is not blocked or the other one was dropped.                        *)
Ready(e) == events[e] \cap {ready_event(e), "ERR", "HUP"} # {}

(* A poller of an end is told that it is ready exactly when it is not      *)
(* blocked or the other end is gone.                                       *)
LEMMA ReadyIsTrue ==
  ASSUME ChanInv, NEW e \in Ends
  PROVE  Ready(e) <=> ~Blocked(e, len) \/ peer(e) \in dropped
<1>1. events[e] \subseteq {ready_event(e), gone_event(e)} BY DEF ChanInv, TypeOK
<1>2. /\ ready_event(e) \in events[e] <=> ~Blocked(e, len)
      /\ gone_event(e) \in events[e] <=> peer(e) \in dropped
  BY DEF ChanInv, PolleeIsTrue
<1>3. QED BY SMTT(60), <1>1, <1>2, EndFacts DEF Ready

(* A new channel.                                                          *)
LEMMA InitInv == Init => ChanInv
<1> SUFFICES ASSUME Init PROVE ChanInv OBVIOUS
<1>1. TypeOK BY SMTT(60), ChannelAssumption DEF Init, TypeOK, Ends, ready_event, gone_event
<1>2. PolleeIsTrue
  BY ChannelAssumption DEF Init, PolleeIsTrue, Ends, ready_event, gone_event, Blocked, peer
<1>3. NoForgottenSleeper /\ SleepersObserve BY DEF Init, NoForgottenSleeper, SleepersObserve
<1>4. QED BY <1>1, <1>2, <1>3 DEF ChanInv

(* A call returns or goes to sleep without touching the buffer.            *)
LEMMA ReturnFacts ==
  ASSUME ChanInv, NEW t \in Threads, NEW r \in {"data", "eof", "EPIPE", "EAGAIN", "EINTR", "events"},
         Return(t, r)
  PROVE  /\ pc' \in [Threads -> {"user", "io", "poll", "spins"}] /\ want' \in [Threads -> Nat]
         /\ result' \in [Threads -> {"none", "data", "eof", "EPIPE", "EAGAIN", "EINTR", "events"}]
         /\ observers' \in [Ends -> SUBSET Threads]
         /\ pc'[t] = "user"
         /\ \A u \in Threads \ {t} : /\ pc'[u] = pc[u] /\ want'[u] = want[u]
                                     /\ result'[u] = result[u]
                                     /\ \A e \in Ends : u \in observers'[e] <=> u \in observers[e]
BY SMTT(60), EndFacts DEF ChanInv, TypeOK, Return

-----------------------------------------------------------------------------
(* The steps that change neither the buffer nor the ends.                  *)
LEMMA QuietKeeps ==
  ASSUME ChanInv, NEW t \in Threads, counter' = counter \ {t},
         UNCHANGED <<len, is_shutdown, dropped, events>>,
         pc' \in [Threads -> {"user", "io", "poll", "spins"}], want' \in [Threads -> Nat],
         result' \in [Threads -> {"none", "data", "eof", "EPIPE", "EAGAIN", "EINTR", "events"}],
         observers' \in [Ends -> SUBSET Threads],
         \/ pc'[t] = "user"
         \/ /\ pc'[t] \in {"io", "poll"} /\ t \in observers'[side(t)] /\ side(t) \notin dropped
            /\ pc'[t] = "io" => want'[t] > 0
            /\ Blocked(side(t), len) /\ peer(side(t)) \notin dropped,
         \A u \in Threads \ {t} : /\ pc'[u] = pc[u] /\ want'[u] = want[u]
                                  /\ \A e \in Ends : u \in observers'[e] <=> u \in observers[e]
  PROVE  ChanInv'
<1>1. TypeOK' BY DEF ChanInv, TypeOK
<1>2. PolleeIsTrue' BY DEF ChanInv, PolleeIsTrue
<1>3. NoForgottenSleeper' BY DEF ChanInv, NoForgottenSleeper
<1>4. SleepersObserve' BY EndFacts DEF ChanInv, SleepersObserve
<1>5. QED BY <1>1, <1>2, <1>3, <1>4 DEF ChanInv

(* One round of Poller::wait.                                              *)
LEMMA PollKeeps ==
  ASSUME ChanInv, NEW t \in Threads, side(t) \notin dropped, PollOnce(t) PROVE ChanInv'
<1> DEFINE e == side(t)
<1>0. counter' = counter \ {t} /\ UNCHANGED <<len, is_shutdown, dropped, events>> BY DEF PollOnce
<1>1. CASE Return(t, "events") BY <1>0, <1>1, ReturnFacts, QuietKeeps
<1>2. CASE /\ ~Ready(e) /\ pc' = [pc EXCEPT ![t] = "poll"]
           /\ observers' = [observers EXCEPT ![e] = @ \cup {t}]
           /\ UNCHANGED <<want, result>>
  <2>1. Blocked(e, len) /\ peer(e) \notin dropped BY <1>2, EndFacts, ReadyIsTrue
  <2>2. /\ pc' \in [Threads -> {"user", "io", "poll", "spins"}] /\ want' \in [Threads -> Nat]
        /\ result' \in [Threads -> {"none", "data", "eof", "EPIPE", "EAGAIN", "EINTR", "events"}]
        /\ observers' \in [Ends -> SUBSET Threads]
        /\ pc'[t] = "poll" /\ t \in observers'[e]
        /\ \A u \in Threads \ {t} : /\ pc'[u] = pc[u] /\ want'[u] = want[u]
                                    /\ \A f \in Ends : u \in observers'[f] <=> u \in observers[f]
    BY SMTT(60), <1>2, EndFacts DEF ChanInv, TypeOK
  <2>3. QED BY <1>0, <2>1, <2>2, QuietKeeps
<1>3. QED BY <1>1, <1>2 DEF PollOnce, Ready

(* A signal ends the wait.                                                 *)
LEMMA InterruptedKeeps ==
  ASSUME ChanInv, NEW t \in Threads, Interrupted(t) PROVE ChanInv'
BY ReturnFacts, QuietKeeps DEF Interrupted

(* Endpoint::shutdown.                                                     *)
LEMMA ShutdownKeeps ==
  ASSUME ChanInv, NEW e \in Ends, Shutdown(e) PROVE ChanInv'
BY DEF Shutdown, ChanInv, TypeOK, PolleeIsTrue, NoForgottenSleeper, SleepersObserve

(* The drop of an end reaches everybody who waits at the other one.        *)
LEMMA DropKeeps ==
  ASSUME ChanInv, NEW e \in Ends, Drop(e) PROVE ChanInv'
<1>1. /\ \A t \in Threads : side(t) = e => pc[t] = "user"
      /\ is_shutdown' = is_shutdown \cup {e} /\ dropped' = dropped \cup {e}
      /\ events' = [events EXCEPT ![peer(e)] = @ \cup {gone_event(peer(e))}]
      /\ counter' = counter \cup observers[peer(e)]
      /\ UNCHANGED <<len, observers, pc, want, result>>
  BY DEF Drop, Notify
<1>2. TypeOK' BY SMTT(60), <1>1, EndFacts DEF ChanInv, TypeOK
<1>3. PolleeIsTrue' BY SMTT(60), <1>1, EndFacts DEF ChanInv, TypeOK, PolleeIsTrue
<1>4. \A t \in Threads : pc[t] \in {"io", "poll"} => side(t) = peer(e) /\ t \in observers[peer(e)]
  BY <1>1, EndFacts DEF ChanInv, SleepersObserve
<1>5. NoForgottenSleeper' /\ SleepersObserve'
  BY <1>1, <1>4, EndFacts DEF ChanInv, NoForgottenSleeper, SleepersObserve
<1>6. QED BY <1>2, <1>3, <1>5 DEF ChanInv

-----------------------------------------------------------------------------
(* What a read or write moves: nothing exactly when its end is blocked, and*)
(* it unblocks the other end if it moves something.                        *)
LEMMA MovedFacts ==
  ASSUME ChanInv, NEW t \in Threads, NEW n \in Nat \ {0},
         NEW new, new = IF side(t) = "P" THEN len + Moved(t, n) ELSE len - Moved(t, n)
  PROVE  /\ Moved(t, n) \in Nat /\ new \in 0 .. Capacity
         /\ Moved(t, n) = 0 <=> Blocked(side(t), len)
         /\ Moved(t, n) = 0 => new = len
         /\ Moved(t, n) > 0 => ~Blocked(peer(side(t)), new)
<1>1. len \in 0 .. Capacity /\ Capacity \in Nat \ {0}
  BY ChannelAssumption DEF ChanInv, TypeOK
<1>2. CASE side(t) = "P"
  <2>1. Moved(t, n) = (IF n < Capacity - len THEN n ELSE Capacity - len) /\ new = len + Moved(t, n)
    BY <1>2 DEF Moved, Least
  <2>2. QED BY SMTT(60), <1>1, <1>2, <2>1 DEF Blocked, peer
<1>3. CASE side(t) = "C"
  <2>1. Moved(t, n) = (IF n < len THEN n ELSE len) /\ new = len - Moved(t, n)
    BY <1>3 DEF Moved, Least
  <2>2. QED BY SMTT(60), <1>1, <1>3, <2>1 DEF Blocked, peer
<1>4. QED BY <1>2, <1>3, EndFacts DEF Ends

(* A read or write that is not refused.                                    *)
LEMMA MoveKeeps ==
  ASSUME ChanInv, NEW t \in Threads, NEW n \in Nat \ {0}, side(t) \notin dropped,
         NEW new, new = IF side(t) = "P" THEN len + Moved(t, n) ELSE len - Moved(t, n),
         len' = new, UpdatePollee(side(t), new),
         counter' = (counter \ {t}) \cup
                    (IF Blocked(peer(side(t)), new) THEN {} ELSE Notify(peer(side(t)))),
         UNCHANGED <<is_shutdown, dropped>>,
         pc' \in [Threads -> {"user", "io", "poll", "spins"}], want' \in [Threads -> Nat],
         result' \in [Threads -> {"none", "data", "eof", "EPIPE", "EAGAIN", "EINTR", "events"}],
         observers' \in [Ends -> SUBSET Threads],
         \/ pc'[t] = "user"
         \/ /\ pc'[t] = "io" /\ t \in observers'[side(t)] /\ want'[t] > 0
            /\ Moved(t, n) = 0 /\ peer(side(t)) \notin dropped,
         \A u \in Threads \ {t} : /\ pc'[u] = pc[u] /\ want'[u] = want[u]
                                  /\ \A e \in Ends : u \in observers'[e] <=> u \in observers[e]
  PROVE  ChanInv'
<1> DEFINE e == side(t)
           k == Moved(t, n)
<1>1. /\ k \in Nat /\ new \in 0 .. Capacity
      /\ k = 0 <=> Blocked(e, len)
      /\ k = 0 => new = len
      /\ k > 0 => ~Blocked(peer(e), new)
  BY SMTT(60), MovedFacts
<1>2. e \in Ends /\ peer(e) \in Ends /\ peer(e) # e BY EndFacts
<1>3. Blocked(e, len) => Blocked(e, new) BY <1>1
<1>4. Blocked(peer(e), new) => new = len BY SMTT(60), <1>1
<1> HIDE DEF e, k
<1>5. /\ events'[e] = IF Blocked(e, new) THEN events[e] \ {ready_event(e)} ELSE events[e]
      /\ events'[peer(e)] = IF Blocked(peer(e), new) THEN events[peer(e)]
                            ELSE events[peer(e)] \cup {ready_event(peer(e))}
      /\ events' \in [Ends -> SUBSET {"IN", "OUT", "ERR", "HUP"}]
  <2>1. events \in [Ends -> SUBSET {"IN", "OUT", "ERR", "HUP"}] BY DEF ChanInv, TypeOK
  <2>2. events' = [events EXCEPT
          ![e] = IF Blocked(e, new) THEN @ \ {ready_event(e)} ELSE @,
          ![peer(e)] = IF Blocked(peer(e), new) THEN @ ELSE @ \cup {ready_event(peer(e))}]
    BY DEF UpdatePollee, e
  <2>3. ready_event(peer(e)) \in {"IN", "OUT", "ERR", "HUP"} BY <1>2, EndFacts
  <2>4. QED BY <1>2, <2>1, <2>2, <2>3
<1>6. \A f \in Ends : f = e \/ f = peer(e) BY <1>2, EndFacts
<1>7. TypeOK'
  <2>1. \A f \in Ends : events'[f] \subseteq {ready_event(f), gone_event(f)}
    BY SMTT(60), <1>2, <1>5, <1>6 DEF ChanInv, TypeOK
  <2>2. counter' \subseteq Threads BY <1>2 DEF ChanInv, TypeOK, Notify, e
  <2>3. QED BY <1>1, <1>5, <2>1, <2>2 DEF ChanInv, TypeOK
<1>8. PolleeIsTrue'
  <2>1. \A f \in Ends : /\ ready_event(f) \in events[f] <=> ~Blocked(f, len)
                        /\ gone_event(f) \in events[f] <=> peer(f) \in dropped
    BY DEF ChanInv, PolleeIsTrue
  <2>2. \A f \in Ends : gone_event(f) \in events'[f] <=> gone_event(f) \in events[f]
    BY SMTT(60), <1>2, <1>5, <1>6, EndFacts
  <2>3. ready_event(e) \in events'[e] <=> ~Blocked(e, new)
    BY <1>2, <1>3, <1>5, <2>1
  <2>4. ready_event(peer(e)) \in events'[peer(e)] <=> ~Blocked(peer(e), new)
    BY SMTT(60), <1>2, <1>4, <1>5, <2>1
  <2>5. QED BY <1>6, <2>1, <2>2, <2>3, <2>4 DEF PolleeIsTrue
<1>9. NoForgottenSleeper'
  <2>1. ASSUME NEW u \in Threads \ {t}, pc[u] \in {"io", "poll"}, u \notin counter'
        PROVE  Blocked(side(u), new) /\ peer(side(u)) \notin dropped
    <3>1. u \notin counter /\ Blocked(side(u), len) /\ peer(side(u)) \notin dropped
      BY <2>1 DEF ChanInv, NoForgottenSleeper
    <3>2. CASE side(u) = e BY <1>3, <3>1, <3>2
    <3>3. CASE side(u) = peer(e)
      <4>1. u \in Notify(peer(e)) BY <2>1, <3>3 DEF ChanInv, SleepersObserve, Notify
      <4>2. Blocked(peer(e), new) BY <2>1, <4>1 DEF e
      <4>3. QED BY <3>1, <3>3, <4>2
    <3>4. QED BY <1>6, <3>2, <3>3, EndFacts
  <2>2. \A u \in Threads \ {t} : pc[u] # "spins" BY DEF ChanInv, NoForgottenSleeper
  <2>3. pc'[t] = "io" => Blocked(e, new) /\ peer(e) \notin dropped BY <1>1, <1>3 DEF e, k
  <2>4. QED BY <2>1, <2>2, <2>3 DEF NoForgottenSleeper, e
<1>10. SleepersObserve'
  BY EndFacts DEF ChanInv, SleepersObserve
<1>11. QED BY <1>7, <1>8, <1>9, <1>10 DEF ChanInv

(* One attempt of read or write, with the update of both pollees.          *)
LEMMA AttemptKeeps ==
  ASSUME ChanInv, NEW t \in Threads, NEW n \in Nat \ {0}, NEW nonblocking \in BOOLEAN,
         side(t) \notin dropped, Attempt(t, n, nonblocking)
  PROVE  ChanInv'
<1> DEFINE e == side(t)
           k == Moved(t, n)
           new == IF e = "P" THEN len + k ELSE len - k
           eof == e = "C" /\ "P" \in is_shutdown
<1>1. CASE Refused(t)
  <2>1. UNCHANGED <<len, is_shutdown, dropped, events>> /\ counter' = counter \ {t}
        /\ Return(t, "EPIPE")
    BY <1>1 DEF Attempt
  <2>2. QED BY <2>1, ReturnFacts, QuietKeeps
<1>2. CASE ~Refused(t)
  <2>1. /\ len' = new /\ UpdatePollee(e, new)
        /\ counter' = (counter \ {t}) \cup
                      (IF Blocked(peer(e), new) THEN {} ELSE Notify(peer(e)))
        /\ UNCHANGED <<is_shutdown, dropped>>
    BY <1>2 DEF Attempt
  <2>2. ASSUME NEW r \in {"data", "eof", "EPIPE", "EAGAIN", "EINTR", "events"}, Return(t, r)
        PROVE  ChanInv'
    BY SMTT(60), <2>1, <2>2, ReturnFacts, MoveKeeps
  <2>3. ASSUME k = 0, ~eof, SleepOrSpin(t, n) PROVE ChanInv'
    <3>1. peer(e) \notin dropped
      BY <1>2, <2>3, EndFacts DEF Refused, ChanInv, TypeOK, peer, Ends, side
    <3>2. new = len /\ Blocked(e, new) BY SMTT(60), <2>3, MovedFacts
    <3>3. events'[e] \cap {ready_event(e), "ERR", "HUP"} = {}
      <4>1. e \in Ends /\ peer(e) \in Ends /\ peer(e) # e BY EndFacts
      <4>2. events'[e] = events[e] \ {ready_event(e)}
        BY <2>1, <3>2, <4>1 DEF UpdatePollee, ChanInv, TypeOK
      <4>3. events[e] \subseteq {ready_event(e), gone_event(e)} /\ gone_event(e) \notin events[e]
        BY <3>1, <4>1 DEF ChanInv, TypeOK, PolleeIsTrue
      <4>4. QED BY SMTT(60), <4>1, <4>2, <4>3, EndFacts
    <3>4. /\ pc' = [pc EXCEPT ![t] = "io"]
          /\ observers' = [observers EXCEPT ![e] = @ \cup {t}]
          /\ want' = [want EXCEPT ![t] = n] /\ UNCHANGED result
      BY <2>3, <3>3 DEF SleepOrSpin
    <3>5. /\ pc' \in [Threads -> {"user", "io", "poll", "spins"}] /\ want' \in [Threads -> Nat]
          /\ result' \in [Threads -> {"none", "data", "eof", "EPIPE", "EAGAIN", "EINTR", "events"}]
          /\ observers' \in [Ends -> SUBSET Threads]
          /\ pc'[t] = "io" /\ t \in observers'[e] /\ want'[t] > 0
          /\ \A u \in Threads \ {t} : /\ pc'[u] = pc[u] /\ want'[u] = want[u]
                                      /\ \A f \in Ends : u \in observers'[f] <=> u \in observers[f]
      BY SMTT(60), <3>4, EndFacts DEF ChanInv, TypeOK
    <3>6. QED BY <2>1, <2>3, <3>1, <3>5, MoveKeeps
  <2>4. QED BY <1>2, <2>2, <2>3 DEF Attempt
<1>3. QED BY <1>1, <1>2

-----------------------------------------------------------------------------
(* A read or write asks for at least one item, at an end that is open.     *)
LEMMA AskFacts ==
  /\ \A n \in 1 .. MaxLen : n \in Nat \ {0}
  /\ ChanInv => \A t \in Threads : pc[t] \in {"io", "poll"} =>
                  side(t) \notin dropped /\ (pc[t] = "io" => want[t] \in Nat \ {0})
BY SMTT(60), ChannelAssumption DEF ChanInv, TypeOK, SleepersObserve

(* Every step keeps ChanInv.                                               *)
LEMMA NextKeeps == ChanInv /\ [Next]_vars => ChanInv'
<1> SUFFICES ASSUME ChanInv, [Next]_vars PROVE ChanInv' OBVIOUS
<1>1. CASE UNCHANGED vars
  BY <1>1 DEF vars, ChanInv, TypeOK, PolleeIsTrue, NoForgottenSleeper, SleepersObserve
<1>2. ASSUME NEW t \in Threads, NEW n \in 1 .. MaxLen, NEW nonblocking \in BOOLEAN,
             Io(t, n, nonblocking)
      PROVE  ChanInv'
  BY <1>2, AskFacts, AttemptKeeps DEF Io
<1>3. ASSUME NEW t \in Threads, IoWoken(t) PROVE ChanInv'
  BY <1>3, AskFacts, AttemptKeeps DEF IoWoken
<1>4. ASSUME NEW t \in Threads, Poll(t) \/ PollWoken(t) PROVE ChanInv'
  BY <1>4, AskFacts, PollKeeps DEF Poll, PollWoken
<1>5. ASSUME NEW t \in Threads, Interrupted(t) PROVE ChanInv' BY <1>5, InterruptedKeeps
<1>6. ASSUME NEW e \in Ends, Shutdown(e) \/ Drop(e) PROVE ChanInv'
  BY <1>6, ShutdownKeeps, DropKeeps
<1>7. QED BY <1>1, <1>2, <1>3, <1>4, <1>5, <1>6 DEF Next

(* ChanInv is an invariant.                                                *)
LEMMA ChanInvHolds == Spec => []ChanInv
BY InitInv, NextKeeps, PTL DEF Spec

(* The events of each end are the true state of the ring buffer and of the *)
(* other end, and no thread sleeps in read, write or poll, or goes round   *)
(* in them, although its end is ready: for any threads and any capacity.   *)
THEOREM ChannelIsSound == Spec => []ChannelSound
<1>1. ChanInv => ChannelSound BY DEF ChanInv, ChannelSound
<1>2. QED BY <1>1, ChanInvHolds, PTL

(* Only Consumer::read of an empty buffer reports the end of the data.     *)
LEMMA EofMeansEmpty ==
  ASSUME ChanInv, NEW u \in Threads, NEW n \in Nat \ {0}, NEW nonblocking \in BOOLEAN,
         Attempt(u, n, nonblocking), NEW t \in Readers, result'[t] = "eof", result[t] # "eof"
  PROVE  len = 0
<1>0. t \in Threads BY DEF Threads
<1>1. result' = result \/ \E r : result' = [result EXCEPT ![u] = r]
  BY DEF Attempt, Return, SleepOrSpin
<1>2. t = u BY <1>0, <1>1 DEF ChanInv, TypeOK
<1>3. ASSUME NEW r, r # "eof", Return(u, r) PROVE FALSE
  BY <1>0, <1>2, <1>3 DEF Return, ChanInv, TypeOK
<1>4. ~SleepOrSpin(u, n) BY DEF SleepOrSpin
<1>5. Moved(u, n) = 0 /\ side(u) = "C" BY <1>3, <1>4 DEF Attempt
<1>6. Blocked("C", len) BY <1>5, MovedFacts
<1>7. QED BY <1>6 DEF Blocked

(* read reports the end of the data only when all data was read.           *)
THEOREM EofIsHonest == Spec => EofOnlyWhenDrained
<1>1. ASSUME ChanInv, Next, NEW t \in Readers, result'[t] = "eof", result[t] # "eof"
      PROVE  len = 0
  <2>0. t \in Threads BY DEF Threads
  <2>1. ASSUME NEW u \in Threads, NEW n \in 1 .. MaxLen, NEW nonblocking \in BOOLEAN,
               Io(u, n, nonblocking)
        PROVE  len = 0
    BY <1>1, <2>1, AskFacts, EofMeansEmpty DEF Io
  <2>2. ASSUME NEW u \in Threads, IoWoken(u) PROVE len = 0
    BY <1>1, <2>2, AskFacts, EofMeansEmpty DEF IoWoken
  <2>3. ASSUME NEW u \in Threads, NEW r \in {"events", "EINTR"}, Return(u, r) PROVE FALSE
    BY <1>1, <2>0, <2>3 DEF Return, ChanInv, TypeOK
  <2>4. ASSUME NEW u \in Threads, Poll(u) \/ PollWoken(u) \/ Interrupted(u) PROVE FALSE
    BY <1>1, <2>3, <2>4 DEF Poll, PollWoken, PollOnce, Interrupted
  <2>5. ASSUME NEW e \in Ends, Shutdown(e) \/ Drop(e) PROVE FALSE
    BY <1>1, <2>5 DEF Shutdown, Drop
  <2>6. QED BY <1>1, <2>1, <2>2, <2>4, <2>5 DEF Next
<1>2. ChanInv /\ [Next]_vars =>
        [\A t \in Readers : result'[t] = "eof" /\ result[t] # "eof" => len = 0]_vars
  BY <1>1 DEF vars
<1>3. QED BY <1>2, ChanInvHolds, PTL DEF Spec, EofOnlyWhenDrained
=============================================================================
