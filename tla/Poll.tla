-------------------------------- MODULE Poll --------------------------------
(***************************************************************************)
(* Waiting for one of several files: epoll, and poll and select.  They are *)
(* two systems: each has its variables and its specification.              *)
(***************************************************************************)
EXTENDS Integers, Sequences, FiniteSets

(***************************************************************************)
(* The file table of a process and an epoll file in it: fs/file_table.rs,  *)
(* aster-util's SlotVec, fs/epoll, and the system calls on descriptors.    *)
(*                                                                         *)
(* The threads share the table and its lock, a sleeping Mutex.  sys_read   *)
(* keeps the lock while it waits for data; every other call that needs the *)
(* table waits for it then.  Files are read ends of pipes, whose writers   *)
(* are elsewhere (PeerWrites, PeerCloses).  A descriptor is the index of   *)
(* its slot, counted from 1.  Nothing runs between two sleeps of a call.   *)
(***************************************************************************)

CONSTANTS Threads, Files,
          Fds,       \* slots the table may grow to, 1..n
          MaxEntry,  \* entries alive at one time
          Interests, \* pairs of a mask and "level", "edge" or "once"
          MaxEvents  \* the sizes of the buffer of epoll_wait

VARIABLES slots,  \* SlotVec: sequence of files or "none"
          obs,    \* descriptors whose table entry the epoll file observes
          lock,   \* the thread that holds the lock of the table, or "none"
          pipe,   \* file -> its events, subset of {"IN", "HUP"}
          fresh,  \* files that were not opened yet, "ep" among them
          ep,     \* the epoll file: [interest, ready, ev, ents]
          th      \* thread -> [pc, fd, max, woken]

evars == <<slots, obs, lock, pipe, fresh, ep, th>>

Idle == [pc |-> "idle", fd |-> 0, max |-> 0, woken |-> FALSE]
Go(t, k) == th' = [th EXCEPT ![t] = k]
Starts(t) == th[t].pc = "idle" /\ lock = "none"

(***************************************************************************)
(* SlotVec and FileTable.                                                  *)
(***************************************************************************)

Open == {fd \in 1..Len(slots) : slots[fd] # "none"}
get(fd) == IF fd > Len(slots) THEN "none" ELSE slots[fd]

(* SlotVec::put: a new slot if all are occupied, else the first free one. *)
PutIndex ==
  IF Cardinality(Open) = Len(slots) THEN Len(slots) + 1
  ELSE CHOOSE i \in 1..Len(slots) : slots[i] = "none" /\ \A j \in 1..i - 1 : slots[j] # "none"

(* SlotVec::put_at: the vector grows up to the slot. *)
put_at(fd, f) ==
  [i \in 1..(IF fd > Len(slots) THEN fd ELSE Len(slots)) |-> IF i = fd THEN f ELSE get(i)]

(* FileTable::insert *)
insert(f) == PutIndex \in Fds /\ slots' = put_at(PutIndex, f)

(* FileTable::dup: the first free slot from new_fd on. *)
get_min_free_fd(new_fd) ==
  IF get(new_fd) = "none" THEN new_fd
  ELSE IF \E i \in new_fd + 1..Len(slots) : slots[i] = "none"
  THEN CHOOSE i \in new_fd + 1..Len(slots) :
         slots[i] = "none" /\ \A j \in new_fd + 1..i - 1 : slots[j] # "none"
  ELSE Len(slots) + 1

(***************************************************************************)
(* The epoll file.                                                         *)
(***************************************************************************)

(* EpollEntry::new *)
NewEntry(fd, f, mask, flags) ==
  [fd |-> fd, file |-> f, mask |-> mask, flags |-> flags, ready |-> FALSE, deleted |-> FALSE]

(* An entry that is deleted and in no list is freed. *)
Freed == [NewEntry(0, "none", {}, "level") EXCEPT !.deleted = TRUE]
Alive(e, id) == ~e.ents[id].deleted \/ \E i \in 1..Len(e.ready) : e.ready[i] = id
Reclaim(e) == [e EXCEPT !.ents = [id \in DOMAIN @ |-> IF Alive(e, id) THEN @[id] ELSE Freed]]

push_ready(e, id) ==
  IF e.ents[id].deleted THEN e
  ELSE [e EXCEPT !.ents[id].ready = TRUE,
                 !.ready = IF e.ents[id].ready THEN @ ELSE Append(@, id),
                 !.ev = TRUE]

del_interest(e, fd) ==
  IF fd \notin DOMAIN e.interest THEN e
  ELSE Reclaim([e EXCEPT !.interest = [g \in DOMAIN e.interest \ {fd} |-> e.interest[g]],
                         !.ents[e.interest[fd]].deleted = TRUE])

(* Pollee::add_events of the epoll file wakes all who wait. *)
WakeWaiters(ths) == [t \in Threads |-> IF ths[t].pc = "wait" THEN [ths[t] EXCEPT !.woken = TRUE]
                                       ELSE ths[t]]

(* EpollEntry::poll masked: the events that the entry reports. *)
ReadyEvents(n) == IF \E fd \in Open : slots[fd] = n.file
                  THEN pipe[n.file] \cap (n.mask \cup {"HUP"}) ELSE {}

NotReady(e, id) == [e EXCEPT !.ready = Tail(@), !.ents[id].ready = FALSE]

(* One entry of pop_ready's loop. *)
Examine(e, id) ==
  LET n == e.ents[id]
  IN CASE n.deleted -> Reclaim([e EXCEPT !.ready = Tail(@)])
       [] ~n.deleted /\ n.flags = "once" -> del_interest(NotReady(e, id), n.fd)
       [] ~n.deleted /\ n.flags # "once" /\ (n.flags = "edge" \/ ReadyEvents(n) = {}) ->
            NotReady(e, id)
       [] OTHER -> [e EXCEPT !.ready = Append(Tail(@), id)]

(* pop_ready: at most max events, of the entries that were ready at first. *)
RECURSIVE pop_ready(_, _, _, _)
pop_ready(e, quota, max, count) ==
  IF quota = 0 \/ count = max
  THEN [ep |-> IF e.ready = <<>> THEN [e EXCEPT !.ev = FALSE] ELSE e, count |-> count]
  ELSE LET n == e.ents[Head(e.ready)]
       IN pop_ready(Examine(e, Head(e.ready)), quota - 1, max,
                    IF ~n.deleted /\ ReadyEvents(n) # {} THEN count + 1 ELSE count)

(***************************************************************************)
(* Events of a pipe: every entry that observes it becomes ready, in the    *)
(* order of the entries' addresses.                                        *)
(***************************************************************************)

Observing(f) == {ep.interest[fd] : fd \in {g \in DOMAIN ep.interest :
                                            ep.ents[ep.interest[g]].file = f}}
Orders(S) == {q \in [1..Cardinality(S) -> S] : \A i, j \in DOMAIN q : i # j => q[i] # q[j]}

RECURSIVE PushAll(_, _)
PushAll(e, ids) == IF ids = <<>> THEN e ELSE PushAll(push_ready(e, Head(ids)), Tail(ids))

PipeEvent(f, ev) ==
  /\ \E fd \in Open : slots[fd] = f
  /\ pipe' = [pipe EXCEPT ![f] = @ \cup {ev}]
  /\ \E ids \in Orders(Observing(f)) : ep' = PushAll(ep, ids)
  /\ th' = IF Observing(f) = {} THEN th ELSE WakeWaiters(th)
  /\ UNCHANGED <<slots, obs, lock, fresh>>

PeerWrites(f) == "HUP" \notin pipe[f] /\ PipeEvent(f, "IN")
PeerCloses(f) == "HUP" \notin pipe[f] /\ PipeEvent(f, "HUP")

(***************************************************************************)
(* System calls.                                                           *)
(***************************************************************************)

(* open, pipe, epoll_create1 *)
NewFile(t, f) ==
  /\ Starts(t) /\ f \in fresh
  /\ insert(f)
  /\ fresh' = fresh \ {f}
  /\ UNCHANGED <<obs, lock, pipe, ep, th>>

sys_dup(t, fd) ==
  /\ Starts(t) /\ fd \in Open
  /\ insert(slots[fd])
  /\ UNCHANGED <<obs, lock, pipe, fresh, ep, th>>

sys_fcntl_dupfd(t, fd, new_fd) ==
  /\ Starts(t) /\ fd \in Open /\ get_min_free_fd(new_fd) \in Fds
  /\ slots' = put_at(get_min_free_fd(new_fd), slots[fd])
  /\ UNCHANGED <<obs, lock, pipe, fresh, ep, th>>

(* EpollFile::on_events(Close(fd)), if the entry of fd is observed. *)
on_close(e, fd) == IF fd \in obs THEN del_interest(e, fd) ELSE e

NoEpoll == [interest |-> [fd \in {} |-> 0], ready |-> <<>>, ev |-> FALSE,
            ents |-> [id \in 1..MaxEntry |-> Freed]]

EpollHeld(s, ths) == \/ "ep" \in fresh
                     \/ \E i \in 1..Len(s) : s[i] = "ep"
                     \/ \E t \in Threads : ths[t].pc = "wait"

(* A file leaves a slot under the lock of the table.  If that was the last *)
(* use of the epoll file, EpollFile::drop takes the lock again, once per   *)
(* interest: with none the call ends, otherwise the thread waits for       *)
(* itself.                                                                 *)
Released(t, s, e) ==
  IF EpollHeld(s, th)
  THEN ep' = e /\ UNCHANGED <<lock, th>>
  ELSE /\ ep' = NoEpoll
       /\ IF e.interest = NoEpoll.interest THEN UNCHANGED <<lock, th>>
          ELSE lock' = t /\ Go(t, [Idle EXCEPT !.pc = "stuck"])

sys_close(t, fd) ==
  /\ Starts(t) /\ fd \in Open
  /\ slots' = [slots EXCEPT ![fd] = "none"]
  /\ obs' = obs \ {fd}
  /\ Released(t, slots', on_close(ep, fd))
  /\ UNCHANGED <<pipe, fresh>>

(* FileTable::insert_at: the entry that was there tells its observers. *)
insert_at(e, fd) == on_close(e, fd)

sys_dup2(t, old_fd, new_fd) ==
  /\ Starts(t) /\ old_fd \in Open /\ new_fd # old_fd
  /\ slots' = put_at(new_fd, slots[old_fd])
  /\ obs' = obs \ {new_fd}
  /\ Released(t, slots', insert_at(ep, new_fd))
  /\ UNCHANGED <<pipe, fresh>>

(* sys_read keeps the lock while it waits. *)
Readable(f) == pipe[f] # {}

DoRead(t, f) ==
  /\ pipe' \in {pipe, [pipe EXCEPT ![f] = @ \ {"IN"}]}
  /\ lock' = "none" /\ Go(t, Idle)

sys_read(t, fd) ==
  /\ Starts(t) /\ fd \in Open /\ slots[fd] # "ep"
  /\ IF Readable(slots[fd]) THEN DoRead(t, slots[fd])
     ELSE lock' = t /\ Go(t, [Idle EXCEPT !.pc = "read", !.fd = fd]) /\ UNCHANGED pipe
  /\ UNCHANGED <<slots, obs, fresh, ep>>

ReadResumed(t) ==
  /\ th[t].pc = "read" /\ Readable(slots[th[t].fd])
  /\ DoRead(t, slots[th[t].fd])
  /\ UNCHANGED <<slots, obs, fresh, ep>>

ReadInterrupted(t) ==
  /\ th[t].pc = "read" /\ ~Readable(slots[th[t].fd])
  /\ lock' = "none" /\ Go(t, Idle)
  /\ UNCHANGED <<slots, obs, pipe, fresh, ep>>

HasEpoll == \E fd \in Open : slots[fd] = "ep"

(* After an interest is added or modified its file is polled at once. *)
Polled(e, id) ==
  IF pipe[e.ents[id].file] \cap (e.ents[id].mask \cup {"HUP"}) = {}
  THEN ep' = e /\ UNCHANGED th
  ELSE ep' = push_ready(e, id) /\ th' = WakeWaiters(th)

add_interest(t, fd, mask, flags) ==
  /\ Starts(t) /\ HasEpoll /\ fd \in Open /\ slots[fd] # "ep"
  /\ fd \notin DOMAIN ep.interest /\ \E id \in 1..MaxEntry : ~Alive(ep, id)
  /\ obs' = obs \cup {fd}
  /\ LET id == CHOOSE i \in 1..MaxEntry : ~Alive(ep, i)
     IN Polled([ep EXCEPT !.interest = [g \in DOMAIN ep.interest \cup {fd} |->
                                          IF g = fd THEN id ELSE ep.interest[g]],
                          !.ents[id] = NewEntry(fd, slots[fd], mask, flags)], id)
  /\ UNCHANGED <<slots, lock, pipe, fresh>>

(* EpollCtl::Del: del_interest and unregister_from_file_table_entry. *)
ctl_del(t, fd) ==
  /\ Starts(t) /\ HasEpoll /\ fd \in DOMAIN ep.interest
  /\ ep' = del_interest(ep, fd)
  /\ obs' = obs \ {fd}
  /\ UNCHANGED <<slots, lock, pipe, fresh, th>>

mod_interest(t, fd, mask, flags) ==
  /\ Starts(t) /\ HasEpoll /\ fd \in DOMAIN ep.interest
  /\ LET id == ep.interest[fd]
     IN Polled([ep EXCEPT !.ents[id].mask = mask, !.ents[id].flags = flags], id)
  /\ UNCHANGED <<slots, obs, lock, pipe, fresh>>

(* A thread leaves epoll_wait.  If the epoll file was closed meanwhile it  *)
(* is dropped here, which takes the lock once per interest.                *)
Leave(t, e) ==
  /\ Go(t, Idle)
  /\ IF EpollHeld(slots, [th EXCEPT ![t] = Idle]) THEN ep' = e /\ UNCHANGED obs
     ELSE /\ e.interest = NoEpoll.interest \/ lock = "none"
          /\ ep' = NoEpoll /\ obs' = obs \ DOMAIN e.interest

WaitRound(t, max) ==
  \E r \in {pop_ready(ep, Len(ep.ready), max, 0)} :
    IF r.count > 0 THEN Leave(t, r.ep)
    ELSE /\ ep' = r.ep
         /\ Go(t, [Idle EXCEPT !.pc = "wait", !.max = max, !.woken = r.ep.ev])
         /\ UNCHANGED obs

sys_epoll_wait(t, max) ==
  /\ Starts(t) /\ HasEpoll
  /\ WaitRound(t, max)
  /\ UNCHANGED <<slots, lock, pipe, fresh>>

WaitResumed(t) ==
  /\ th[t].pc = "wait" /\ th[t].woken
  /\ WaitRound(t, th[t].max)
  /\ UNCHANGED <<slots, lock, pipe, fresh>>

(* The timeout expires or a signal comes. *)
WaitEnds(t) ==
  /\ th[t].pc = "wait" /\ ~th[t].woken
  /\ Leave(t, ep)
  /\ UNCHANGED <<slots, lock, pipe, fresh>>

EInit ==
  /\ slots = <<>> /\ obs = {} /\ lock = "none" /\ pipe = [f \in Files |-> {}]
  /\ fresh = Files \cup {"ep"} /\ ep = NoEpoll /\ th = [t \in Threads |-> Idle]

ENext ==
  \/ \E f \in Files : PeerWrites(f) \/ PeerCloses(f)
  \/ \E t \in Threads, f \in Files \cup {"ep"} : NewFile(t, f)
  \/ \E t \in Threads, fd \in Fds :
       \/ sys_dup(t, fd) \/ sys_close(t, fd) \/ sys_read(t, fd) \/ ctl_del(t, fd)
       \/ \E new \in Fds : sys_fcntl_dupfd(t, fd, new) \/ sys_dup2(t, fd, new)
       \/ \E k \in Interests : add_interest(t, fd, k[1], k[2]) \/ mod_interest(t, fd, k[1], k[2])
  \/ \E t \in Threads :
       \/ ReadResumed(t) \/ ReadInterrupted(t) \/ WaitResumed(t) \/ WaitEnds(t)
       \/ \E max \in MaxEvents : sys_epoll_wait(t, max)

ESpec == EInit /\ [][ENext]_evars

-----------------------------------------------------------------------------

(* FileTable::insert_at, close_file and EpollFile::on_events: an interest  *)
(* is always in the file that its descriptor names now, whatever was       *)
(* closed, replaced by dup2 or opened again under the same number.         *)
InterestFollowsFd ==
  \A fd \in DOMAIN ep.interest : HasEpoll =>
    fd \in Open \cap obs /\ slots[fd] = ep.ents[ep.interest[fd]].file

(* push_ready and pop_ready: a level-triggered interest whose file has     *)
(* events is in the ready list, which holds no entry twice, and nobody     *)
(* sleeps in epoll_wait while it is.                                       *)
ReadyNotLost ==
  /\ \A i, j \in 1..Len(ep.ready) : i # j => ep.ready[i] # ep.ready[j]
  /\ \A fd \in DOMAIN ep.interest :
       LET id == ep.interest[fd]
       IN ep.ents[id].flags = "level" /\ ReadyEvents(ep.ents[id]) # {} =>
            /\ \E i \in 1..Len(ep.ready) : ep.ready[i] = id
            /\ ep.ev
            /\ \A t \in Threads : th[t].pc = "wait" => th[t].woken

-----------------------------------------------------------------------------
(***************************************************************************)
(* `poll` and `select` (`syscall/poll.rs`, `syscall/select.rs`) on top of   *)
(* pollees and pollers (`process/signal/poll.rs`).  PollFiles change their      *)
(* events, and descriptors are closed and reused, between any two looks of  *)
(* a call, for an interrupt or another thread may do that, and also between *)
(* the two tests of Pollee::poll and the registration they enclose.         *)
(***************************************************************************)

CONSTANTS
    Pollers, PollFiles,
    UsedFds,                \* the descriptors that ever name a file
    Changes,                \* the events that come and go
    FD_SETSIZE, USIZE_BITS, \* descriptors in an fd_set, and in a word of it
    PollArgs,               \* the arrays given to poll: of <<fd, events>>
    SelectArgs,             \* [nfds, r, w, e], each set a set of fds or NoSet
    Timeouts                \* of "forever", "zero", "later"

VARIABLES
    table,      \* fd -> file, NoFile when closed
    events,     \* file -> its pollee's events
    observers,  \* file -> poller -> the mask it is registered with
    call        \* the thread's call

poVars == <<table, events, observers, call>>

FdRange == 0..(FD_SETSIZE - 1)
NoFile == "closed"
NoSet == {-1}
ALWAYS_POLL == {"ERR", "HUP"}

-----------------------------------------------------------------------------
(* fd_set: the words, each a set of bit numbers.                            *)
Zeroes == [w \in 0..((FD_SETSIZE \div USIZE_BITS) - 1) |-> {}]
is_set(s, fd) == fd < FD_SETSIZE /\ fd % USIZE_BITS \in s[fd \div USIZE_BITS]

\* `FdSet::set` for each descriptor of S, on a set that was cleared.
Encode(S) == [w \in DOMAIN Zeroes |-> {b \in 0..(USIZE_BITS - 1) : w * USIZE_BITS + b \in S}]
Decode(s) == {fd \in FdRange : is_set(s, fd)}

IsSet(S, fd) == S # NoSet /\ is_set(Encode(S), fd)

convert_rwe_to_events(r, w, e) ==
    (IF r THEN {"IN"} ELSE {}) \cup (IF w THEN {"OUT"} ELSE {}) \cup (IF e THEN {"PRI"} ELSE {})

convert_events_to_rwe(ev) ==
    [r |-> ev \cap {"IN", "HUP", "ERR"} # {}, w |-> ev \cap {"OUT", "ERR"} # {}, e |-> "PRI" \in ev]

\* `file` is the file the descriptor named when it was last looked at.
PollFd(fd, ev) == [fd |-> fd, events |-> ev, revents |-> {}, file |-> NoFile]

\* `do_select`: the array for poll, with the descriptors in ascending order.
RECURSIVE PollFds(_, _)
PollFds(a, fd) ==
    IF fd = a.nfds THEN <<>>
    ELSE LET ev == convert_rwe_to_events(IsSet(a.r, fd), IsSet(a.w, fd), IsSet(a.e, fd))
         IN  (IF ev = {} THEN <<>> ELSE <<PollFd(fd, ev)>>) \o PollFds(a, fd + 1)

-----------------------------------------------------------------------------
NotPolling == [pc |-> "user", call |-> "none", fds |-> <<>>, i |-> 0, n |-> 0, counter |-> 0,
         timeout |-> "zero", args |-> <<>>, result |-> "none", out |-> <<>>]

POInit ==
    /\ table \in {tb \in [FdRange -> PollFiles \cup {NoFile}] : \A fd \in FdRange \ UsedFds : tb[fd] = NoFile}
    /\ events = [f \in PollFiles |-> {}]
    /\ observers = [f \in PollFiles |-> [t \in {} |-> {}]]
    /\ call = [t \in Pollers |-> NotPolling]

\* `sys_poll`: a negative descriptor is no descriptor.
sys_poll(t, a, to) ==
    /\ call[t].pc = "user"
    /\ call' = [call EXCEPT ![t] = [NotPolling EXCEPT !.pc = "look", !.call = "poll", !.i = 1, !.timeout = to,
                                            !.fds = [k \in DOMAIN a |-> PollFd(a[k][1], a[k][2])]]]
    /\ UNCHANGED <<table, events, observers>>

sys_select(t, a, to) ==
    /\ call[t].pc = "user"
    /\ call' = [call EXCEPT ![t] =
                IF a.nfds \notin 0..FD_SETSIZE THEN [NotPolling EXCEPT !.result = "EINVAL"]
                ELSE [NotPolling EXCEPT !.pc = "look", !.call = "select", !.i = 1, !.timeout = to,
                                  !.args = a, !.fds = PollFds(a, 0)]]
    /\ UNCHANGED <<table, events, observers>>

\* The poller is dropped: it leaves every pollee it is registered with.
DropPoller(t) ==
    observers' = [f \in PollFiles |-> [u \in DOMAIN observers[f] \ {t} |-> observers[f][u]]]

\* The answer of select: the sets are cleared, then a bit is set in each set
\* that was given and whose condition holds.
SetsOf(c) ==
    LET Answer(given, k) ==
            IF given = NoSet THEN Zeroes
            ELSE Encode({c.fds[j].fd : j \in {j \in DOMAIN c.fds : convert_events_to_rwe(c.fds[j].revents)[k]}})
    IN  [r |-> Answer(c.args.r, "r"), w |-> Answer(c.args.w, "w"), e |-> Answer(c.args.e, "e")]

Count(o) == Cardinality(Decode(o.r)) + Cardinality(Decode(o.w)) + Cardinality(Decode(o.e))

Finish(t, c, res) ==
    /\ call' = [call EXCEPT ![t] =
                IF c.call = "select" /\ res = "ok"
                THEN [c EXCEPT !.pc = "back", !.result = res, !.out = SetsOf(c), !.n = Count(SetsOf(c))]
                ELSE [c EXCEPT !.pc = "back", !.result = res]]
    /\ DropPoller(t)

\* The loop goes on to the next entry, with the events of this one.
NextEntry(t, c, f, revents) ==
    call' = [call EXCEPT ![t] = [c EXCEPT !.pc = "look", !.i = @ + 1, !.fds[c.i].revents = revents,
                                          !.fds[c.i].file = f,
                                          !.n = IF revents = {} THEN @ ELSE @ + 1]]

Mask(p) == p.events \cup ALWAYS_POLL

\* One turn of the loop over the array in `do_poll`, up to the first test of
\* `Pollee::poll`.  The poller is given while nothing was found.
Look(t) == LET c == call[t] IN
    /\ c.pc = "look" /\ c.i <= Len(c.fds)
    /\ LET p == c.fds[c.i]
           f == table[p.fd]
       IN IF p.fd < 0 THEN call' = [call EXCEPT ![t].i = @ + 1] /\ UNCHANGED observers
          ELSE IF f = NoFile THEN Finish(t, c, "EBADF")
          ELSE IF events[f] \cap Mask(p) # {} \/ c.n > 0
          THEN NextEntry(t, c, f, events[f] \cap Mask(p)) /\ UNCHANGED observers
          ELSE /\ call' = [call EXCEPT ![t] = [c EXCEPT !.pc = "register", !.fds[c.i].file = f]]
               /\ UNCHANGED observers
    /\ UNCHANGED <<table, events>>

\* An earlier registration of the same poller gives way.
register_poller(t) == LET c == call[t] IN
    /\ c.pc = "register"
    /\ observers' = [observers EXCEPT ![c.fds[c.i].file] =
                       [u \in DOMAIN @ \cup {t} |-> IF u = t THEN Mask(c.fds[c.i]) ELSE @[u]]]
    /\ call' = [call EXCEPT ![t].pc = "again"]
    /\ UNCHANGED <<table, events>>

\* Mutant: the events are not tested again.
NotAgain(t) == LET c == call[t] IN
    /\ c.pc = "again"
    /\ NextEntry(t, c, c.fds[c.i].file, {})
    /\ UNCHANGED <<table, events, observers>>

\* "It is important to check events again to handle race conditions"
poll(t) == LET c == call[t] IN
    /\ c.pc = "again"
    /\ NextEntry(t, c, c.fds[c.i].file, events[c.fds[c.i].file] \cap Mask(c.fds[c.i]))
    /\ UNCHANGED <<table, events, observers>>

\* The end of the loop: return, or wait for the event counter.
do_poll(t) == LET c == call[t] IN
    /\ c.pc = "look" /\ c.i > Len(c.fds)
    /\ IF c.n > 0 \/ c.timeout = "zero" THEN Finish(t, c, "ok")
       ELSE call' = [call EXCEPT ![t].pc = "wait"] /\ UNCHANGED observers
    /\ UNCHANGED <<table, events>>

\* `EventCounter::read`: some events came, and everything is looked at again.
Woken(t) == LET c == call[t] IN
    /\ c.pc = "wait" /\ c.counter > 0
    /\ call' = [call EXCEPT ![t] = [c EXCEPT !.pc = "look", !.i = 1, !.n = 0, !.counter = 0]]
    /\ UNCHANGED <<table, events, observers>>

\* The time is up, or a signal came: the error of `Poller::wait` is the call's.
wait_timeout(t) == LET c == call[t] IN
    /\ c.pc = "wait" /\ c.counter = 0
    /\ \E e \in {"EINTR"} \cup (IF c.timeout = "later" THEN {"ETIME"} ELSE {}) : Finish(t, c, e)
    /\ UNCHANGED <<table, events>>

\* The program reads the answer.
Back(t) ==
    /\ call[t].pc = "back"
    /\ call' = [call EXCEPT ![t] = NotPolling]
    /\ UNCHANGED <<table, events, observers>>

notify_observers(f, e) == {t \in DOMAIN observers[f] : e \in observers[f][t]}

\* The counter of a poller counts to MAX_COUNT here: it is only compared with 0.
MAX_COUNT == 1
write(c) == [c EXCEPT !.counter = IF @ < MAX_COUNT THEN @ + 1 ELSE @]

add_events(f, e) ==
    /\ e \notin events[f]
    /\ events' = [events EXCEPT ![f] = @ \cup {e}]
    /\ call' = [t \in Pollers |-> IF t \in notify_observers(f, e) THEN write(call[t]) ELSE call[t]]
    /\ UNCHANGED <<table, observers>>

del_events(f, e) ==
    /\ e \in events[f]
    /\ events' = [events EXCEPT ![f] = @ \ {e}]
    /\ UNCHANGED <<table, observers, call>>

\* Another thread closes a descriptor, or makes it name another file.
Reassign(fd, f) ==
    /\ table[fd] # f
    /\ table' = [table EXCEPT ![fd] = f]
    /\ UNCHANGED <<events, observers, call>>

PONext ==
    \/ \E t \in Pollers, a \in PollArgs, to \in Timeouts : sys_poll(t, a, to)
    \/ \E t \in Pollers, a \in SelectArgs, to \in Timeouts : sys_select(t, a, to)
    \/ \E t \in Pollers : Look(t) \/ register_poller(t) \/ poll(t) \/ do_poll(t) \/ Woken(t) \/ wait_timeout(t) \/ Back(t)
    \/ \E f \in PollFiles, e \in Changes : add_events(f, e) \/ del_events(f, e)
    \/ \E fd \in UsedFds, f \in PollFiles \cup {NoFile} : Reassign(fd, f)

POSpec == POInit /\ [][PONext]_poVars

-----------------------------------------------------------------------------
\* The entry k of t's call is for a file that has an event it asks for.
Has(t, k) ==
    LET p == call[t].fds[k]
    IN  p.file # NoFile /\ events[p.file] \cap Mask(p) # {}

\* A poller that sleeps has not missed anything: if a file it looked at has an event
\* it asked for, then its counter is positive, whatever happened between its
\* looks, or between a look and the registration.  Of several entries for one file the last counts (see EveryEntryWatched).
PollerAwake ==
    \A t \in Pollers : call[t].pc = "wait" =>
        \A k \in DOMAIN call[t].fds :
            Has(t, k) /\ (\A l \in DOMAIN call[t].fds : l > k => call[t].fds[l].file # call[t].fds[k].file)
                => call[t].counter > 0

\* select's answer is about what was asked: it counts its bits, names descriptors
\* below nfds that were in one of the sets, and tells a condition of the file.
SelectAnswers ==
    \A t \in Pollers :
        call[t].pc = "back" /\ call[t].call = "select" /\ call[t].result = "ok" =>
            LET o == call[t].out
                a == call[t].args
                asked == UNION {S \in {a.r, a.w, a.e} : S # NoSet}
                all == Decode(o.r) \cup Decode(o.w) \cup Decode(o.e)
            IN  /\ call[t].n = Count(o)
                /\ all \subseteq asked /\ \A fd \in all : fd < a.nfds

PollSound == PollerAwake /\ SelectAnswers

\* "the poller will start monitoring the pollee and receive event notification
\* once the pollee gets any interesting events": no entry of a sleeper is
\* forgotten.
EveryEntryWatched ==
    \A t \in Pollers : call[t].pc = "wait" =>
        \A k \in DOMAIN call[t].fds : Has(t, k) => call[t].counter > 0
=============================================================================
