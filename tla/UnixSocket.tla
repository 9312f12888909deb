----------------------------- MODULE UnixSocket -----------------------------
(***************************************************************************)
(* Unix stream sockets: net/socket/unix/stream/{socket,init,listener}.rs   *)
(* with the system calls socket, socketpair, bind, listen, connect, accept *)
(* and close.  The bytes of a connection are the business of Channel.      *)
(*                                                                         *)
(* bind holds the mutex of the socket's address while it creates the       *)
(* socket file, which may sleep.  connect and listen read the state of the *)
(* socket first and ask for that mutex afterwards, so each of them is cut  *)
(* there.  accept sleeps until a connection comes.  Everything else is one *)
(* step.  A call that fails changes nothing but the caller.                *)
(***************************************************************************)
EXTENDS Naturals, Sequences, FiniteSets, TLC

CONSTANTS Threads,
          SockNames,   \* path names of socket files
          Backlogs,    \* values passed to listen
          MaxSock,     \* bound on the sockets ever made
          MaxInode     \* bound on the socket files ever made

VARIABLES sock,   \* socket -> [st, addr, end, binder]; end: endpoint number
          ends,   \* endpoint -> [peer, addr]
          file,   \* path name -> inode, 0 if there is none
          inodes, \* number of inodes made
          table,  \* BACKLOG_TABLE: inode -> [max, queue, in]
          th      \* thread -> [pc, s, a, woken]: call, socket, argument

uvars == <<sock, ends, file, inodes, table, th>>

Socks == 1..Len(sock)
Idle == [pc |-> "idle", s |-> 0, a |-> 0, woken |-> FALSE]
At(pc, s, a) == [pc |-> pc, s |-> s, a |-> a, woken |-> FALSE]

NewSock(st, addr, end) == [st |-> st, addr |-> addr, end |-> end, binder |-> FALSE]

InUse(s) == \E t \in Threads : th[t].pc # "idle" /\ th[t].s = s

(* Endpoint::new_pair: two new ends, each the other's peer. *)
new_pair(addr_a, addr_b) ==
  ends \o <<[peer |-> Len(ends) + 2, addr |-> addr_a], [peer |-> Len(ends) + 1, addr |-> addr_b]>>

Socket(t) ==
  /\ th[t].pc = "idle" /\ Len(sock) < MaxSock
  /\ sock' = Append(sock, NewSock("init", 0, 0))
  /\ UNCHANGED <<ends, file, inodes, table, th>>

SocketPair(t) ==
  /\ th[t].pc = "idle" /\ Len(sock) + 1 < MaxSock
  /\ sock' = sock \o <<NewSock("conn", 0, Len(ends) + 1), NewSock("conn", 0, Len(ends) + 2)>>
  /\ ends' = new_pair(0, 0)
  /\ UNCHANGED <<file, inodes, table, th>>

(* UnixStreamSocket::bind takes the mutex of the address ... *)
BindStart(t, s, n) ==
  /\ th[t].pc = "idle" /\ sock[s].st = "init" /\ ~sock[s].binder /\ sock[s].addr = 0
  /\ inodes + Cardinality({x \in Threads : th[x].pc = "bind"}) < MaxInode
  /\ sock' = [sock EXCEPT ![s].binder = TRUE]
  /\ th' = [th EXCEPT ![t] = At("bind", s, n)]
  /\ UNCHANGED <<ends, file, inodes, table>>

(* ... and gives it back when the file exists, unless it existed before.   *)
(* The Init it works on is no longer the socket's if the state has         *)
(* changed since.                                                          *)
BindEnd(t) ==
  LET s == th[t].s n == th[t].a
  IN /\ th[t].pc = "bind"
     /\ IF file[n] # 0
        THEN /\ sock' = [sock EXCEPT ![s].binder = FALSE]
             /\ UNCHANGED <<file, inodes>>
        ELSE /\ inodes' = inodes + 1
             /\ file' = [file EXCEPT ![n] = inodes + 1]
             /\ sock' = [sock EXCEPT ![s].binder = FALSE, ![s].addr = inodes + 1]
     /\ th' = [th EXCEPT ![t] = Idle]
     /\ UNCHANGED <<ends, table>>

(* Init::connect after the addresses are known: the far end goes into the  *)
(* backlog, the near end into the socket, whatever its state is by now.    *)
ConnectEnd(t, s, remote) ==
  IF sock[s].addr # remote /\ remote \in DOMAIN table
       /\ Len(table[remote].queue) < table[remote].max
  THEN /\ ends' = new_pair(sock[s].addr, remote)
       /\ table' = [table EXCEPT ![remote].queue = Append(@, Len(ends) + 2), ![remote].in = TRUE]
       /\ sock' = [sock EXCEPT ![s].st = "conn", ![s].end = Len(ends) + 1]
       /\ th' = [x \in Threads |->
                   IF x = t THEN Idle
                   ELSE IF th[x].pc = "accept" /\ sock[th[x].s].addr = remote
                   THEN [th[x] EXCEPT !.woken = TRUE] ELSE th[x]]
  ELSE /\ th' = [th EXCEPT ![t] = Idle]
       /\ UNCHANGED <<ends, table, sock>>

(* UnixStreamSocket::connect: the file of the remote address and the state *)
(* of the socket are looked at before the mutex of the address is taken.   *)
Connect(t, s, n) ==
  /\ th[t].pc = "idle" /\ sock[s].st = "init" /\ file[n] # 0
  /\ IF sock[s].binder
     THEN /\ th' = [th EXCEPT ![t] = At("connect", s, file[n])]
          /\ UNCHANGED <<ends, table, sock>>
     ELSE ConnectEnd(t, s, file[n])
  /\ UNCHANGED <<file, inodes>>

ConnectResumed(t) ==
  /\ th[t].pc = "connect" /\ ~sock[th[t].s].binder
  /\ ConnectEnd(t, th[t].s, th[t].a)
  /\ UNCHANGED <<file, inodes>>

(* BacklogTable::add_backlog, then the new state. *)
ListenEnd(t, s, backlog) ==
  /\ th' = [th EXCEPT ![t] = Idle]
  /\ IF sock[s].addr # 0 /\ sock[s].addr \notin DOMAIN table
     THEN /\ table' = (sock[s].addr :> [max |-> backlog, queue |-> <<>>, in |-> FALSE]) @@ table
          /\ sock' = [sock EXCEPT ![s].st = "listen", ![s].end = 0]
     ELSE UNCHANGED <<table, sock>>

Listen(t, s, backlog) ==
  /\ th[t].pc = "idle" /\ sock[s].st = "init"
  /\ IF sock[s].binder
     THEN /\ th' = [th EXCEPT ![t] = At("listen", s, backlog)]
          /\ UNCHANGED <<table, sock>>
     ELSE ListenEnd(t, s, backlog)
  /\ UNCHANGED <<ends, file, inodes>>

ListenResumed(t) ==
  /\ th[t].pc = "listen" /\ ~sock[th[t].s].binder
  /\ ListenEnd(t, th[t].s, th[t].a)
  /\ UNCHANGED <<ends, file, inodes>>

(* Backlog::pop_incoming, with the event that polls look at. *)
Popped(b) == [b EXCEPT !.queue = Tail(@), !.in = Len(b.queue) > 1]

(* One round of BacklogTable::pop_incoming: a connection is taken, or the  *)
(* poller is registered and the thread sleeps.  Closing the listener while *)
(* a call on it runs is deferred, so the backlog is there.                 *)
AcceptRound(t, s) ==
  LET b == table[sock[s].addr]
  IN IF b.queue # <<>>
     THEN /\ Len(sock) < MaxSock
          /\ table' = [table EXCEPT ![sock[s].addr] = Popped(b)]
          /\ sock' = Append(sock, NewSock("conn", ends[Head(b.queue)].addr, Head(b.queue)))
          /\ th' = [th EXCEPT ![t] = Idle]
     ELSE /\ th' = [th EXCEPT ![t] = [At("accept", s, 0) EXCEPT !.woken = b.in]]
          /\ UNCHANGED <<table, sock>>

Accept(t, s) ==
  /\ th[t].pc = "idle" /\ sock[s].st = "listen"
  /\ sock[s].addr \in DOMAIN table
  /\ AcceptRound(t, s)
  /\ UNCHANGED <<ends, file, inodes>>

AcceptResumed(t) ==
  /\ th[t].pc = "accept" /\ th[t].woken
  /\ sock[th[t].s].addr \in DOMAIN table
  /\ AcceptRound(t, th[t].s)
  /\ UNCHANGED <<ends, file, inodes>>

(* A signal ends the wait of an accept. *)
Interrupt(t) ==
  /\ th[t].pc = "accept" /\ ~th[t].woken
  /\ th' = [th EXCEPT ![t] = Idle]
  /\ UNCHANGED <<sock, ends, file, inodes, table>>

(* The last descriptor is closed: UnixStreamSocket::drop. *)
Unregisters(s) == sock[s].st = "listen"

Close(s) ==
  /\ sock[s].st # "closed" /\ ~InUse(s)
  /\ table' = IF Unregisters(s)
              THEN [i \in DOMAIN table \ {sock[s].addr} |-> table[i]] ELSE table
  /\ sock' = [sock EXCEPT ![s].st = "closed", ![s].end = 0]
  /\ UNCHANGED <<ends, file, inodes, th>>

Unlink(n) ==
  /\ file[n] # 0
  /\ file' = [file EXCEPT ![n] = 0]
  /\ UNCHANGED <<sock, ends, inodes, table, th>>

UInit ==
  /\ sock = <<>> /\ ends = <<>> /\ inodes = 0
  /\ file = [n \in SockNames |-> 0]
  /\ table = [i \in {} |-> 0]
  /\ th = [t \in Threads |-> Idle]

UNext ==
  \/ \E t \in Threads : \/ Socket(t) \/ SocketPair(t) \/ BindEnd(t) \/ ConnectResumed(t)
                        \/ ListenResumed(t) \/ AcceptResumed(t) \/ Interrupt(t)
  \/ \E t \in Threads, s \in Socks, n \in SockNames : BindStart(t, s, n) \/ Connect(t, s, n)
  \/ \E t \in Threads, s \in Socks, b \in Backlogs : Listen(t, s, b)
  \/ \E t \in Threads, s \in Socks : Accept(t, s)
  \/ \E s \in Socks : Close(s)
  \/ \E n \in SockNames : Unlink(n)

USpec == UInit /\ [][UNext]_uvars

-----------------------------------------------------------------------------

(* listener.rs, Listener::poll: a listening socket has its backlog in the  *)
(* table, so that the unwrap there succeeds, although accepted connections *)
(* carry the same address and are closed while the listener goes on.       *)
ListenerHasBacklog ==
  \A s \in Socks : sock[s].st = "listen" => sock[s].addr \in DOMAIN table

(* BacklogTable::pop_incoming: a thread that sleeps in accept has nothing  *)
(* to accept, also when several threads wait on one listener; and none is  *)
(* resumed for nothing again and again, as the event says no more than the *)
(* queue.                                                                  *)
AcceptorAwake ==
  /\ \A i \in DOMAIN table : table[i].in = (table[i].queue # <<>>)
  /\ \A t \in Threads : th[t].pc = "accept" /\ sock[th[t].s].st = "listen" /\ ~th[t].woken =>
       table[sock[th[t].s].addr].queue = <<>>
=============================================================================
