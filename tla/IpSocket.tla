------------------------------ MODULE IpSocket ------------------------------
(***************************************************************************)
(* TCP and UDP sockets: net/socket/ip over net/iface.                      *)
(*                                                                         *)
(* The protocol itself is smoltcp's; what the code sees of a raw socket is *)
(* its state, whether something was received and whether the send buffer   *)
(* is full.  Deliver is IfaceCommon::poll: the network changes one raw     *)
(* socket and every bound socket's observer brings its pollee up to date.  *)
(* It runs in the interrupt of the network device, so also between the     *)
(* steps of a call.  Calls are cut where that matters: where one holds     *)
(* bound_sockets or backlog_sockets for writing with interrupts enabled    *)
(* (`held`), and between the steps of an accept.  A call that fails        *)
(* changes nothing but the caller.                                         *)
(***************************************************************************)
EXTENDS Naturals, Sequences, FiniteSets, TLC

CONSTANTS Threads,
          Ports,           \* ports that bind asks for
          Ephemeral,       \* IP_LOCAL_PORT_START..IP_LOCAL_PORT_END
          backlog,
          MaxSock, MaxRaw  \* bounds on the sockets ever made

VARIABLES raw,        \* bound socket -> [port, st, rx, full]; st "gone" if dropped
          so,         \* socket -> [st, b, back, res, ev]
          used_ports, \* port -> number of bound sockets
          th,         \* thread -> [pc, s, b, can, woken]
          held,       \* the lock that the running call holds for writing
          halt        \* "no", "spins": the interrupt waits for held, "panic"

ivars == <<raw, so, used_ports, th, held, halt>>

Socks == 1..Len(so)
Raws == 1..Len(raw)
Idle == [pc |-> "idle", s |-> 0, b |-> 0, can |-> FALSE, woken |-> FALSE]
At(pc, s, b) == [Idle EXCEPT !.pc = pc, !.s = s, !.b = b]

Sock(st, b) == [st |-> st, b |-> b, back |-> <<>>, res |-> "none", ev |-> {}]
Raw(port, st) == [port |-> port, st |-> st, rx |-> FALSE, full |-> FALSE]

(***************************************************************************)
(* smoltcp as the code uses it.                                            *)
(***************************************************************************)

can_recv(r) == r.rx
can_send(r) == r.st \in {"est", "fin", "udp"} /\ ~r.full
is_open(r) == r.st # "closed"
is_active(r) == r.st \in {"sent", "syn", "est", "fin", "closing"}

(* What the network may do to a raw socket: connect, refuse, reset, close, *)
(* bring data, drain the send buffer.                                      *)
NetEvents(r) ==
  CASE r.st = "sent" -> {[r EXCEPT !.st = "est"], [r EXCEPT !.st = "closed"]}
    [] r.st = "listen" -> {[r EXCEPT !.st = "syn"]}
    [] r.st = "syn" -> {[r EXCEPT !.st = "est"], [r EXCEPT !.st = "listen"]}
    [] r.st = "est" -> {[r EXCEPT !.rx = TRUE], [r EXCEPT !.full = FALSE],
                        [r EXCEPT !.st = "fin"], [r EXCEPT !.st = "closed"]}
    [] r.st = "fin" -> {[r EXCEPT !.full = FALSE], [r EXCEPT !.st = "closed"]}
    [] r.st = "closing" -> {[r EXCEPT !.rx = TRUE], [r EXCEPT !.st = "closed"]}
    [] r.st = "udp" -> {[r EXCEPT !.rx = TRUE], [r EXCEPT !.full = FALSE]}
    [] OTHER -> {}

(***************************************************************************)
(* Ports.                                                                  *)
(***************************************************************************)

alloc_ephemeral_port ==
  {p \in Ephemeral \ DOMAIN used_ports : \A q \in Ephemeral \ DOMAIN used_ports : p <= q}

CanBind(p, can_reuse) == p \notin DOMAIN used_ports \/ can_reuse

bind_port(p) ==
  IF p \in DOMAIN used_ports THEN [used_ports EXCEPT ![p] = @ + 1]
  ELSE (p :> 1) @@ used_ports

release_port(used, p) ==
  IF used[p] = 1 THEN [q \in DOMAIN used \ {p} |-> used[q]]
  ELSE [used EXCEPT ![p] = @ - 1]

(***************************************************************************)
(* The events of a socket and the threads that they wake up.               *)
(***************************************************************************)

can_accept(s, rs) == \E i \in 1..Len(so[s].back) : is_active(rs[so[s].back[i]])

ready(r) == (IF can_recv(r) THEN {"IN"} ELSE {}) \cup (IF can_send(r) THEN {"OUT"} ELSE {})

connecting_events(k, r) ==
  CASE k.res # "none" -> k
    [] k.res = "none" /\ can_send(r) -> [k EXCEPT !.res = "conn", !.ev = @ \cup {"OUT"}]
    [] k.res = "none" /\ ~can_send(r) /\ is_open(r) -> k
    [] OTHER -> [k EXCEPT !.res = "refused", !.ev = @ \cup {"OUT"}]

listen_events(k, rs) ==
  [k EXCEPT !.ev = IF \E i \in 1..Len(k.back) : is_active(rs[k.back[i]]) THEN {"IN"} ELSE {}]

connected_events(k, r) == [k EXCEPT !.ev = ready(r)]
datagram_events(k, r) == [k EXCEPT !.ev = ready(r)]

(* update_io_events of what observes the socket's raw socket. *)
update_io_events(k, rs) ==
  CASE k.st = "connecting" -> connecting_events(k, rs[k.b])
    [] k.st = "listen" -> listen_events(k, rs)
    [] k.st = "connected" -> connected_events(k, rs[k.b])
    [] k.st = "udp" -> datagram_events(k, rs[k.b])
    [] OTHER -> k

Awaits(pc) == CASE pc \in {"connect", "send"} -> "OUT" [] OTHER -> "IN"

(* Pollee::add_events wakes the pollers that wait for the event. *)
Wake(ths, socks) ==
  [t \in Threads |-> IF ths[t].pc \in {"connect", "accept", "recv", "send"}
                        /\ Awaits(ths[t].pc) \in socks[ths[t].s].ev
                     THEN [ths[t] EXCEPT !.woken = TRUE] ELSE ths[t]]

OnIfaceEvents(rs) ==
  [s \in Socks |-> IF so[s].b = 0 THEN so[s] ELSE update_io_events(so[s], rs)]

Deliver(b, r) ==
  /\ halt = "no"
  /\ IF held # "none"
     THEN halt' = "spins" /\ UNCHANGED <<raw, so, th>>
     ELSE /\ raw' = [raw EXCEPT ![b] = r]
          /\ so' = OnIfaceEvents(raw')
          /\ th' = Wake(th, so')
          /\ UNCHANGED halt
  /\ UNCHANGED <<used_ports, held>>

(***************************************************************************)
(* The calls.  One CPU: nobody else runs while a call is between steps.    *)
(***************************************************************************)

Midway == {"taking", "updating", "returning", "dropping"}
Runs(t) == halt = "no" /\ \A x \in Threads \ {t} : th[x].pc \notin Midway
Starts(t) == Runs(t) /\ th[t].pc = "idle"

Go(t, k) == th' = [th EXCEPT ![t] = k]

NewSocket(t, st) ==
  /\ Starts(t) /\ Len(so) < MaxSock
  /\ so' = Append(so, Sock(st, 0))
  /\ UNCHANGED <<raw, used_ports, th, held, halt>>

(* IfaceCommon::bind_socket, with interrupts disabled. *)
bind_socket(p, can_reuse, st) ==
  /\ Len(raw) < MaxRaw /\ CanBind(p, can_reuse)
  /\ raw' = Append(raw, Raw(p, st))
  /\ used_ports' = bind_port(p)

(* Mutant: the connected stream waits for the next event to look at its    *)
(* socket.                                                                 *)
ObserveLater(k, rs) == k

(* AnyBoundSocket::set_observer: the new observer is called at once. *)
set_observer(k, rs) == update_io_events(k, rs)

(* A stream keeps its raw socket closed; UnboundDatagram::bind opens and   *)
(* observes it.                                                            *)
Bound(s, p) ==
  /\ so[s].st \in {"init", "udp"} /\ so[s].b = 0
  /\ bind_socket(p, FALSE, IF so[s].st = "udp" THEN "udp" ELSE "closed")
  /\ so' = [so EXCEPT ![s] = set_observer([@ EXCEPT !.b = Len(raw')], raw')]

Bind(t, s, p) ==
  /\ Starts(t) /\ Bound(s, p)
  /\ UNCHANGED <<th, held, halt>>

(* The first connect or sendto of an unbound datagram socket. *)
try_bind_ephemeral(t, s) ==
  /\ Starts(t) /\ so[s].st = "udp"
  /\ \E p \in alloc_ephemeral_port : Bound(s, p)
  /\ UNCHANGED <<th, held, halt>>

(* InitStream::connect to an endpoint that cannot be addressed: the stream *)
(* stays bound to the ephemeral port.                                      *)
ConnectFails(t, s) ==
  /\ Starts(t) /\ so[s].st = "init"
  /\ \E p \in alloc_ephemeral_port : Bound(s, p)
  /\ UNCHANGED <<th, held, halt>>

(* StreamSocket::do_connect, InitStream::connect, ConnectingStream::new. *)
do_connect(t, s) ==
  /\ Starts(t) /\ so[s].st = "init"
  /\ IF so[s].b = 0
     THEN \E p \in alloc_ephemeral_port : bind_socket(p, FALSE, "sent")
     ELSE raw' = [raw EXCEPT ![so[s].b].st = "sent"] /\ UNCHANGED used_ports
  /\ so' = [so EXCEPT ![s] = Sock("connecting", IF @.b = 0 THEN Len(raw') ELSE @.b)]
  /\ Go(t, At("connect", s, 0))
  /\ UNCHANGED <<held, halt>>

(* ConnectingStream::wait_conn, woken up: the stream becomes connected, or *)
(* initial again if the connection was refused.                            *)
ConnectDone(t) ==
  LET s == th[t].s
  IN /\ Runs(t) /\ th[t].pc = "connect" /\ so[s].res # "none"
     /\ so' = [so EXCEPT ![s] =
                 IF @.res = "conn"
                 THEN set_observer([@ EXCEPT !.st = "connected", !.res = "none"], raw)
                 ELSE [@ EXCEPT !.st = "init", !.res = "none"]]
     /\ Go(t, Idle)
     /\ UNCHANGED <<raw, used_ports, held, halt>>

(* A signal ends the wait; the code expects that not to happen. *)
ConnectInterrupted(t) ==
  /\ Runs(t) /\ th[t].pc = "connect" /\ ~th[t].woken
  /\ halt' = "panic"
  /\ UNCHANGED <<raw, so, used_ports, th, held>>

(* Every socket of a backlog counts for the port. *)
RECURSIVE BindTimes(_, _, _)
BindTimes(used, p, n) == IF n = 0 THEN used ELSE BindTimes([used EXCEPT ![p] = @ + 1], p, n - 1)

(* ListenStream::new fills the backlog with listening sockets; each is     *)
(* bound to the port, which may be reused.                                 *)
Listen(t, s) ==
  /\ Starts(t) /\ so[s].st = "init" /\ so[s].b # 0 /\ Len(raw) + backlog <= MaxRaw
  /\ LET port == raw[so[s].b].port
     IN /\ raw' = raw \o [i \in 1..backlog |-> Raw(port, "listen")]
        /\ used_ports' = BindTimes(used_ports, port, backlog)
  /\ so' = [so EXCEPT ![s] = set_observer([@ EXCEPT !.st = "listen", !.ev = {},
                                           !.back = [i \in 1..backlog |-> Len(raw) + i]], raw')]
  /\ UNCHANGED <<th, held, halt>>

RemoveAt(q, i) == [j \in 1..Len(q) - 1 |-> IF j < i THEN q[j] ELSE q[j + 1]]

(* One round of ListenStream::accept: try_accept takes the first active    *)
(* socket and refills the backlog, or the thread sleeps.                   *)
AcceptRound(t, s) ==
  IF can_accept(s, raw)
  THEN \E i \in 1..Len(so[s].back) :
         /\ is_active(raw[so[s].back[i]]) /\ \A j \in 1..i - 1 : ~is_active(raw[so[s].back[j]])
         /\ bind_socket(raw[so[s].b].port, TRUE, "listen")
         /\ held' = "backlog_sockets" /\ Go(t, At("taking", s, so[s].back[i]))
         /\ so' = [so EXCEPT ![s].back = Append(RemoveAt(@, i), Len(raw) + 1)]
  ELSE /\ Go(t, [At("accept", s, 0) EXCEPT !.woken = "IN" \in so[s].ev])
       /\ UNCHANGED <<raw, so, used_ports, held>>

Accept(t, s) ==
  /\ Starts(t) /\ so[s].st = "listen"
  /\ AcceptRound(t, s)
  /\ UNCHANGED halt

AcceptWoken(t) ==
  /\ Runs(t) /\ th[t].pc = "accept" /\ th[t].woken
  /\ AcceptRound(t, th[t].s)
  /\ UNCHANGED halt

(* update_io_events after a refill: the sockets are looked at ... *)
Taken(t) ==
  /\ Runs(t) /\ th[t].pc = "taking"
  /\ held' = "none"
  /\ Go(t, [th[t] EXCEPT !.pc = "updating", !.can = can_accept(th[t].s, raw)])
  /\ UNCHANGED <<raw, so, used_ports, halt>>

(* ... and the event is set or deleted afterwards, outside their lock. *)
Updated(t) ==
  LET s == th[t].s
  IN /\ Runs(t) /\ th[t].pc = "updating"
     /\ so' = [so EXCEPT ![s].ev = IF th[t].can THEN {"IN"} ELSE {}]
     /\ th' = Wake([th EXCEPT ![t].pc = "returning"], so')
     /\ UNCHANGED <<raw, used_ports, held, halt>>

(* The accepted socket's peer is asked for, and it must still have one.    *)
Accepted(t) ==
  LET b == th[t].b
  IN /\ Runs(t) /\ th[t].pc = "returning" /\ Len(so) < MaxSock
     /\ IF raw[b].st = "listen"
        THEN halt' = "panic" /\ UNCHANGED <<so, th>>
        ELSE /\ so' = Append(so, set_observer(Sock("connected", b), raw))
             /\ Go(t, Idle) /\ UNCHANGED halt
     /\ UNCHANGED <<raw, used_ports, held>>

(* One round of ConnectedStream::recvfrom: the events are brought up to    *)
(* date whether something was there, nothing, or nothing can come.         *)
recv_stream(t, s) ==
  LET b == so[s].b
      done == can_recv(raw[b]) \/ raw[b].st \notin {"est", "closing"}
  IN /\ raw' = [raw EXCEPT ![b].rx = FALSE]
     /\ so' = [so EXCEPT ![s] = connected_events(@, raw'[b])]
     /\ Go(t, IF done THEN Idle ELSE [At("recv", s, 0) EXCEPT !.woken = "IN" \in so'[s].ev])

(* One round of DatagramSocket::recvfrom, which leaves the events alone. *)
recv_datagram(t, s) ==
  LET b == so[s].b
  IN /\ raw' = [raw EXCEPT ![b].rx = FALSE]
     /\ Go(t, IF can_recv(raw[b]) THEN Idle
              ELSE [At("recv", s, 0) EXCEPT !.woken = "IN" \in so[s].ev])
     /\ UNCHANGED so

RecvRound(t, s) == IF so[s].st = "udp" THEN recv_datagram(t, s) ELSE recv_stream(t, s)

(* One round of ConnectedStream::sendto: the buffer takes the data and may *)
(* be full afterwards, it is full, or the connection cannot send.          *)
SendRound(t, s) ==
  LET b == so[s].b
  IN \/ /\ can_send(raw[b])
        /\ \E f \in BOOLEAN : raw' = [raw EXCEPT ![b].full = f]
        /\ Go(t, Idle) /\ UNCHANGED so
     \/ /\ raw[b].st \notin {"est", "fin"}
        /\ Go(t, Idle) /\ UNCHANGED <<raw, so>>
     \/ /\ raw[b].st \in {"est", "fin"} /\ raw[b].full
        /\ so' = [so EXCEPT ![s] = connected_events(@, raw[b])]
        /\ Go(t, [At("send", s, 0) EXCEPT !.woken = "OUT" \in so'[s].ev])
        /\ UNCHANGED raw

Recv(t, s) ==
  /\ Starts(t) /\ so[s].st \in {"connected", "udp"} /\ so[s].b # 0
  /\ RecvRound(t, s)
  /\ UNCHANGED <<used_ports, held, halt>>

RecvWoken(t) ==
  /\ Runs(t) /\ th[t].pc = "recv" /\ th[t].woken
  /\ RecvRound(t, th[t].s)
  /\ UNCHANGED <<used_ports, held, halt>>

Send(t, s) ==
  /\ Starts(t) /\ so[s].st = "connected"
  /\ SendRound(t, s)
  /\ UNCHANGED <<used_ports, held, halt>>

SendWoken(t) ==
  /\ Runs(t) /\ th[t].pc = "send" /\ th[t].woken
  /\ SendRound(t, th[t].s)
  /\ UNCHANGED <<used_ports, held, halt>>

(* BoundDatagram::try_sendto: what does not fit is refused. *)
send_datagram(t, s) ==
  /\ Starts(t) /\ so[s].st = "udp" /\ so[s].b # 0 /\ can_send(raw[so[s].b])
  /\ \E f \in BOOLEAN : raw' = [raw EXCEPT ![so[s].b].full = f]
  /\ UNCHANGED <<so, used_ports, th, held, halt>>

(* A signal ends a wait with EINTR. *)
Interrupted(t) ==
  /\ Runs(t) /\ th[t].pc \in {"accept", "recv", "send"} /\ ~th[t].woken
  /\ Go(t, Idle)
  /\ UNCHANGED <<raw, so, used_ports, held, halt>>

Shutdown(t, s) ==
  /\ Starts(t) /\ so[s].st = "connected" /\ raw[so[s].b].st \in {"est", "fin"}
  /\ raw' = [raw EXCEPT ![so[s].b].st = "closing"]
  /\ UNCHANGED <<so, used_ports, th, held, halt>>

(* AnyBoundSocket::drop for every raw socket of a closed socket. *)
RECURSIVE DropAll(_, _)
DropAll(used, bs) ==
  IF bs = <<>> THEN used ELSE DropAll(release_port(used, raw[Head(bs)].port), Tail(bs))

Owned(s) == (IF so[s].b = 0 THEN <<>> ELSE <<so[s].b>>) \o so[s].back

(* The last of them leaves bound_sockets, under its lock. *)
Close(t, s) ==
  /\ Starts(t) /\ so[s].st # "closed" /\ \A x \in Threads : th[x].pc # "idle" => th[x].s # s
  /\ used_ports' = DropAll(used_ports, Owned(s))
  /\ raw' = [b \in Raws |-> IF \E i \in 1..Len(Owned(s)) : Owned(s)[i] = b
                            THEN Raw(raw[b].port, "gone") ELSE raw[b]]
  /\ so' = [so EXCEPT ![s] = Sock("closed", 0)]
  /\ IF Owned(s) = <<>> THEN UNCHANGED <<held, th>>
     ELSE held' = "bound_sockets" /\ Go(t, At("dropping", s, 0))
  /\ UNCHANGED halt

Dropped(t) ==
  /\ Runs(t) /\ th[t].pc = "dropping"
  /\ held' = "none" /\ Go(t, Idle)
  /\ UNCHANGED <<raw, so, used_ports, halt>>

IInit ==
  /\ raw = <<>> /\ so = <<>> /\ used_ports = [p \in {} |-> 0]
  /\ th = [t \in Threads |-> Idle] /\ held = "none" /\ halt = "no"

INext ==
  \/ \E t \in Threads, st \in {"init", "udp"} : NewSocket(t, st)
  \/ \E t \in Threads, s \in Socks :
       \/ try_bind_ephemeral(t, s) \/ ConnectFails(t, s) \/ do_connect(t, s) \/ Listen(t, s)
       \/ Accept(t, s)
       \/ Recv(t, s) \/ Send(t, s) \/ send_datagram(t, s) \/ Shutdown(t, s) \/ Close(t, s)
       \/ \E p \in Ports : Bind(t, s, p)
  \/ \E t \in Threads :
       \/ ConnectDone(t) \/ ConnectInterrupted(t)
       \/ AcceptWoken(t) \/ Taken(t) \/ Updated(t) \/ Accepted(t)
       \/ RecvWoken(t) \/ SendWoken(t) \/ Interrupted(t) \/ Dropped(t)
  \/ \E b \in Raws : \E r \in NetEvents(raw[b]) : Deliver(b, r)

ISpec == IInit /\ [][INext]_ivars

-----------------------------------------------------------------------------

(* IfaceCommon::bind_port, release_port: a port counts the bound sockets   *)
(* that use it, the backlog's and the accepted ones included, so that it   *)
(* is free exactly when the last of them is gone.                          *)
PortsCounted ==
  \A p \in Ports \cup Ephemeral :
    Cardinality({b \in Raws : raw[b].port = p /\ raw[b].st # "gone"})
      = IF p \in DOMAIN used_ports THEN used_ports[p] ELSE 0

(* any_socket.rs, set_observer: "the new observer will fire once           *)
(* immediately to avoid missing any events".  Whatever arrived before,     *)
(* during or after connect, bind and accept, an established stream or a    *)
(* bound datagram socket that can receive or send says so to pollers.      *)
EventsNotMissed ==
  \A s \in Socks : so[s].st \in {"connected", "udp"} /\ so[s].b # 0 =>
    /\ can_recv(raw[so[s].b]) => "IN" \in so[s].ev
    /\ can_send(raw[so[s].b]) => "OUT" \in so[s].ev

(* A thread that sleeps in connect, accept, recvfrom or sendto has nothing *)
(* to do there: whatever the network delivers wakes it up, and what        *)
(* another thread takes first sends it back to sleep.                      *)
NoSleeperMissed ==
  \A t \in Threads : ~th[t].woken =>
    CASE th[t].pc = "connect" -> so[th[t].s].res = "none"
      [] th[t].pc = "accept" -> ~can_accept(th[t].s, raw)
      [] th[t].pc = "recv" -> ~can_recv(raw[so[th[t].s].b])
      [] th[t].pc = "send" -> ~can_send(raw[so[th[t].s].b])
      [] OTHER -> TRUE
=============================================================================
