------------------------------- MODULE MCComm -------------------------------
(* Pipes and stream sockets, Unix and IP sockets, epoll, poll and select,  *)
(* terminals and their names. A behaviour exercises one part, chosen in    *)
(* MCInit; the variables of the others are absent (0) or stay as they are. *)
EXTENDS Channel, TLC

(* Parts are those that the run exercises.                                 *)
CONSTANTS Parts, t1, t2, r1

VARIABLES which, us_sock, us_ends, us_file, us_inodes, us_table, us_th,
          ip_raw, ip_so, ip_used_ports, ip_th, ip_held, ip_halt, po_slots,
          po_obs, po_lock, po_pipe, po_fresh, po_ep, po_th, po_table,
          po_events, po_observers, po_call, tt_kind, tt_termios, tt_line,
          tt_buf, tt_readable, tt_para, tt_item, tt_worker, tt_input,
          tt_masterIN, tt_fg, tt_th, tt_pair, tt_alloc, tt_slots, tt_scan,
          tt_panicked

MCWriters == {t1, t2}
MCReaders == {r1}
UnixThreads == {t1, t2, "t3"}
EpollThreads == {t1, t2}
Symmetry == Permutations({t1, t2})

EpollInterests == {<<{"IN"}, "level">>, <<{"IN"}, "edge">>, <<{}, "once">>}

(* A closed descriptor, one that is asked for nothing; sets that leave out *)
(* words, that end within a word, and that go beyond FD_SETSIZE.           *)
PollArgs == {<<<<0, {"IN"}>>, <<-1, {"IN"}>>, <<3, {}>>>>}
SelectArgs ==
  {[nfds |-> 4, r |-> {0, 3}, w |-> {3}, e |-> {-1}],
   [nfds |-> 3, r |-> {-1}, w |-> {3}, e |-> {0}],
   [nfds |-> 5, r |-> {0}, w |-> {-1}, e |-> {-1}]}

(* A terminal is in its default mode, and may be set to the raw mode.      *)
TtyModes == {[canon |-> FALSE, isig |-> FALSE, echo |-> FALSE, icrnl |-> FALSE]}

US == INSTANCE UnixSocket WITH Threads <- UnixThreads, SockNames <- {"x"},
        Backlogs <- {1}, MaxSock <- 4, MaxInode <- 1, sock <- us_sock,
        ends <- us_ends, file <- us_file, inodes <- us_inodes,
        table <- us_table, th <- us_th
unixVars == <<us_sock, us_ends, us_file, us_inodes, us_table, us_th>>
IP == INSTANCE IpSocket WITH Threads <- {"i1", "i2"}, Ports <- {1},
        Ephemeral <- {2}, backlog <- 1, MaxSock <- 2, MaxRaw <- 3,
        raw <- ip_raw, so <- ip_so, used_ports <- ip_used_ports, th <- ip_th,
        held <- ip_held, halt <- ip_halt
ipVars == <<ip_raw, ip_so, ip_used_ports, ip_th, ip_held, ip_halt>>
PO == INSTANCE Poll WITH Threads <- EpollThreads, Files <- {"a"},
        Fds <- 1 .. 3, MaxEntry <- 2, MaxEvents <- {1},
        Interests <- EpollInterests, Pollers <- {"t"},
        PollFiles <- {"f", "g"}, UsedFds <- {0, 3}, Changes <- {"IN", "HUP"},
        FD_SETSIZE <- 4, USIZE_BITS <- 2, PollArgs <- PollArgs,
        SelectArgs <- SelectArgs, Timeouts <- {"zero", "later"},
        slots <- po_slots, obs <- po_obs, lock <- po_lock, pipe <- po_pipe,
        fresh <- po_fresh, ep <- po_ep, th <- po_th, table <- po_table,
        events <- po_events, observers <- po_observers, call <- po_call
epollVars == <<po_slots, po_obs, po_lock, po_pipe, po_fresh, po_ep, po_th>>
pollVars == <<po_table, po_events, po_observers, po_call>>
TT == INSTANCE Tty WITH Readers <- {"r1", "r2"}, Masters <- {"m"},
        Keys <- {"nl", "intr"}, Modes <- TtyModes, BUFFER_CAPACITY <- 2,
        Lengths <- {1}, Pairs <- {"p1", "p2", "p3"}, MAX_PTY_NUM <- 2,
        MaxSlaves <- 1, Batches <- {1, 3}, kind <- tt_kind,
        termios <- tt_termios, line <- tt_line, buf <- tt_buf,
        readable <- tt_readable, para <- tt_para, item <- tt_item,
        worker <- tt_worker, input <- tt_input, masterIN <- tt_masterIN,
        fg <- tt_fg, th <- tt_th, pair <- tt_pair, alloc <- tt_alloc,
        slots <- tt_slots, scan <- tt_scan, panicked <- tt_panicked
ttyVars == <<tt_kind, tt_termios, tt_line, tt_buf, tt_readable, tt_para,
             tt_item, tt_worker, tt_input, tt_masterIN, tt_fg, tt_th>>
devptsVars == <<tt_pair, tt_alloc, tt_slots, tt_scan, tt_panicked>>

allVars == <<which, vars, unixVars, ipVars, epollVars, pollVars, ttyVars,
             devptsVars>>

MCInit ==
  /\ which \in Parts
  /\ Init
  /\ IF which = "unix" THEN US!UInit
     ELSE us_sock = 0 /\ us_ends = 0 /\ us_file = 0 /\ us_inodes = 0 /\
          us_table = 0 /\ us_th = 0
  /\ IF which = "ip" THEN IP!IInit
     ELSE ip_raw = 0 /\ ip_so = 0 /\ ip_used_ports = 0 /\ ip_th = 0 /\ ip_held
          = 0 /\ ip_halt = 0
  /\ IF which = "epoll" THEN PO!EInit
     ELSE po_slots = 0 /\ po_obs = 0 /\ po_lock = 0 /\ po_pipe = 0 /\ po_fresh
          = 0 /\ po_ep = 0 /\ po_th = 0
  /\ IF which = "poll" THEN PO!POInit
     ELSE po_table = 0 /\ po_events = 0 /\ po_observers = 0 /\ po_call = 0
  /\ IF which = "tty" THEN TT!TInit
     ELSE tt_kind = 0 /\ tt_termios = 0 /\ tt_line = 0 /\ tt_buf = 0 /\
          tt_readable = 0 /\ tt_para = 0 /\ tt_item = 0 /\ tt_worker = 0 /\
          tt_input = 0 /\ tt_masterIN = 0 /\ tt_fg = 0 /\ tt_th = 0
  /\ IF which = "devpts" THEN TT!PInit
     ELSE tt_pair = 0 /\ tt_alloc = 0 /\ tt_slots = 0 /\ tt_scan = 0 /\
          tt_panicked = 0

MCNext ==
  /\ UNCHANGED which
  /\ \/ which = "channel" /\ Next /\ UNCHANGED <<unixVars, ipVars, epollVars,
           pollVars, ttyVars, devptsVars>>
     \/ which = "unix" /\ US!UNext /\ UNCHANGED <<vars, ipVars, epollVars,
           pollVars, ttyVars, devptsVars>>
     \/ which = "ip" /\ IP!INext /\ UNCHANGED <<vars, unixVars, epollVars,
           pollVars, ttyVars, devptsVars>>
     \/ which = "epoll" /\ PO!ENext /\ UNCHANGED <<vars, unixVars, ipVars,
           pollVars, ttyVars, devptsVars>>
     \/ which = "poll" /\ PO!PONext /\ UNCHANGED <<vars, unixVars, ipVars,
           epollVars, ttyVars, devptsVars>>
     \/ which = "tty" /\ TT!TNext /\ UNCHANGED <<vars, unixVars, ipVars,
           epollVars, pollVars, devptsVars>>
     \/ which = "devpts" /\ TT!PNext /\ UNCHANGED <<vars, unixVars, ipVars,
           epollVars, pollVars, ttyVars>>

MCSpec == MCInit /\ [][MCNext]_allVars

(* Sockets: a listening socket has its backlog, ports are counted, an      *)
(* event is not missed, and nobody sleeps although what they wait for is   *)
(* there.                                                                  *)
SocketsSound ==
  /\ which = "unix" => US!ListenerHasBacklog /\ US!AcceptorAwake
  /\ which = "ip" => IP!PortsCounted /\ IP!EventsNotMissed /\ IP!NoSleeperMissed

(* Epoll watches what its descriptors name and loses no event; poll and    *)
(* select find what was asked for and do not oversleep it.                 *)
PollingSound == /\ which = "epoll" => PO!InterestFollowsFd /\ PO!ReadyNotLost
                /\ which = "poll" => PO!PollSound

(* The reader of a terminal learns of its input, and the names of pseudo   *)
(* terminals are those that live.                                          *)
TerminalsSound == /\ which = "tty" => TT!InputAnnounced
                  /\ which = "devpts" => TT!PtsNamesLive
=============================================================================
