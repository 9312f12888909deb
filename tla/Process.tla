------------------------------ MODULE Process ------------------------------
(***************************************************************************)
(* Processes, process groups, sessions and the job control of terminals    *)
(* (process/process/, clone.rs, exit.rs, wait.rs, process_table.rs and the *)
(* system calls on top of them).                                           *)
(*                                                                         *)
(* Every process has one thread.  No call sleeps in the middle except      *)
(* wait4, in the pauser of its children, and exit, on the mutex of a file  *)
(* table that another holds and in the files it closes.  Any other call is *)
(* one step.                                                               *)
(*                                                                         *)
(* A ProcessGroup is <<pgid, sid>>, its id and the id of its session, and  *)
(* a Session is its sid: a group never changes its session, and of the     *)
(* groups of a session with the same id at most one is referenced, the     *)
(* latest.  Weak references are upgraded with GroupAlive and SessionAlive. *)
(***************************************************************************)
EXTENDS Integers, FiniteSets

CONSTANTS MaxPid,     \* pids are allocated upwards and never reused
          Terminals,
          NTty,       \* the console; the other terminals are ptys
          None

INIT_PROCESS_PID == 1
Pids == 1 .. MaxPid
Groups == Pids \X Pids

(* What wait4 and waitid wait for.                                         *)
Filters == {<<"Any", 0>>} \cup ({"WithPid", "WithPgid"} \X Pids)

ASSUME ProcessAssumption == /\ MaxPid \in Nat \ {0} /\ NTty \in Terminals
                            /\ None \notin Pids /\ None \notin Groups
                            /\ None \notin Terminals /\ None \notin Filters

VARIABLES status,         \* "unborn", "runnable", "zombie" or "reaped"
          exiting,        \* the processes inside do_exit_group
          parent, children,
          process_group,  \* Process::process_group: a group or None
          process_table, group_table, session_table,
          processes,      \* of each group
          group_leader,   \* the groups that have a leader: the process named pgid
          process_groups, \* of each session: the keys of the map
          session_leader, \* the sessions that have a leader: the process named sid
          terminal,       \* the controlling terminal of each session
          session,        \* JobControl::session of each terminal
          foreground,     \* JobControl::foreground of each terminal
          waiting,        \* the filter with which each process sleeps in wait4
          resumed         \* the processes whose children_pauser was resumed

groupVars == <<process_group, group_table, processes, group_leader>>
sessionVars == <<session_table, process_groups, session_leader>>
familyVars == <<status, exiting, parent, children, process_table>>
ttyVars == <<terminal, session, foreground>>
waitVars == <<waiting, resumed>>
vars == <<groupVars, sessionVars, familyVars, ttyVars, waitVars>>

(* The state after spawn_user_process: the first process leads a group and *)
(* a session of its own, which the console controls.                       *)
Init ==
  LET p == INIT_PROCESS_PID
      g == <<p, p>>
  IN  /\ status = [q \in Pids |-> IF q = p THEN "runnable" ELSE "unborn"]
      /\ exiting = {} /\ parent = [q \in Pids |-> None] /\ children = [q \in Pids |-> {}]
      /\ process_group = [q \in Pids |-> IF q = p THEN g ELSE None]
      /\ process_table = {p} /\ group_table = {g} /\ session_table = {p}
      /\ processes = [h \in Groups |-> IF h = g THEN {p} ELSE {}]
      /\ group_leader = {g} /\ session_leader = {p}
      /\ process_groups = [s \in Pids |-> IF s = p THEN {p} ELSE {}]
      /\ terminal = [s \in Pids |-> IF s = p THEN NTty ELSE None]
      /\ session = [t \in Terminals |-> IF t = NTty THEN p ELSE None]
      /\ foreground = [t \in Terminals |-> IF t = NTty THEN g ELSE None]
      /\ waiting = [q \in Pids |-> None] /\ resumed = {}

pgid(p) == process_group[p][1]
sid(p) == process_group[p][2]
is_session_leader(p) == sid(p) = p /\ p \in session_leader
is_group_leader(p) == pgid(p) = p /\ process_group[p] \in group_leader
GroupOf(id) == {g \in group_table : g[1] = id}

SessionAlive(s) == s \in session_table
GroupAlive(g) == g \in group_table \/ (SessionAlive(g[2]) /\ g[1] \in process_groups[g[2]])

(* A process that runs user code and may make a call.                      *)
Current(p) == status[p] = "runnable" /\ waiting[p] = None

-----------------------------------------------------------------------------
set_parent_and_group(p, c) ==
  /\ children' = [children EXCEPT ![p] = @ \cup {c}]
  /\ processes' = [processes EXCEPT ![process_group[p]] = @ \cup {c}]
  /\ process_group' = [process_group EXCEPT ![c] = process_group[p]]
  /\ process_table' = process_table \cup {c}

(* clone_child_process.  What the child copies or shares of the memory,    *)
(* the files and the signals of its parent is not part of this module.     *)
Clone(p, c) ==
  /\ Current(p)
  /\ status[c] = "unborn" /\ \A q \in Pids : q < c => status[q] # "unborn"
  /\ status' = [status EXCEPT ![c] = "runnable"]
  /\ parent' = [parent EXCEPT ![c] = p]
  /\ set_parent_and_group(p, c)
  /\ UNCHANGED <<exiting, group_table, group_leader, sessionVars, ttyVars, waitVars>>

(* do_exit_group up to the file table: from now on the parent may reap the *)
(* process, whose children still have it as their parent.  The exit of the *)
(* first process stops the machine.                                        *)
SetZombie(p) ==
  /\ Current(p) /\ p # INIT_PROCESS_PID
  /\ status' = [status EXCEPT ![p] = "zombie"]
  /\ exiting' = exiting \cup {p}
  /\ UNCHANGED <<groupVars, sessionVars, parent, children, process_table, ttyVars, waitVars>>

(* Mutant: the children stay where they are.                               *)
KeepChildren(p) ==
  /\ p \in exiting
  /\ exiting' = exiting \ {p}
  /\ resumed' = resumed \cup {parent[p]}
  /\ UNCHANGED <<groupVars, sessionVars, status, parent, children, process_table, ttyVars,
                 waiting>>

(* The rest, once the files are closed: the children move to the first     *)
(* process, and whoever is the parent now is resumed.                      *)
MoveChildren(p) ==
  /\ p \in exiting
  /\ exiting' = exiting \ {p}
  /\ parent' = [c \in Pids |-> IF c \in children[p] THEN INIT_PROCESS_PID ELSE parent[c]]
  /\ children' = [children EXCEPT ![INIT_PROCESS_PID] = @ \cup children[p], ![p] = {}]
  /\ resumed' = resumed \cup {parent[p]}
  /\ UNCHANGED <<groupVars, sessionVars, status, process_table, ttyVars, waiting>>

-----------------------------------------------------------------------------
(* wait4 and waitid.                                                       *)
Matches(c, f) == \/ f[1] = "Any"
                 \/ f[1] = "WithPid" /\ c = f[2]
                 \/ f[1] = "WithPgid" /\ pgid(c) = f[2]

Unwaited(p, f) == {c \in children[p] : Matches(c, f)}
ZombieChildren(p, f) == {c \in Unwaited(p, f) : status[c] = "zombie"}
First(S) == CHOOSE x \in S : \A y \in S : x <= y

(* reap_zombie_child.                                                      *)
Reap(p, c) ==
  LET g == process_group[c]
      s == g[2]
      empty == processes[g] = {c}
      left == IF empty THEN process_groups[s] \ {g[1]} ELSE process_groups[s]
  IN  /\ children' = [children EXCEPT ![p] = @ \ {c}]
      /\ status' = [status EXCEPT ![c] = "reaped"]
      /\ processes' = [processes EXCEPT ![g] = @ \ {c}]
      /\ group_leader' = IF g[1] = c THEN group_leader \ {g} ELSE group_leader
      /\ session_leader' = IF s = c THEN session_leader \ {c} ELSE session_leader
      /\ process_group' = [process_group EXCEPT ![c] = None]
      /\ group_table' = IF empty THEN group_table \ {g} ELSE group_table
      /\ process_groups' = [process_groups EXCEPT ![s] = left]
      /\ session_table' = IF empty /\ left = {} THEN session_table \ {s} ELSE session_table
      /\ process_table' = process_table \ {c}
      /\ UNCHANGED <<exiting, parent, ttyVars>>

(* The condition of wait_child_exit: no child left to wait for (ECHILD), a *)
(* zombie to reap, or sleep.                                               *)
WaitChildExit(p, f) ==
  /\ resumed' = resumed \ {p}
  /\ \/ /\ Unwaited(p, f) = {}
        /\ waiting' = [waiting EXCEPT ![p] = None]
        /\ UNCHANGED <<groupVars, sessionVars, familyVars, ttyVars>>
     \/ /\ ZombieChildren(p, f) # {}
        /\ Reap(p, First(ZombieChildren(p, f)))
        /\ waiting' = [waiting EXCEPT ![p] = None]
     \/ /\ Unwaited(p, f) # {} /\ ZombieChildren(p, f) = {}
        /\ waiting' = [waiting EXCEPT ![p] = f]
        /\ UNCHANGED <<groupVars, sessionVars, familyVars, ttyVars>>

Wait4(p, f) == Current(p) /\ WaitChildExit(p, f)

WaitResumed(p) == waiting[p] # None /\ p \in resumed /\ WaitChildExit(p, waiting[p])

(* A signal other than SIGCHLD interrupts the pauser.                      *)
WaitInterrupted(p) ==
  /\ waiting[p] # None
  /\ waiting' = [waiting EXCEPT ![p] = None]
  /\ resumed' = resumed \ {p}
  /\ UNCHANGED <<groupVars, sessionVars, familyVars, ttyVars>>

-----------------------------------------------------------------------------
(* Inner::remove_process of the group p is in, and its table entry; the    *)
(* group it joins is g.                                                    *)
ChangeGroup(p, g, table) ==
  LET old == process_group[p] IN
  /\ processes' = [processes EXCEPT ![old] = @ \ {p}, ![g] = @ \cup {p}]
  /\ process_group' = [process_group EXCEPT ![p] = g]
  /\ group_table' = (IF processes[old] = {p} THEN group_table \ {old} ELSE group_table)
                    \cup table

LeaderLost(p) == IF pgid(p) = p THEN {process_group[p]} ELSE {}

(* to_new_session.                                                         *)
Setsid(p) ==
  LET old == process_group[p]
      new == <<p, p>>
      empty == processes[old] = {p}
      left == IF empty THEN process_groups[old[2]] \ {old[1]} ELSE process_groups[old[2]]
  IN  /\ Current(p)
      /\ ~is_session_leader(p) /\ ~is_group_leader(p)
      /\ p \notin session_table /\ GroupOf(p) = {}
      /\ ChangeGroup(p, new, {new})
      /\ group_leader' = (group_leader \ LeaderLost(p)) \cup {new}
      /\ process_groups' = [process_groups EXCEPT ![old[2]] = left, ![p] = {p}]
      /\ session_table' = (IF empty /\ left = {} THEN session_table \ {old[2]}
                           ELSE session_table) \cup {p}
      /\ session_leader' = session_leader \cup {p}
      /\ UNCHANGED <<familyVars, ttyVars, waitVars>>

(* Mutant: the new group is not added to its session.                      *)
ToNewGroupUnlisted(q) ==
  LET old == process_group[q]
      s == old[2]
      new == <<q, s>>
      left == IF processes[old] = {q} THEN process_groups[s] \ {old[1]} ELSE process_groups[s]
  IN  /\ ChangeGroup(q, new, {new})
      /\ group_leader' = (group_leader \ LeaderLost(q)) \cup {new}
      /\ process_groups' = [process_groups EXCEPT ![s] = left]
      /\ foreground' = [t \in Terminals |-> IF foreground[t] = new THEN None ELSE foreground[t]]
      /\ UNCHANGED <<session_table, session_leader, familyVars, terminal, session, waitVars>>

(* to_new_group: a group of the same session.  A weak reference to an      *)
(* earlier group of the same id is dead from now on.                       *)
ToNewGroup(q) ==
  LET old == process_group[q]
      s == old[2]
      new == <<q, s>>
      left == IF processes[old] = {q} THEN process_groups[s] \ {old[1]} ELSE process_groups[s]
  IN  /\ ChangeGroup(q, new, {new})
      /\ group_leader' = (group_leader \ LeaderLost(q)) \cup {new}
      /\ process_groups' = [process_groups EXCEPT ![s] = left \cup {q}]
      /\ foreground' = [t \in Terminals |-> IF foreground[t] = new THEN None ELSE foreground[t]]
      /\ UNCHANGED <<session_table, session_leader, familyVars, terminal, session, waitVars>>

(* to_specified_group.  A group that becomes empty leaves the group table, *)
(* but stays in the map of its session.                                    *)
ToSpecifiedGroup(q, g) ==
  /\ ChangeGroup(q, g, {})
  /\ group_leader' = group_leader \ LeaderLost(q)
  /\ UNCHANGED <<sessionVars, familyVars, ttyVars, waitVars>>

(* sys_setpgid and to_other_group.  The map of the session is asked for    *)
(* the id of the group, not for the group.                                 *)
Setpgid(p, q, id) ==
  /\ Current(p) /\ q \in {p} \cup children[p] /\ q \in process_table
  /\ pgid(q) # id /\ ~is_session_leader(q)
  /\ \/ \E g \in GroupOf(id) : id \in process_groups[sid(q)] /\ ToSpecifiedGroup(q, g)
     \/ GroupOf(id) = {} /\ id = q /\ ToNewGroup(q)

-----------------------------------------------------------------------------
is_controlling_terminal(p, t) == terminal[sid(p)] = t

(* TIOCSCTTY: Terminal::set_current_session.                               *)
SetCurrentSession(p, t) ==
  /\ Current(p) /\ is_session_leader(p)
  /\ terminal[sid(p)] = None
  /\ session[t] = None \/ ~SessionAlive(session[t])
  /\ terminal' = [terminal EXCEPT ![sid(p)] = t]
  /\ session' = [session EXCEPT ![t] = sid(p)]
  /\ foreground' = [foreground EXCEPT ![t] = process_group[p]]
  /\ UNCHANGED <<groupVars, sessionVars, familyVars, waitVars>>

(* TIOCNOTTY of a pty: Terminal::release_current_session.  The session of  *)
(* the terminal is not reset.                                              *)
ReleaseCurrentSession(p, t) ==
  /\ Current(p) /\ t # NTty
  /\ is_controlling_terminal(p, t) /\ is_session_leader(p)
  /\ terminal' = [terminal EXCEPT ![sid(p)] = None]
  /\ UNCHANGED <<groupVars, sessionVars, familyVars, session, foreground, waitVars>>

(* TIOCSPGRP: Terminal::set_foreground.  An unknown id clears it.          *)
SetForeground(p, t, id) ==
  /\ Current(p) /\ is_controlling_terminal(p, t)
  /\ \/ GroupOf(id) = {} /\ foreground' = [foreground EXCEPT ![t] = None]
     \/ \E g \in GroupOf(id) :
          /\ session[t] # None /\ SessionAlive(session[t]) /\ session[t] = g[2]
          /\ foreground' = [foreground EXCEPT ![t] = g]
  /\ UNCHANGED <<groupVars, sessionVars, familyVars, terminal, session, waitVars>>

Next == \E p \in Pids :
  \/ \E c \in Pids : Clone(p, c)
  \/ SetZombie(p) \/ MoveChildren(p)
  \/ \E f \in Filters : Wait4(p, f)
  \/ WaitResumed(p) \/ WaitInterrupted(p)
  \/ Setsid(p)
  \/ \E q, id \in Pids : Setpgid(p, q, id)
  \/ \E t \in Terminals : \/ SetCurrentSession(p, t) \/ ReleaseCurrentSession(p, t)
                          \/ \E id \in Pids : SetForeground(p, t, id)

Spec == Init /\ [][Next]_vars

-----------------------------------------------------------------------------
(* The tables, the groups, the sessions and the processes agree: a process *)
(* is in the table until it is reaped, and then in exactly one group; a    *)
(* group is in the table while it has processes, alone with its id; and    *)
(* its session is in the table and lists it.  The unwraps of               *)
(* Process::session and reap_zombie_child rely on it.                      *)
TablesAgree ==
  /\ process_table = {p \in Pids : status[p] \in {"runnable", "zombie"}}
  /\ \A p \in Pids : \A g \in Groups : p \in processes[g] <=> process_group[p] = g
  /\ \A p \in process_table : process_group[p] \in Groups
  /\ group_table = {g \in Groups : processes[g] # {}}
  /\ \A g, h \in group_table : g[1] = h[1] => g = h
  /\ \A g \in group_table : g[2] \in session_table /\ g[1] \in process_groups[g[2]]

(* A process that has children runs, or is in the middle of its exit and   *)
(* will pass them on, even when it was reaped there.                       *)
Cares(p) == status[p] = "runnable" \/ p \in exiting

(* Every process but the first has a parent that knows it and cares, until *)
(* that parent reaps it: exits, of parents and children at the same time,  *)
(* never leave a process that nobody will be able to reap, nor one that    *)
(* two parents can.                                                        *)
FamilyIsTrue ==
  /\ \A p \in Pids : \A c \in children[p] : c \in process_table /\ parent[c] = p
  /\ \A c \in process_table \ {INIT_PROCESS_PID} :
       Cares(parent[c]) /\ c \in children[parent[c]]

(* A parent does not sleep in wait4 while a child it waits for is a zombie *)
(* that has left do_exit_group, unless it was resumed: a zombie inside it  *)
(* resumes the parent at the end, also one that became a zombie before the *)
(* parent slept.  (The first process may: it is not resumed for the        *)
(* zombies it inherits.)                                                   *)
NoForgottenParent ==
  \A p \in Pids \ {INIT_PROCESS_PID} :
    waiting[p] # None /\ p \notin resumed => ZombieChildren(p, waiting[p]) \subseteq exiting

(* A session and the terminal that controls it agree, no two live sessions *)
(* have the same terminal, and the foreground group of a terminal is a     *)
(* group of its session.                                                   *)
ControllingAgrees ==
  /\ \A s \in session_table : terminal[s] # None => session[terminal[s]] = s
  /\ \A t \in Terminals :
       foreground[t] # None /\ GroupAlive(foreground[t]) => foreground[t][2] = session[t]

(* Families, sessions and terminals: children and parents agree, a parent  *)
(* in wait4 learns of its children, and a session and its controlling      *)
(* terminal name each other.                                               *)
FamilySound == FamilyIsTrue /\ NoForgottenParent /\ ControllingAgrees
=============================================================================
