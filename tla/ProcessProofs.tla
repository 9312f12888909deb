--------------------------- MODULE ProcessProofs ---------------------------
(***************************************************************************)
(* For any number of processes and terminals: the tables of processes,     *)
(* groups and sessions agree, and families, wait4 and controlling          *)
(* terminals are sound.  For any user and group ids: the credentials of a  *)
(* thread without privilege are permuted, no more.                         *)
(***************************************************************************)
EXTENDS Process, Credentials, WellFoundedInduction, TLAPS

TypeOK ==
  /\ status \in [Pids -> {"unborn", "runnable", "zombie", "reaped"}]
  /\ exiting \subseteq Pids
  /\ parent \in [Pids -> Pids \cup {None}]
  /\ children \in [Pids -> SUBSET Pids]
  /\ process_group \in [Pids -> Groups \cup {None}]
  /\ group_table \subseteq Groups
  /\ session_table \subseteq Pids
  /\ processes \in [Groups -> SUBSET Pids]
  /\ group_leader \subseteq Groups
  /\ process_groups \in [Pids -> SUBSET Pids]
  /\ session_leader \subseteq Pids
  /\ terminal \in [Pids -> Terminals \cup {None}]
  /\ session \in [Terminals -> Pids \cup {None}]
  /\ foreground \in [Terminals -> Groups \cup {None}]
  /\ waiting \in [Pids -> Filters \cup {None}]

(* A process that is not in the table is in no group.                      *)
NoGroup == \A p \in Pids : p \notin process_table => process_group[p] = None

(* The first process runs for ever, nobody is their own parent, and a      *)
(* process inside do_exit_group is a zombie, or reaped.                    *)
Family ==
  /\ FamilyIsTrue
  /\ status[INIT_PROCESS_PID] = "runnable" /\ parent[INIT_PROCESS_PID] = None
  /\ \A c \in process_table \ {INIT_PROCESS_PID} : parent[c] \in Pids
  /\ \A c \in Pids : parent[c] # c
  /\ \A p \in exiting : status[p] \in {"zombie", "reaped"}

(* Who leads a session stays in their first group until they are reaped,   *)
(* so that the id of a session is not used twice: neither a controlling    *)
(* terminal nor a foreground group is left from an earlier session.        *)
Leaders ==
  /\ \A p \in session_leader : p \in process_table /\ process_group[p] = <<p, p>>
  /\ \A p \in Pids : status[p] # "reaped" /\ p \notin session_leader => terminal[p] = None
  /\ \A t \in Terminals :
       foreground[t] # None /\ status[foreground[t][2]] # "reaped"
         => foreground[t][2] \in session_leader
  /\ \A g \in group_table : status[g[2]] = "reaped" \/ g[2] \in session_leader

ProcInv == /\ TypeOK /\ TablesAgree /\ NoGroup /\ Family /\ Leaders
           /\ NoForgottenParent /\ ControllingAgrees

-----------------------------------------------------------------------------
(* A leaf that names no prover is for Zenon.                               *)
USE ZenonT(30)

(* Groups are pairs of a group id and a session id; None is none of the    *)
(* other values.                                                           *)
LEMMA GroupFacts ==
  /\ \A g \in Groups : g[1] \in Pids /\ g[2] \in Pids /\ g = <<g[1], g[2]>>
  /\ \A a, b \in Pids : <<a, b>> \in Groups
  /\ INIT_PROCESS_PID \in Pids /\ None \notin Pids /\ None \notin Groups
  /\ None \notin Terminals /\ None \notin Filters /\ NTty \in Terminals
  /\ \A f \in {<<"Any", 0>>} : f # None
BY SMTT(60), ProcessAssumption DEF Groups, Pids, INIT_PROCESS_PID, Filters

(* What holds of a process in the table.                                   *)
LEMMA LiveFacts ==
  ASSUME TypeOK, TablesAgree, NEW p \in Pids, status[p] \in {"runnable", "zombie"}
  PROVE  /\ p \in process_table
         /\ process_group[p] \in group_table /\ process_group[p] \in Groups
         /\ process_group[p] # None
         /\ pgid(p) \in Pids /\ sid(p) \in Pids
         /\ process_group[p] = <<pgid(p), sid(p)>>
         /\ p \in processes[process_group[p]]
         /\ sid(p) \in session_table /\ pgid(p) \in process_groups[sid(p)]
<1>1. p \in process_table BY DEF TablesAgree
<1>2. process_group[p] \in Groups BY <1>1 DEF TablesAgree
<1>3. p \in processes[process_group[p]] BY <1>2 DEF TablesAgree
<1>4. process_group[p] \in group_table BY <1>2, <1>3 DEF TablesAgree
<1>5. sid(p) \in session_table /\ pgid(p) \in process_groups[sid(p)]
  BY <1>4 DEF TablesAgree, pgid, sid
<1>6. QED BY <1>1, <1>2, <1>3, <1>4, <1>5, GroupFacts DEF pgid, sid

-----------------------------------------------------------------------------
(* Init.                                                                   *)
LEMMA InitInv == Init => ProcInv
<1> SUFFICES ASSUME Init PROVE ProcInv OBVIOUS
<1> DEFINE p == INIT_PROCESS_PID
           g == <<p, p>>
<1>0. p \in Pids /\ g \in Groups /\ g[1] = p /\ g[2] = p /\ p # None /\ g # None BY GroupFacts
<1>i. /\ status = [q \in Pids |-> IF q = p THEN "runnable" ELSE "unborn"]
      /\ exiting = {} /\ parent = [q \in Pids |-> None] /\ children = [q \in Pids |-> {}]
      /\ process_group = [q \in Pids |-> IF q = p THEN g ELSE None]
      /\ process_table = {p} /\ group_table = {g} /\ session_table = {p}
      /\ processes = [h \in Groups |-> IF h = g THEN {p} ELSE {}]
      /\ group_leader = {g} /\ session_leader = {p}
      /\ process_groups = [s \in Pids |-> IF s = p THEN {p} ELSE {}]
      /\ terminal = [s \in Pids |-> IF s = p THEN NTty ELSE None]
      /\ session = [t \in Terminals |-> IF t = NTty THEN p ELSE None]
      /\ foreground = [t \in Terminals |-> IF t = NTty THEN g ELSE None]
      /\ waiting = [q \in Pids |-> None] /\ resumed = {}
  BY DEF Init
<1> HIDE DEF p, g
<1>1. TypeOK BY <1>0, <1>i, GroupFacts DEF TypeOK
<1>2. TablesAgree BY <1>0, <1>i, GroupFacts DEF TablesAgree
<1>3. NoGroup BY <1>0, <1>i DEF NoGroup
<1>4. Family
  BY <1>0, <1>i, GroupFacts DEF Family, FamilyIsTrue, Cares, p
<1>5. Leaders BY <1>0, <1>i, GroupFacts DEF Leaders, g
<1>6. NoForgottenParent BY <1>i DEF NoForgottenParent
<1>7. ControllingAgrees BY <1>0, <1>i, GroupFacts DEF ControllingAgrees
<1>8. QED BY <1>1, <1>2, <1>3, <1>4, <1>5, <1>6, <1>7 DEF ProcInv

-----------------------------------------------------------------------------
(* Clone.                                                                  *)
LEMMA CloneKeeps ==
  ASSUME ProcInv, NEW p \in Pids, NEW c \in Pids, Clone(p, c)
  PROVE  ProcInv'
<1>0. TypeOK /\ TablesAgree /\ NoGroup /\ Family /\ Leaders /\ NoForgottenParent
      /\ ControllingAgrees
  BY DEF ProcInv
<1> DEFINE g == process_group[p]
<1>1. /\ status[p] = "runnable" /\ waiting[p] = None /\ status[c] = "unborn" /\ p # c
      /\ status' = [status EXCEPT ![c] = "runnable"]
      /\ parent' = [parent EXCEPT ![c] = p]
      /\ children' = [children EXCEPT ![p] = @ \cup {c}]
      /\ processes' = [processes EXCEPT ![g] = @ \cup {c}]
      /\ process_group' = [process_group EXCEPT ![c] = g]
      /\ process_table' = process_table \cup {c}
      /\ UNCHANGED <<exiting, group_table, group_leader>>
  BY <1>0 DEF Clone, Current, set_parent_and_group, TypeOK
<1>2. /\ UNCHANGED <<session_table, process_groups, session_leader>>
      /\ UNCHANGED <<terminal, session, foreground>> /\ UNCHANGED <<waiting, resumed>>
  BY DEF Clone, sessionVars, ttyVars, waitVars
<1>3. /\ g \in Groups /\ g \in group_table /\ p \in process_table
      /\ c \notin process_table /\ process_group[c] = None
      /\ \A h \in Groups : c \notin processes[h]
  BY SMTT(60), <1>0, <1>1, LiveFacts, GroupFacts DEF TablesAgree, NoGroup
<1> HIDE DEF g
<1>4. TypeOK' BY SMTT(60), <1>0, <1>1, <1>2, <1>3 DEF TypeOK
<1>5. /\ \A q \in Pids : status'[q] = IF q = c THEN "runnable" ELSE status[q]
      /\ \A q \in Pids : process_group'[q] = IF q = c THEN g ELSE process_group[q]
      /\ \A h \in Groups : processes'[h] = IF h = g THEN processes[g] \cup {c} ELSE processes[h]
      /\ \A q \in Pids : parent'[q] = IF q = c THEN p ELSE parent[q]
      /\ \A q \in Pids : children'[q] = IF q = p THEN children[p] \cup {c} ELSE children[q]
  BY <1>0, <1>1, <1>3 DEF TypeOK
<1>6. TablesAgree'
  <2>1. process_table' = {q \in Pids : status'[q] \in {"runnable", "zombie"}}
    BY SMTT(60), <1>0, <1>1, <1>5 DEF TablesAgree
  <2>2. \A q \in Pids : \A h \in Groups : q \in processes'[h] <=> process_group'[q] = h
    BY SMTT(60), <1>0, <1>3, <1>5, GroupFacts DEF TablesAgree
  <2>3. \A q \in process_table' : process_group'[q] \in Groups
    BY SMTT(60), <1>0, <1>1, <1>3, <1>5 DEF TablesAgree
  <2>4. group_table' = {h \in Groups : processes'[h] # {}}
    BY SMTT(60), <1>0, <1>1, <1>3, <1>5 DEF TablesAgree
  <2>5. QED BY <1>0, <1>1, <1>2, <2>1, <2>2, <2>3, <2>4 DEF TablesAgree
<1>7. NoGroup' BY <1>0, <1>1, <1>5 DEF NoGroup
<1>8. Family'
  <2>0. c # INIT_PROCESS_PID BY <1>0, <1>1 DEF Family
  <2>1. \A q \in Pids : \A d \in children'[q] : d \in process_table' /\ parent'[d] = q
    BY SMTT(60), <1>0, <1>1, <1>3, <1>5 DEF Family, FamilyIsTrue, Cares, TypeOK
  <2>2. \A d \in process_table' \ {INIT_PROCESS_PID} :
          parent'[d] \in Pids /\ Cares(parent[d])' /\ d \in children'[parent'[d]]
    BY SMTT(60), <1>0, <1>1, <1>3, <1>5 DEF Family, FamilyIsTrue, Cares, TypeOK, TablesAgree
  <2>3. QED BY SMTT(60), <1>0, <1>1, <1>5, <2>0, <2>1, <2>2, GroupFacts DEF Family, FamilyIsTrue, Cares
<1>9. Leaders'
  <2>1. c \notin session_leader BY <1>0, <1>3 DEF Leaders
  <2>2. \A h \in Groups : h[2] \in Pids BY GroupFacts
  <2>3. QED BY SMTT(60), <1>0, <1>1, <1>2, <1>5, <2>1, <2>2 DEF Leaders, TypeOK
<1>10. NoForgottenParent'
  BY SMTT(60), <1>0, <1>1, <1>2, <1>3, <1>5
  DEF NoForgottenParent, ZombieChildren, Unwaited, Matches, pgid, TypeOK
<1>11. ControllingAgrees'
  BY <1>0, <1>1, <1>2 DEF ControllingAgrees, GroupAlive, SessionAlive
<1>12. QED BY <1>4, <1>6, <1>7, <1>8, <1>9, <1>10, <1>11 DEF ProcInv

(* A process becomes a zombie and goes on to close its files.              *)
LEMMA SetZombieKeeps ==
  ASSUME ProcInv, NEW p \in Pids, SetZombie(p)
  PROVE  ProcInv'
<1>0. TypeOK /\ TablesAgree /\ NoGroup /\ Family /\ Leaders /\ NoForgottenParent
      /\ ControllingAgrees
  BY DEF ProcInv
<1>1. /\ status[p] = "runnable" /\ waiting[p] = None /\ p # INIT_PROCESS_PID
      /\ status' = [status EXCEPT ![p] = "zombie"] /\ exiting' = exiting \cup {p}
      /\ UNCHANGED <<parent, children, process_table>> /\ UNCHANGED <<waiting, resumed>>
  BY DEF SetZombie, Current, waitVars
<1>2. /\ UNCHANGED <<process_group, group_table, processes, group_leader>>
      /\ UNCHANGED <<session_table, process_groups, session_leader>>
      /\ UNCHANGED <<terminal, session, foreground>>
  BY DEF SetZombie, groupVars, sessionVars, ttyVars
<1>3. \A q \in Pids : status'[q] = IF q = p THEN "zombie" ELSE status[q]
  BY <1>0, <1>1 DEF TypeOK
<1>4. TypeOK' BY <1>0, <1>1, <1>2 DEF TypeOK
<1>5. TablesAgree'
  <2>1. process_table' = {q \in Pids : status'[q] \in {"runnable", "zombie"}}
    BY SMTT(60), <1>0, <1>1, <1>3 DEF TablesAgree
  <2>2. QED BY <1>0, <1>1, <1>2, <2>1 DEF TablesAgree
<1>6. NoGroup' BY <1>0, <1>1, <1>2 DEF NoGroup
<1>7. Family'
  <2>1. \A q \in Pids : Cares(q) => Cares(q)' BY <1>1, <1>3 DEF Cares
  <2>2. \A c \in process_table \ {INIT_PROCESS_PID} :
          parent[c] \in Pids /\ Cares(parent[c])' /\ c \in children[parent[c]]
    <3>1. \A c : Cares(parent[c])' <=> status'[parent[c]] = "runnable" \/ parent[c] \in exiting'
      BY <1>1 DEF Cares
    <3>2. \A c \in process_table \ {INIT_PROCESS_PID} :
            parent[c] \in Pids /\ Cares(parent[c]) /\ c \in children[parent[c]]
      BY <1>0 DEF Family, FamilyIsTrue
    <3>3. QED BY <2>1, <3>1, <3>2 DEF Cares
  <2>3. status'[INIT_PROCESS_PID] = "runnable"
    BY <1>0, <1>1, <1>3, GroupFacts DEF Family
  <2>4. \A x \in exiting' : status'[x] \in {"zombie", "reaped"}
    BY <1>0, <1>1, <1>3 DEF Family, TypeOK
  <2>5. QED BY <1>0, <1>1, <2>2, <2>3, <2>4 DEF Family, FamilyIsTrue
<1>8. Leaders'
  <2>1. \A h \in Groups : h[2] \in Pids BY GroupFacts
  <2>2. \A q \in Pids : status'[q] = "reaped" <=> status[q] = "reaped" BY SMTT(60), <1>1, <1>3
  <2>3. QED BY SMTT(60), <1>0, <1>1, <1>2, <2>1, <2>2 DEF Leaders, TypeOK
<1>9. NoForgottenParent'
  <2> SUFFICES ASSUME NEW q \in Pids \ {INIT_PROCESS_PID}, waiting[q] # None, q \notin resumed,
                      NEW c \in children[q], Matches(c, waiting[q]), status'[c] = "zombie"
               PROVE  c \in exiting'
    BY <1>1, <1>2 DEF NoForgottenParent, ZombieChildren, Unwaited, Matches, pgid
  <2>1. CASE c = p BY <1>1, <2>1
  <2>2. CASE c # p
    <3>1. c \in Pids BY <1>0 DEF TypeOK
    <3>2. status[c] = "zombie" BY <1>3, <2>2, <3>1
    <3>3. c \in ZombieChildren(q, waiting[q]) BY <3>2 DEF ZombieChildren, Unwaited
    <3>4. QED BY <1>0, <1>1, <3>3 DEF NoForgottenParent
  <2>3. QED BY <2>1, <2>2
<1>10. ControllingAgrees'
  BY <1>0, <1>1, <1>2 DEF ControllingAgrees, GroupAlive, SessionAlive
<1>11. QED BY <1>4, <1>5, <1>6, <1>7, <1>8, <1>9, <1>10 DEF ProcInv

(* The end of an exit: the children move to the first process.             *)
LEMMA MoveChildrenKeeps ==
  ASSUME ProcInv, NEW p \in Pids, MoveChildren(p)
  PROVE  ProcInv'
<1>0. TypeOK /\ TablesAgree /\ NoGroup /\ Family /\ Leaders /\ NoForgottenParent
      /\ ControllingAgrees
  BY DEF ProcInv
<1> DEFINE i == INIT_PROCESS_PID
<1>1. /\ p \in exiting /\ exiting' = exiting \ {p}
      /\ parent' = [c \in Pids |-> IF c \in children[p] THEN i ELSE parent[c]]
      /\ children' = [children EXCEPT ![i] = @ \cup children[p], ![p] = {}]
      /\ resumed' = resumed \cup {parent[p]}
      /\ UNCHANGED <<status, process_table>> /\ UNCHANGED waiting
  BY DEF MoveChildren
<1>2. /\ UNCHANGED <<process_group, group_table, processes, group_leader>>
      /\ UNCHANGED <<session_table, process_groups, session_leader>>
      /\ UNCHANGED <<terminal, session, foreground>>
  BY DEF MoveChildren, groupVars, sessionVars, ttyVars
<1>3. i \in Pids /\ status[i] = "runnable" /\ p # i /\ status[p] # "runnable"
  BY <1>0, <1>1, GroupFacts DEF Family
<1>4. /\ \A q \in Pids : parent'[q] = IF q \in children[p] THEN i ELSE parent[q]
      /\ \A q \in Pids : children'[q] = IF q = p THEN {}
                                        ELSE IF q = i THEN children[i] \cup children[p]
                                        ELSE children[q]
  BY <1>0, <1>1, <1>3 DEF TypeOK
<1>5. /\ parent[i] = None
      /\ \A q \in Pids : i \notin children[q]
      /\ \A q \in Pids : \A c \in children[q] : c \in process_table /\ parent[c] = q /\ c # q
      /\ \A c \in process_table \ {i} :
           parent[c] \in Pids /\ Cares(parent[c]) /\ c \in children[parent[c]]
      /\ \A c \in Pids : parent[c] # c
  BY SMTT(60), <1>0, GroupFacts DEF Family, FamilyIsTrue, TypeOK
<1> HIDE DEF i
<1>6. TypeOK' BY <1>0, <1>1, <1>2, <1>3 DEF TypeOK
<1>7. TablesAgree' BY <1>0, <1>1, <1>2 DEF TablesAgree
<1>8. NoGroup' BY <1>0, <1>1, <1>2 DEF NoGroup
<1>9. Family'
  <2>0. \A q \in Pids \ {p} : Cares(q) => Cares(q)' BY <1>1 DEF Cares
  <2>1. \A q \in Pids : \A d \in children'[q] : d \in process_table /\ parent'[d] = q
    BY SMTT(60), <1>0, <1>3, <1>4, <1>5 DEF TypeOK
  <2>2. ASSUME NEW d \in process_table \ {i}
        PROVE  parent'[d] \in Pids /\ Cares(parent[d])' /\ d \in children'[parent'[d]]
    <3>0. d \in Pids BY <1>0 DEF TablesAgree
    <3>1. CASE d \in children[p]
      <4>1. parent'[d] = i BY <1>4, <3>0, <3>1
      <4>2. children'[i] = children[i] \cup children[p] BY <1>3, <1>4
      <4>3. Cares(parent[d])' BY <1>1, <1>3, <4>1 DEF Cares
      <4>4. QED BY <1>3, <3>1, <4>1, <4>2, <4>3
    <3>2. CASE d \notin children[p]
      <4>1. parent'[d] = parent[d] /\ parent[d] # p /\ parent[d] \in Pids
        BY <1>4, <1>5, <3>0, <3>2
      <4>2. Cares(parent[d]) /\ d \in children[parent[d]] BY <1>5
      <4>3. Cares(parent[d])'
        <5>1. exiting' = exiting \ {p} /\ status' = status BY <1>1
        <5>2. QED BY <4>1, <4>2, <5>1 DEF Cares
      <4>4. d \in children'[parent[d]] BY SMTT(60), <1>4, <4>1, <4>2
      <4>5. QED BY <4>1, <4>3, <4>4
    <3>3. QED BY <3>1, <3>2
  <2>3. status'[i] = "runnable" /\ parent'[i] = None BY <1>1, <1>3, <1>4, <1>5
  <2>4. \A c \in Pids : parent'[c] # c BY SMTT(60), <1>3, <1>4, <1>5
  <2>5. QED BY ZenonT(60), <1>0, <1>1, <2>1, <2>2, <2>3, <2>4 DEF Family, FamilyIsTrue, i
<1>10. Leaders' BY SMTT(60), <1>0, <1>1, <1>2 DEF Leaders
<1>11. NoForgottenParent'
  <2> SUFFICES ASSUME NEW q \in Pids \ {i}, waiting'[q] # None, q \notin resumed',
                      NEW c \in children'[q], Matches(c, waiting[q])', status'[c] = "zombie"
               PROVE  c \in exiting'
    BY <1>0 DEF NoForgottenParent, ZombieChildren, Unwaited, i
  <2>1. q # p /\ c \in children[q] /\ c \in Pids /\ parent[c] = q
    BY SMTT(60), <1>0, <1>4, <1>5 DEF TypeOK
  <2>2. c # p BY <1>1, <2>1
  <2>3. status[c] = "zombie" /\ Matches(c, waiting[q])
    BY <1>1, <1>2 DEF Matches, pgid
  <2>4. c \in ZombieChildren(q, waiting[q]) BY <2>1, <2>3 DEF ZombieChildren, Unwaited
  <2>5. c \in exiting BY <1>0, <1>1, <2>4 DEF NoForgottenParent, i
  <2>6. QED BY <1>1, <2>2, <2>5
<1>12. ControllingAgrees'
  BY <1>0, <1>1, <1>2 DEF ControllingAgrees, GroupAlive, SessionAlive
<1>13. QED BY <1>6, <1>7, <1>8, <1>9, <1>10, <1>11, <1>12 DEF ProcInv

-----------------------------------------------------------------------------
(* The steps of wait4 that reap nobody.                                    *)
LEMMA SleepKeeps ==
  ASSUME ProcInv, NEW p \in Pids, NEW f \in Filters \cup {None},
         waiting' = [waiting EXCEPT ![p] = f], resumed' = resumed \ {p},
         f = None \/ ZombieChildren(p, f) = {},
         UNCHANGED <<groupVars, sessionVars, familyVars, ttyVars>>
  PROVE  ProcInv'
<1>0. TypeOK /\ TablesAgree /\ NoGroup /\ Family /\ Leaders /\ NoForgottenParent
      /\ ControllingAgrees
  BY DEF ProcInv
<1>1. /\ UNCHANGED <<process_group, group_table, processes, group_leader>>
      /\ UNCHANGED <<session_table, process_groups, session_leader>>
      /\ UNCHANGED <<status, exiting, parent, children, process_table>>
      /\ UNCHANGED <<terminal, session, foreground>>
  BY DEF groupVars, sessionVars, familyVars, ttyVars
<1>2. TypeOK' BY <1>0, <1>1 DEF TypeOK
<1>3. TablesAgree' /\ NoGroup' /\ Family' /\ Leaders'
  BY SMTT(60), <1>0, <1>1 DEF TablesAgree, NoGroup, Family, FamilyIsTrue, Cares, Leaders
<1>4. NoForgottenParent'
  <2>1. \A q \in Pids : waiting'[q] = IF q = p THEN f ELSE waiting[q] BY <1>0 DEF TypeOK
  <2>2. \A q, h : ZombieChildren(q, h)' = ZombieChildren(q, h)
    BY <1>1 DEF ZombieChildren, Unwaited, Matches, pgid
  <2>3. QED BY <1>0, <1>1, <2>1, <2>2 DEF NoForgottenParent
<1>5. ControllingAgrees' BY <1>0, <1>1 DEF ControllingAgrees, GroupAlive, SessionAlive
<1>6. QED BY <1>2, <1>3, <1>4, <1>5 DEF ProcInv

(* The terminal calls, which change nothing but ttyVars.                   *)
LEMMA TtyKeeps ==
  ASSUME ProcInv, UNCHANGED <<groupVars, sessionVars, familyVars, waitVars>>,
         terminal' \in [Pids -> Terminals \cup {None}],
         session' \in [Terminals -> Pids \cup {None}],
         foreground' \in [Terminals -> Groups \cup {None}],
         \A p \in Pids : terminal'[p] \in {None, terminal[p]} \/ p \in session_leader,
         \A t \in Terminals : \/ foreground'[t] \in {None, foreground[t]}
                              \/ foreground'[t] \in group_table,
         ControllingAgrees'
  PROVE  ProcInv'
<1>0. TypeOK /\ TablesAgree /\ NoGroup /\ Family /\ Leaders /\ NoForgottenParent
      /\ ControllingAgrees
  BY DEF ProcInv
<1>1. /\ UNCHANGED <<process_group, group_table, processes, group_leader>>
      /\ UNCHANGED <<session_table, process_groups, session_leader>>
      /\ UNCHANGED <<status, exiting, parent, children, process_table>>
      /\ UNCHANGED <<waiting, resumed>>
  BY DEF groupVars, sessionVars, familyVars, waitVars
<1>2. TypeOK' BY <1>0, <1>1 DEF TypeOK
<1>3. TablesAgree' /\ NoGroup' /\ Family'
  BY SMTT(60), <1>0, <1>1 DEF TablesAgree, NoGroup, Family, FamilyIsTrue, Cares
<1>4. Leaders'
  <2>1. \A p \in Pids : status[p] # "reaped" /\ p \notin session_leader => terminal'[p] = None
    BY <1>0 DEF Leaders
  <2>2. \A t \in Terminals : foreground'[t] # None /\ status[foreground'[t][2]] # "reaped"
                               => foreground'[t][2] \in session_leader
    BY <1>0 DEF Leaders
  <2>3. QED BY <1>0, <1>1, <2>1, <2>2 DEF Leaders
<1>5. NoForgottenParent'
  BY <1>0, <1>1 DEF NoForgottenParent, ZombieChildren, Unwaited, Matches, pgid
<1>6. QED BY <1>2, <1>3, <1>4, <1>5 DEF ProcInv

(* JobControl::set_current_session (TIOCSCTTY).                            *)
LEMMA SetCurrentSessionKeeps ==
  ASSUME ProcInv, NEW p \in Pids, NEW t \in Terminals, SetCurrentSession(p, t)
  PROVE  ProcInv'
<1>0. TypeOK /\ TablesAgree /\ NoGroup /\ Family /\ Leaders /\ NoForgottenParent
      /\ ControllingAgrees
  BY DEF ProcInv
<1> DEFINE g == process_group[p]
<1>1. /\ p \in session_leader /\ sid(p) = p
      /\ status[p] = "runnable"
      /\ session[t] = None \/ ~SessionAlive(session[t])
      /\ terminal' = [terminal EXCEPT ![p] = t]
      /\ session' = [session EXCEPT ![t] = p]
      /\ foreground' = [foreground EXCEPT ![t] = g]
      /\ UNCHANGED <<groupVars, sessionVars, familyVars, waitVars>>
  BY DEF SetCurrentSession, is_session_leader, Current
<1>2. g \in group_table /\ g \in Groups /\ g[2] = p /\ g # None
  <2>1. g \in group_table /\ g \in Groups /\ g # None BY <1>0, <1>1, LiveFacts
  <2>2. QED BY <1>1, <2>1 DEF sid
<1> HIDE DEF g
<1>3. /\ \A q \in Pids : terminal'[q] = IF q = p THEN t ELSE terminal[q]
      /\ \A u \in Terminals : session'[u] = IF u = t THEN p ELSE session[u]
      /\ \A u \in Terminals : foreground'[u] = IF u = t THEN g ELSE foreground[u]
      /\ terminal' \in [Pids -> Terminals \cup {None}]
      /\ session' \in [Terminals -> Pids \cup {None}]
      /\ foreground' \in [Terminals -> Groups \cup {None}]
  BY <1>0, <1>1, <1>2 DEF TypeOK
<1>4. UNCHANGED <<group_table, session_table, process_groups>>
  BY <1>1 DEF groupVars, sessionVars
<1>5. ControllingAgrees'
  <2>1. ASSUME NEW s \in session_table, terminal'[s] # None PROVE session'[terminal'[s]] = s
    <3>0. s \in Pids BY <1>0 DEF TypeOK
    <3>1. CASE s = p BY <1>3, <3>1
    <3>2. CASE s # p
      <4>1. terminal'[s] = terminal[s] /\ terminal[s] \in Terminals
        BY <1>0, <1>3, <2>1, <3>0, <3>2 DEF TypeOK
      <4>2. session[terminal[s]] = s /\ s # None
        BY <1>0, <2>1, <3>0, <4>1, GroupFacts DEF ControllingAgrees
      <4>3. terminal[s] # t BY <1>1, <4>2 DEF SessionAlive
      <4>4. QED BY <1>3, <4>1, <4>2, <4>3
    <3>3. QED BY <3>1, <3>2
  <2>2. \A u \in Terminals : foreground'[u] # None /\ GroupAlive(foreground'[u])
                               => foreground'[u][2] = session'[u]
    BY <1>0, <1>2, <1>3 DEF ControllingAgrees
  <2>3. QED BY <1>0, <1>4, <2>1, <2>2 DEF ControllingAgrees, GroupAlive, SessionAlive
<1>6. QED BY <1>1, <1>2, <1>3, <1>5, TtyKeeps

(* JobControl::release_current_session (TIOCNOTTY).                        *)
LEMMA ReleaseCurrentSessionKeeps ==
  ASSUME ProcInv, NEW p \in Pids, NEW t \in Terminals, ReleaseCurrentSession(p, t)
  PROVE  ProcInv'
<1>0. TypeOK /\ TablesAgree /\ NoGroup /\ Family /\ Leaders /\ NoForgottenParent
      /\ ControllingAgrees
  BY DEF ProcInv
<1>1. /\ sid(p) = p
      /\ terminal' = [terminal EXCEPT ![p] = None]
      /\ UNCHANGED <<session, foreground>>
      /\ UNCHANGED <<groupVars, sessionVars, familyVars, waitVars>>
  BY DEF ReleaseCurrentSession, is_session_leader
<1>2. /\ \A q \in Pids : terminal'[q] = IF q = p THEN None ELSE terminal[q]
      /\ terminal' \in [Pids -> Terminals \cup {None}]
      /\ session' \in [Terminals -> Pids \cup {None}]
      /\ foreground' \in [Terminals -> Groups \cup {None}]
  BY <1>0, <1>1 DEF TypeOK
<1>3. ControllingAgrees'
  BY <1>0, <1>1, <1>2 DEF ControllingAgrees, GroupAlive, SessionAlive, groupVars, sessionVars, TypeOK
<1>4. QED BY <1>1, <1>2, <1>3, TtyKeeps

(* JobControl::set_foreground (TIOCSPGRP).                                 *)
LEMMA SetForegroundKeeps ==
  ASSUME ProcInv, NEW p \in Pids, NEW t \in Terminals, NEW id \in Pids, SetForeground(p, t, id)
  PROVE  ProcInv'
<1>0. TypeOK /\ TablesAgree /\ NoGroup /\ Family /\ Leaders /\ NoForgottenParent
      /\ ControllingAgrees
  BY DEF ProcInv
<1>1. /\ UNCHANGED <<terminal, session>>
      /\ UNCHANGED <<groupVars, sessionVars, familyVars, waitVars>>
  BY DEF SetForeground
<1>2. PICK g \in group_table \cup {None} :
        /\ foreground' = [foreground EXCEPT ![t] = g]
        /\ g # None => session[t] = g[2]
  BY DEF SetForeground, GroupOf
<1>3. /\ \A u \in Terminals : foreground'[u] = IF u = t THEN g ELSE foreground[u]
      /\ terminal' \in [Pids -> Terminals \cup {None}]
      /\ session' \in [Terminals -> Pids \cup {None}]
      /\ foreground' \in [Terminals -> Groups \cup {None}]
  BY <1>0, <1>1, <1>2 DEF TypeOK
<1>4. ControllingAgrees'
  BY <1>0, <1>1, <1>2, <1>3 DEF ControllingAgrees, GroupAlive, SessionAlive, groupVars, sessionVars
<1>5. QED BY <1>1, <1>3, <1>4, TtyKeeps

-----------------------------------------------------------------------------
(* A process that leaves a group empty takes the group out of the table.   *)
MovesTo(q, g) ==
  /\ processes' \in [Groups -> SUBSET Pids]
  /\ process_group' \in [Pids -> Groups \cup {None}]
  /\ group_table' \subseteq Groups
  /\ \A p \in Pids : process_group'[p] = IF p = q THEN g ELSE process_group[p]
  /\ \A h \in group_table' : h = g \/ h \in group_table
  /\ g \in group_table'
  /\ process_group[q] \in group_table' => processes[process_group[q]] # {q}
  /\ \A p \in Pids : \A h \in Groups : p \in processes'[h] <=> process_group'[p] = h
  /\ group_table' = {h \in Groups : processes'[h] # {}}

(* What the change of a process's group does to the two tables.            *)
LEMMA ChangeGroupFacts ==
  ASSUME TypeOK, TablesAgree, NEW q \in process_table, NEW g \in Groups,
         g # process_group[q], NEW table \in {{}, {g}}, g \in group_table \cup table,
         ChangeGroup(q, g, table)
  PROVE  MovesTo(q, g)
<1> DEFINE old == process_group[q]
<1>1. q \in Pids /\ old \in Groups /\ old # g /\ q \in processes[old]
  BY DEF TablesAgree
<1>2. /\ processes' = [processes EXCEPT ![old] = @ \ {q}, ![g] = @ \cup {q}]
      /\ process_group' = [process_group EXCEPT ![q] = g]
      /\ group_table' = (IF processes[old] = {q} THEN group_table \ {old} ELSE group_table)
                        \cup table
  BY DEF ChangeGroup
<1> HIDE DEF old
<1>3. /\ processes' \in [Groups -> SUBSET Pids]
      /\ process_group' \in [Pids -> Groups \cup {None}]
      /\ \A p \in Pids : process_group'[p] = IF p = q THEN g ELSE process_group[p]
      /\ \A h \in Groups : processes'[h] = IF h = g THEN processes[g] \cup {q}
                                           ELSE IF h = old THEN processes[old] \ {q}
                                           ELSE processes[h]
  BY <1>1, <1>2 DEF TypeOK
<1>4. \A p \in Pids : \A h \in Groups : p \in processes'[h] <=> process_group'[p] = h
  <2>1. \A p \in Pids : \A h \in Groups : p \in processes[h] <=> process_group[p] = h
    BY DEF TablesAgree
  <2>2. process_group[q] = old BY DEF old
  <2>3. QED BY SMTT(60), <1>1, <1>3, <2>1, <2>2
<1>5. \A h \in Groups : h \in group_table <=> processes[h] # {} BY DEF TablesAgree
<1>6. group_table' \subseteq Groups /\ \A h \in group_table' : h = g \/ h \in group_table
  BY <1>2 DEF TypeOK
<1>7. \A h \in Groups : h \in group_table' <=> processes'[h] # {}
  <2>1. g \in group_table' BY <1>1, <1>2
  <2>2. processes'[g] # {} BY <1>3
  <2>3. old \in group_table' <=> processes'[old] # {}
    <3>1. processes'[old] = processes[old] \ {q} BY <1>1, <1>3
    <3>2. old \in group_table BY <1>1, <1>5
    <3>3. CASE processes[old] = {q}
      <4>1. old \notin group_table' BY <1>1, <1>2, <3>3
      <4>2. QED BY <3>1, <3>3, <4>1
    <3>4. CASE processes[old] # {q}
      <4>1. old \in group_table' BY <1>2, <3>2, <3>4
      <4>2. processes[old] \ {q} # {} BY <1>1, <3>4
      <4>3. QED BY <3>1, <4>1, <4>2
    <3>5. QED BY <3>3, <3>4
  <2>4. ASSUME NEW h \in Groups, h # g, h # old PROVE h \in group_table' <=> processes'[h] # {}
    BY <1>2, <1>3, <1>5, <2>4
  <2>5. QED BY <2>1, <2>2, <2>3, <2>4
<1>8. old \in group_table' => processes[old] # {q} BY <1>1, <1>2
<1>9. g \in group_table' /\ group_table' = {h \in Groups : processes'[h] # {}}
  BY <1>1, <1>2, <1>6, <1>7
<1>10. QED BY <1>3, <1>4, <1>6, <1>8, <1>9 DEF old, MovesTo

(* What the moves to a new session, to a new group and to another group    *)
(* have in common: the process that moves leads no session.                *)
LEMMA MoveKeeps ==
  ASSUME ProcInv, NEW q \in process_table, NEW g \in Groups,
         g # process_group[q], NEW table \in {{}, {g}}, g \in group_table \cup table,
         ChangeGroup(q, g, table),
         g \in table => \A h \in group_table : h[1] # g[1],
         q \notin session_leader,
         NEW S \in {{}, {q}}, session_leader' = session_leader \cup S,
         q \in S => g = <<q, q>>,
         status[g[2]] = "reaped" \/ g[2] \in session_leader',
         \A x \in Pids : q \in children[x] /\ waiting[x] # None => status[q] = "runnable",
         session_table' \subseteq session_table \cup S,
         process_groups' \in [Pids -> SUBSET Pids],
         \A h \in group_table' : h[2] \in session_table' /\ h[1] \in process_groups'[h[2]],
         group_leader' \subseteq Groups,
         foreground' \in [Terminals -> Groups \cup {None}],
         \A t \in Terminals : foreground'[t] \in {None, foreground[t]},
         \A t \in Terminals : foreground'[t] # None /\ GroupAlive(foreground[t])'
                                => GroupAlive(foreground[t]),
         UNCHANGED familyVars, UNCHANGED waitVars, UNCHANGED <<terminal, session>>
  PROVE  ProcInv'
<1>0. TypeOK /\ TablesAgree /\ NoGroup /\ Family /\ Leaders /\ NoForgottenParent
      /\ ControllingAgrees
  BY DEF ProcInv
<1>1. UNCHANGED <<status, exiting, parent, children, process_table>> /\ UNCHANGED <<waiting, resumed>>
  BY DEF familyVars, waitVars
<1>2. /\ processes' \in [Groups -> SUBSET Pids]
      /\ process_group' \in [Pids -> Groups \cup {None}]
      /\ group_table' \subseteq Groups
      /\ \A p \in Pids : process_group'[p] = IF p = q THEN g ELSE process_group[p]
      /\ \A h \in group_table' : h = g \/ h \in group_table
      /\ \A p \in Pids : \A h \in Groups : p \in processes'[h] <=> process_group'[p] = h
      /\ group_table' = {h \in Groups : processes'[h] # {}}
  <2>1. MovesTo(q, g) BY ZenonT(60), <1>0, ChangeGroupFacts
  <2>2. QED BY <2>1 DEF MovesTo
<1>3. q \in Pids /\ status[q] \in {"runnable", "zombie"} BY <1>0 DEF TablesAgree
<1>4. TypeOK'
  <2>1. session_table' \subseteq Pids /\ session_leader' \subseteq Pids
    BY <1>0, <1>3 DEF TypeOK
  <2>2. QED BY <1>0, <1>1, <1>2, <2>1 DEF TypeOK
<1>5. TablesAgree'
  <2>1. process_table' = {p \in Pids : status'[p] \in {"runnable", "zombie"}}
    BY <1>0, <1>1 DEF TablesAgree
  <2>2. \A p \in process_table' : process_group'[p] \in Groups
    BY SMTT(60), <1>0, <1>1, <1>2, <2>1 DEF TablesAgree
  <2>3. \A h, k \in group_table' : h[1] = k[1] => h = k
    <3>1. CASE table = {} BY SMTT(60), <1>0, <1>2, <3>1 DEF TablesAgree
    <3>2. CASE table = {g} BY SMTT(60), <1>0, <1>2, <3>2 DEF TablesAgree
    <3>3. QED BY <3>1, <3>2
  <2>4. QED BY <1>0, <1>2, <2>1, <2>2, <2>3 DEF TablesAgree
<1>6. NoGroup' BY SMTT(60), <1>0, <1>1, <1>2 DEF NoGroup
<1>7. Family' BY <1>0, <1>1 DEF Family, FamilyIsTrue, Cares
<1>8. Leaders'
  <2>1. \A p \in session_leader' : p \in process_table' /\ process_group'[p] = <<p, p>>
    BY SMTT(60), <1>0, <1>1, <1>2, <1>3 DEF Leaders, TypeOK
  <2>2. \A p \in Pids : status'[p] # "reaped" /\ p \notin session_leader' => terminal'[p] = None
    BY <1>0, <1>1 DEF Leaders
  <2>3. \A t \in Terminals : foreground'[t] # None /\ status'[foreground'[t][2]] # "reaped"
                               => foreground'[t][2] \in session_leader'
    BY <1>0, <1>1 DEF Leaders
  <2>4. \A h \in group_table' : status'[h[2]] = "reaped" \/ h[2] \in session_leader'
    BY <1>0, <1>1, <1>2 DEF Leaders
  <2>5. QED BY <1>0, <2>1, <2>2, <2>3, <2>4 DEF Leaders
<1>9. NoForgottenParent'
  <2> SUFFICES ASSUME NEW x \in Pids \ {INIT_PROCESS_PID}, waiting[x] # None, x \notin resumed,
                      NEW c \in children[x], Matches(c, waiting[x])', status[c] = "zombie"
               PROVE  c \in exiting
    BY <1>0, <1>1 DEF NoForgottenParent, ZombieChildren, Unwaited
  <2>1. c # q OBVIOUS
  <2>2. c \in Pids BY <1>0 DEF TypeOK
  <2>3. Matches(c, waiting[x]) BY <1>1, <1>2, <2>1, <2>2 DEF Matches, pgid
  <2>4. c \in ZombieChildren(x, waiting[x]) BY <2>3 DEF ZombieChildren, Unwaited
  <2>5. QED BY <1>0, <2>4 DEF NoForgottenParent
<1>10. ControllingAgrees'
  <2>1. ASSUME NEW s \in session_table', terminal[s] # None PROVE session[terminal[s]] = s
    <3>1. CASE s \in session_table BY <1>0, <2>1, <3>1 DEF ControllingAgrees
    <3>2. CASE s \notin session_table
      <4>1. s = q BY <3>2
      <4>2. terminal[q] = None BY <1>0, <1>3 DEF Leaders
      <4>3. QED BY <2>1, <4>1, <4>2
    <3>3. QED BY <3>1, <3>2
  <2>2. ASSUME NEW t \in Terminals, foreground'[t] # None, GroupAlive(foreground[t])'
        PROVE  foreground'[t][2] = session[t]
    <3>1. foreground'[t] = foreground[t] /\ GroupAlive(foreground[t]) BY <2>2
    <3>2. QED BY <1>0, <2>2, <3>1 DEF ControllingAgrees
  <2>3. QED BY <1>0, <2>1, <2>2 DEF ControllingAgrees
<1>11. QED BY <1>4, <1>5, <1>6, <1>7, <1>8, <1>9, <1>10 DEF ProcInv

(* The keys that a session keeps when q leaves its group.                  *)
Left(q) == LET old == process_group[q] IN
           IF processes[old] = {q} THEN process_groups[old[2]] \ {old[1]}
           ELSE process_groups[old[2]]

(* The groups that stay are those of their sessions.                       *)
LEMMA LeftFacts ==
  ASSUME TypeOK, TablesAgree, NEW q \in process_table, NEW h \in group_table,
         h = process_group[q] => processes[h] # {q}
  PROVE  /\ h[2] \in session_table /\ h[1] \in process_groups[h[2]]
         /\ h[2] = process_group[q][2] => h[1] \in Left(q)
<1>1. h[2] \in session_table /\ h[1] \in process_groups[h[2]] BY DEF TablesAgree
<1>2. process_group[q] \in group_table
  <2>1. q \in Pids /\ process_group[q] \in Groups BY DEF TablesAgree
  <2>2. q \in processes[process_group[q]] BY <2>1 DEF TablesAgree
  <2>3. QED BY <2>1, <2>2 DEF TablesAgree
<1>3. CASE h = process_group[q] BY <1>1, <1>3 DEF Left
<1>4. CASE h # process_group[q]
  <2>1. h[1] # process_group[q][1] BY <1>2, <1>4 DEF TablesAgree
  <2>2. QED BY <1>1, <2>1 DEF Left
<1>5. QED BY <1>1, <1>3, <1>4

(* Who is not is_session_leader is not among the leaders at all.           *)
LEMMA NotLeader ==
  ASSUME ProcInv, NEW q \in Pids, ~is_session_leader(q) PROVE q \notin session_leader
<1>1. q \in session_leader => process_group[q] = <<q, q>> BY DEF ProcInv, Leaders
<1>2. QED BY SMTT(60), <1>1 DEF is_session_leader, sid

(* setsid: a new session with a new group.                                 *)
LEMMA SetsidKeeps ==
  ASSUME ProcInv, NEW p \in Pids, Setsid(p)
  PROVE  ProcInv'
<1>0. TypeOK /\ TablesAgree /\ NoGroup /\ Family /\ Leaders /\ NoForgottenParent
      /\ ControllingAgrees
  BY DEF ProcInv
<1> DEFINE old == process_group[p]
           s == old[2]
           new == <<p, p>>
<1>1. /\ status[p] = "runnable" /\ waiting[p] = None /\ p \notin session_leader
      /\ p \notin session_table /\ \A h \in group_table : h[1] # p
  BY NotLeader DEF Setsid, Current, GroupOf
<1>2. /\ ChangeGroup(p, new, {new})
      /\ group_leader' = (group_leader \ LeaderLost(p)) \cup {new}
      /\ process_groups' = [process_groups EXCEPT ![s] = Left(p), ![p] = {p}]
      /\ session_table' = (IF processes[old] = {p} /\ Left(p) = {} THEN session_table \ {s}
                           ELSE session_table) \cup {p}
      /\ session_leader' = session_leader \cup {p}
      /\ UNCHANGED <<terminal, session>> /\ UNCHANGED foreground
      /\ UNCHANGED familyVars /\ UNCHANGED waitVars
  BY DEF Setsid, ttyVars, Left
<1>3. /\ p \in process_table /\ old \in group_table /\ old \in Groups
      /\ s \in Pids /\ s \in session_table
  <2>1. p \in process_table /\ old \in group_table /\ old \in Groups BY <1>0, <1>1, LiveFacts
  <2>2. QED BY <1>0, <2>1, GroupFacts DEF TablesAgree
<1>4. new \in Groups /\ new # old /\ new[1] = p /\ new[2] = p /\ s # p
  BY <1>1, <1>3, GroupFacts
<1> HIDE DEF new
<1>5. MovesTo(p, new) BY <1>0, <1>2, <1>3, <1>4, ChangeGroupFacts
<1>6. /\ \A x \in Pids : process_groups'[x] = IF x = p THEN {p}
                                              ELSE IF x = s THEN Left(p) ELSE process_groups[x]
      /\ process_groups' \in [Pids -> SUBSET Pids]
  <2>1. Left(p) \in SUBSET Pids BY <1>0, <1>3 DEF Left, TypeOK
  <2>2. QED BY <1>0, <1>2, <1>3, <1>4, <2>1 DEF TypeOK
<1>7. ASSUME NEW h \in group_table' PROVE h[2] \in session_table' /\ h[1] \in process_groups'[h[2]]
  <2>1. CASE h = new BY <1>2, <1>4, <1>6, <2>1
  <2>2. CASE h # new
    <3>1. h \in group_table /\ (h = old => processes[h] # {p}) BY <1>5, <2>2 DEF MovesTo
    <3>2. /\ h[2] \in session_table /\ h[1] \in process_groups[h[2]]
          /\ h[2] = s => h[1] \in Left(p)
      BY <1>0, <1>3, <3>1, LeftFacts
    <3>3. h[2] \in session_table' BY <1>2, <3>2
    <3>4. h[2] \in Pids /\ h[2] # p BY <1>0, <1>1, <3>2 DEF TypeOK
    <3>5. QED BY <1>6, <3>2, <3>3, <3>4
  <2>3. QED BY <2>1, <2>2
<1>8. ASSUME NEW t \in Terminals, foreground[t] # None, GroupAlive(foreground[t])'
      PROVE  GroupAlive(foreground[t])
  <2>1. foreground[t] \in Groups /\ foreground[t][2] \in Pids BY <1>0, <1>8, GroupFacts DEF TypeOK
  <2>2. foreground[t][2] # p BY <1>0, <1>1, <1>8 DEF Leaders
  <2>3. CASE foreground[t] \in group_table'
    BY <1>2, <1>4, <1>5, <2>2, <2>3 DEF MovesTo, GroupAlive
  <2>4. CASE foreground[t][2] \in session_table' /\ foreground[t][1] \in process_groups'[foreground[t][2]]
    <3>1. foreground[t][2] \in session_table BY <1>2, <2>2, <2>4
    <3>2. foreground[t][1] \in process_groups[foreground[t][2]]
      BY <1>6, <2>1, <2>2, <2>4 DEF Left
    <3>3. QED BY <3>1, <3>2 DEF GroupAlive, SessionAlive
  <2>5. QED BY <1>2, <1>8, <2>3, <2>4 DEF GroupAlive, SessionAlive
<1>9. \A x \in Pids : p \in children[x] /\ waiting[x] # None => status[p] = "runnable" BY <1>1
<1>10. /\ group_leader' \subseteq Groups /\ session_table' \subseteq session_table \cup {p}
       /\ foreground' \in [Terminals -> Groups \cup {None}]
  BY <1>0, <1>2, <1>4 DEF TypeOK
<1>11. /\ \A t \in Terminals : foreground'[t] \in {None, foreground[t]}
       /\ \A t \in Terminals : foreground'[t] # None /\ GroupAlive(foreground[t])'
                                 => GroupAlive(foreground[t])
  BY <1>2, <1>8
<1>12. new = <<p, p>> BY DEF new
<1>13. /\ \A h \in group_table : h[1] # new[1]
       /\ new[2] \in session_leader'
  BY <1>1, <1>2, <1>4
<1>14. /\ {new} \in {{}, {new}} /\ new \in group_table \cup {new} /\ {p} \in {{}, {p}}
  OBVIOUS
<1>15. QED
  BY <1>1, <1>2, <1>3, <1>4, <1>6, <1>7, <1>9, <1>10, <1>11, <1>12, <1>13, <1>14, MoveKeeps

(* to_new_group: the process becomes the leader of a new group of its      *)
(* session.                                                                *)
LEMMA ToNewGroupKeeps ==
  ASSUME ProcInv, NEW q \in process_table, q \notin session_leader, pgid(q) # q,
         GroupOf(q) = {}, ToNewGroup(q),
         \A x \in Pids : q \in children[x] /\ waiting[x] # None => status[q] = "runnable"
  PROVE  ProcInv'
<1>0. TypeOK /\ TablesAgree /\ NoGroup /\ Family /\ Leaders /\ NoForgottenParent
      /\ ControllingAgrees
  BY DEF ProcInv
<1> DEFINE old == process_group[q]
           s == old[2]
           new == <<q, s>>
<1>1. /\ ChangeGroup(q, new, {new})
      /\ group_leader' = (group_leader \ LeaderLost(q)) \cup {new}
      /\ process_groups' = [process_groups EXCEPT ![s] = Left(q) \cup {q}]
      /\ foreground' = [t \in Terminals |-> IF foreground[t] = new THEN None ELSE foreground[t]]
      /\ UNCHANGED <<terminal, session>>
      /\ UNCHANGED familyVars /\ UNCHANGED waitVars
      /\ UNCHANGED <<session_table, session_leader>>
  BY DEF ToNewGroup, Left
<1>2. /\ q \in Pids /\ old \in group_table /\ old \in Groups /\ old[1] # q
      /\ s \in Pids /\ s \in session_table /\ old = <<old[1], s>>
  <2>1. q \in Pids /\ status[q] \in {"runnable", "zombie"} BY <1>0 DEF TablesAgree
  <2>2. old \in group_table /\ old \in Groups BY <1>0, <2>1, LiveFacts
  <2>3. QED BY <1>0, <2>1, <2>2, GroupFacts DEF TablesAgree, pgid
<1>3. new \in Groups /\ new # old /\ new[1] = q /\ new[2] = s
  BY <1>2, GroupFacts
<1>4. \A h \in Groups : h[1] = q /\ h[2] = s => h = new BY GroupFacts
<1> HIDE DEF new
<1>5. MovesTo(q, new) BY <1>0, <1>1, <1>2, <1>3, ChangeGroupFacts
<1>6. /\ \A x \in Pids : process_groups'[x] = IF x = s THEN Left(q) \cup {q} ELSE process_groups[x]
      /\ process_groups' \in [Pids -> SUBSET Pids]
  <2>1. Left(q) \in SUBSET Pids BY <1>0, <1>2 DEF Left, TypeOK
  <2>2. QED BY SMTT(60), <1>0, <1>1, <1>2, <2>1 DEF TypeOK
<1>7. ASSUME NEW h \in group_table' PROVE h[2] \in session_table' /\ h[1] \in process_groups'[h[2]]
  <2>1. CASE h = new BY <1>1, <1>2, <1>3, <1>6, <2>1
  <2>2. CASE h # new
    <3>1. h \in group_table /\ (h = old => processes[h] # {q}) BY <1>5, <2>2 DEF MovesTo
    <3>2. /\ h[2] \in session_table /\ h[1] \in process_groups[h[2]]
          /\ h[2] = s => h[1] \in Left(q)
      BY <1>0, <3>1, LeftFacts
    <3>3. h[2] \in Pids BY <1>0, <3>2 DEF TypeOK
    <3>4. QED BY <1>1, <1>6, <3>2, <3>3
  <2>3. QED BY <2>1, <2>2
<1>8. /\ foreground' \in [Terminals -> Groups \cup {None}]
      /\ \A t \in Terminals : /\ foreground'[t] \in {None, foreground[t]}
                              /\ foreground'[t] # None => foreground'[t] # new
  BY <1>0, <1>1, <1>3, GroupFacts DEF TypeOK
<1>9. ASSUME NEW t \in Terminals, foreground'[t] # None, GroupAlive(foreground[t])'
      PROVE  GroupAlive(foreground[t])
  <2> DEFINE f == foreground[t]
  <2>1. foreground'[t] = f /\ f \in Groups /\ f # new /\ f[2] \in Pids
    BY <1>0, <1>8, <1>9, GroupFacts DEF TypeOK
  <2>2. f \in group_table' \/ (f[2] \in session_table' /\ f[1] \in process_groups'[f[2]])
    BY <1>9, <2>1 DEF GroupAlive, SessionAlive
  <2>3. CASE f \in group_table' BY <1>5, <2>1, <2>3 DEF MovesTo, GroupAlive
  <2>4. CASE f[2] \in session_table' /\ f[1] \in process_groups'[f[2]]
    <3>1. f[2] \in session_table BY <1>1, <2>4
    <3>2. f[1] \in process_groups[f[2]]
      <4>1. CASE f[2] # s BY <1>6, <2>1, <2>4, <4>1
      <4>2. CASE f[2] = s
        <5>1. f[1] # q BY <1>4, <2>1, <4>2
        <5>2. f[1] \in Left(q) BY <1>6, <2>1, <2>4, <4>2, <5>1
        <5>3. QED BY <4>2, <5>2 DEF Left
      <4>3. QED BY <4>1, <4>2
    <3>3. QED BY <3>1, <3>2 DEF GroupAlive, SessionAlive
  <2>5. QED BY <2>2, <2>3, <2>4
<1>10. group_leader' \subseteq Groups BY <1>0, <1>1, <1>3 DEF TypeOK
<1>11. /\ \A h \in group_table : h[1] # new[1]
       /\ status[new[2]] = "reaped" \/ new[2] \in session_leader'
       /\ session_leader' = session_leader \cup {} /\ session_table' \subseteq session_table \cup {}
  BY <1>0, <1>1, <1>2, <1>3 DEF GroupOf, Leaders
<1>12. {new} \in {{}, {new}} /\ new \in group_table \cup {new} /\ {} \in {{}, {q}} /\ q \notin {}
  OBVIOUS
<1>13. QED
  BY SMTT(60), <1>1, <1>2, <1>3, <1>6, <1>7, <1>8, <1>9, <1>10, <1>11, <1>12, MoveKeeps

(* to_specified_group: the process joins a group of its session.           *)
LEMMA ToSpecifiedGroupKeeps ==
  ASSUME ProcInv, NEW q \in process_table, q \notin session_leader,
         NEW g \in group_table, g[1] # pgid(q), ToSpecifiedGroup(q, g),
         \A x \in Pids : q \in children[x] /\ waiting[x] # None => status[q] = "runnable"
  PROVE  ProcInv'
<1>0. TypeOK /\ TablesAgree /\ NoGroup /\ Family /\ Leaders /\ NoForgottenParent
      /\ ControllingAgrees
  BY DEF ProcInv
<1>1. /\ ChangeGroup(q, g, {})
      /\ group_leader' = group_leader \ LeaderLost(q)
      /\ UNCHANGED <<session_table, process_groups, session_leader>>
      /\ UNCHANGED <<terminal, session>> /\ UNCHANGED foreground
      /\ UNCHANGED familyVars /\ UNCHANGED waitVars
  BY DEF ToSpecifiedGroup, sessionVars, ttyVars
<1>2. g \in Groups /\ g # process_group[q] BY <1>0 DEF TypeOK, pgid
<1>3. MovesTo(q, g) BY <1>0, <1>1, <1>2, ChangeGroupFacts
<1>4. group_table' \subseteq group_table BY <1>3 DEF MovesTo
<1>5. \A h \in group_table' : h[2] \in session_table' /\ h[1] \in process_groups'[h[2]]
  BY <1>0, <1>1, <1>4 DEF TablesAgree
<1>6. /\ \A t \in Terminals : foreground'[t] \in {None, foreground[t]}
      /\ \A t \in Terminals : foreground'[t] # None /\ GroupAlive(foreground[t])'
                                => GroupAlive(foreground[t])
  BY <1>1, <1>4 DEF GroupAlive, SessionAlive
<1>7. /\ group_leader' \subseteq Groups
      /\ process_groups' \in [Pids -> SUBSET Pids]
      /\ foreground' \in [Terminals -> Groups \cup {None}]
  BY <1>0, <1>1 DEF TypeOK
<1>8. /\ status[g[2]] = "reaped" \/ g[2] \in session_leader'
      /\ session_leader' = session_leader \cup {} /\ session_table' \subseteq session_table \cup {}
  BY <1>0, <1>1 DEF Leaders
<1>9. {} \in {{}, {g}} /\ g \in group_table \cup {} /\ g \notin {} /\ {} \in {{}, {q}} /\ q \notin {}
  OBVIOUS
<1>10. QED BY <1>1, <1>2, <1>5, <1>6, <1>7, <1>8, <1>9, MoveKeeps

(* setpgid, for the process itself or a child.                             *)
LEMMA SetpgidKeeps ==
  ASSUME ProcInv, NEW p \in Pids, NEW q \in Pids, NEW id \in Pids, Setpgid(p, q, id)
  PROVE  ProcInv'
<1>1. /\ status[p] = "runnable" /\ waiting[p] = None
      /\ q \in {p} \cup children[p] /\ q \in process_table
      /\ pgid(q) # id /\ ~is_session_leader(q)
  BY DEF Setpgid, Current
<1>2. q \notin session_leader BY <1>1, NotLeader
<1>3. \A x \in Pids : q \in children[x] /\ waiting[x] # None => status[q] = "runnable"
  BY SMTT(60), <1>1 DEF ProcInv, Family, FamilyIsTrue, Cares
<1>4. CASE GroupOf(id) = {} /\ id = q /\ ToNewGroup(q)
  BY <1>1, <1>2, <1>3, <1>4, ToNewGroupKeeps
<1>5. ASSUME NEW g \in GroupOf(id), ToSpecifiedGroup(q, g) PROVE ProcInv'
  <2>1. g \in group_table /\ g[1] # pgid(q) BY <1>1 DEF GroupOf
  <2>2. QED BY <1>1, <1>2, <1>3, <1>5, <2>1, ToSpecifiedGroupKeeps
<1>6. QED BY <1>4, <1>5 DEF Setpgid

-----------------------------------------------------------------------------
(* A reaped process leaves its group, which goes with its last process,    *)
(* and its session, which goes with its last group.                        *)
LEMMA ReapKeeps ==
  ASSUME ProcInv, NEW p \in Pids, NEW c \in children[p], status[c] = "zombie", Reap(p, c),
         waiting' = [waiting EXCEPT ![p] = None], resumed' = resumed \ {p}
  PROVE  ProcInv'
<1>0. TypeOK /\ TablesAgree /\ NoGroup /\ Family /\ Leaders /\ NoForgottenParent
      /\ ControllingAgrees
  BY DEF ProcInv
<1> DEFINE g == process_group[c]
           s == g[2]
<1>1. /\ children' = [children EXCEPT ![p] = @ \ {c}]
      /\ status' = [status EXCEPT ![c] = "reaped"]
      /\ processes' = [processes EXCEPT ![g] = @ \ {c}]
      /\ process_group' = [process_group EXCEPT ![c] = None]
      /\ process_groups' = [process_groups EXCEPT ![s] = Left(c)]
  BY DEF Reap, Left
<1>2. /\ group_leader' \subseteq group_leader
      /\ session_leader' = IF s = c THEN session_leader \ {c} ELSE session_leader
  BY DEF Reap
<1>3. group_table' = IF processes[g] = {c} THEN group_table \ {g} ELSE group_table
  BY DEF Reap
<1>4. session_table' = IF processes[g] = {c} /\ Left(c) = {} THEN session_table \ {s}
                       ELSE session_table
  BY DEF Reap, Left
<1>5. process_table' = process_table \ {c} BY DEF Reap
<1>6. /\ parent' = parent /\ exiting' = exiting
      /\ terminal' = terminal /\ session' = session /\ foreground' = foreground
  BY DEF Reap, ttyVars
<1>7. /\ c \in Pids /\ c \in process_table /\ g \in group_table /\ g \in Groups
      /\ s \in Pids /\ s \in session_table /\ c \in processes[g] /\ g # None
  <2>1. c \in Pids BY <1>0 DEF TypeOK
  <2>2. /\ c \in process_table /\ g \in group_table /\ g \in Groups
        /\ c \in processes[g] /\ g # None
    BY <1>0, <2>1, LiveFacts
  <2>3. s \in session_table BY <1>0, <2>2 DEF TablesAgree
  <2>4. QED BY <2>1, <2>2, <2>3, GroupFacts
<1>8. /\ parent[c] = p /\ c # p /\ c # INIT_PROCESS_PID
      /\ \A x \in Pids : \A d \in children[x] : d \in process_table /\ parent[d] = x
      /\ \A d \in process_table \ {INIT_PROCESS_PID} :
           parent[d] \in Pids /\ Cares(parent[d]) /\ d \in children[parent[d]]
  <2>1. FamilyIsTrue /\ \A d \in process_table \ {INIT_PROCESS_PID} : parent[d] \in Pids
    BY <1>0 DEF Family
  <2>2. parent[c] = p /\ parent[c] # c BY <1>0, <1>7, <2>1 DEF Family, FamilyIsTrue
  <2>3. c # INIT_PROCESS_PID BY <1>0 DEF Family
  <2>4. QED BY <2>1, <2>2, <2>3 DEF FamilyIsTrue
<1>9. c \in session_leader => s = c BY SMTT(60), <1>0 DEF Leaders
<1>10. process_group[c] = g OBVIOUS
<1> HIDE DEF g
<1>11. Left(c) \in SUBSET Pids /\ Left(c) \subseteq process_groups[s]
  BY <1>0, <1>7, <1>10 DEF Left, TypeOK
<1>12. \A x \in Pids : children'[x] = IF x = p THEN children[p] \ {c} ELSE children[x]
  BY <1>0, <1>1 DEF TypeOK
<1>13. \A x \in Pids : status'[x] = IF x = c THEN "reaped" ELSE status[x]
  BY <1>0, <1>1 DEF TypeOK
<1>14. \A x \in Pids : process_group'[x] = IF x = c THEN None ELSE process_group[x]
  BY <1>0, <1>1 DEF TypeOK
<1>15. \A h \in Groups : processes'[h] = IF h = g THEN processes[g] \ {c} ELSE processes[h]
  BY <1>0, <1>1, <1>7 DEF TypeOK
<1>16. \A x \in Pids : process_groups'[x] = IF x = s THEN Left(c) ELSE process_groups[x]
  BY <1>0, <1>1, <1>7 DEF TypeOK
<1>17. \A x \in Pids : waiting'[x] = IF x = p THEN None ELSE waiting[x]
  BY <1>0 DEF TypeOK
<1>18. TypeOK'
  <2>1. /\ status' \in [Pids -> {"unborn", "runnable", "zombie", "reaped"}]
        /\ children' \in [Pids -> SUBSET Pids]
        /\ waiting' \in [Pids -> Filters \cup {None}]
    BY <1>0, <1>1, <1>7 DEF TypeOK
  <2>2. /\ process_group' \in [Pids -> Groups \cup {None}]
        /\ processes' \in [Groups -> SUBSET Pids]
    BY <1>0, <1>1, <1>7 DEF TypeOK
  <2>3. process_groups' \in [Pids -> SUBSET Pids]
    BY <1>0, <1>1, <1>7, <1>11 DEF TypeOK
  <2>4. group_table' \subseteq Groups /\ session_table' \subseteq Pids
    BY <1>0, <1>3, <1>4 DEF TypeOK
  <2>5. session_leader' \subseteq Pids /\ group_leader' \subseteq Groups
    BY <1>0, <1>2 DEF TypeOK
  <2>6. QED BY <1>0, <1>5, <1>6, <2>1, <2>2, <2>3, <2>4, <2>5 DEF TypeOK
<1>19. TablesAgree'
  <2>1. process_table' = {x \in Pids : status'[x] \in {"runnable", "zombie"}}
    <3>1. process_table = {x \in Pids : status[x] \in {"runnable", "zombie"}}
      BY <1>0 DEF TablesAgree
    <3>2. ASSUME NEW x \in Pids
          PROVE  x \in process_table' <=> status'[x] \in {"runnable", "zombie"}
      <4>1. CASE x = c BY <1>5, <1>13, <4>1
      <4>2. CASE x # c BY <1>5, <1>13, <3>1, <4>2
      <4>3. QED BY <4>1, <4>2
    <3>3. process_table' \subseteq Pids BY <1>5, <3>1
    <3>4. QED BY <3>2, <3>3
  <2>2. \A x \in Pids : \A h \in Groups : x \in processes'[h] <=> process_group'[x] = h
    <3>1. \A x \in Pids : \A h \in Groups : x \in processes[h] <=> process_group[x] = h
      BY <1>0 DEF TablesAgree
    <3>2. QED BY SMTT(60), <1>7, <1>10, <1>14, <1>15, <3>1, GroupFacts
  <2>3. \A x \in process_table' : process_group'[x] \in Groups
    <3>1. \A x \in process_table : x \in Pids /\ process_group[x] \in Groups
      BY <1>0 DEF TablesAgree
    <3>2. QED BY <1>5, <1>14, <3>1
  <2>4. group_table' = {h \in Groups : processes'[h] # {}}
    <3>1. \A h \in Groups : h \in group_table <=> processes[h] # {} BY <1>0 DEF TablesAgree
    <3>2. g \in group_table' <=> processes'[g] # {}
      <4>1. processes'[g] = processes[g] \ {c} BY <1>7, <1>15
      <4>2. CASE processes[g] = {c} BY <1>3, <4>1, <4>2
      <4>3. CASE processes[g] # {c} BY <1>3, <1>7, <4>1, <4>3
      <4>4. QED BY <4>2, <4>3
    <3>3. \A h \in Groups : h # g => (h \in group_table' <=> processes'[h] # {})
      BY <1>3, <1>15, <3>1
    <3>4. group_table' \subseteq Groups BY <1>18 DEF TypeOK
    <3>5. QED BY <3>2, <3>3, <3>4
  <2>5. group_table' \subseteq group_table BY <1>3
  <2>6. \A h, k \in group_table' : h[1] = k[1] => h = k BY <1>0, <2>5 DEF TablesAgree
  <2>7. ASSUME NEW h \in group_table' PROVE h[2] \in session_table' /\ h[1] \in process_groups'[h[2]]
    <3>1. h \in group_table /\ (h = process_group[c] => processes[h] # {c})
      BY <1>3, <1>10, <2>5
    <3>2. /\ h[2] \in session_table /\ h[1] \in process_groups[h[2]]
          /\ h[2] = process_group[c][2] => h[1] \in Left(c)
      BY <1>0, <1>7, <3>1, LeftFacts
    <3>3. h[2] = s => h[1] \in Left(c) BY <1>10, <3>2
    <3>4. h[2] \in Pids BY <1>0, <3>2 DEF TypeOK
    <3>5. h[2] \in session_table' BY <1>4, <3>2, <3>3
    <3>6. QED BY <1>16, <3>2, <3>3, <3>4, <3>5
  <2>8. QED BY <2>1, <2>2, <2>3, <2>4, <2>6, <2>7 DEF TablesAgree
<1>20. NoGroup' BY <1>0, <1>5, <1>14 DEF NoGroup
<1>21. Family'
  <2>1. ASSUME NEW x \in Pids, NEW d \in children'[x] PROVE d \in process_table' /\ parent'[d] = x
    <3>1. d \in children[x] /\ (x = p => d # c) BY <1>12, <2>1
    <3>2. d \in process_table /\ parent[d] = x BY <1>8, <3>1
    <3>3. QED BY <1>5, <1>6, <1>8, <3>1, <3>2
  <2>2. ASSUME NEW d \in process_table' \ {INIT_PROCESS_PID}
        PROVE  parent'[d] \in Pids /\ Cares(parent[d])' /\ d \in children'[parent'[d]]
    <3>1. d \in process_table \ {INIT_PROCESS_PID} /\ d # c BY <1>5
    <3>2. parent[d] \in Pids /\ Cares(parent[d]) /\ d \in children[parent[d]]
      BY <1>8, <3>1
    <3>3. Cares(parent[d])'
      <4>1. CASE parent[d] = c BY <1>6, <3>2, <4>1 DEF Cares
      <4>2. CASE parent[d] # c BY <1>6, <1>13, <3>2, <4>2 DEF Cares
      <4>3. QED BY <4>1, <4>2
    <3>4. QED BY <1>6, <1>12, <3>1, <3>2, <3>3
  <2>3. status'[INIT_PROCESS_PID] = status[INIT_PROCESS_PID]
    BY <1>8, <1>13, GroupFacts
  <2>4. \A x \in exiting' : status'[x] \in {"zombie", "reaped"}
    BY <1>0, <1>6, <1>13 DEF Family, TypeOK
  <2>5. QED BY <1>0, <1>5, <1>6, <1>8, <2>1, <2>2, <2>3, <2>4, GroupFacts DEF Family, FamilyIsTrue
<1>22. Leaders'
  <2>1. c \notin session_leader' /\ session_leader' \subseteq session_leader
        /\ session_leader \subseteq session_leader' \cup {c}
    BY <1>2, <1>9
  <2>2. \A h \in Groups : h[2] \in Pids BY GroupFacts
  <2>3. \A x \in session_leader' : x \in process_table' /\ process_group'[x] = <<x, x>>
    <3>1. \A x \in session_leader : x \in Pids /\ x \in process_table /\ process_group[x] = <<x, x>>
      BY <1>0 DEF Leaders, TypeOK
    <3>2. QED BY <1>5, <1>14, <2>1, <3>1
  <2>4. \A x \in Pids : status'[x] # "reaped" /\ x \notin session_leader' => terminal'[x] = None
    <3>1. \A x \in Pids : status[x] # "reaped" /\ x \notin session_leader => terminal[x] = None
      BY <1>0 DEF Leaders
    <3>2. QED BY <1>6, <1>13, <2>1, <3>1
  <2>5. \A t \in Terminals : foreground'[t] # None /\ status'[foreground'[t][2]] # "reaped"
                               => foreground'[t][2] \in session_leader'
    <3>1. \A t \in Terminals : foreground[t] # None => foreground[t] \in Groups
      BY <1>0 DEF TypeOK
    <3>2. \A t \in Terminals : foreground[t] # None /\ status[foreground[t][2]] # "reaped"
                                 => foreground[t][2] \in session_leader
      BY <1>0 DEF Leaders
    <3>3. QED BY <1>6, <1>13, <2>1, <2>2, <3>1, <3>2
  <2>6. \A h \in group_table' : status'[h[2]] = "reaped" \/ h[2] \in session_leader'
    <3>1. \A h \in group_table : h \in Groups /\ (status[h[2]] = "reaped" \/ h[2] \in session_leader)
      BY <1>0 DEF Leaders, TypeOK
    <3>2. group_table' \subseteq group_table BY <1>3
    <3>3. QED BY <1>13, <2>1, <2>2, <3>1, <3>2
  <2>7. QED BY <2>3, <2>4, <2>5, <2>6 DEF Leaders
<1>23. NoForgottenParent'
  <2> SUFFICES ASSUME NEW x \in Pids \ {INIT_PROCESS_PID}, waiting'[x] # None, x \notin resumed',
                      NEW d \in children'[x], Matches(d, waiting[x])', status'[d] = "zombie"
               PROVE  d \in exiting
    BY <1>6 DEF NoForgottenParent, ZombieChildren, Unwaited
  <2>1. x # p /\ d \in children[x] /\ waiting'[x] = waiting[x]
    BY <1>12, <1>17
  <2>2. d \in Pids /\ d # c BY SMTT(60), <1>0, <1>8, <2>1 DEF TypeOK
  <2>3. status[d] = "zombie" /\ process_group'[d] = process_group[d] BY <1>13, <1>14, <2>2
  <2>4. Matches(d, waiting[x]) BY <2>1, <2>3 DEF Matches, pgid
  <2>5. d \in ZombieChildren(x, waiting[x]) BY <2>1, <2>3, <2>4 DEF ZombieChildren, Unwaited
  <2>6. QED BY <1>0, <2>1, <2>5 DEF NoForgottenParent
<1>24. ControllingAgrees'
  <2>1. ASSUME NEW t \in Terminals, foreground[t] # None, GroupAlive(foreground[t])'
        PROVE  GroupAlive(foreground[t])
    <3> DEFINE f == foreground[t]
    <3>1. f \in Groups /\ f[2] \in Pids BY <1>0, <2>1, GroupFacts DEF TypeOK
    <3>2. f \in group_table' \/ (f[2] \in session_table' /\ f[1] \in process_groups'[f[2]])
      BY <1>6, <2>1 DEF GroupAlive, SessionAlive
    <3>3. f \in group_table' => f \in group_table BY <1>3
    <3>4. f[2] \in session_table' => f[2] \in session_table BY <1>4
    <3>5. f[1] \in process_groups'[f[2]] => f[1] \in process_groups[f[2]]
      BY <1>11, <1>16, <3>1
    <3>6. QED BY <3>2, <3>3, <3>4, <3>5 DEF GroupAlive, SessionAlive
  <2>2. session_table' \subseteq session_table BY <1>4
  <2>3. QED BY <1>0, <1>6, <2>1, <2>2 DEF ControllingAgrees
<1>25. QED BY <1>18, <1>19, <1>20, <1>21, <1>22, <1>23, <1>24 DEF ProcInv

(* The first of some processes is one of them.                             *)
LEMMA FirstOfSome ==
  ASSUME NEW S \in SUBSET Pids, S # {} PROVE First(S) \in S
<1>1. S \subseteq Nat BY SMTT(60), ProcessAssumption DEF Pids
<1>2. PICK x \in S : \A y \in S : ~(<<y, x>> \in OpToRel(<, Nat))
  BY <1>1, NatLessThanWellFounded, WFMin
<1>3. \A y \in S : x <= y
  <2>1. OpToRel(<, Nat) = {ss \in Nat \X Nat : ss[1] < ss[2]} BY Zenon DEF OpToRel
  <2> DEFINE R == OpToRel(<, Nat)
  <2>2. /\ R = {ss \in Nat \X Nat : ss[1] < ss[2]}
        /\ x \in S /\ \A y \in S : ~(<<y, x>> \in R)
    BY <1>2, <2>1, Zenon
  <2> HIDE DEF R
  <2>3. ASSUME NEW y \in S PROVE x <= y
    <3>1. x \in Nat /\ y \in Nat BY <1>1, <2>2
    <3>2. <<y, x>> \in Nat \X Nat /\ <<y, x>>[1] = y /\ <<y, x>>[2] = x BY <3>1
    <3>3. ~(y < x) BY <2>2, <3>2
    <3>4. QED BY SMTT(60), <3>1, <3>3
  <2>4. QED BY <2>3
<1>4. x \in S BY <1>2, Zenon
<1>5. QED BY <1>3, <1>4 DEF First

(* One round of wait_child_exit: reap a zombie, find no child, or sleep.   *)
LEMMA WaitKeeps ==
  ASSUME ProcInv, NEW p \in Pids, NEW f \in Filters, WaitChildExit(p, f) PROVE ProcInv'
<1>0. resumed' = resumed \ {p} BY DEF WaitChildExit
<1>1. CASE /\ Unwaited(p, f) = {}
           /\ waiting' = [waiting EXCEPT ![p] = None]
           /\ UNCHANGED <<groupVars, sessionVars, familyVars, ttyVars>>
  BY <1>0, <1>1, SleepKeeps
<1>2. CASE /\ ZombieChildren(p, f) # {}
           /\ Reap(p, First(ZombieChildren(p, f)))
           /\ waiting' = [waiting EXCEPT ![p] = None]
  <2>1. ZombieChildren(p, f) \in SUBSET Pids
    BY DEF ProcInv, TypeOK, ZombieChildren, Unwaited
  <2>2. First(ZombieChildren(p, f)) \in ZombieChildren(p, f) BY <1>2, <2>1, FirstOfSome
  <2>3. /\ First(ZombieChildren(p, f)) \in children[p]
        /\ status[First(ZombieChildren(p, f))] = "zombie"
    BY <2>2 DEF ZombieChildren, Unwaited
  <2>4. QED BY <1>0, <1>2, <2>3, ReapKeeps
<1>3. CASE /\ Unwaited(p, f) # {} /\ ZombieChildren(p, f) = {}
           /\ waiting' = [waiting EXCEPT ![p] = f]
           /\ UNCHANGED <<groupVars, sessionVars, familyVars, ttyVars>>
  BY <1>0, <1>3, SleepKeeps
<1>4. QED BY <1>1, <1>2, <1>3 DEF WaitChildExit

-----------------------------------------------------------------------------
(* Every step keeps ProcInv.                                               *)
LEMMA NextKeeps == ProcInv /\ [Next]_vars => ProcInv'
<1> SUFFICES ASSUME ProcInv, [Next]_vars PROVE ProcInv' OBVIOUS
<1>1. CASE UNCHANGED vars
  <2>1. /\ UNCHANGED <<process_group, group_table, processes, group_leader>>
        /\ UNCHANGED <<session_table, process_groups, session_leader>>
        /\ UNCHANGED <<status, exiting, parent, children, process_table>>
        /\ UNCHANGED <<terminal, session, foreground>> /\ UNCHANGED <<waiting, resumed>>
    BY <1>1 DEF vars, groupVars, sessionVars, familyVars, ttyVars, waitVars
  <2>2. (TypeOK /\ TablesAgree /\ NoGroup /\ Family /\ Leaders)'
    BY SMTT(60), <2>1 DEF ProcInv, TypeOK, TablesAgree, NoGroup, Family, FamilyIsTrue, Cares, Leaders
  <2>3. (NoForgottenParent /\ ControllingAgrees)'
    BY <2>1 DEF ProcInv, NoForgottenParent, ZombieChildren, Unwaited, Matches, pgid,
                ControllingAgrees, GroupAlive, SessionAlive
  <2>4. QED BY <2>2, <2>3 DEF ProcInv
<1>2. ASSUME NEW p \in Pids, waiting[p] # None PROVE waiting[p] \in Filters
  BY <1>2 DEF ProcInv, TypeOK
<1>3. ASSUME NEW p \in Pids, WaitInterrupted(p) PROVE ProcInv'
  BY <1>3, SleepKeeps DEF WaitInterrupted
<1>4. CASE Next
  <2>1. ASSUME NEW p \in Pids, NEW c \in Pids, Clone(p, c) PROVE ProcInv' BY <2>1, CloneKeeps
  <2>2. ASSUME NEW p \in Pids, SetZombie(p) PROVE ProcInv' BY <2>2, SetZombieKeeps
  <2>9. ASSUME NEW p \in Pids, MoveChildren(p) PROVE ProcInv' BY <2>9, MoveChildrenKeeps
  <2>3. ASSUME NEW p \in Pids, NEW f \in Filters, Wait4(p, f) PROVE ProcInv'
    BY <2>3, WaitKeeps DEF Wait4
  <2>4. ASSUME NEW p \in Pids, WaitResumed(p) PROVE ProcInv'
    BY <1>2, <2>4, WaitKeeps DEF WaitResumed
  <2>5. ASSUME NEW p \in Pids, Setsid(p) PROVE ProcInv' BY <2>5, SetsidKeeps
  <2>6. ASSUME NEW p \in Pids, NEW q \in Pids, NEW id \in Pids, Setpgid(p, q, id) PROVE ProcInv'
    BY <2>6, SetpgidKeeps
  <2>7. ASSUME NEW p \in Pids, NEW t \in Terminals,
               SetCurrentSession(p, t) \/ ReleaseCurrentSession(p, t)
        PROVE  ProcInv'
    BY <2>7, SetCurrentSessionKeeps, ReleaseCurrentSessionKeeps
  <2>8. ASSUME NEW p \in Pids, NEW t \in Terminals, NEW id \in Pids, SetForeground(p, t, id)
        PROVE  ProcInv'
    BY <2>8, SetForegroundKeeps
  <2>10. QED BY <1>3, <1>4, <2>1, <2>2, <2>3, <2>4, <2>5, <2>6, <2>7, <2>8,
            <2>9
    DEF Next
<1>5. QED BY <1>1, <1>4

(* ProcInv is an invariant.                                                *)
LEMMA ProcInvHolds == Spec => []ProcInv
BY InitInv, NextKeeps, PTL DEF Spec

(* The process, group and session tables agree with each other and with    *)
(* the references between processes, groups and sessions, for any number   *)
(* of processes: what the unwraps in Process::session and                  *)
(* reap_zombie_child rely on.                                              *)
THEOREM TablesAlwaysAgree == Spec => []TablesAgree
<1>1. ProcInv => TablesAgree BY DEF ProcInv
<1>2. QED BY <1>1, ProcInvHolds, PTL

(* No process is orphaned or has two parents, no parent but the first      *)
(* process oversleeps in wait4, and a session and its terminal name each   *)
(* other, for any number of processes and terminals.                       *)
THEOREM FamiliesAreSound == Spec => []FamilySound
<1>1. ProcInv => FamilySound BY DEF ProcInv, FamilySound, Family
<1>2. QED BY <1>1, ProcInvHolds, PTL

-----------------------------------------------------------------------------
(* The proof that IdsArePermuted holds for every set of ids.  It is        *)
(* inductive with the types: what each call writes is an old id, or what   *)
(* the change grants.                                                      *)
IdRec == [r : Int, e : Int, s : Int, fs : Int]
CTypeOK == /\ cred \in [uid : IdRec, gid : IdRec]
           /\ granted \in [uid : SUBSET Int, gid : SUBSET Int]

CInv == CTypeOK /\ IdsArePermuted

(* A change keeps the invariant if it writes old ids and gifts only, or if *)
(* the thread is privileged.                                               *)
LEMMA ChangeKeeps ==
  ASSUME CInv, NEW kind \in {"uid", "gid"}, NEW i \in IdRec, NEW gift \in SUBSET Int,
         is_privileged \/ Ids(i) \subseteq Ids(cred[kind]) \union gift,
         Change(kind, i, gift)
  PROVE  CInv'
<1>0. /\ cred \in [uid : IdRec, gid : IdRec]
      /\ granted \in [uid : SUBSET Int, gid : SUBSET Int]
      /\ Ids(cred.uid) \subseteq granted.uid /\ Ids(cred.gid) \subseteq granted.gid
  BY DEF CInv, CTypeOK, IdsArePermuted
<1>1. /\ cred' \in [uid : IdRec, gid : IdRec] /\ cred'[kind] = i
      /\ \A k \in {"uid", "gid"} \ {kind} : cred'[k] = cred[k]
  BY <1>0 DEF Change
<1>2. \A j \in IdRec : Ids(j) \in SUBSET Int BY DEF Ids, IdRec
<1>3. ASSUME is_privileged PROVE CInv'
  <2>1. granted' = [k \in {"uid", "gid"} |-> Ids(IF k = kind THEN i ELSE cred[k])]
    BY <1>3 DEF Change
  <2>2. \A k \in {"uid", "gid"} : granted'[k] = Ids(cred'[k])
    BY <1>0, <1>1, <2>1
  <2>3. granted' \in [uid : SUBSET Int, gid : SUBSET Int]
    BY <1>0, <1>2, <2>1
  <2>4. QED BY <1>1, <2>2, <2>3 DEF CInv, CTypeOK, IdsArePermuted, Ids
<1>4. ASSUME ~is_privileged PROVE CInv'
  <2>1. granted' = [granted EXCEPT ![kind] = @ \union gift] BY <1>4 DEF Change
  <2>2. Ids(i) \subseteq Ids(cred[kind]) \union gift BY <1>4
  <2>3. \A k \in {"uid", "gid"} : Ids(cred'[k]) \subseteq granted'[k]
    BY <1>0, <1>1, <2>1, <2>2
  <2>4. granted' \in [uid : SUBSET Int, gid : SUBSET Int] BY <1>0, <2>1
  <2>5. QED BY <1>1, <2>3, <2>4 DEF CInv, CTypeOK, IdsArePermuted, Ids
<1>5. QED BY <1>3, <1>4

(* The ids after each kind of call, of a thread without privilege: old     *)
(* ones, checked by check_perm or MayFs, or the id that setuid was given.  *)
LEMMA NewIds ==
  ASSUME NEW i \in IdRec, NEW r \in Int, NEW e \in Int, NEW s \in Int
  PROVE  /\ SetRe(i, r, e) \in IdRec /\ SetRes(i, r, e, s) \in IdRec
         /\ \A b \in BOOLEAN : check_perm(i, r, e, NoId, b) =>
              Ids(SetRe(i, r, e)) \subseteq Ids(i)
         /\ \A b \in BOOLEAN : check_perm(i, r, e, s, b) =>
              Ids(SetRes(i, r, e, s)) \subseteq Ids(i)
         /\ \A b \in BOOLEAN : SetId(i, r, b) \in IdRec
         /\ Ids(SetId(i, r, FALSE)) \subseteq Ids(i) \union {r}
         /\ [i EXCEPT !.fs = r] \in IdRec
         /\ MayFs(i, r) => Ids([i EXCEPT !.fs = r]) \subseteq Ids(i)
<1> USE DEF IdRec, Ids, Given, set_res_unchecked, NoId
<1>1. SetRes(i, r, e, s) \in IdRec /\ SetRe(i, r, e) \in IdRec
  BY DEF SetRes, SetRe
<1>2. ASSUME NEW b \in BOOLEAN, check_perm(i, r, e, s, b)
      PROVE  Ids(SetRes(i, r, e, s)) \subseteq Ids(i)
  BY SMTT(60), <1>2 DEF SetRes, check_perm
<1>3. ASSUME NEW b \in BOOLEAN, check_perm(i, r, e, NoId, b)
      PROVE  Ids(SetRe(i, r, e)) \subseteq Ids(i)
  BY SMTT(60), <1>3 DEF SetRe, check_perm
<1>4. /\ \A b \in BOOLEAN : SetId(i, r, b) \in IdRec
      /\ Ids(SetId(i, r, FALSE)) \subseteq Ids(i) \union {r}
  BY DEF SetId
<1>5. /\ [i EXCEPT !.fs = r] \in IdRec
      /\ MayFs(i, r) => Ids([i EXCEPT !.fs = r]) \subseteq Ids(i)
  BY DEF MayFs
<1>6. QED BY <1>1, <1>2, <1>3, <1>4, <1>5

(* However the set*id calls and execve are combined, a thread that gave up *)
(* privilege only permutes the ids it kept or was given.                   *)
THEOREM IdsStayPermuted == CSpec => []IdsArePermuted
<1>1. CInit => CInv
  BY SMTT(60) DEF CInit, CInv, CTypeOK, IdsArePermuted, Ids, Same, IdRec
<1>2. CInv /\ [CNext]_cvars => CInv'
  <2> SUFFICES ASSUME CInv, CNext PROVE CInv'
    BY DEF cvars, CInv, CTypeOK, IdsArePermuted, Ids, IdRec
  <2>1. ASSUME NEW kind \in {"uid", "gid"} PROVE cred[kind] \in IdRec
    BY DEF CInv, CTypeOK
  <2>2. ASSUME NEW kind \in {"uid", "gid"}, NEW id \in Int,
               Change(kind, SetId(cred[kind], id, is_privileged), {id})
        PROVE  CInv'
    <3>1. /\ SetId(cred[kind], id, is_privileged) \in IdRec
          /\ is_privileged \/ Ids(SetId(cred[kind], id, is_privileged))
                                \subseteq Ids(cred[kind]) \union {id}
      BY <2>1 DEF SetId, Ids, IdRec
    <3>2. {id} \in SUBSET Int OBVIOUS
    <3>3. QED BY <2>2, <3>1, <3>2, ChangeKeeps
  <2>3. ASSUME NEW kind \in {"uid", "gid"}, NEW fs \in Int,
               is_privileged \/ MayFs(cred[kind], fs),
               Change(kind, [cred[kind] EXCEPT !.fs = fs], {})
        PROVE  CInv'
    <3>1. /\ [cred[kind] EXCEPT !.fs = fs] \in IdRec
          /\ is_privileged \/ Ids([cred[kind] EXCEPT !.fs = fs]) \subseteq Ids(cred[kind])
      BY <2>1, <2>3, NewIds
    <3>2. QED BY SMTT(60), <2>3, <3>1, ChangeKeeps
  <2>4. ASSUME NEW kind \in {"uid", "gid"}, NEW r \in Int, NEW e \in Int,
               is_privileged \/ check_perm(cred[kind], r, e, NoId, FALSE),
               Change(kind, SetRe(cred[kind], r, e), {})
        PROVE  CInv'
    <3>1. /\ SetRe(cred[kind], r, e) \in IdRec
          /\ is_privileged \/ Ids(SetRe(cred[kind], r, e)) \subseteq Ids(cred[kind])
      BY <2>1, <2>4, NewIds
    <3>2. QED BY SMTT(60), <2>4, <3>1, ChangeKeeps
  <2>5. ASSUME NEW kind \in {"uid", "gid"}, NEW r \in Int, NEW e \in Int, NEW s \in Int,
               is_privileged \/ check_perm(cred[kind], r, e, s, TRUE),
               Change(kind, SetRes(cred[kind], r, e, s), {})
        PROVE  CInv'
    <3>1. /\ SetRes(cred[kind], r, e, s) \in IdRec
          /\ is_privileged \/ Ids(SetRes(cred[kind], r, e, s)) \subseteq Ids(cred[kind])
      BY <2>1, <2>5, NewIds
    <3>2. QED BY SMTT(60), <2>5, <3>1, ChangeKeeps
  <2>6. ASSUME NEW uid \in Int, NEW gid \in Int, execve(uid, gid) PROVE CInv'
    <3>1. /\ cred \in [uid : IdRec, gid : IdRec]
          /\ granted \in [uid : SUBSET Int, gid : SUBSET Int]
          /\ Ids(cred.uid) \subseteq granted.uid /\ Ids(cred.gid) \subseteq granted.gid
      BY DEF CInv, CTypeOK, IdsArePermuted
    <3>2. ASSUME NEW i \in IdRec, NEW id \in Int
          PROVE  /\ reset_s([i EXCEPT !.e = Given(id, @)]) \in IdRec
                 /\ Ids(reset_s([i EXCEPT !.e = Given(id, @)])) \subseteq Ids(i) \union ({id} \ {NoId})
      BY DEF reset_s, Given, NoId, Ids, IdRec
    <3>3. /\ set_uid_from_elf(uid) \in IdRec /\ set_gid_from_elf(gid) \in IdRec
          /\ Ids(set_uid_from_elf(uid)) \subseteq granted.uid \union ({uid} \ {NoId})
          /\ Ids(set_gid_from_elf(gid)) \subseteq granted.gid \union ({gid} \ {NoId})
      BY <3>1, <3>2 DEF set_uid_from_elf, set_gid_from_elf
    <3>4. /\ cred' = [uid |-> set_uid_from_elf(uid), gid |-> set_gid_from_elf(gid)]
          /\ granted' = [uid |-> granted.uid \union ({uid} \ {NoId}),
                         gid |-> granted.gid \union ({gid} \ {NoId})]
      BY <2>6 DEF execve
    <3>5. CTypeOK' BY <3>1, <3>3, <3>4 DEF CTypeOK
    <3>6. IdsArePermuted' BY <3>3, <3>4 DEF IdsArePermuted, Ids
    <3>7. QED BY <3>5, <3>6 DEF CInv
  <2>7. ASSUME NEW id \in Int,
               sys_setuid(id) \/ sys_setgid(id) \/ sys_setfsuid(id) \/ sys_setfsgid(id)
        PROVE  CInv'
    BY <2>2, <2>3, <2>7
    DEF sys_setuid, sys_setgid, set_uid, set_gid, sys_setfsuid, sys_setfsgid, set_fsuid, set_fsgid
  <2>8. \A id \in Int : Arg(id) \in Int BY SMTT(60) DEF Arg, NoId
  <2>9. ASSUME NEW r \in Int, NEW e \in Int, sys_setreuid(r, e) \/ sys_setregid(r, e)
        PROVE  CInv'
    BY <2>4, <2>8, <2>9
    DEF sys_setreuid, sys_setregid, set_reuid, set_regid, check_uid_perm, check_gid_perm
  <2>10. ASSUME NEW r \in Int, NEW e \in Int, NEW s \in Int,
                sys_setresuid(r, e, s) \/ sys_setresgid(r, e, s)
         PROVE  CInv'
    BY <2>5, <2>8, <2>10
    DEF sys_setresuid, sys_setresgid, set_resuid, set_resgid, check_uid_perm, check_gid_perm
  <2>11. Uids \union {NoId} \subseteq Int /\ Gids \union {NoId} \subseteq Int
    BY SMTT(60), IdsAssumption DEF NoId
  <2>12. QED BY <2>6, <2>7, <2>9, <2>10, <2>11 DEF CNext
<1>3. CInv => IdsArePermuted BY DEF CInv
<1>4. QED BY <1>1, <1>2, <1>3, PTL DEF CSpec
=============================================================================
