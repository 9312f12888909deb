---------------------------- MODULE Credentials ----------------------------
(***************************************************************************)
(* The user and group ids of a thread (process/credentials/) and the calls *)
(* that change them: set*uid, set*gid, and execve, of a set-id file too.   *)
(* Each thread has a copy of its own (clone: Credentials::new_from), so a  *)
(* thread and the ones it descends from are one line.                      *)
(* Root is 0.  NoId stands for the argument -1.  The system calls take 0   *)
(* for NoId where they test `> 0'.                                         *)
(***************************************************************************)
EXTENDS Integers, FiniteSets

CONSTANTS Uids, Gids

ASSUME IdsAssumption == Uids \subseteq Nat /\ Gids \subseteq Nat

VARIABLES cred,      \* [uid, gid], each with the fields r, e, s and fs
          granted    \* ghost: the ids of each kind that the thread was given while it was
                     \* privileged, by setuid and setgid, or by a set-id file

cvars == <<cred, granted>>

NoId == -1
Same(id) == [r |-> id, e |-> id, s |-> id, fs |-> id]
Ids(i) == {i.r, i.e, i.s, i.fs}

(* Credentials::new_root.                                                  *)
CInit == /\ cred = [uid |-> Same(0), gid |-> Same(0)]
         /\ granted = [uid |-> {0}, gid |-> {0}]

is_privileged == cred.uid.e = 0

-----------------------------------------------------------------------------
(* Given(id, old): the argument or, for NoId, the old value.               *)
Given(id, old) == IF id = NoId THEN old ELSE id

(* Mutant: the saved id is taken unchecked.                                *)
CheckPermForgetsSaved(i, r, e, s, r_may_be_old_s) ==
  /\ r \in {NoId, i.r, i.e} \union (IF r_may_be_old_s THEN {i.s} ELSE {})
  /\ e \in {NoId, i.r, i.e, i.s}

(* The checks of check_uid_perm and check_gid_perm for a thread without    *)
(* privilege.                                                              *)
check_perm(i, r, e, s, r_may_be_old_s) ==
  /\ r \in {NoId, i.r, i.e} \union (IF r_may_be_old_s THEN {i.s} ELSE {})
  /\ e \in {NoId, i.r, i.e, i.s}
  /\ s \in {NoId, i.r, i.e, i.s}

set_res_unchecked(i, r, e, s) ==
  [i EXCEPT !.r = Given(r, @), !.e = Given(e, @), !.s = Given(s, @)]

(* set_uid and set_gid.                                                    *)
SetId(i, id, privileged) == IF privileged THEN [i EXCEPT !.r = id, !.e = id, !.s = id]
                            ELSE [i EXCEPT !.e = id]

(* set_reuid and set_regid.                                                *)
SetRe(i, r, e) ==
  LET j == set_res_unchecked(i, r, e, NoId)
      should_set_s == r # NoId \/ (e # NoId /\ e # i.r)
      k == IF should_set_s THEN [j EXCEPT !.s = j.e] ELSE j
  IN  [k EXCEPT !.fs = k.e]

(* set_resuid and set_resgid.                                              *)
SetRes(i, r, e, s) == LET j == set_res_unchecked(i, r, e, s) IN [j EXCEPT !.fs = j.e]

MayFs(i, fs) == fs \in {i.r, i.e, i.s}

-----------------------------------------------------------------------------
(* A change of the ids of one kind.  What a privileged thread has after    *)
(* the change is what it keeps if that change ends its privilege; without  *)
(* privilege a thread only gains what is a gift.                           *)
Change(kind, i, gift) ==
  /\ cred' = [cred EXCEPT ![kind] = i]
  /\ granted' = (IF is_privileged
                  THEN [k \in {"uid", "gid"} |-> Ids(IF k = kind THEN i ELSE cred[k])]
                  ELSE [granted EXCEPT ![kind] = @ \union gift])

set_uid(id) == Change("uid", SetId(cred.uid, id, is_privileged), {id})
set_gid(id) == Change("gid", SetId(cred.gid, id, is_privileged), {id})

check_uid_perm(r, e, s, r_may_be_old_s) ==
  is_privileged \/ check_perm(cred.uid, r, e, s, r_may_be_old_s)
check_gid_perm(r, e, s, r_may_be_old_s) ==
  is_privileged \/ check_perm(cred.gid, r, e, s, r_may_be_old_s)

set_reuid(r, e) == check_uid_perm(r, e, NoId, FALSE) /\ Change("uid", SetRe(cred.uid, r, e), {})
set_regid(r, e) == check_gid_perm(r, e, NoId, FALSE) /\ Change("gid", SetRe(cred.gid, r, e), {})

set_resuid(r, e, s) ==
  check_uid_perm(r, e, s, TRUE) /\ Change("uid", SetRes(cred.uid, r, e, s), {})
set_resgid(r, e, s) ==
  check_gid_perm(r, e, s, TRUE) /\ Change("gid", SetRes(cred.gid, r, e, s), {})

set_fsuid(fs) == /\ fs # NoId
                 /\ is_privileged \/ MayFs(cred.uid, fs)
                 /\ Change("uid", [cred.uid EXCEPT !.fs = fs], {})
set_fsgid(fs) == /\ fs # NoId
                 /\ is_privileged \/ MayFs(cred.gid, fs)
                 /\ Change("gid", [cred.gid EXCEPT !.fs = fs], {})

(* The system calls.                                                       *)
Arg(id) == IF id > 0 THEN id ELSE NoId

sys_setuid(id) == id >= 0 /\ set_uid(id)
sys_setgid(id) == id >= 0 /\ set_gid(id)
sys_setreuid(r, e) == set_reuid(Arg(r), Arg(e))
sys_setregid(r, e) == set_regid(Arg(r), Arg(e))
sys_setresuid(r, e, s) == set_resuid(Arg(r), Arg(e), Arg(s))
sys_setresgid(r, e, s) == set_resgid(Arg(r), Arg(e), Arg(s))
sys_setfsuid(fs) == set_fsuid(fs)
sys_setfsgid(fs) == set_fsgid(fs)

(* execve: set_uid_from_elf and set_gid_from_elf; the argument is NoId if  *)
(* the file is not set-id.  reset_suid and reset_sgid follow in any case.  *)
reset_s(i) == [i EXCEPT !.s = i.e]
set_uid_from_elf(uid) == reset_s([cred.uid EXCEPT !.e = Given(uid, @)])
set_gid_from_elf(gid) == reset_s([cred.gid EXCEPT !.e = Given(gid, @)])
execve(uid, gid) ==
  /\ cred' = [uid |-> set_uid_from_elf(uid), gid |-> set_gid_from_elf(gid)]
  /\ granted' = [uid |-> granted.uid \union ({uid} \ {NoId}),
                 gid |-> granted.gid \union ({gid} \ {NoId})]

-----------------------------------------------------------------------------
CNext ==
    \/ \E id \in Uids : sys_setuid(id) \/ sys_setfsuid(id)
    \/ \E id \in Gids : sys_setgid(id) \/ sys_setfsgid(id)
    \/ \E r, e \in Uids \union {NoId} :
         \/ sys_setreuid(r, e)
         \/ \E s \in Uids \union {NoId} : sys_setresuid(r, e, s)
    \/ \E r, e \in Gids \union {NoId} :
         \/ sys_setregid(r, e)
         \/ \E s \in Gids \union {NoId} : sys_setresgid(r, e, s)
    \/ \E uid \in Uids \union {NoId}, gid \in Gids \union {NoId} : execve(uid, gid)

CSpec == CInit /\ [][CNext]_cvars

-----------------------------------------------------------------------------
(* However the calls are combined, a thread that has given up privilege    *)
(* only permutes the ids that it kept then or was given later by setuid,   *)
(* setgid or a set-id file; its file system ids are among them too.        *)
IdsArePermuted ==
  Ids(cred.uid) \subseteq granted.uid /\ Ids(cred.gid) \subseteq granted.gid
=============================================================================
