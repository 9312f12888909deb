------------------------------- MODULE RwSpec -------------------------------
(***************************************************************************)
(* What a reader-writer lock with upgradeable readers promises, whatever   *)
(* its implementation: the guards that may be held at the same time, and   *)
(* that an upgrade turns an upread guard into a write guard in one step,   *)
(* with no other writer in between.  RwLock and RwMutex implement it.      *)
(***************************************************************************)
CONSTANT Threads

VARIABLE holds      \* the guard each thread holds

Guards == {"none", "read", "upread", "write"}

Init == holds = [t \in Threads |-> "none"]

OthersHoldNone(t, G) == \A u \in Threads \ {t} : holds[u] \notin G

Acquire(t, g, excluded) ==
  /\ holds[t] = "none"
  /\ OthersHoldNone(t, excluded)
  /\ holds' = [holds EXCEPT ![t] = g]

AcquireRead(t)   == Acquire(t, "read", {"write"})
AcquireUpread(t) == Acquire(t, "upread", {"upread", "write"})
AcquireWrite(t)  == Acquire(t, "write", {"read", "upread", "write"})

Upgrade(t) ==
  /\ holds[t] = "upread"
  /\ OthersHoldNone(t, {"read", "upread", "write"})
  /\ holds' = [holds EXCEPT ![t] = "write"]

Release(t) ==
  /\ holds[t] # "none"
  /\ holds' = [holds EXCEPT ![t] = "none"]

Next == \E t \in Threads : \/ AcquireRead(t) \/ AcquireUpread(t)
                           \/ AcquireWrite(t) \/ Upgrade(t) \/ Release(t)

Spec == Init /\ [][Next]_holds
=============================================================================
