------------------------------- MODULE RWLock -------------------------------
(***************************************************************************)
(* What a lightweight lock promises its callers: shared/exclusive locking. *)
(* A backend gets a lock it does not hold, in a mode compatible with every *)
(* other holder, and keeps it until it gives it back.                      *)
(***************************************************************************)
CONSTANTS Proc, Lock

VARIABLE holds   \* proc, lock -> "none" or the mode held

EXCLUSIVE == "LW_EXCLUSIVE"
SHARED == "LW_SHARED"

Init == holds = [p \in Proc |-> [l \in Lock |-> "none"]]

Compatible(m, n) == n = "none" \/ (m = SHARED /\ n = SHARED)

Acquire(p, l, m) ==
  /\ holds[p][l] = "none"
  /\ \A q \in Proc \ {p} : Compatible(m, holds[q][l])
  /\ holds' = [holds EXCEPT ![p][l] = m]

Release(p, l) ==
  /\ holds[p][l] # "none"
  /\ holds' = [holds EXCEPT ![p][l] = "none"]

Next == \E p \in Proc, l \in Lock :
  Release(p, l) \/ \E m \in {EXCLUSIVE, SHARED} : Acquire(p, l, m)

Spec == Init /\ [][Next]_holds
=============================================================================
