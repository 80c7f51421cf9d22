------------------------------- MODULE RWLock -------------------------------
(***************************************************************************)
(* What the repository lock promises the commands that take it: shared     *)
(* holders exclude exclusive ones, an exclusive holder excludes everybody. *)
(* RepoLock (the lock files of repository/lock.rs) implements this         *)
(* specification, and Repository builds the commands on top of it.         *)
(***************************************************************************)

CONSTANT Proc      \* the commands that may take the lock

VARIABLE held      \* held[p]: "free", or the type of lock that p holds

LockType == {"Shared", "Exclusive"}

(***************************************************************************)
(* Exclusive conflicts with any other lock, Shared only with Exclusive.    *)
(***************************************************************************)
Conflict(m, other) == m = "Exclusive" \/ other = "Exclusive"

Grantable(p, m) ==
  \A q \in Proc \ {p} : held[q] # "free" => ~ Conflict(m, held[q])

Init == held = [p \in Proc |-> "free"]

Acquire(p, m) ==
  /\ held[p] = "free"
  /\ Grantable(p, m)
  /\ held' = [held EXCEPT ![p] = m]

(***************************************************************************)
(* Given back by its holder, or lost with it: a dead holder's lock file    *)
(* stops counting when its heartbeat is older than the TTL.                *)
(***************************************************************************)
Release(p) ==
  /\ held[p] # "free"
  /\ held' = [held EXCEPT ![p] = "free"]

Next == \E p \in Proc : Release(p) \/ \E m \in LockType : Acquire(p, m)

Spec == Init /\ [][Next]_held

-----------------------------------------------------------------------------

TypeOK == held \in [Proc -> LockType \cup {"free"}]

Exclusion ==
  \A p, q \in Proc :
    p # q /\ held[p] # "free" /\ held[q] # "free" => ~ Conflict(held[p], held[q])

=============================================================================
