----------------------------- MODULE MCRepoLock -----------------------------
(* RepoLock with the clocks of the hosts given for TLC.                    *)
EXTENDS RepoLock

\* All the hosts agree on the time.
InStep == [p \in Proc |-> 0]

\* The host of process 2 is ahead of the others by the allowed difference.
OneAhead == [p \in Proc |-> IF p = 2 THEN MaxSkew ELSE 0]

\* Two acquisitions that conflict; which of them is the exclusive one does not
\* matter to the protocol.
ConflictInit ==
  Init /\ mode = [p \in Proc |-> IF p = 1 THEN "Exclusive" ELSE "Shared"]

ConflictSpec == ConflictInit /\ [][Next]_vars

FairConflictSpec == ConflictSpec /\ Fairness

=============================================================================
