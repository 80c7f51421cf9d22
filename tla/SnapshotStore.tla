--------------------------- MODULE SnapshotStore ----------------------------
(***************************************************************************)
(* What a repository promises its users: a backup that was committed can   *)
(* be restored until `dumper forget' removes it, and forget only removes a *)
(* snapshot that KeepLast newer ones supersede.  Nothing else that the     *)
(* commands do, pruning and crashing included, takes a snapshot away or    *)
(* brings one back.                                                        *)
(***************************************************************************)
EXTENDS Naturals, FiniteSets

CONSTANTS
  Id,         \* snapshot identifiers
  KeepLast    \* --keep-last

VARIABLES
  taken,      \* taken[s]: started_at of s, for every snapshot ever committed
  avail       \* the snapshots that can be restored

Newer(s) == {t \in DOMAIN taken : taken[t] > taken[s]}

Superseded(s) == Cardinality(Newer(s)) >= KeepLast

Init == taken = <<>> /\ avail = {}

Commit(s) ==
  /\ s \notin DOMAIN taken
  /\ DOMAIN taken' = DOMAIN taken \cup {s}
  /\ \A t \in DOMAIN taken : taken'[t] = taken[t]
  /\ avail' = avail \cup {s}

Forget(s) ==
  /\ s \in avail
  /\ Superseded(s)
  /\ avail' = avail \ {s}
  /\ UNCHANGED taken

Next == \E s \in Id : Commit(s) \/ Forget(s)

Spec == Init /\ [][Next]_<<taken, avail>>

-----------------------------------------------------------------------------
(***************************************************************************)
(* The KeepLast newest snapshots ever taken can be restored.               *)
(***************************************************************************)
NewestRestorable == \A s \in DOMAIN taken : ~ Superseded(s) => s \in avail

=============================================================================
