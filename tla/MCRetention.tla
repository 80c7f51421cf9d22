---------------------------- MODULE MCRetention ----------------------------
(***************************************************************************)
(* Retention for TLC, around two turns of the year: Friday 27 December     *)
(* 2024, three times on Monday 30 December (twice in one hour), Thursday   *)
(* 2 January 2025, Tuesday 30 December 2025.                               *)
(***************************************************************************)
EXTENDS Retention, TLC

Forgetters == Permutations(Forgetter)

Date(h, d, m, y, w, wy) ==
  [hour |-> h, day |-> d, month |-> m, year |-> y, week |-> w, isoYear |-> wy]

NewYear ==
  <<Date(1, 1, 1, 2024, 52, 2024),
    Date(2, 2, 1, 2024, 1, 2025), Date(2, 2, 1, 2024, 1, 2025),
    Date(3, 2, 1, 2024, 1, 2025),
    Date(4, 3, 2, 2025, 1, 2025),
    Date(5, 4, 3, 2025, 1, 2026)>>

Stamps == DOMAIN NewYear

Groups == {[database |-> "a", tag |-> "x"], [database |-> "b", tag |-> "y"]}

Everything(limit) == [limit |-> limit, database |-> NoFilter, tag |-> NoFilter]

SomePolicies ==
  {Everything([last |-> 1, daily |-> 2, hourly |-> 3]),
   Everything([weekly |-> 2, monthly |-> 1]), Everything(<<>>),
   [limit |-> [daily |-> 1], database |-> NoFilter, tag |-> "x"]}

Weekly == {Everything([weekly |-> 2])}

=============================================================================
