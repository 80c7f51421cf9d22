------------------------------ MODULE Retention ------------------------------
(***************************************************************************)
(* The retention policy of `dumper forget', src/retention/mod.rs, applied  *)
(* again and again, by several processes, while backups go on: a backup    *)
(* may be committed long after it started, so snapshots do not appear in   *)
(* the order of their started_at.  The plan is made before the exclusive   *)
(* lock is taken and carried out under it: other backups and other forgets *)
(* come in between, none while the snapshots are deleted.                  *)
(***************************************************************************)
EXTENDS Naturals, FiniteSets

CONSTANTS
  Id,         \* snapshot ids, compared where started_at is the same
  Stamp,      \* values of started_at
  Calendar,   \* Calendar[t]: hour, day, month, year, ISO week and its year
  Group,      \* [database, tag] of backups (engine: part of database)
  Policies,   \* flags that forget is run with
  NoFilter,   \* no --database, or no --tag
  Forgetter   \* processes that run forget

ASSUME TimeAssumption == Id \subseteq Nat /\ Stamp \subseteq Nat
ASSUME PolicyAssumption ==
  \A p \in Policies :
    /\ DOMAIN p.limit \subseteq {"last", "hourly", "daily", "weekly", "monthly"}
    /\ \A r \in DOMAIN p.limit : p.limit[r] \in Nat

VARIABLES
  store,   \* the snapshots in the repository
  ever,    \* all that were ever committed
  policy,  \* the flags, the same every time
  plan     \* plan[f]: what f found to remove

vars == <<store, ever, policy, plan>>

Snapshot == [id : Id, group : Group, at : Stamp]

-----------------------------------------------------------------------------
(***************************************************************************)
(* evaluate_retention.  A rule keeps the newest snapshot of each of the    *)
(* latest buckets of a group; --keep-last has a bucket for each snapshot.  *)
(***************************************************************************)
Matches(s) ==
  /\ policy.database \in {NoFilter, s.group.database}
  /\ policy.tag \in {NoFilter, s.group.tag}

Bucket(rule, s) ==
  LET date == Calendar[s.at]
  IN  CASE rule = "last"    -> s.id
        [] rule = "hourly"  -> date.hour
        [] rule = "daily"   -> date.day
        [] rule = "weekly"  -> <<date.year, date.week>>
        [] rule = "monthly" -> date.month

\* The order of the sort, which leaves ties as the listing had them.
Newer(r, s) == r.at > s.at \/ (r.at = s.at /\ r.id < s.id)

\* Mutant: the bucket is entered among those seen before they are counted.
ChosenLate(rule, s, S) ==
  LET seen == {Bucket(rule, r) : r \in {q \in S : Newer(q, s)}}
  IN  Bucket(rule, s) \notin seen /\ Cardinality(seen) + 1 < policy.limit[rule]

\* Mutant: the rule looks at the first snapshots, not at the first buckets.
ChosenByIndex(rule, s, S) ==
  /\ \A r \in S : Newer(r, s) => Bucket(rule, r) # Bucket(rule, s)
  /\ Cardinality({r \in S : Newer(r, s)}) < policy.limit[rule]

\* s is the first of its bucket and comes while there are buckets to fill.
Chosen(rule, s, S) ==
  LET seen == {Bucket(rule, r) : r \in {q \in S : Newer(q, s)}}
  IN  Bucket(rule, s) \notin seen /\ Cardinality(seen) < policy.limit[rule]

GroupOf(s, S) == {r \in S : r.group = s.group}

Kept(s, S) ==
  \/ DOMAIN policy.limit = {}
  \/ ~ Matches(s)
  \/ \E rule \in DOMAIN policy.limit : Chosen(rule, s, GroupOf(s, S))

Removed(S) == {s \in S : ~ Kept(s, S)}

-----------------------------------------------------------------------------
Init ==
  /\ store = {} /\ ever = {}
  /\ policy \in Policies
  /\ plan = [f \in Forgetter |-> {}]

\* Mutant: a snapshot is written over another of the same id.
CommitOver(s) ==
  /\ store' = store \cup {s}
  /\ ever' = ever \cup {s}
  /\ UNCHANGED <<policy, plan>>

\* commit_snapshot refuses an id that is there; a random one does not come back.
Commit(s) ==
  /\ \A r \in ever : r.id # s.id
  /\ store' = store \cup {s}
  /\ ever' = ever \cup {s}
  /\ UNCHANGED <<policy, plan>>

\* forget lists the snapshots and evaluates the policy; --dry-run stops here.
Plan(f) ==
  /\ plan' = [plan EXCEPT ![f] = Removed(store)]
  /\ UNCHANGED <<store, ever, policy>>

\* Under the lock it deletes them, the newest first, up to the first error; of
\* one that another forget has deleted there is none.
Remove(f) ==
  /\ plan[f] # {}
  /\ \E n \in 0 .. Cardinality(plan[f]) :
       store' = store \ {s \in plan[f] : Cardinality({r \in plan[f] : Newer(r, s)}) < n}
  /\ plan' = [plan EXCEPT ![f] = {}]
  /\ UNCHANGED <<ever, policy>>

Next ==
  \/ \E s \in Snapshot : Commit(s)
  \/ \E f \in Forgetter : Plan(f) \/ Remove(f)

Spec == Init /\ [][Next]_vars

-----------------------------------------------------------------------------
TypeOK ==
  /\ ever \subseteq Snapshot
  /\ store \subseteq ever
  /\ policy \in Policies
  /\ plan \in [Forgetter -> SUBSET ever]
  /\ \A r, s \in ever : r.id = s.id => r = s

\* Of the snapshots S, the newest in each of the n latest buckets of a rule.
\* The week of date is the ISO week's if iso, else what the code takes for it.
Latest(rule, iso, n, S) ==
  LET B(s) == IF iso THEN <<Calendar[s.at].isoYear, Calendar[s.at].week>>
                     ELSE Bucket(rule, s)
      newest == {s \in S : \A r \in S : B(r) = B(s) => ~ Newer(r, s)}
  IN  {s \in newest : Cardinality({r \in newest : Newer(r, s)}) < n}

(***************************************************************************)
(* However often forget runs, from however old a plan, and in whatever     *)
(* order backups are committed: of all the snapshots of a group that there *)
(* ever were, the newest of each of the last N hours, days, ... with       *)
(* backups is still there, as the help of --keep-daily and the others says *)
(* (a week is here what the code takes for one, see WeeksKept).  Nothing   *)
(* is removed from a group that --database or --tag leaves out.            *)
(***************************************************************************)
RulesKept ==
  \A g \in Group :
    LET all == {s \in ever : s.group = g}
    IN  /\ \A rule \in DOMAIN policy.limit :
             Latest(rule, FALSE, policy.limit[rule], all) \subseteq store
        /\ (policy.database \notin {NoFilter, g.database} \/ policy.tag \notin {NoFilter, g.tag})
             => all \subseteq store

(***************************************************************************)
(* A plan does not go stale: what it names, and is still there when the    *)
(* lock is granted, is what the policy would remove then, although other   *)
(* snapshots have come and gone, some of them in a forget that an error    *)
(* cut short.                                                              *)
(***************************************************************************)
PlansStayValid == \A f \in Forgetter : plan[f] \cap store \subseteq Removed(store)

(***************************************************************************)
(* "Keep 1 snapshot per week for the last N weeks with backups": the       *)
(* weeks are the ISO weeks, also around New Year.                          *)
(***************************************************************************)
WeeksKept ==
  "weekly" \in DOMAIN policy.limit =>
    \A g \in Group :
      Latest("weekly", TRUE, policy.limit["weekly"], {s \in ever : s.group = g}) \subseteq store

=============================================================================
