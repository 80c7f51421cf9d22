--------------------------- MODULE RetentionProofs ---------------------------
(***************************************************************************)
(* Proofs about Retention, for any policies, any calendar and any number   *)
(* of snapshots and of processes that run forget.                          *)
(***************************************************************************)
EXTENDS Retention, FiniteSetTheorems, TLAPS

(***************************************************************************)
(* What the decision is made of, the arguments spelt out: the buckets      *)
(* that come before that of s.                                             *)
(***************************************************************************)
Before(rule, s, S) == {Bucket(rule, r) : r \in {q \in S : Newer(q, s)}}

\* Whether s is chosen, in terms of these buckets.
LEMMA ChosenIff ==
  \A rule, s, S :
    Chosen(rule, s, S) <=>
      /\ Bucket(rule, s) \notin Before(rule, s, S)
      /\ Cardinality(Before(rule, s, S)) < policy.limit[rule]
  BY DEF Chosen, Before

\* Newer is a strict total order on the snapshots that there ever were.
LEMMA NewerOrder ==
  ASSUME TypeOK
  PROVE  /\ \A s \in ever : ~ Newer(s, s)
         /\ \A q, r, s \in ever : Newer(q, r) /\ Newer(r, s) => Newer(q, s)
         /\ \A r, s \in ever : r = s \/ Newer(r, s) \/ Newer(s, r)
<1>1. \A s \in ever : s.id \in Nat /\ s.at \in Nat
  BY TimeAssumption DEF TypeOK, Snapshot
<1>2. \A r, s \in ever : r.id = s.id => r = s
  BY DEF TypeOK
<1> QED BY <1>1, <1>2 DEF Newer

\* Among finitely many snapshots there is a newest one.
LEMMA NewestExists ==
  ASSUME TypeOK, NEW T, T \subseteq ever, IsFiniteSet(T), T # {}
  PROVE  \E s \in T : \A r \in T : ~ Newer(r, s)
<1> DEFINE Above(s) == {r \in T : Newer(r, s)}
           N == {Cardinality(Above(s)) : s \in T}
<1>1. \A s \in T : IsFiniteSet(Above(s)) /\ Cardinality(Above(s)) \in Nat
  <2> TAKE s \in T
  <2>1. IsFiniteSet(Above(s))
    BY FS_Subset
  <2> QED BY <2>1, FS_CardinalityType
<1>2. PICK s \in T : \A r \in T : ~ (Cardinality(Above(r)) < Cardinality(Above(s)))
  <2>1. N \subseteq Nat /\ N # {}
    BY <1>1
  <2>2. PICK m \in N : \A n \in N : ~ (<<n, m>> \in OpToRel(<, Nat))
    BY <2>1, NatLessThanWellFounded, WFMin
  <2> HIDE DEF Above
  <2>3. \A n \in N : ~ (n < m)
    BY <2>1, <2>2 DEF OpToRel
  <2> QED BY <2>3
<1>3. ASSUME NEW r \in T, Newer(r, s) PROVE FALSE
  <2>1. Above(r) \subseteq Above(s) /\ r \in Above(s) /\ r \notin Above(r)
    BY <1>3, NewerOrder
  <2>2. Cardinality(Above(r)) <= Cardinality(Above(s)) /\ Above(r) # Above(s)
    BY <1>1, <2>1, FS_Subset
  <2>3. Cardinality(Above(r)) # Cardinality(Above(s))
    BY <1>1, <2>1, FS_Subset
  <2> HIDE DEF Above
  <2> QED BY <1>1, <1>2, <2>2, <2>3
<1> QED BY <1>3

\* There are finitely many buckets, no more than snapshots.
LEMMA BeforeFinite ==
  ASSUME NEW rule, NEW s, NEW S, IsFiniteSet(S)
  PROVE  /\ IsFiniteSet(Before(rule, s, S))
         /\ Cardinality(Before(rule, s, S)) \in Nat
<1> DEFINE N == {q \in S : Newer(q, s)}
           B == [r \in N |-> Bucket(rule, r)]
<1>1. IsFiniteSet(N)
  BY FS_Subset
<1>2. B \in Surjection(N, Before(rule, s, S))
  BY DEF Surjection, Before
<1>3. IsFiniteSet(Before(rule, s, S))
  BY <1>1, <1>2, FS_Surjection
<1> QED BY <1>3, FS_CardinalityType

\* More snapshots, less room: what is chosen among S was chosen among R.
LEMMA ChosenAmongFewer ==
  ASSUME NEW rule \in DOMAIN policy.limit, NEW s, NEW S, IsFiniteSet(S),
         NEW R \in SUBSET S, policy \in Policies, Chosen(rule, s, S)
  PROVE  Chosen(rule, s, R)
<1>1. Before(rule, s, R) \subseteq Before(rule, s, S)
  BY DEF Before
<1>2. IsFiniteSet(R)
  BY FS_Subset
<1>3. Cardinality(Before(rule, s, R)) <= Cardinality(Before(rule, s, S))
  BY <1>1, BeforeFinite, FS_Subset
<1>4. policy.limit[rule] \in Nat
  BY PolicyAssumption
<1>5. /\ Cardinality(Before(rule, s, R)) \in Nat
      /\ Cardinality(Before(rule, s, S)) \in Nat
  BY <1>2, BeforeFinite
<1>6. /\ Bucket(rule, s) \notin Before(rule, s, S)
      /\ Cardinality(Before(rule, s, S)) < policy.limit[rule]
  BY ChosenIff
<1>7. Cardinality(Before(rule, s, R)) < policy.limit[rule]
  BY <1>3, <1>4, <1>5, <1>6
<1>8. Bucket(rule, s) \notin Before(rule, s, R)
  BY <1>1, <1>6
<1> QED BY <1>7, <1>8, ChosenIff

(***************************************************************************)
(* The heart of the matter: when everything that S chooses is still in R,  *)
(* R chooses nothing else.  If a bucket before that of s had gone from R,  *)
(* the newest snapshot of such buckets would be one that S chooses.        *)
(***************************************************************************)
LEMMA ChosenAmongMore ==
  ASSUME TypeOK, NEW rule \in DOMAIN policy.limit,
         NEW S, S \subseteq ever, IsFiniteSet(S), NEW R \in SUBSET S,
         \A h \in S : Chosen(rule, h, S) => h \in R,
         NEW s \in R, Chosen(rule, s, R)
  PROVE  Chosen(rule, s, S)
<1> DEFINE Lost == {h \in S : Newer(h, s) /\ Bucket(rule, h) \notin Before(rule, s, R)}
<1>1. policy.limit[rule] \in Nat
  BY PolicyAssumption DEF TypeOK
<1>2. IsFiniteSet(R) /\ IsFiniteSet(Lost)
  BY FS_Subset
<1>3. ASSUME Lost # {} PROVE FALSE
  <2>1. PICK h \in Lost : \A r \in Lost : ~ Newer(r, h)
    BY <1>2, <1>3, NewestExists
  <2>2. Before(rule, h, S) \subseteq Before(rule, s, R)
    <3> SUFFICES ASSUME NEW r \in S, Newer(r, h)
                 PROVE  Bucket(rule, r) \in Before(rule, s, R)
      BY DEF Before
    <3>1. Newer(r, s)
      BY <2>1, NewerOrder
    <3> QED BY <2>1, <3>1
  <2>3. Cardinality(Before(rule, h, S)) <= Cardinality(Before(rule, s, R))
    BY <1>2, <2>2, BeforeFinite, FS_Subset
  <2>4. Chosen(rule, h, S)
    <3>1. Cardinality(Before(rule, s, R)) < policy.limit[rule]
      BY ChosenIff
    <3>2. /\ Cardinality(Before(rule, h, S)) \in Nat
          /\ Cardinality(Before(rule, s, R)) \in Nat
      BY <1>2, BeforeFinite
    <3>3. Bucket(rule, h) \notin Before(rule, h, S)
      BY <2>1, <2>2
    <3> QED BY <1>1, <2>3, <3>1, <3>2, <3>3, ChosenIff
  <2>5. Bucket(rule, h) \in Before(rule, s, R)
    BY <2>1, <2>4 DEF Before
  <2> QED BY <2>1, <2>5
<1>4. Before(rule, s, S) = Before(rule, s, R)
  <2>1. Before(rule, s, S) \subseteq Before(rule, s, R)
    BY <1>3 DEF Before
  <2> QED BY <2>1 DEF Before
<1> QED BY <1>4 DEF Chosen, Before

-----------------------------------------------------------------------------
(***************************************************************************)
(* The inductive invariant: there are finitely many snapshots; those that  *)
(* are gone, and those in a plan, are ones that the policy would remove if *)
(* none of them had been removed.                                          *)
(***************************************************************************)
GoneInv ==
  /\ IsFiniteSet(ever)
  /\ ever \ store \subseteq Removed(ever)
  /\ \A f \in Forgetter : plan[f] \subseteq Removed(ever)

\* What the policy would remove of more snapshots, it would of all the more.
LEMMA RemovedGrows ==
  ASSUME NEW S, IsFiniteSet(S), NEW R \in SUBSET S, policy \in Policies
  PROVE  Removed(R) \subseteq Removed(S)
<1> SUFFICES ASSUME NEW s \in R, Kept(s, S)
             PROVE  Kept(s, R)
  BY DEF Removed
<1> SUFFICES ASSUME NEW rule \in DOMAIN policy.limit, Chosen(rule, s, GroupOf(s, S))
             PROVE  Chosen(rule, s, GroupOf(s, R))
  BY DEF Kept
<1>1. IsFiniteSet(GroupOf(s, S)) /\ GroupOf(s, R) \in SUBSET GroupOf(s, S)
  BY FS_Subset DEF GroupOf
<1> QED BY <1>1, ChosenAmongFewer

\* Removals do not change what there is to remove.
LEMMA RemovedKept ==
  ASSUME TypeOK, GoneInv
  PROVE  Removed(store) = Removed(ever) \cap store
<1>0. store \subseteq ever /\ policy \in Policies /\ IsFiniteSet(ever)
  BY DEF TypeOK, GoneInv
<1>1. Removed(store) \subseteq Removed(ever) \cap store
  BY <1>0, RemovedGrows DEF Removed
<1>2. ASSUME NEW s \in store, Kept(s, store) PROVE Kept(s, ever)
  <2> SUFFICES ASSUME NEW rule \in DOMAIN policy.limit, Chosen(rule, s, GroupOf(s, store))
               PROVE  Chosen(rule, s, GroupOf(s, ever))
    BY <1>2 DEF Kept
  <2> DEFINE S == GroupOf(s, ever)
             R == GroupOf(s, store)
  <2>1. S \subseteq ever /\ IsFiniteSet(S) /\ R \in SUBSET S /\ s \in R
    BY <1>0, FS_Subset DEF GroupOf
  <2>2. ASSUME NEW h \in S, Chosen(rule, h, S) PROVE h \in R
    <3>1. GroupOf(h, ever) = S
      BY DEF GroupOf
    <3>2. Kept(h, ever)
      BY <2>2, <3>1 DEF Kept
    <3> QED BY <2>1, <3>2 DEF GoneInv, Removed, GroupOf
  <2> QED BY <2>1, <2>2, ChosenAmongMore
<1> QED BY <1>0, <1>1, <1>2 DEF Removed

\* The types hold at the start, and every step keeps them.
LEMMA TypeInit == Init => TypeOK
  BY DEF Init, TypeOK

\* The step.
LEMMA TypeStep == TypeOK /\ [Next]_vars => TypeOK'
<1> SUFFICES ASSUME TypeOK, [Next]_vars PROVE TypeOK'
  OBVIOUS
<1> USE DEF TypeOK
<1>1. ASSUME NEW s \in Snapshot, Commit(s) PROVE TypeOK'
  BY <1>1 DEF Commit, Snapshot
<1>2. ASSUME NEW f \in Forgetter, Plan(f) PROVE TypeOK'
  BY <1>2 DEF Plan, Removed
<1>3. ASSUME NEW f \in Forgetter, Remove(f) PROVE TypeOK'
  BY <1>3 DEF Remove
<1>4. CASE UNCHANGED vars
  BY <1>4 DEF vars
<1> QED BY <1>1, <1>2, <1>3, <1>4 DEF Next

\* Every step keeps the inductive invariant.
LEMMA GoneStep == TypeOK /\ GoneInv /\ [Next]_vars => GoneInv'
<1> SUFFICES ASSUME TypeOK, GoneInv, [Next]_vars PROVE GoneInv'
  OBVIOUS
<1>1. ASSUME NEW s \in Snapshot, Commit(s) PROVE GoneInv'
  <2>1. IsFiniteSet(ever')
    BY <1>1, FS_AddElement DEF Commit, GoneInv
  <2>2. Removed(ever) \subseteq Removed(ever)'
    <3>1. Removed(ever)' = Removed(ever')
      BY <1>1 DEF Commit, Removed, Kept, Chosen, Matches
    <3>2. ever \in SUBSET ever' /\ policy \in Policies
      BY <1>1 DEF Commit, TypeOK
    <3> QED BY <2>1, <3>1, <3>2, RemovedGrows
  <2> QED BY <1>1, <2>1, <2>2 DEF Commit, GoneInv
<1>2. ASSUME NEW f \in Forgetter, Plan(f) PROVE GoneInv'
  <2>1. Removed(ever)' = Removed(ever)
    BY <1>2 DEF Plan, Removed, Kept, Chosen, Matches
  <2> QED BY <1>2, <2>1, RemovedKept DEF Plan, GoneInv, TypeOK
<1>3. ASSUME NEW f \in Forgetter, Remove(f) PROVE GoneInv'
  <2>1. Removed(ever)' = Removed(ever)
    BY <1>3 DEF Remove, Removed, Kept, Chosen, Matches
  <2> QED BY <1>3, <2>1 DEF Remove, GoneInv, TypeOK
<1>4. CASE UNCHANGED vars
  <2>1. Removed(ever)' = Removed(ever)
    BY <1>4 DEF vars, Removed, Kept, Chosen, Matches
  <2> QED BY <1>4, <2>1 DEF vars, GoneInv
<1> QED BY <1>1, <1>2, <1>3, <1>4 DEF Next

\* TypeOK and GoneInv together are inductive.
LEMMA Invariant == Spec => [](TypeOK /\ GoneInv)
<1>1. Init => GoneInv
  BY FS_EmptySet DEF Init, GoneInv
<1> QED BY <1>1, TypeInit, TypeStep, GoneStep, PTL DEF Spec

-----------------------------------------------------------------------------
(***************************************************************************)
(* Snapshots, plans and flags stay in their domains, and ids are unique.   *)
(***************************************************************************)
THEOREM TypeCorrect == Spec => []TypeOK
  BY Invariant, PTL

\* The newest of each of the latest buckets is what a rule chooses.
LEMMA LatestChosen ==
  ASSUME TypeOK, GoneInv, NEW rule \in DOMAIN policy.limit,
         NEW S, S \subseteq ever, NEW s \in Latest(rule, FALSE, policy.limit[rule], S)
  PROVE  s \in S /\ Chosen(rule, s, S)
<1> DEFINE newest == {q \in S : \A r \in S : Bucket(rule, r) = Bucket(rule, q) => ~ Newer(r, q)}
           H == {r \in newest : Newer(r, s)}
           B == [r \in H |-> Bucket(rule, r)]
<1>1. s \in newest /\ Cardinality(H) < policy.limit[rule]
  BY DEF Latest
<1>2. IsFiniteSet(S) /\ IsFiniteSet(H)
  BY FS_Subset DEF GoneInv
<1>3. B \in Surjection(H, Before(rule, s, S))
  <2>1. ASSUME NEW r \in S, Newer(r, s)
        PROVE  \E h \in H : Bucket(rule, h) = Bucket(rule, r)
    <3> DEFINE T == {q \in S : Bucket(rule, q) = Bucket(rule, r)}
    <3>1. PICK h \in T : \A q \in T : ~ Newer(q, h)
      <4>1. IsFiniteSet(T) /\ T # {} /\ T \subseteq ever
        BY <1>2, FS_Subset
      <4> HIDE DEF T
      <4> QED BY <4>1, NewestExists
    <3>2. h \in newest
      BY <3>1
    <3>3. Newer(h, s)
      BY <1>1, <2>1, <3>1, NewerOrder
    <3> QED BY <3>1, <3>2, <3>3
  <2>2. \A r \in H : Bucket(rule, r) \in Before(rule, s, S)
    BY DEF Before
  <2> QED BY <2>1, <2>2 DEF Surjection, Before
<1>4. Cardinality(Before(rule, s, S)) <= Cardinality(H)
  BY <1>2, <1>3, FS_Surjection
<1>5. policy.limit[rule] \in Nat /\ Cardinality(H) \in Nat
  BY <1>2, PolicyAssumption, FS_CardinalityType DEF TypeOK
<1>6. Bucket(rule, s) \notin Before(rule, s, S)
  BY <1>1 DEF Before
<1>7. Cardinality(Before(rule, s, S)) \in Nat
  BY <1>2, BeforeFinite
<1>8. Cardinality(Before(rule, s, S)) < policy.limit[rule]
  BY <1>1, <1>4, <1>5, <1>7
<1> QED BY <1>1, <1>6, <1>8, ChosenIff

(***************************************************************************)
(* Whatever backups and forgets are interleaved with it, forget keeps what *)
(* the rules promise of all the snapshots that there ever were.            *)
(***************************************************************************)
THEOREM RulesCorrect == Spec => []RulesKept
<1>1. ASSUME TypeOK, GoneInv PROVE RulesKept
  <2> SUFFICES ASSUME NEW g \in Group
               PROVE  LET all == {s \in ever : s.group = g}
                      IN  /\ \A rule \in DOMAIN policy.limit :
                               Latest(rule, FALSE, policy.limit[rule], all) \subseteq store
                          /\ (\/ policy.database \notin {NoFilter, g.database}
                              \/ policy.tag \notin {NoFilter, g.tag}) => all \subseteq store
    BY DEF RulesKept
  <2> DEFINE all == {s \in ever : s.group = g}
  <2>1. \A s \in ever : Kept(s, ever) => s \in store
    BY <1>1 DEF GoneInv, Removed
  <2>2. ASSUME NEW rule \in DOMAIN policy.limit,
               NEW s \in Latest(rule, FALSE, policy.limit[rule], all)
        PROVE  s \in store
    <3>1. s \in all /\ Chosen(rule, s, all)
      <4>1. all \subseteq ever
        OBVIOUS
      <4> HIDE DEF all
      <4> QED BY <1>1, <2>2, <4>1, LatestChosen
    <3>2. GroupOf(s, ever) = all
      BY <3>1 DEF GroupOf
    <3> QED BY <2>1, <3>1, <3>2 DEF Kept
  <2>3. ASSUME \/ policy.database \notin {NoFilter, g.database}
               \/ policy.tag \notin {NoFilter, g.tag},
               NEW s \in all
        PROVE  s \in store
    BY <2>1, <2>3 DEF Kept, Matches
  <2> QED BY <2>2, <2>3
<1> QED BY <1>1, Invariant, PTL

(***************************************************************************)
(* A plan never goes stale while its forget waits for the lock.            *)
(***************************************************************************)
THEOREM PlansCorrect == Spec => []PlansStayValid
<1>1. TypeOK /\ GoneInv => PlansStayValid
  BY RemovedKept DEF GoneInv, PlansStayValid
<1> QED BY <1>1, Invariant, PTL

=============================================================================
