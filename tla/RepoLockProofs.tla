--------------------------- MODULE RepoLockProofs ---------------------------
(***************************************************************************)
(* Proofs about RepoLock, for any number of processes, any clock           *)
(* differences and any delays that are WellTimed.                          *)
(***************************************************************************)
EXTENDS RepoLock, WellFoundedInduction, TLAPS

(***************************************************************************)
(* created_at, seen from the clock of its own host: it is young while the  *)
(* put is under way, and Settle old once the verification begins.          *)
(***************************************************************************)
StampsInv ==
  \A p \in Proc :
    /\ readAt[p] <= Clock(p)
    /\ pc[p] = "put" =>
         /\ flight[p] = created[p]
         /\ created[p] <= Clock(p)
         /\ Clock(p) <= created[p] + PutDelay
    /\ pc[p] = "settle" => created[p] + Settle <= wake[p] + Skew[p]
    /\ pc[p] \in {"verify"} \cup Registered => created[p] + Settle <= Clock(p)

(***************************************************************************)
(* The lock file is there while its owner relies on it and not before, and *)
(* its heartbeat is followed by the next one in time.                      *)
(***************************************************************************)
RefreshInv ==
  \A p \in Proc :
    /\ pc[p] \in {"idle", "check"} => flight[p] = NoPut
    /\ pc[p] \in {"idle", "check", "put"} => p \notin files
    /\ pc[p] \in Tended => p \in files
    /\ lost[p] <= Grace
    /\ pc[p] \in {"settle", "verify"} =>
         /\ flight[p] = NoPut
         /\ beat[p] = created[p]
         /\ Clock(p) <= created[p] + AcqTime
    /\ Working(p) /\ flight[p] = NoPut =>
         /\ now <= due[p] + Lag
         /\ due[p] + Skew[p] <= beat[p] + AcqTime + Interval + lost[p]
    /\ Working(p) /\ flight[p] # NoPut =>
         /\ Clock(p) <= flight[p] + Lag
         /\ flight[p] + Interval <= due[p] + Skew[p] + Lag
         /\ due[p] + Skew[p] <= flight[p] + Interval
         /\ due[p] + Skew[p] <= beat[p] + AcqTime + 2 * Interval + lost[p]

(***************************************************************************)
(* `dumper unlock' is only ever about to delete the file of a process that *)
(* no longer relies on it.                                                 *)
(***************************************************************************)
AdminInv ==
  /\ admin.force = FALSE
  /\ \A p \in Proc : admin.at <= Clock(p) + MaxSkew
  /\ \A k \in admin.victim : pc[k] \in Ended \cup {"cleaned"}

(***************************************************************************)
(* A process that verifies still has before it every older conflicting     *)
(* lock it did not see, and a process that works has none.                 *)
(***************************************************************************)
InTheWay(k, p) ==
  k # p /\ Conflict(mode[p], mode[k]) /\ Precedes(k, p) /\ pc[k] \in Tended

YieldInv ==
  \A p, k \in Proc :
    /\ pc[p] = "verify" /\ ~ blocked[p] /\ InTheWay(k, p) => k \in keys[p]
    /\ Working(p) => ~ InTheWay(k, p)

IInv == TypeOK /\ StampsInv /\ RefreshInv /\ AdminInv /\ YieldInv

-----------------------------------------------------------------------------
(***************************************************************************)
(* Type correctness.                                                       *)
(***************************************************************************)
LEMMA TypeInit == Init => TypeOK
  BY TimeAssumption DEF Init, TypeOK, Stage, NoPut

\* Every step keeps the types.
LEMMA TypeStep == TypeOK /\ [Next]_vars => TypeOK'
<1>. SUFFICES ASSUME TypeOK, [Next]_vars PROVE TypeOK'
  OBVIOUS
<1>. USE ProcAssumption, TimeAssumption, FaultAssumption
     DEF TypeOK, Stage, Acquiring, Registered, Ended, NoPut, Clock,
         identity, listing, timers, storage
<1>1. ASSUME NEW p \in Proc, BeginCheck(p) PROVE TypeOK'
  BY <1>1 DEF BeginCheck, Goto, List
<1>2. ASSUME NEW p \in Proc, Refuse(p) PROVE TypeOK'
  BY <1>2 DEF Refuse, End, Goto
<1>3. ASSUME NEW p \in Proc, SendLock(p) PROVE TypeOK'
  BY <1>3 DEF SendLock, Goto, Passed
<1>4. ASSUME NEW p \in Proc, LockLands(p) PROVE TypeOK'
  BY <1>4 DEF LockLands, Goto, WakeAt
<1>5. ASSUME NEW p \in Proc, BeginVerify(p) PROVE TypeOK'
  BY <1>5 DEF BeginVerify, Goto, List, Settled
<1>6. ASSUME NEW p \in Proc, Yield(p) PROVE TypeOK'
  BY <1>6 DEF Yield, End, Goto, Delete
<1>7. ASSUME NEW p \in Proc, Acquire(p) PROVE TypeOK'
  BY <1>7 DEF Acquire, Goto, Passed, FirstBeat
<1>8. ASSUME NEW p \in Proc, Heartbeat(p) PROVE TypeOK'
  BY <1>8 DEF Heartbeat, HasTask, Stamp
<1>9. ASSUME NEW p \in Proc, PutLands(p) PROVE TypeOK'
  BY <1>9 DEF PutLands, LandedBeat
<1>10. ASSUME NEW p \in Proc, ListFails(p) PROVE TypeOK'
  BY <1>10 DEF ListFails, End, Goto, Settled, AfterFailedList
<1>11. ASSUME NEW p \in Proc, SendFails(p) PROVE TypeOK'
  BY <1>11 DEF SendFails, End, Goto
<1>12. ASSUME NEW p \in Proc, HeartbeatFails(p) PROVE TypeOK'
  BY <1>12 DEF HeartbeatFails
<1>13. ASSUME NEW p \in Proc, PutLost(p) PROVE TypeOK'
  BY <1>13 DEF PutLost
<1>14. ASSUME NEW p \in Proc, FailExit(p) PROVE TypeOK'
  BY <1>14 DEF FailExit, End, Goto
<1>15. ASSUME NEW p \in Proc, Interrupt(p) PROVE TypeOK'
  BY <1>15 DEF Interrupt, Goto
<1>16. ASSUME NEW p \in Proc, Crash(p) PROVE TypeOK'
  BY <1>16 DEF Crash, End, Goto
<1>17. ASSUME NEW p \in Proc, Release(p) PROVE TypeOK'
  BY <1>17 DEF Release, End, Goto, Delete
<1>18. ASSUME NEW p \in Proc, CleanupDelete(p) PROVE TypeOK'
  BY <1>18 DEF CleanupDelete, Goto, Delete
<1>19. ASSUME NEW p \in Proc, InterruptExit(p) PROVE TypeOK'
  BY <1>19 DEF InterruptExit, End, Goto
<1>20. ASSUME NEW p \in Proc, NEW k \in Proc, ReadLock(p, k) PROVE TypeOK'
  BY <1>20 DEF ReadLock
<1>21. ASSUME NEW host \in Proc, NEW force \in UnlockForce, UnlockList(host, force)
      PROVE TypeOK'
  BY <1>21 DEF UnlockList
<1>22. ASSUME NEW k \in Proc, UnlockRead(k) PROVE TypeOK'
  <2>1. PICK victim \in SUBSET {k} :
          admin' = [admin EXCEPT !.todo = @ \ {k}, !.victim = victim]
    BY <1>22 DEF UnlockRead
  <2>2. UNCHANGED <<now, pc, identity, listing, timers, storage>>
    BY <1>22 DEF UnlockRead
  <2>3. victim \in SUBSET Proc /\ admin.todo \ {k} \in SUBSET Proc
    BY <1>22
  <2>4. admin' \in [todo : SUBSET Proc, at : Nat, force : BOOLEAN, victim : SUBSET Proc]
    BY <2>1, <2>3
  <2>. QED
    BY <2>2, <2>4
<1>23. CASE UnlockDelete
  BY <1>23 DEF UnlockDelete
<1>24. CASE Tick
  BY <1>24 DEF Tick, MayPass
<1>25. CASE UNCHANGED vars
  BY <1>25 DEF vars
<1>. QED
  BY <1>1, <1>2, <1>3, <1>4, <1>5, <1>6, <1>7, <1>8, <1>9, <1>10, <1>11, <1>12, <1>13, <1>14, <1>15, <1>16, <1>17, <1>18, <1>19, <1>20, <1>21, <1>22, <1>23, <1>24, <1>25
  DEF Next, Step, Acquisition, Failure, Unlock

(***************************************************************************)
(* Every reachable state is well typed, whatever the delays and faults.    *)
(***************************************************************************)
THEOREM TypeCorrect == Spec => []TypeOK
  BY TypeInit, TypeStep, PTL DEF Spec

-----------------------------------------------------------------------------
(***************************************************************************)
(* The three facts about time and files that the protocol rests on.        *)
(***************************************************************************)
LEMMA StampsStep == TypeOK /\ StampsInv /\ [Next]_vars => StampsInv'
<1>. SUFFICES ASSUME TypeOK, StampsInv, [Next]_vars PROVE StampsInv'
  OBVIOUS
<1>. USE ProcAssumption, TimeAssumption
     DEF Clock, Acquiring, Registered, Ended, Tended, Working, NoPut,
         identity, listing, timers, storage, TypeOK, StampsInv
<1>1. ASSUME NEW p \in Proc, BeginCheck(p) PROVE StampsInv'
  BY <1>1 DEF BeginCheck, Goto, List
<1>2. ASSUME NEW p \in Proc, Refuse(p) PROVE StampsInv'
  BY <1>2 DEF Refuse, End, Goto
<1>3. ASSUME NEW p \in Proc, SendLock(p) PROVE StampsInv'
  BY <1>3 DEF SendLock, Goto, Passed
<1>4. ASSUME NEW p \in Proc, LockLands(p) PROVE StampsInv'
  BY <1>4 DEF LockLands, Goto, WakeAt
<1>5. ASSUME NEW p \in Proc, BeginVerify(p) PROVE StampsInv'
  BY <1>5 DEF BeginVerify, Goto, List, Settled
<1>6. ASSUME NEW p \in Proc, Yield(p) PROVE StampsInv'
  BY <1>6 DEF Yield, End, Goto, Delete
<1>7. ASSUME NEW p \in Proc, Acquire(p) PROVE StampsInv'
  BY <1>7 DEF Acquire, Goto, Passed, FirstBeat
<1>8. ASSUME NEW p \in Proc, Heartbeat(p) PROVE StampsInv'
  BY <1>8 DEF Heartbeat, HasTask, Stamp
<1>9. ASSUME NEW p \in Proc, PutLands(p) PROVE StampsInv'
  BY <1>9 DEF PutLands, LandedBeat
<1>10. ASSUME NEW p \in Proc, ListFails(p) PROVE StampsInv'
  BY <1>10 DEF ListFails, End, Goto, Settled, AfterFailedList
<1>11. ASSUME NEW p \in Proc, SendFails(p) PROVE StampsInv'
  BY <1>11 DEF SendFails, End, Goto
<1>12. ASSUME NEW p \in Proc, HeartbeatFails(p) PROVE StampsInv'
  BY <1>12 DEF HeartbeatFails
<1>13. ASSUME NEW p \in Proc, PutLost(p) PROVE StampsInv'
  BY <1>13 DEF PutLost
<1>14. ASSUME NEW p \in Proc, FailExit(p) PROVE StampsInv'
  BY <1>14 DEF FailExit, End, Goto
<1>15. ASSUME NEW p \in Proc, Interrupt(p) PROVE StampsInv'
  BY <1>15 DEF Interrupt, Goto
<1>16. ASSUME NEW p \in Proc, Crash(p) PROVE StampsInv'
  BY <1>16 DEF Crash, End, Goto
<1>17. ASSUME NEW p \in Proc, Release(p) PROVE StampsInv'
  BY <1>17 DEF Release, End, Goto, Delete
<1>18. ASSUME NEW p \in Proc, CleanupDelete(p) PROVE StampsInv'
  BY <1>18 DEF CleanupDelete, Goto, Delete
<1>19. ASSUME NEW p \in Proc, InterruptExit(p) PROVE StampsInv'
  BY <1>19 DEF InterruptExit, End, Goto
<1>20. ASSUME NEW p \in Proc, NEW k \in Proc, ReadLock(p, k) PROVE StampsInv'
  BY <1>20 DEF ReadLock
<1>21. ASSUME NEW host \in Proc, NEW force \in UnlockForce, UnlockList(host, force)
      PROVE StampsInv'
  BY <1>21 DEF UnlockList
<1>22. ASSUME NEW k \in Proc, UnlockRead(k) PROVE StampsInv'
  BY <1>22 DEF UnlockRead
<1>23. CASE UnlockDelete
  BY <1>23 DEF UnlockDelete
<1>24. CASE Tick
  BY <1>24 DEF Tick, MayPass
<1>25. CASE UNCHANGED vars
  BY <1>25 DEF vars
<1>. QED
  BY <1>1, <1>2, <1>3, <1>4, <1>5, <1>6, <1>7, <1>8, <1>9, <1>10, <1>11, <1>12, <1>13, <1>14, <1>15, <1>16, <1>17, <1>18, <1>19, <1>20, <1>21, <1>22, <1>23, <1>24, <1>25
  DEF Next, Step, Acquisition, Failure, Unlock

\* Every step keeps the lock files refreshed in time.
LEMMA RefreshStep ==
  WellTimed /\ TypeOK /\ StampsInv /\ RefreshInv /\ AdminInv /\ [Next]_vars => RefreshInv'
<1>. SUFFICES ASSUME WellTimed, TypeOK, StampsInv, RefreshInv, AdminInv, [Next]_vars
              PROVE  RefreshInv'
  OBVIOUS
<1>. USE ProcAssumption, TimeAssumption
     DEF Clock, Acquiring, Registered, Ended, Tended, Working, NoPut,
         identity, listing, timers, storage, TypeOK, RefreshInv
<1>1. ASSUME NEW p \in Proc, BeginCheck(p) PROVE RefreshInv'
  BY <1>1 DEF BeginCheck, Goto, List
<1>2. ASSUME NEW p \in Proc, Refuse(p) PROVE RefreshInv'
  BY <1>2 DEF Refuse, End, Goto
<1>3. ASSUME NEW p \in Proc, SendLock(p) PROVE RefreshInv'
  BY <1>3 DEF SendLock, Goto, Passed
<1>4. ASSUME NEW p \in Proc, LockLands(p) PROVE RefreshInv'
  BY <1>4 DEF LockLands, Goto, WakeAt, StampsInv
<1>5. ASSUME NEW p \in Proc, BeginVerify(p) PROVE RefreshInv'
  BY <1>5 DEF BeginVerify, Goto, List, Settled
<1>6. ASSUME NEW p \in Proc, Yield(p) PROVE RefreshInv'
  BY <1>6 DEF Yield, End, Goto, Delete
<1>7. ASSUME NEW p \in Proc, Acquire(p) PROVE RefreshInv'
  BY <1>7 DEF Acquire, Goto, Passed, FirstBeat
<1>8. ASSUME NEW p \in Proc, Heartbeat(p) PROVE RefreshInv'
  BY <1>8 DEF Heartbeat, HasTask, Stamp, WellTimed
<1>9. ASSUME NEW p \in Proc, PutLands(p) PROVE RefreshInv'
  BY <1>9 DEF PutLands, LandedBeat, WellTimed
<1>10. ASSUME NEW p \in Proc, ListFails(p) PROVE RefreshInv'
  BY <1>10 DEF ListFails, End, Goto, Settled, AfterFailedList
<1>11. ASSUME NEW p \in Proc, SendFails(p) PROVE RefreshInv'
  BY <1>11 DEF SendFails, End, Goto
<1>12. ASSUME NEW p \in Proc, HeartbeatFails(p) PROVE RefreshInv'
  BY <1>12 DEF HeartbeatFails, WellTimed
<1>13. ASSUME NEW p \in Proc, PutLost(p) PROVE RefreshInv'
  BY <1>13 DEF PutLost
<1>14. ASSUME NEW p \in Proc, FailExit(p) PROVE RefreshInv'
  BY <1>14 DEF FailExit, End, Goto
<1>15. ASSUME NEW p \in Proc, Interrupt(p) PROVE RefreshInv'
  BY <1>15 DEF Interrupt, Goto
<1>16. ASSUME NEW p \in Proc, Crash(p) PROVE RefreshInv'
  BY <1>16 DEF Crash, End, Goto
<1>17. ASSUME NEW p \in Proc, Release(p) PROVE RefreshInv'
  BY <1>17 DEF Release, End, Goto, Delete
<1>18. ASSUME NEW p \in Proc, CleanupDelete(p) PROVE RefreshInv'
  BY <1>18 DEF CleanupDelete, Goto, Delete
<1>19. ASSUME NEW p \in Proc, InterruptExit(p) PROVE RefreshInv'
  BY <1>19 DEF InterruptExit, End, Goto
<1>20. ASSUME NEW p \in Proc, NEW k \in Proc, ReadLock(p, k) PROVE RefreshInv'
  BY <1>20 DEF ReadLock
<1>21. ASSUME NEW host \in Proc, NEW force \in UnlockForce, UnlockList(host, force)
      PROVE RefreshInv'
  BY <1>21 DEF UnlockList
<1>22. ASSUME NEW k \in Proc, UnlockRead(k) PROVE RefreshInv'
  BY <1>22 DEF UnlockRead
<1>23. CASE UnlockDelete
  BY <1>23 DEF UnlockDelete, AdminInv
<1>24. CASE Tick
  BY <1>24 DEF Tick, MayPass
<1>25. CASE UNCHANGED vars
  BY <1>25 DEF vars
<1>. QED
  BY <1>1, <1>2, <1>3, <1>4, <1>5, <1>6, <1>7, <1>8, <1>9, <1>10, <1>11, <1>12, <1>13, <1>14, <1>15, <1>16, <1>17, <1>18, <1>19, <1>20, <1>21, <1>22, <1>23, <1>24, <1>25
  DEF Next, Step, Acquisition, Failure, Unlock

(***************************************************************************)
(* A lock that its owner relies on is fresh for the clock of any host.     *)
(***************************************************************************)
LEMMA Fresh ==
  ASSUME WellTimed, TypeOK, RefreshInv, NEW p \in Proc, pc[p] \in Tended
  PROVE  p \in files /\ Clock(p) + MaxSkew < beat[p] + TTL
  BY TimeAssumption DEF WellTimed, TypeOK, RefreshInv, Tended, Working, Clock, NoPut

\* `dumper unlock' comes only upon locks that nobody relies on.
LEMMA AdminStep ==
  WellTimed /\ TypeOK /\ RefreshInv /\ AdminInv /\ [Next]_vars => AdminInv'
<1>. SUFFICES ASSUME WellTimed, TypeOK, RefreshInv, AdminInv, [Next]_vars
              PROVE  AdminInv'
  OBVIOUS
<1>. USE ProcAssumption, TimeAssumption
     DEF Clock, Acquiring, Registered, Ended, Tended, Working, NoPut,
         identity, listing, timers, storage, TypeOK, AdminInv
<1>1. ASSUME NEW p \in Proc, BeginCheck(p) PROVE AdminInv'
  BY <1>1 DEF BeginCheck, Goto, List
<1>2. ASSUME NEW p \in Proc, Refuse(p) PROVE AdminInv'
  BY <1>2 DEF Refuse, End, Goto
<1>3. ASSUME NEW p \in Proc, SendLock(p) PROVE AdminInv'
  BY <1>3 DEF SendLock, Goto, Passed
<1>4. ASSUME NEW p \in Proc, LockLands(p) PROVE AdminInv'
  BY <1>4 DEF LockLands, Goto, WakeAt
<1>5. ASSUME NEW p \in Proc, BeginVerify(p) PROVE AdminInv'
  BY <1>5 DEF BeginVerify, Goto, List, Settled
<1>6. ASSUME NEW p \in Proc, Yield(p) PROVE AdminInv'
  BY <1>6 DEF Yield, End, Goto, Delete
<1>7. ASSUME NEW p \in Proc, Acquire(p) PROVE AdminInv'
  BY <1>7 DEF Acquire, Goto, Passed, FirstBeat
<1>8. ASSUME NEW p \in Proc, Heartbeat(p) PROVE AdminInv'
  BY <1>8 DEF Heartbeat, HasTask, Stamp
<1>9. ASSUME NEW p \in Proc, PutLands(p) PROVE AdminInv'
  BY <1>9 DEF PutLands, LandedBeat
<1>10. ASSUME NEW p \in Proc, ListFails(p) PROVE AdminInv'
  BY <1>10 DEF ListFails, End, Goto, Settled, AfterFailedList
<1>11. ASSUME NEW p \in Proc, SendFails(p) PROVE AdminInv'
  BY <1>11 DEF SendFails, End, Goto
<1>12. ASSUME NEW p \in Proc, HeartbeatFails(p) PROVE AdminInv'
  BY <1>12 DEF HeartbeatFails
<1>13. ASSUME NEW p \in Proc, PutLost(p) PROVE AdminInv'
  BY <1>13 DEF PutLost
<1>14. ASSUME NEW p \in Proc, FailExit(p) PROVE AdminInv'
  BY <1>14 DEF FailExit, End, Goto
<1>15. ASSUME NEW p \in Proc, Interrupt(p) PROVE AdminInv'
  BY <1>15 DEF Interrupt, Goto
<1>16. ASSUME NEW p \in Proc, Crash(p) PROVE AdminInv'
  BY <1>16 DEF Crash, End, Goto
<1>17. ASSUME NEW p \in Proc, Release(p) PROVE AdminInv'
  BY <1>17 DEF Release, End, Goto, Delete
<1>18. ASSUME NEW p \in Proc, CleanupDelete(p) PROVE AdminInv'
  BY <1>18 DEF CleanupDelete, Goto, Delete
<1>19. ASSUME NEW p \in Proc, InterruptExit(p) PROVE AdminInv'
  BY <1>19 DEF InterruptExit, End, Goto
<1>20. ASSUME NEW p \in Proc, NEW k \in Proc, ReadLock(p, k) PROVE AdminInv'
  BY <1>20 DEF ReadLock
<1>21. ASSUME NEW host \in Proc, NEW force \in UnlockForce, UnlockList(host, force)
      PROVE AdminInv'
  <2>1. force = FALSE
    BY <1>21 DEF WellTimed
  <2>2. \A q \in Proc : Clock(host) <= Clock(q) + MaxSkew
    BY <1>21
  <2>3. admin' = [todo |-> files, at |-> Clock(host), force |-> FALSE, victim |-> {}]
    BY <1>21, <2>1 DEF UnlockList
  <2>4. UNCHANGED <<now, pc>>
    BY <1>21 DEF UnlockList
  <2>. QED
    BY <2>2, <2>3, <2>4
<1>22. ASSUME NEW k \in Proc, UnlockRead(k) PROVE AdminInv'
  <2>1. PICK victim \in SUBSET {k} :
          /\ victim # {} => k \in files /\ admin.at - beat[k] >= TTL
          /\ admin' = [admin EXCEPT !.todo = @ \ {k}, !.victim = victim]
    BY <1>22 DEF UnlockRead, Removable
  <2>2. UNCHANGED <<now, pc>>
    BY <1>22 DEF UnlockRead
  <2>3. ASSUME victim # {} PROVE pc[k] \in Ended \cup {"cleaned"}
    <3>1. admin.at <= Clock(k) + MaxSkew /\ ~ (Clock(k) + MaxSkew < beat[k] + TTL)
      BY <1>22, <2>1, <2>3
    <3>2. pc[k] \notin Tended
      BY <1>22, <3>1, Fresh
    <3>3. pc[k] \notin {"idle", "check", "put"}
      BY <1>22, <2>1, <2>3 DEF RefreshInv
    <3>. QED
      BY <1>22, <3>2, <3>3 DEF Stage
  <2>. QED
    BY <2>1, <2>2, <2>3
<1>23. CASE UnlockDelete
  BY <1>23 DEF UnlockDelete
<1>24. CASE Tick
  BY <1>24 DEF Tick, MayPass
<1>25. CASE UNCHANGED vars
  BY <1>25 DEF vars
<1>. QED
  BY <1>1, <1>2, <1>3, <1>4, <1>5, <1>6, <1>7, <1>8, <1>9, <1>10, <1>11, <1>12, <1>13, <1>14, <1>15, <1>16, <1>17, <1>18, <1>19, <1>20, <1>21, <1>22, <1>23, <1>24, <1>25
  DEF Next, Step, Acquisition, Failure, Unlock

-----------------------------------------------------------------------------
(***************************************************************************)
(* The heart of the protocol.  An older lock cannot land behind the back   *)
(* of a younger one that already verifies: the younger one has settled for *)
(* longer than the older put and the clock difference may take.            *)
(***************************************************************************)
LEMMA NoLateOlder ==
  ASSUME WellTimed, TypeOK, StampsInv,
         NEW p \in Proc, NEW k \in Proc, k # p,
         pc[k] = "put", pc[p] \in {"verify"} \cup Registered
  PROVE  ~ Precedes(k, p)
<1>1. created[p] + Settle <= Clock(p) /\ Clock(k) <= created[k] + PutDelay
  BY DEF StampsInv
<1>2. Clock(p) <= Clock(k) + MaxSkew
  BY TimeAssumption DEF Clock, TypeOK
<1>. QED
  BY <1>1, <1>2, TimeAssumption DEF WellTimed, Precedes, TypeOK, Clock

\* Every step keeps the order in which processes give way.
LEMMA YieldStep ==
  WellTimed /\ TypeOK /\ StampsInv /\ RefreshInv /\ YieldInv /\ [Next]_vars => YieldInv'
<1>. SUFFICES ASSUME WellTimed, TypeOK, StampsInv, RefreshInv, YieldInv, [Next]_vars
              PROVE  YieldInv'
  OBVIOUS
<1>. USE ProcAssumption
     DEF Registered, Tended, Working, Ended, Acquiring, identity, listing,
         timers, storage, TypeOK, YieldInv, InTheWay, Precedes
<1>1. ASSUME NEW p \in Proc, BeginCheck(p) PROVE YieldInv'
  BY <1>1 DEF BeginCheck, Goto, List
<1>2. ASSUME NEW p \in Proc, Refuse(p) PROVE YieldInv'
  BY <1>2 DEF Refuse, End, Goto
<1>3. ASSUME NEW p \in Proc, SendLock(p) PROVE YieldInv'
  BY <1>3 DEF SendLock, Goto, Passed
<1>4. ASSUME NEW p \in Proc, LockLands(p) PROVE YieldInv'
  <2>. SUFFICES ASSUME NEW q \in Proc, NEW k \in Proc
                PROVE /\ pc'[q] = "verify" /\ ~ blocked'[q] /\ InTheWay(k, q)' => k \in keys'[q]
                      /\ Working(q)' => ~ InTheWay(k, q)'
    OBVIOUS
  <2>1. /\ pc' = [pc EXCEPT ![p] = "settle"]
        /\ UNCHANGED <<mode, created, keys, blocked>>
    BY <1>4 DEF LockLands, Goto
  <2>2. CASE k = p /\ q # p
    <3>1. pc[q] \in {"verify"} \cup Registered => ~ Precedes(p, q)
      BY <1>4, <2>2, NoLateOlder DEF LockLands
    <3>. QED
      BY <2>1, <2>2, <3>1
  <2>3. CASE q = p
    BY <2>1, <2>3
  <2>4. CASE k # p /\ q # p
    BY <2>1, <2>4
  <2>. QED
    BY <2>2, <2>3, <2>4
<1>5. ASSUME NEW p \in Proc, BeginVerify(p) PROVE YieldInv'
  <2>. SUFFICES ASSUME NEW q \in Proc, NEW k \in Proc
                PROVE /\ pc'[q] = "verify" /\ ~ blocked'[q] /\ InTheWay(k, q)' => k \in keys'[q]
                      /\ Working(q)' => ~ InTheWay(k, q)'
    OBVIOUS
  <2>1. /\ pc[p] = "settle"
        /\ pc' = [pc EXCEPT ![p] = "verify"]
        /\ keys' = [keys EXCEPT ![p] = files]
        /\ UNCHANGED <<mode, created, blocked>>
    BY <1>5 DEF BeginVerify, Goto, List, Settled
  <2>2. InTheWay(k, q)' <=> InTheWay(k, q)
    BY <2>1
  <2>3. CASE q = p
    <3>1. pc[k] \in Tended => k \in files
      BY DEF RefreshInv
    <3>. QED
      BY <2>1, <2>2, <2>3, <3>1
  <2>4. CASE q # p
    BY <2>1, <2>2, <2>4
  <2>. QED
    BY <2>3, <2>4
<1>6. ASSUME NEW p \in Proc, Yield(p) PROVE YieldInv'
  BY <1>6 DEF Yield, End, Goto, Delete
<1>7. ASSUME NEW p \in Proc, Acquire(p) PROVE YieldInv'
  BY <1>7 DEF Acquire, Goto, Passed, FirstBeat
<1>8. ASSUME NEW p \in Proc, Heartbeat(p) PROVE YieldInv'
  BY <1>8 DEF Heartbeat, HasTask, Stamp
<1>9. ASSUME NEW p \in Proc, PutLands(p) PROVE YieldInv'
  BY <1>9 DEF PutLands, LandedBeat
<1>10. ASSUME NEW p \in Proc, ListFails(p) PROVE YieldInv'
  BY <1>10 DEF ListFails, End, Goto, Settled, AfterFailedList
<1>11. ASSUME NEW p \in Proc, SendFails(p) PROVE YieldInv'
  BY <1>11 DEF SendFails, End, Goto
<1>12. ASSUME NEW p \in Proc, HeartbeatFails(p) PROVE YieldInv'
  BY <1>12 DEF HeartbeatFails
<1>13. ASSUME NEW p \in Proc, PutLost(p) PROVE YieldInv'
  BY <1>13 DEF PutLost
<1>14. ASSUME NEW p \in Proc, FailExit(p) PROVE YieldInv'
  BY <1>14 DEF FailExit, End, Goto
<1>15. ASSUME NEW p \in Proc, Interrupt(p) PROVE YieldInv'
  BY <1>15 DEF Interrupt, Goto
<1>16. ASSUME NEW p \in Proc, Crash(p) PROVE YieldInv'
  BY <1>16 DEF Crash, End, Goto
<1>17. ASSUME NEW p \in Proc, Release(p) PROVE YieldInv'
  BY <1>17 DEF Release, End, Goto, Delete
<1>18. ASSUME NEW p \in Proc, CleanupDelete(p) PROVE YieldInv'
  BY <1>18 DEF CleanupDelete, Goto, Delete
<1>19. ASSUME NEW p \in Proc, InterruptExit(p) PROVE YieldInv'
  BY <1>19 DEF InterruptExit, End, Goto
<1>20. ASSUME NEW p \in Proc, NEW k \in Proc, ReadLock(p, k) PROVE YieldInv'
  <2>. SUFFICES ASSUME NEW q \in Proc, NEW l \in Proc,
                       pc[q] = "verify", ~ blocked'[q], InTheWay(l, q)
                PROVE l \in keys'[q]
    BY <1>20 DEF ReadLock
  <2>1. ~ blocked[q] /\ l \in keys[q]
    BY <1>20 DEF ReadLock
  <2>2. CASE q = p /\ l = k
    <3>1. l \in files /\ IsActive(l, readAt[q])
      <4>1. l \in files /\ Clock(l) + MaxSkew < beat[l] + TTL
        BY Fresh
      <4>2. readAt[q] <= Clock(q) /\ Clock(q) <= Clock(l) + MaxSkew
        BY TimeAssumption DEF StampsInv, Clock
      <4>. QED
        BY <4>1, <4>2, TimeAssumption DEF IsActive, Clock
    <3>2. MustYield(q, l)
      BY DEF MustYield
    <3>3. blocked'[q]
      BY <1>20, <2>2, <3>1, <3>2 DEF ReadLock, WellTimed
    <3>. QED
      BY <3>3
  <2>3. CASE q # p \/ l # k
    BY <1>20, <2>1, <2>3 DEF ReadLock
  <2>. QED
    BY <2>2, <2>3
<1>21. ASSUME NEW host \in Proc, NEW force \in UnlockForce, UnlockList(host, force)
      PROVE YieldInv'
  BY <1>21 DEF UnlockList
<1>22. ASSUME NEW k \in Proc, UnlockRead(k) PROVE YieldInv'
  BY <1>22 DEF UnlockRead
<1>23. CASE UnlockDelete
  BY <1>23 DEF UnlockDelete
<1>24. CASE Tick
  BY <1>24 DEF Tick, MayPass
<1>25. CASE UNCHANGED vars
  BY <1>25 DEF vars
<1>. QED
  BY <1>1, <1>2, <1>3, <1>4, <1>5, <1>6, <1>7, <1>8, <1>9, <1>10, <1>11, <1>12, <1>13, <1>14, <1>15, <1>16, <1>17, <1>18, <1>19, <1>20, <1>21, <1>22, <1>23, <1>24, <1>25
  DEF Next, Step, Acquisition, Failure, Unlock

-----------------------------------------------------------------------------
\* The invariant holds at the start.
LEMMA IInvInit == WellTimed /\ Init => IInv
  BY TypeInit, TimeAssumption
  DEF Init, IInv, StampsInv, RefreshInv, AdminInv, YieldInv, InTheWay, Tended,
      Working, Registered, Clock

\* The invariant is inductive.
LEMMA IInvStep == WellTimed /\ IInv /\ [Next]_vars => IInv'
  BY TypeStep, StampsStep, RefreshStep, AdminStep, YieldStep DEF IInv

\* The invariant implies the properties.
LEMMA IInvExclusion == WellTimed /\ IInv => Exclusion /\ LiveLockCounts
<1>. SUFFICES ASSUME WellTimed, IInv PROVE Exclusion /\ LiveLockCounts
  OBVIOUS
<1>1. Exclusion
  <2>. SUFFICES ASSUME NEW p \in Proc, NEW q \in Proc, p # q, Working(p), Working(q),
                       Conflict(mode[p], mode[q])
                PROVE FALSE
    BY DEF Exclusion
  <2>1. Precedes(p, q) \/ Precedes(q, p)
    BY ProcAssumption DEF Precedes, IInv, TypeOK
  <2>2. Conflict(mode[q], mode[p])
    BY DEF Conflict
  <2>. QED
    BY <2>1, <2>2 DEF IInv, YieldInv, InTheWay, Working, Tended
<1>2. LiveLockCounts
  <2>. SUFFICES ASSUME NEW p \in Proc, pc[p] \in Tended, NEW host \in Proc
                PROVE p \in files /\ Clock(host) < beat[p] + TTL
    BY DEF LiveLockCounts, IInv, RefreshInv
  <2>1. p \in files /\ Clock(p) + MaxSkew < beat[p] + TTL
    BY Fresh DEF IInv
  <2>2. Clock(host) <= Clock(p) + MaxSkew
    BY TimeAssumption DEF Clock, IInv, TypeOK
  <2>. QED
    BY <2>1, <2>2, TimeAssumption DEF Clock, IInv, TypeOK
<1>. QED
  BY <1>1, <1>2

(***************************************************************************)
(* With well-timed puts, clocks and heartbeats the protocol of acquire_raw *)
(* keeps conflicting commands apart.                                       *)
(***************************************************************************)
THEOREM LockExclusion == ASSUME WellTimed PROVE Spec => []Exclusion
<1>1. Init => IInv
  BY IInvInit
<1>2. IInv /\ [Next]_vars => IInv'
  BY IInvStep
<1>3. IInv => Exclusion
  BY IInvExclusion
<1>. QED
  BY <1>1, <1>2, <1>3, PTL DEF Spec

(***************************************************************************)
(* No listing and no `dumper unlock' takes a lock that is in use for a     *)
(* stale one.                                                              *)
(***************************************************************************)
THEOREM LockKeptAlive == ASSUME WellTimed PROVE Spec => []LiveLockCounts
<1>1. Init => IInv
  BY IInvInit
<1>2. IInv /\ [Next]_vars => IInv'
  BY IInvStep
<1>3. IInv => LiveLockCounts
  BY IInvExclusion
<1>. QED
  BY <1>1, <1>2, <1>3, PTL DEF Spec

-----------------------------------------------------------------------------
(***************************************************************************)
(* Nobody is turned away for nothing.  A lock file is of a process that    *)
(* has stamped it; who is refused has come upon one, and who yields has    *)
(* come upon an older one.  The stamps are never changed afterwards.       *)
(***************************************************************************)
Stamped(k) == pc[k] \notin {"idle", "check", "refused"}

ReasonInv ==
  /\ \A k \in Proc : k \in files \/ flight[k] # NoPut => Stamped(k)
  /\ \A p \in Proc : pc[p] \in {"idle", "put", "settle"} => ~ blocked[p]
  /\ \A p \in Proc :
       pc[p] = "refused" \/ (pc[p] = "check" /\ blocked[p])
         => \E k \in Proc : Stamped(k)
  /\ \A p \in Proc :
       pc[p] = "yielded" \/ (pc[p] = "verify" /\ blocked[p])
         => \E k \in Proc : k # p /\ Stamped(k) /\ Precedes(k, p)

\* Every step keeps the reasons.
LEMMA ReasonStep == TypeOK /\ ReasonInv /\ [Next]_vars => ReasonInv'
<1>. SUFFICES ASSUME TypeOK, ReasonInv, [Next]_vars PROVE ReasonInv'
  OBVIOUS
<1>. USE DEF Acquiring, Registered, Ended, identity, listing, timers, storage,
         TypeOK, ReasonInv, Stamped, Precedes
<1>1. ASSUME NEW p \in Proc, BeginCheck(p) PROVE ReasonInv'
  BY <1>1 DEF BeginCheck, Goto, List
<1>2. ASSUME NEW p \in Proc, Refuse(p) PROVE ReasonInv'
  BY <1>2 DEF Refuse, End, Goto
<1>3. ASSUME NEW p \in Proc, SendLock(p) PROVE ReasonInv'
  BY <1>3 DEF SendLock, Goto, Passed
<1>4. ASSUME NEW p \in Proc, LockLands(p) PROVE ReasonInv'
  BY <1>4 DEF LockLands, Goto
<1>5. ASSUME NEW p \in Proc, BeginVerify(p) PROVE ReasonInv'
  BY <1>5 DEF BeginVerify, Goto, List, Settled
<1>6. ASSUME NEW p \in Proc, Yield(p) PROVE ReasonInv'
  BY <1>6 DEF Yield, End, Goto, Delete
<1>7. ASSUME NEW p \in Proc, Acquire(p) PROVE ReasonInv'
  BY <1>7 DEF Acquire, Goto, Passed
<1>8. ASSUME NEW p \in Proc, Heartbeat(p) PROVE ReasonInv'
  BY <1>8 DEF Heartbeat, HasTask
<1>9. ASSUME NEW p \in Proc, PutLands(p) PROVE ReasonInv'
  BY <1>9 DEF PutLands
<1>10. ASSUME NEW p \in Proc, ListFails(p) PROVE ReasonInv'
  BY <1>10 DEF ListFails, End, Goto, Settled, AfterFailedList
<1>11. ASSUME NEW p \in Proc, SendFails(p) PROVE ReasonInv'
  BY <1>11 DEF SendFails, End, Goto
<1>12. ASSUME NEW p \in Proc, HeartbeatFails(p) PROVE ReasonInv'
  BY <1>12 DEF HeartbeatFails
<1>13. ASSUME NEW p \in Proc, PutLost(p) PROVE ReasonInv'
  BY <1>13 DEF PutLost
<1>14. ASSUME NEW p \in Proc, FailExit(p) PROVE ReasonInv'
  BY <1>14 DEF FailExit, End, Goto
<1>15. ASSUME NEW p \in Proc, Interrupt(p) PROVE ReasonInv'
  BY <1>15 DEF Interrupt, Goto
<1>16. ASSUME NEW p \in Proc, Crash(p) PROVE ReasonInv'
  BY <1>16 DEF Crash, End, Goto
<1>17. ASSUME NEW p \in Proc, Release(p) PROVE ReasonInv'
  BY <1>17 DEF Release, End, Goto, Delete
<1>18. ASSUME NEW p \in Proc, CleanupDelete(p) PROVE ReasonInv'
  BY <1>18 DEF CleanupDelete, Goto, Delete
<1>19. ASSUME NEW p \in Proc, InterruptExit(p) PROVE ReasonInv'
  BY <1>19 DEF InterruptExit, End, Goto
<1>20. ASSUME NEW p \in Proc, NEW k \in Proc, ReadLock(p, k) PROVE ReasonInv'
  BY <1>20 DEF ReadLock, MustYield
<1>21. CASE Unlock
  <2>1. UNCHANGED <<pc, created, blocked, flight>> /\ files' \subseteq files
    BY <1>21 DEF Unlock, UnlockList, UnlockRead, UnlockDelete
  <2>. QED
    BY <2>1
<1>22. CASE Tick
  BY <1>22 DEF Tick
<1>23. CASE UNCHANGED vars
  BY <1>23 DEF vars
<1>. QED
  BY <1>1, <1>2, <1>3, <1>4, <1>5, <1>6, <1>7, <1>8, <1>9, <1>10, <1>11, <1>12, <1>13, <1>14, <1>15, <1>16, <1>17, <1>18, <1>19, <1>20, <1>21, <1>22, <1>23
  DEF Next, Step, Acquisition, Failure

\* A set of natural numbers that is not empty has a least element.
LEMMA Least ==
  ASSUME NEW T, T \subseteq Nat, T # {}
  PROVE  \E m \in T : \A n \in T : m <= n
<1>1. PICK m \in T : \A n \in T : ~ (<<n, m>> \in OpToRel(<, Nat))
  BY NatLessThanWellFounded, WFMin
<1>2. \A n \in T : ~ (n < m)
  BY <1>1 DEF OpToRel
<1>. QED
  BY <1>2

(***************************************************************************)
(* Had all been turned away, take the oldest of those who yielded, of      *)
(* equally old ones that of the lowest lock_id: it yielded to nobody.      *)
(***************************************************************************)
LEMMA ReasonWins == TypeOK /\ ReasonInv => SomebodyWins
<1>. SUFFICES ASSUME TypeOK, ReasonInv, Proc # {},
                     \A p \in Proc : pc[p] \in {"refused", "yielded"}
              PROVE  FALSE
  BY DEF SomebodyWins
<1>. DEFINE Y == {p \in Proc : pc[p] = "yielded"}
            T == {created[p] : p \in Y}
<1>1. Y # {}
  BY DEF ReasonInv, Stamped
<1>2. PICK t \in T : \A u \in T : t <= u
  <2>1. T # {}
    BY <1>1
  <2>2. created \in [Proc -> Nat]
    BY DEF TypeOK
  <2>3. T \subseteq Nat
    BY <2>2
  <2>. QED
    BY <2>1, <2>3, Least
<1>. DEFINE E == {p \in Y : created[p] = t}
<1>3. PICK p \in E : \A q \in E : p <= q
  <2>1. \E p \in Y : created[p] = t
    BY <1>2
  <2>2. E \subseteq Nat /\ E # {}
    BY <2>1, ProcAssumption
  <2>. QED
    BY <2>2, Least
<1>4. PICK k \in Proc : k # p /\ Stamped(k) /\ Precedes(k, p)
  BY <1>3 DEF ReasonInv
<1>5. k \in Y
  BY <1>4, pc[k] \in {"refused", "yielded"} DEF Stamped
<1>6. created[k] \in Nat /\ created[p] \in Nat /\ k \in Nat /\ p \in Nat
  BY <1>3, ProcAssumption DEF TypeOK
<1>7. t <= created[k] /\ created[p] = t
  BY <1>2, <1>3, <1>5
<1>8. CASE created[k] < created[p]
  BY <1>6, <1>7, <1>8
<1>9. CASE created[k] = created[p] /\ k < p
  <2>1. k \in E
    BY <1>5, <1>7, <1>9
  <2>. QED
    BY <1>3, <1>6, <1>9, <2>1
<1>. QED
  BY <1>4, <1>8, <1>9 DEF Precedes

(***************************************************************************)
(* Acquisitions that race never all give way to one another, whatever the  *)
(* clocks, the delays and the faults of the storage.                       *)
(***************************************************************************)
THEOREM LockSomebodyWins == Spec => []SomebodyWins
<1>1. Init => TypeOK /\ ReasonInv
  BY TypeInit DEF Init, ReasonInv, Stamped, NoPut
<1>2. TypeOK /\ ReasonInv /\ [Next]_vars => (TypeOK /\ ReasonInv)'
  BY TypeStep, ReasonStep
<1>. QED
  BY <1>1, <1>2, ReasonWins, PTL DEF Spec

-----------------------------------------------------------------------------
(***************************************************************************)
(* Refinement: a step grants the lock to one process, takes it from one,   *)
(* or leaves the holders alone.                                            *)
(***************************************************************************)
LEMMA OneStage ==
  ASSUME TypeOK, NEW p \in Proc, Step(p)
  PROVE  UNCHANGED mode /\ \A q \in Proc \ {p} : pc'[q] = pc[q]
<1>1. CASE BeginCheck(p)
  BY <1>1 DEF BeginCheck, Goto, TypeOK, identity
<1>2. CASE Refuse(p)
  BY <1>2 DEF Refuse, End, Goto, TypeOK, identity
<1>3. CASE SendLock(p)
  BY <1>3 DEF SendLock, Goto, TypeOK, identity
<1>4. CASE LockLands(p)
  BY <1>4 DEF LockLands, Goto, TypeOK, identity
<1>5. CASE BeginVerify(p)
  BY <1>5 DEF BeginVerify, Goto, TypeOK, identity
<1>6. CASE Yield(p)
  BY <1>6 DEF Yield, End, Goto, TypeOK, identity
<1>7. CASE Acquire(p)
  BY <1>7 DEF Acquire, Goto, TypeOK, identity
<1>8. CASE Heartbeat(p)
  BY <1>8 DEF Heartbeat, TypeOK, identity
<1>9. CASE PutLands(p)
  BY <1>9 DEF PutLands, TypeOK, identity
<1>10. CASE ListFails(p)
  BY <1>10 DEF ListFails, End, Goto, TypeOK, identity
<1>11. CASE SendFails(p)
  BY <1>11 DEF SendFails, End, Goto, TypeOK, identity
<1>12. CASE HeartbeatFails(p)
  BY <1>12 DEF HeartbeatFails, TypeOK, identity
<1>13. CASE PutLost(p)
  BY <1>13 DEF PutLost, TypeOK, identity
<1>14. CASE FailExit(p)
  BY <1>14 DEF FailExit, End, Goto, TypeOK, identity
<1>15. CASE Interrupt(p)
  BY <1>15 DEF Interrupt, Goto, TypeOK, identity
<1>16. CASE Crash(p)
  BY <1>16 DEF Crash, End, Goto, TypeOK, identity
<1>17. CASE Release(p)
  BY <1>17 DEF Release, End, Goto, TypeOK, identity
<1>18. CASE CleanupDelete(p)
  BY <1>18 DEF CleanupDelete, Goto, TypeOK, identity
<1>19. CASE InterruptExit(p)
  BY <1>19 DEF InterruptExit, End, Goto, TypeOK, identity
<1>20. CASE \E k \in Proc : ReadLock(p, k)
  BY <1>20 DEF ReadLock, identity
<1>. QED
  BY <1>1, <1>2, <1>3, <1>4, <1>5, <1>6, <1>7, <1>8, <1>9, <1>10, <1>11, <1>12, <1>13, <1>14, <1>15, <1>16, <1>17, <1>18, <1>19, <1>20 DEF Step, Acquisition, Failure

\* At the start nobody holds the lock.
LEMMA HeldInit == Init => Promise!Init
  BY DEF Init, Promise!Init, Held, Working

\* A step of the lock files is a step, or a stutter, of the lock.
LEMMA HeldStep ==
  ASSUME TypeOK, Exclusion', [Next]_vars
  PROVE  [Promise!Next]_Held
<1>1. ASSUME NEW p \in Proc, Step(p) PROVE [Promise!Next]_Held
  <2>1. UNCHANGED mode /\ \A q \in Proc \ {p} : Working(q)' <=> Working(q)
    BY <1>1, OneStage DEF Working
  <2>2. \A q \in Proc \ {p} : Held'[q] = Held[q]
    BY <2>1 DEF Held
  <2>3. Held \in [Proc -> {"free", "Shared", "Exclusive"}] /\ DOMAIN Held' = Proc
    BY DEF Held, TypeOK
  <2>4. CASE Working(p)' <=> Working(p)
    BY <2>1, <2>4 DEF Held
  <2>5. CASE Working(p)' /\ ~ Working(p)
    <3>1. Held[p] = "free" /\ Held' = [Held EXCEPT ![p] = mode[p]]
      BY <2>1, <2>5 DEF Held
    <3>2. ASSUME NEW q \in Proc \ {p}, Held[q] # "free"
          PROVE  ~ Promise!Conflict(mode[p], Held[q])
      BY <2>1, <2>5, <3>2 DEF Held, Exclusion, Conflict, Promise!Conflict
    <3>3. mode[p] \in Promise!LockType
      BY DEF TypeOK, Promise!LockType
    <3>. QED
      BY <3>1, <3>2, <3>3 DEF Promise!Next, Promise!Acquire, Promise!Grantable
  <2>6. CASE ~ Working(p)' /\ Working(p)
    <3>1. Held[p] # "free" /\ Held' = [Held EXCEPT ![p] = "free"]
      BY <2>1, <2>6 DEF Held, TypeOK
    <3>. QED
      BY <3>1 DEF Promise!Next, Promise!Release
  <2>. QED
    BY <2>4, <2>5, <2>6
<1>2. CASE Unlock \/ Tick \/ UNCHANGED vars
  BY <1>2 DEF Unlock, UnlockList, UnlockRead, UnlockDelete, Tick, vars, identity,
              Held, Working
<1>. QED
  BY <1>1, <1>2 DEF Next

(***************************************************************************)
(* The lock files of repository/lock.rs implement the lock that RWLock     *)
(* specifies.                                                              *)
(***************************************************************************)
THEOREM LockPromise == ASSUME WellTimed PROVE Spec => PromiseKept
<1>1. Init => IInv /\ Promise!Init
  BY IInvInit, HeldInit
<1>2. IInv /\ [Next]_vars => IInv'
  BY IInvStep
<1>3. IInv /\ IInv' /\ [Next]_vars => [Promise!Next]_Held
  <2>. SUFFICES ASSUME IInv, IInv', [Next]_vars PROVE [Promise!Next]_Held
    OBVIOUS
  <2>1. Exclusion'
    BY IInvExclusion, PTL
  <2>. QED
    BY <2>1, HeldStep DEF IInv
<1>. QED
  BY <1>1, <1>2, <1>3, PTL DEF Spec, PromiseKept, Promise!Spec

=============================================================================
