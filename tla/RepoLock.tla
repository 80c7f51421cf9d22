------------------------------ MODULE RepoLock ------------------------------
(***************************************************************************)
(* The repository lock of src/repository/lock.rs: one file per lock in     *)
(* locks/, no atomic test-and-set in the storage, so an acquisition lists  *)
(* the lock files, writes its own, waits 500 ms and lists them again,      *)
(* yielding to an older conflicting lock.  A background task refreshes     *)
(* last_heartbeat in the file; a file whose heartbeat is older than the    *)
(* TTL does not count.                                                     *)
(*                                                                         *)
(* A process is one acquisition of the lock by one dumper command.  Its    *)
(* number is its lock_id.  Every process reads its own host's clock.       *)
(***************************************************************************)
EXTENDS Integers, FiniteSets

CONSTANTS
  Proc,        \* acquisitions; p itself is the lock_id, compared with <
  Skew,        \* Skew[p]: how far the clock of p's host is ahead of `now'
  MaxSkew,     \* largest difference between the clocks of two hosts
  Settle,      \* the sleep between writing the file and verifying it (500 ms)
  PutDelay,    \* longest time from stamping created_at to the file landing
  AcqTime,     \* longest time from stamping created_at to holding the lock
  Interval,    \* heartbeat interval (60 s)
  Lag,         \* longest a heartbeat is late to start, and to land
  Grace,       \* longest run of Intervals whose heartbeats are lost
  TTL,         \* age at which a heartbeat is stale (15 min)
  Faults,      \* storage operations that may fail: "list", "get", "put",
               \* "delete", "heartbeat"
  UnlockForce, \* values of --force that `dumper unlock' is run with
  MaxTime      \* bound on the clock

NoPut == -1    \* no write of the lock file is under way

ASSUME ProcAssumption == Proc \subseteq Nat
ASSUME TimeAssumption ==
  /\ {MaxSkew, Settle, PutDelay, AcqTime, Interval, Lag, Grace, TTL, MaxTime}
       \subseteq Nat
  /\ PutDelay + Settle <= AcqTime
  /\ Skew \in [Proc -> Nat]
  /\ \A p, q \in Proc : Skew[p] <= Skew[q] + MaxSkew
ASSUME FaultAssumption ==
  /\ Faults \subseteq {"list", "get", "put", "delete", "heartbeat"}
  /\ UnlockForce \subseteq BOOLEAN

(***************************************************************************)
(* The timing that makes the protocol sound: settling outlasts a slow put  *)
(* and the clock difference, a refreshed file never looks stale, lock      *)
(* files can be read, and nobody removes live locks by force.  The code    *)
(* enforces none of it: it sleeps for a fixed time and never checks.       *)
(***************************************************************************)
WellTimed ==
  /\ PutDelay + MaxSkew < Settle
  /\ Lag <= Interval
  /\ AcqTime + Interval + 2 * Lag + Grace + MaxSkew < TTL
  /\ "get" \notin Faults
  /\ UnlockForce \subseteq {FALSE}

VARIABLES
  now,      \* true time
  pc,       \* pc[p]: where process p is
  mode,     \* mode[p]: the lock type it asks for
  keys,     \* keys[p]: listed lock files it has still to read
  readAt,   \* readAt[p]: the clock value its current listing judges ages by
  blocked,  \* blocked[p]: some file it read makes it give up
  created,  \* created[p]: created_at in its LockInfo
  wake,     \* wake[p]: when its settle sleep ends
  files,    \* the processes whose lock file exists
  beat,     \* beat[k]: last_heartbeat in the file of k
  flight,   \* flight[p]: heartbeat in the put p has sent, or NoPut
  due,      \* due[p]: next tick of its heartbeat interval
  lost,     \* lost[p]: Intervals of heartbeats lost since the last to land
  admin     \* the `dumper unlock' command

identity == <<mode, created>>
listing  == <<keys, readAt, blocked>>
timers   == <<wake, due, lost>>
storage  == <<files, beat, flight>>
vars == <<now, pc, identity, listing, timers, storage, admin>>

Clock(p) == now + Skew[p]

(***************************************************************************)
(* Stages of a process.  A registered process has a heartbeat task and,    *)
(* until an interrupt drains it, an entry in ACTIVE_CLEANUPS.              *)
(***************************************************************************)
Acquiring  == {"check", "put", "settle", "verify"}
Registered == {"held", "cleaning", "cleaned"}
Ended      == {"refused", "yielded", "released", "failed", "errored", "killed"}
Stage      == {"idle"} \cup Acquiring \cup Registered \cup Ended

\* The file has landed and its owner still relies on it.
Tended == {"settle", "verify", "held", "cleaning"}

\* The command may touch the repository and its lock was not given up.
Working(p) == pc[p] \in {"held", "cleaning"}

-----------------------------------------------------------------------------
(***************************************************************************)
(* Judging a lock file.                                                    *)
(***************************************************************************)
IsActive(k, at) == at - beat[k] < TTL

Conflict(m, other) == m = "Exclusive" \/ other = "Exclusive"

\* Mutant: a tie that both sides lose.
PrecedesAlways(k, p) == created[k] <= created[p]

\* Older, or stamped at the same time with the lower lock_id.
Precedes(k, p) ==
  created[k] < created[p] \/ (created[k] = created[p] /\ k < p)

MustYield(p, k) == k # p /\ Conflict(mode[p], mode[k]) /\ Precedes(k, p)

\* Mutant: age is counted from created_at instead of last_heartbeat.
RemovableByCreation(k) ==
  (k \in files /\ admin.at - created[k] >= TTL) \/ admin.force

Removable(k) == (k \in files /\ admin.at - beat[k] >= TTL) \/ admin.force

-----------------------------------------------------------------------------
Init ==
  /\ now = 0
  /\ pc = [p \in Proc |-> "idle"]
  /\ mode \in [Proc -> {"Shared", "Exclusive"}]
  /\ created = [p \in Proc |-> 0]
  /\ keys = [p \in Proc |-> {}]
  /\ readAt = [p \in Proc |-> 0]
  /\ blocked = [p \in Proc |-> FALSE]
  /\ wake = [p \in Proc |-> 0]
  /\ due = [p \in Proc |-> 0]
  /\ lost = [p \in Proc |-> 0]
  /\ files = {}
  /\ beat = [p \in Proc |-> 0]
  /\ flight = [p \in Proc |-> NoPut]
  /\ admin = [todo |-> {}, at |-> 0, force |-> FALSE, victim |-> {}]

Goto(p, stage) == pc' = [pc EXCEPT ![p] = stage]

\* The command ends and its locals go out of scope.
End(p, stage) ==
  /\ Goto(p, stage)
  /\ keys' = [keys EXCEPT ![p] = {}]
  /\ readAt' = [readAt EXCEPT ![p] = 0]
  /\ blocked' = [blocked EXCEPT ![p] = FALSE]
  /\ wake' = [wake EXCEPT ![p] = 0]
  /\ due' = [due EXCEPT ![p] = 0]
  /\ lost' = [lost EXCEPT ![p] = 0]

\* A delete whose error is ignored or only ends the command.
Delete(k) ==
  \/ files' = files \ {k}
  \/ "delete" \in Faults /\ UNCHANGED files

(***************************************************************************)
(* list_active_locks: list the keys, take the time, then get the files one *)
(* by one.  A file that is gone or cannot be read is skipped.              *)
(***************************************************************************)
List(p) ==
  /\ keys' = [keys EXCEPT ![p] = files]
  /\ readAt' = [readAt EXCEPT ![p] = Clock(p)]
  /\ UNCHANGED blocked

ReadLock(p, k) ==
  /\ pc[p] \in {"check", "verify"}
  /\ k \in keys[p]
  /\ keys' = [keys EXCEPT ![p] = @ \ {k}]
  /\ \/ /\ k \in files
        /\ blocked' = [blocked EXCEPT ![p] =
             @ \/ /\ IsActive(k, readAt[p])
                  /\ IF pc[p] = "check" THEN Conflict(mode[p], mode[k])
                                        ELSE MustYield(p, k)]
     \/ /\ k \notin files \/ "get" \in Faults
        /\ UNCHANGED blocked
  /\ UNCHANGED <<now, pc, identity, readAt, timers, storage, admin>>

\* All the listed files are read and none of them is in the way.
Passed(p) ==
  /\ keys[p] = {} /\ ~ blocked[p]
  /\ readAt' = [readAt EXCEPT ![p] = 0]
  /\ UNCHANGED <<keys, blocked>>

(***************************************************************************)
(* Phase 1: check the existing locks; give up, or stamp created_at and     *)
(* send the file.                                                          *)
(***************************************************************************)
BeginCheck(p) ==
  /\ pc[p] = "idle"
  /\ Goto(p, "check")
  /\ List(p)
  /\ UNCHANGED <<now, identity, timers, storage, admin>>

Refuse(p) ==
  /\ pc[p] = "check" /\ keys[p] = {} /\ blocked[p]
  /\ End(p, "refused")
  /\ UNCHANGED <<now, identity, storage, admin>>

SendLock(p) ==
  /\ pc[p] = "check" /\ Passed(p)
  /\ Goto(p, "put")
  /\ created' = [created EXCEPT ![p] = Clock(p)]
  /\ flight' = [flight EXCEPT ![p] = Clock(p)]
  /\ UNCHANGED <<now, mode, timers, files, beat, admin>>

\* Mutant: the settle sleep does not cover the clock difference.
WakeAtShort(p) == now + Settle - MaxSkew

WakeAt(p) == now + Settle

LockLands(p) ==
  /\ pc[p] = "put"
  /\ Goto(p, "settle")
  /\ files' = files \cup {p}
  /\ beat' = [beat EXCEPT ![p] = flight[p]]
  /\ flight' = [flight EXCEPT ![p] = NoPut]
  /\ wake' = [wake EXCEPT ![p] = WakeAt(p)]
  /\ UNCHANGED <<now, identity, listing, due, lost, admin>>

\* The put returns an error; the request may still reach the storage.
SendFails(p) ==
  /\ "put" \in Faults
  /\ pc[p] = "put"
  /\ End(p, "errored")
  /\ UNCHANGED <<now, identity, storage, admin>>

(***************************************************************************)
(* Phase 2: after the settle sleep list again; yield to an older lock, or  *)
(* hold the lock, register its cleanup and start the heartbeat task.       *)
(***************************************************************************)
Settled(p) == pc[p] = "settle" /\ now >= wake[p]

BeginVerify(p) ==
  /\ Settled(p)
  /\ Goto(p, "verify")
  /\ List(p)
  /\ wake' = [wake EXCEPT ![p] = 0]
  /\ UNCHANGED <<now, identity, due, lost, storage, admin>>

\* Mutant: a verification that cannot list the locks is taken as passed.
AfterFailedListHeld == "held"

AfterFailedList == "errored"

ListFails(p) ==
  /\ "list" \in Faults
  /\ pc[p] = "idle" \/ Settled(p)
  /\ End(p, AfterFailedList)
  /\ UNCHANGED <<now, identity, storage, admin>>

Yield(p) ==
  /\ pc[p] = "verify" /\ keys[p] = {} /\ blocked[p]
  /\ End(p, "yielded")
  /\ Delete(p)
  /\ UNCHANGED <<now, identity, beat, flight, admin>>

FirstBeat(p) == now + Interval

Acquire(p) ==
  /\ pc[p] = "verify" /\ Passed(p)
  /\ Goto(p, "held")
  /\ due' = [due EXCEPT ![p] = FirstBeat(p)]
  /\ UNCHANGED <<now, identity, wake, lost, storage, admin>>

-----------------------------------------------------------------------------
(***************************************************************************)
(* The heartbeat task: at every tick of the interval, stamp the time and   *)
(* rewrite the file, ignoring errors and without looking whether the file  *)
(* is still there.  Aborting the task does not recall a request that is    *)
(* under way, so a put may land after its owner has ended.                 *)
(***************************************************************************)
HasTask(p) == pc[p] \in Registered

\* Mutant: the lock is stamped for the time of its next heartbeat.
StampAhead(p) == Clock(p) + Interval

Stamp(p) == Clock(p)

Heartbeat(p) ==
  /\ HasTask(p)
  /\ flight[p] = NoPut
  /\ now >= due[p]
  /\ flight' = [flight EXCEPT ![p] = Stamp(p)]
  /\ due' = [due EXCEPT ![p] = @ + Interval]
  /\ UNCHANGED <<now, pc, identity, listing, wake, lost, files, beat, admin>>

\* Mutant: the request is taken down before its stamp is used.
LandedBeatNone(p) == NoPut

LandedBeat(p) == flight[p]

PutLands(p) ==
  /\ pc[p] # "put"
  /\ flight[p] # NoPut
  /\ files' = files \cup {p}
  /\ beat' = [beat EXCEPT ![p] = LandedBeat(p)]
  /\ flight' = [flight EXCEPT ![p] = NoPut]
  /\ lost' = [lost EXCEPT ![p] = 0]
  /\ UNCHANGED <<now, pc, identity, listing, wake, due, admin>>

HeartbeatFails(p) ==
  /\ "heartbeat" \in Faults
  /\ pc[p] \in Registered
  /\ flight[p] # NoPut
  /\ lost[p] + Interval <= Grace
  /\ flight' = [flight EXCEPT ![p] = NoPut]
  /\ lost' = [lost EXCEPT ![p] = @ + Interval]
  /\ UNCHANGED <<now, pc, identity, listing, wake, due, files, beat, admin>>

\* The put of an ended process never reaches the storage.
PutLost(p) ==
  /\ pc[p] \in Ended
  /\ flight[p] # NoPut
  /\ flight' = [flight EXCEPT ![p] = NoPut]
  /\ UNCHANGED <<now, pc, identity, listing, timers, files, beat, admin>>

-----------------------------------------------------------------------------
\* lock.release(): abort the heartbeat, unregister, delete the file.
Release(p) ==
  /\ pc[p] \in Registered
  /\ End(p, "released")
  /\ Delete(p)
  /\ UNCHANGED <<now, identity, beat, flight, admin>>

(***************************************************************************)
(* The command returns an error.  Dropping the guard unregisters the lock  *)
(* and only spawns the delete; main then finds nothing registered to clean *)
(* up, awaits nothing and calls process::exit, so on the current_thread    *)
(* runtime the spawned delete never runs: one step, the file stays.        *)
(***************************************************************************)
FailExit(p) ==
  /\ pc[p] \in Registered
  /\ End(p, "failed")
  /\ UNCHANGED <<now, identity, storage, admin>>

(***************************************************************************)
(* SIGINT or SIGTERM: cleanup_all_active deletes the registered locks, and *)
(* the process exits.  Nothing stops the command or its heartbeat task     *)
(* meanwhile.  Before the lock is registered the signal is like a crash.   *)
(***************************************************************************)
Interrupt(p) ==
  /\ pc[p] = "held"
  /\ Goto(p, "cleaning")
  /\ UNCHANGED <<now, identity, listing, timers, storage, admin>>

CleanupDelete(p) ==
  /\ pc[p] = "cleaning"
  /\ Goto(p, "cleaned")
  /\ Delete(p)
  /\ UNCHANGED <<now, identity, listing, timers, beat, flight, admin>>

InterruptExit(p) ==
  /\ pc[p] = "cleaned"
  /\ End(p, "killed")
  /\ UNCHANGED <<now, identity, storage, admin>>

Crash(p) ==
  /\ pc[p] \in Acquiring \cup Registered
  /\ End(p, "killed")
  /\ UNCHANGED <<now, identity, storage, admin>>

-----------------------------------------------------------------------------
(***************************************************************************)
(* dumper unlock: list the files, take the time, and for each file read it *)
(* and delete it if it was stale (or in any case, with --force).  The      *)
(* delete is a request of its own.  It runs on the host of some process.   *)
(***************************************************************************)
UnlockList(host, force) ==
  /\ admin.todo = {} /\ admin.victim = {}
  /\ files # {}
  /\ admin' = [todo |-> files, at |-> Clock(host), force |-> force, victim |-> {}]
  /\ UNCHANGED <<now, pc, identity, listing, timers, storage>>

UnlockRead(k) ==
  /\ k \in admin.todo
  /\ admin.victim = {}
  /\ \E victim \in SUBSET {k} :
       /\ \/ victim = IF Removable(k) THEN {k} ELSE {}
          \/ "get" \in Faults /\ ~ admin.force /\ victim = {}
       /\ admin' = [admin EXCEPT !.todo = @ \ {k}, !.victim = victim]
  /\ UNCHANGED <<now, pc, identity, listing, timers, storage>>

UnlockDelete ==
  /\ admin.victim # {}
  /\ \/ files' = files \ admin.victim
     \/ "delete" \in Faults /\ UNCHANGED files
  /\ admin' = [admin EXCEPT !.victim = {}]
  /\ UNCHANGED <<now, pc, identity, listing, timers, beat, flight>>

Unlock ==
  \/ \E host \in Proc, force \in UnlockForce : UnlockList(host, force)
  \/ \E k \in Proc : UnlockRead(k)
  \/ UnlockDelete

(***************************************************************************)
(* Time passes, but not beyond what the environment is assumed to keep: a  *)
(* first write lands within PutDelay and its process holds the lock (or    *)
(* gave up) within AcqTime; a live holder starts a heartbeat at most Lag   *)
(* after it is due, and that lands, or fails, within Lag.                  *)
(***************************************************************************)
MayPass(p) ==
  /\ pc[p] = "put" => Clock(p) < created[p] + PutDelay
  /\ pc[p] \in {"settle", "verify"} => Clock(p) < created[p] + AcqTime
  /\ Working(p) => IF flight[p] = NoPut THEN now < due[p] + Lag
                                        ELSE Clock(p) < flight[p] + Lag

Tick ==
  /\ now < MaxTime
  /\ \A p \in Proc : MayPass(p)
  /\ now' = now + 1
  /\ UNCHANGED <<pc, identity, listing, timers, storage, admin>>

Acquisition(p) ==
  \/ BeginCheck(p) \/ (\E k \in Proc : ReadLock(p, k)) \/ Refuse(p)
  \/ SendLock(p) \/ LockLands(p) \/ BeginVerify(p) \/ Yield(p) \/ Acquire(p)

Failure(p) ==
  \/ ListFails(p) \/ SendFails(p) \/ HeartbeatFails(p) \/ PutLost(p)
  \/ FailExit(p) \/ Interrupt(p) \/ Crash(p)

Step(p) ==
  \/ Acquisition(p) \/ Heartbeat(p) \/ PutLands(p) \/ Failure(p)
  \/ Release(p) \/ CleanupDelete(p) \/ InterruptExit(p)

Next == (\E p \in Proc : Step(p)) \/ Unlock \/ Tick

Spec == Init /\ [][Next]_vars

(***************************************************************************)
(* The runtime polls its tasks and the storage answers: an acquisition, a  *)
(* heartbeat, a cleanup and the clock proceed.  Commands need not end,     *)
(* nothing needs to fail, and nobody needs to run `dumper unlock'.         *)
(***************************************************************************)
Fairness ==
  /\ WF_vars(Tick)
  /\ \A p \in Proc :
       /\ WF_vars(Acquisition(p))
       /\ WF_vars(Heartbeat(p))
       /\ WF_vars(PutLands(p))
       /\ WF_vars(CleanupDelete(p) \/ InterruptExit(p))

FairSpec == Spec /\ Fairness

-----------------------------------------------------------------------------
(***************************************************************************)
(* Every variable stays within its domain, and an acquisition in its put   *)
(* has a request under way (LockInfo and the locals of acquire_raw, of the *)
(* heartbeat task and of unlock_all).                                      *)
(***************************************************************************)
TypeOK ==
  /\ now \in Nat
  /\ pc \in [Proc -> Stage]
  /\ mode \in [Proc -> {"Shared", "Exclusive"}]
  /\ keys \in [Proc -> SUBSET Proc]
  /\ readAt \in [Proc -> Nat]
  /\ blocked \in [Proc -> BOOLEAN]
  /\ created \in [Proc -> Nat]
  /\ wake \in [Proc -> Nat]
  /\ files \in SUBSET Proc
  /\ beat \in [Proc -> Nat]
  /\ flight \in [Proc -> Nat \cup {NoPut}]
  /\ \A p \in Proc : pc[p] = "put" => flight[p] # NoPut
  /\ due \in [Proc -> Nat]
  /\ lost \in [Proc -> Nat]
  /\ admin \in [todo : SUBSET Proc, at : Nat, force : BOOLEAN, victim : SUBSET Proc]

(***************************************************************************)
(* Two commands that hold conflicting locks never work at the same time:   *)
(* the purpose of acquire_raw's write, settle and verify protocol.         *)
(***************************************************************************)
Exclusion ==
  \A p, q \in Proc :
    p # q /\ Working(p) /\ Working(q) => ~ Conflict(mode[p], mode[q])

(***************************************************************************)
(* While a command relies on its lock the file is in the storage and is    *)
(* judged active by every listing of every host, so that neither           *)
(* list_active_locks nor `dumper unlock' without --force mistakes a live   *)
(* lock for a stale one, however they interleave with the heartbeats.      *)
(***************************************************************************)
LiveLockCounts ==
  \A p \in Proc :
    pc[p] \in Tended =>
      /\ p \in files
      /\ \A host \in Proc : Clock(host) < beat[p] + TTL

(***************************************************************************)
(* Acquisitions that race never all give way to one another: if every      *)
(* process was turned away, by the check of phase 1 or by yielding in      *)
(* phase 2, somebody must have got through (the age and lock_id            *)
(* tie-breaker of acquire_raw is a total order).                           *)
(***************************************************************************)
SomebodyWins ==
  Proc # {} => \E p \in Proc : pc[p] \notin {"refused", "yielded"}

(***************************************************************************)
(* A lock file left behind, by a crash, an interrupt, an error exit or a   *)
(* heartbeat that landed after the release, stops counting for every host: *)
(* nobody is locked out for longer than the TTL and the clock difference.  *)
(***************************************************************************)
LeftoversExpire ==
  \A p \in Proc :
    (pc[p] \in Ended /\ now + TTL + MaxSkew <= MaxTime)
      ~> (p \notin files \/ \A host \in Proc : Clock(host) >= beat[p] + TTL)

(***************************************************************************)
(* The lock as its users see it: granted when the verification has passed, *)
(* given up when the command ends or its file is deleted.  It behaves as   *)
(* RWLock says.                                                            *)
(***************************************************************************)
Held == [p \in Proc |-> IF Working(p) THEN mode[p] ELSE "free"]

Promise == INSTANCE RWLock WITH held <- Held

PromiseKept == Promise!Spec

=============================================================================
