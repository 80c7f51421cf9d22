----------------------------- MODULE Repository -----------------------------
(***************************************************************************)
(* The commands of main.rs over the repository of repository/engine.rs.    *)
(* A repository holds content-addressed blobs and snapshots, files that    *)
(* name the blobs of one backup.  Backups add blobs, skipping those that   *)
(* are there already, and commit a snapshot last; forget removes           *)
(* snapshots, prune the blobs that no snapshot names.  Every request to    *)
(* the storage is a step of its own.                                       *)
(*                                                                         *)
(* A process is one run of a command; a backup's number is its snapshot    *)
(* id.  The repository lock is the RWLock that RepoLock implements.        *)
(***************************************************************************)
EXTENDS Naturals, FiniteSets

CONSTANTS
  Proc,       \* runs of commands, and the ids of the snapshots they commit
  Blob,       \* chunks, named by their hashes
  KeepLast,   \* --keep-last of forget
  Stalls,     \* commands that may lose their lock and still go on
  Faults      \* "delete": a blob delete fails; "readdir": a listing comes out empty

ASSUME RepositoryAssumption ==
  /\ KeepLast \in Nat
  /\ IsFiniteSet(Proc)
  /\ Stalls \subseteq Proc
  /\ Faults \subseteq {"delete", "readdir"}

VARIABLES
  held,       \* held[p]: the lock p holds
  pc,         \* pc[p]: where process p is
  clock,      \* number of backups started
  started,    \* started[p]: started_at of snapshot p
  data,       \* data[p]: the blobs of snapshot p
  snaps,      \* the snapshot files
  ever,       \* every snapshot ever committed
  blobs,      \* the blob files
  ids,        \* ids[p]: snapshot files p has still to read or delete
  seen,       \* seen[p]: snapshots p has read
  todo,       \* todo[p]: blobs p has still to store, fetch, probe or delete
  absent       \* absent[p]: the blob p found missing and is uploading

backups == <<clock, started, data>>
locals  == <<ids, seen, todo, absent>>
vars    == <<held, pc, backups, snaps, ever, blobs, locals>>

Lock == INSTANCE RWLock

Ended == {"done", "failed", "missing", "alarm"}
Stage ==
  {"idle", "backup.lock", "backup.store", "backup.put", "forget.list", "forget.lock",
   "forget.delete", "prune.lock", "prune.keys", "prune.list", "prune.sweep", "prune.release",
   "restore.lock", "restore.fetch", "verify.fetch", "check.list", "check.probe",
   "release"} \cup Ended

\* Mutant: the blob lists of the snapshots are collected, and not flattened.
ReferencedLists(S) == {data[s] : s \in S}

Referenced(S) == UNION {data[s] : s \in S}

-----------------------------------------------------------------------------
Init ==
  /\ Lock!Init
  /\ pc = [p \in Proc |-> "idle"]
  /\ clock = 0
  /\ started = [p \in Proc |-> 0]
  /\ data = [p \in Proc |-> {}]
  /\ snaps = {} /\ ever = {} /\ blobs = {}
  /\ ids = [p \in Proc |-> {}]
  /\ seen = [p \in Proc |-> {}]
  /\ todo = [p \in Proc |-> {}]
  /\ absent = [p \in Proc |-> {}]

At(p, stage) == pc[p] = stage

Go(p, from, to) == pc[p] = from /\ pc' = [pc EXCEPT ![p] = to]

Reset(p) ==
  /\ ids' = [ids EXCEPT ![p] = {}]
  /\ seen' = [seen EXCEPT ![p] = {}]
  /\ todo' = [todo EXCEPT ![p] = {}]
  /\ absent' = [absent EXCEPT ![p] = {}]

\* The command ends well and gives back its lock, if it took one.
Finish(p) ==
  /\ pc' = [pc EXCEPT ![p] = "done"]
  /\ held' = [held EXCEPT ![p] = "free"]
  /\ Reset(p)
  /\ UNCHANGED <<backups, snaps, ever, blobs>>

\* The command ends with an error: its lock file stays behind.
Fail(p) ==
  /\ pc' = [pc EXCEPT ![p] = "failed"]
  /\ Reset(p)
  /\ UNCHANGED <<held, backups, snaps, ever, blobs>>

\* Mutant: forget and prune lock like backups.
AcquireShared(p, mode, from, to) == Go(p, from, to) /\ Lock!Acquire(p, "Shared")

Acquire(p, mode, from, to) == Go(p, from, to) /\ Lock!Acquire(p, mode)

(***************************************************************************)
(* list_snapshots: list the keys, then read every file.  A file that is    *)
(* gone by then fails the whole listing.                                   *)
(***************************************************************************)
ListKeys(p) ==
  /\ ids' = [ids EXCEPT ![p] = snaps]
  /\ seen' = [seen EXCEPT ![p] = {}]
  /\ UNCHANGED <<held, backups, snaps, ever, blobs, todo, absent>>

Listing == {"forget.list", "prune.list", "check.list"}

ReadSnapshot(p, s) ==
  /\ pc[p] \in Listing
  /\ s \in ids[p] /\ s \in snaps
  /\ ids' = [ids EXCEPT ![p] = @ \ {s}]
  /\ seen' = [seen EXCEPT ![p] = @ \cup {s}]
  /\ UNCHANGED <<held, pc, backups, snaps, ever, blobs, todo, absent>>

SnapshotGone(p, s) ==
  /\ pc[p] \in Listing
  /\ s \in ids[p] /\ s \notin snaps
  /\ Fail(p)

\* LocalBackend lists a directory that it cannot read as an empty one.
UnreadableDirectory(p) ==
  /\ "readdir" \in Faults
  /\ pc[p] \in Listing
  /\ seen[p] = {} /\ ids[p] # {}
  /\ ids' = [ids EXCEPT ![p] = {}]
  /\ UNCHANGED <<held, pc, backups, snaps, ever, blobs, seen, todo, absent>>

-----------------------------------------------------------------------------
(***************************************************************************)
(* backup: stamp started_at, lock, store the chunks of the dump one by     *)
(* one, commit the snapshot, unlock.                                       *)
(***************************************************************************)
BackupStart(p, D) ==
  /\ Go(p, "idle", "backup.lock")
  /\ clock' = clock + 1
  /\ started' = [started EXCEPT ![p] = clock + 1]
  /\ data' = [data EXCEPT ![p] = D]
  /\ UNCHANGED <<held, snaps, ever, blobs, locals>>

BackupLock(p) ==
  /\ Acquire(p, "Shared", "backup.lock", "backup.store")
  /\ todo' = [todo EXCEPT ![p] = data[p]]
  /\ UNCHANGED <<backups, snaps, ever, blobs, ids, seen, absent>>

\* put_chunk, with the answer of object_exists.
ChunkExists(p, b) ==
  /\ At(p, "backup.store")
  /\ b \in todo[p] /\ b \in blobs
  /\ todo' = [todo EXCEPT ![p] = @ \ {b}]
  /\ UNCHANGED <<held, pc, backups, snaps, ever, blobs, ids, seen, absent>>

ChunkMissing(p, b) ==
  /\ Go(p, "backup.store", "backup.put")
  /\ b \in todo[p] /\ b \notin blobs
  /\ absent' = [absent EXCEPT ![p] = {b}]
  /\ UNCHANGED <<held, backups, snaps, ever, blobs, ids, seen, todo>>

PutChunk(p) ==
  /\ Go(p, "backup.put", "backup.store")
  /\ blobs' = blobs \cup absent[p]
  /\ todo' = [todo EXCEPT ![p] = @ \ absent[p]]
  /\ absent' = [absent EXCEPT ![p] = {}]
  /\ UNCHANGED <<held, backups, snaps, ever, ids, seen>>

\* Mutant: the snapshot is committed without waiting for the uploads.
UploadedAnyway(p) == TRUE

Uploaded(p) == todo[p] = {}

CommitSnapshot(p) ==
  /\ Uploaded(p)
  /\ p \notin snaps
  /\ Go(p, "backup.store", "release")
  /\ snaps' = snaps \cup {p}
  /\ ever' = ever \cup {p}
  /\ UNCHANGED <<held, backups, blobs, locals>>

-----------------------------------------------------------------------------
(***************************************************************************)
(* forget: list the snapshots and plan without a lock; lock, delete the    *)
(* planned snapshots one by one, then prune with --prune, and unlock.      *)
(***************************************************************************)
\* evaluate_retention with --keep-last, for one engine, database and tag.
NewerIn(S, s) == {t \in S : started[t] > started[s]}

\* Mutant: snapshots are sorted oldest first.
ToRemoveNewest(S) == {s \in S : Cardinality({t \in S : started[t] < started[s]}) >= KeepLast}

ToRemove(S) == {s \in S : Cardinality(NewerIn(S, s)) >= KeepLast}

ForgetList(p) == Go(p, "idle", "forget.list") /\ ListKeys(p)

Plan(p) ==
  /\ ids[p] = {}
  /\ Go(p, "forget.list", "forget.lock")
  /\ ids' = [ids EXCEPT ![p] = ToRemove(seen[p])]
  /\ seen' = [seen EXCEPT ![p] = {}]
  /\ UNCHANGED <<held, backups, snaps, ever, blobs, todo, absent>>

ForgetLock(p) ==
  /\ Acquire(p, "Exclusive", "forget.lock", "forget.delete")
  /\ UNCHANGED <<backups, snaps, ever, blobs, locals>>

\* Mutant: the plan says how many to delete, and they are the oldest then.
Oldest(S) == {s \in S : \A t \in S : started[s] <= started[t]}

DeleteSnapshotOldest(p, s) ==
  /\ At(p, "forget.delete")
  /\ s \in ids[p]
  /\ ids' = [ids EXCEPT ![p] = @ \ {s}]
  /\ snaps' = snaps \ Oldest(snaps)
  /\ UNCHANGED <<held, pc, backups, ever, blobs, seen, todo, absent>>

DeleteSnapshot(p, s) ==
  /\ At(p, "forget.delete")
  /\ s \in ids[p]
  /\ ids' = [ids EXCEPT ![p] = @ \ {s}]
  /\ snaps' = snaps \ {s}
  /\ UNCHANGED <<held, pc, backups, ever, blobs, seen, todo, absent>>

ForgetDone(p) ==
  /\ ids[p] = {}
  /\ Go(p, "forget.delete", "release")
  /\ UNCHANGED <<held, backups, snaps, ever, blobs, locals>>

-----------------------------------------------------------------------------
(***************************************************************************)
(* prune: list the snapshots, then the blobs, and delete the blobs that no *)
(* snapshot names one by one, ignoring errors.                             *)
(***************************************************************************)
PruneStart(p) ==
  /\ Go(p, "idle", "prune.lock")
  /\ UNCHANGED <<held, backups, snaps, ever, blobs, locals>>

PruneLock(p) ==
  /\ Acquire(p, "Exclusive", "prune.lock", "prune.keys")
  /\ UNCHANGED <<backups, snaps, ever, blobs, locals>>

PruneList(p) ==
  /\ ids[p] = {}
  /\ \/ Go(p, "prune.keys", "prune.list")
     \/ Go(p, "forget.delete", "prune.list")
  /\ ListKeys(p)

\* Mutant: only the blobs of snapshots are looked at, not those of failed backups.
GarbageOfSnapshots(p) == (blobs \cap Referenced(ever)) \ Referenced(seen[p])

Garbage(p) == blobs \ Referenced(seen[p])

Scan(p) ==
  /\ ids[p] = {}
  /\ Go(p, "prune.list", "prune.sweep")
  /\ todo' = [todo EXCEPT ![p] = Garbage(p)]
  /\ UNCHANGED <<held, backups, snaps, ever, blobs, ids, seen, absent>>

Sweep(p, b) ==
  /\ At(p, "prune.sweep")
  /\ b \in todo[p]
  /\ todo' = [todo EXCEPT ![p] = @ \ {b}]
  /\ \/ blobs' = blobs \ {b}
     \/ "delete" \in Faults /\ UNCHANGED blobs
  /\ UNCHANGED <<held, pc, backups, snaps, ever, ids, seen, absent>>

SweepDone(p) ==
  /\ todo[p] = {}
  /\ Go(p, "prune.sweep", "prune.release")
  /\ UNCHANGED <<held, backups, snaps, ever, blobs, locals>>

-----------------------------------------------------------------------------
(***************************************************************************)
(* restore: find the snapshot, then lock, and fetch its blobs one by one.  *)
(* verify does the same without the lock.                                  *)
(***************************************************************************)
FindSnapshot(p, s, stage) ==
  /\ s \in snaps
  /\ Go(p, "idle", stage)
  /\ seen' = [seen EXCEPT ![p] = {s}]
  /\ todo' = [todo EXCEPT ![p] = data[s]]
  /\ UNCHANGED <<held, backups, snaps, ever, blobs, ids, absent>>

RestoreLock(p) ==
  /\ Acquire(p, "Shared", "restore.lock", "restore.fetch")
  /\ UNCHANGED <<backups, snaps, ever, blobs, locals>>

Fetching == {"restore.fetch", "verify.fetch"}

FetchChunk(p, b) ==
  /\ pc[p] \in Fetching
  /\ b \in todo[p] /\ b \in blobs
  /\ todo' = [todo EXCEPT ![p] = @ \ {b}]
  /\ UNCHANGED <<held, pc, backups, snaps, ever, blobs, ids, seen, absent>>

FetchFails(p, b) ==
  /\ pc[p] \in Fetching
  /\ b \in todo[p] /\ b \notin blobs
  /\ pc' = [pc EXCEPT ![p] = "missing"]
  /\ UNCHANGED <<held, backups, snaps, ever, blobs, locals>>

FetchDone(p) ==
  /\ pc[p] \in Fetching
  /\ todo[p] = {}
  /\ Finish(p)

(***************************************************************************)
(* check: list the snapshots, then ask for every blob they name, without a *)
(* lock.  It ends with an integrity error if some were missing.            *)
(***************************************************************************)
CheckList(p) == Go(p, "idle", "check.list") /\ ListKeys(p)

CheckBlobs(p) ==
  /\ ids[p] = {}
  /\ Go(p, "check.list", "check.probe")
  /\ todo' = [todo EXCEPT ![p] = Referenced(seen[p])]
  /\ UNCHANGED <<held, backups, snaps, ever, blobs, ids, seen, absent>>

Probe(p, b) ==
  /\ At(p, "check.probe")
  /\ b \in todo[p]
  /\ todo' = [todo EXCEPT ![p] = @ \ {b}]
  /\ absent' = [absent EXCEPT ![p] = @ \cup ({b} \ blobs)]
  /\ UNCHANGED <<held, pc, backups, snaps, ever, blobs, ids, seen>>

CheckPassed(p) ==
  /\ At(p, "check.probe")
  /\ todo[p] = {} /\ absent[p] = {}
  /\ Finish(p)

CheckFailed(p) ==
  /\ todo[p] = {} /\ absent[p] # {}
  /\ Go(p, "check.probe", "alarm")
  /\ UNCHANGED <<held, backups, snaps, ever, blobs, locals>>

-----------------------------------------------------------------------------
Release(p) == pc[p] \in {"release", "prune.release"} /\ Finish(p)

\* The lock is refused, a request fails, or the process is killed.
Abort(p) == pc[p] \notin {"idle"} \cup Ended /\ Fail(p)

(***************************************************************************)
(* A lock stops counting: the heartbeat of a dead command went stale, or   *)
(* that of a live one (Stalls), whose lock an interrupt may also have      *)
(* removed; nothing tells the command, which goes on.                      *)
(***************************************************************************)
Expire(p) ==
  /\ pc[p] \in Ended \/ p \in Stalls
  /\ held[p] # "free"
  /\ held' = [held EXCEPT ![p] = "free"]
  /\ UNCHANGED <<pc, backups, snaps, ever, blobs, locals>>

Backup(p) ==
  \/ \E D \in SUBSET Blob \ {{}} : BackupStart(p, D)
  \/ BackupLock(p) \/ PutChunk(p) \/ CommitSnapshot(p)
  \/ \E b \in Blob : ChunkExists(p, b) \/ ChunkMissing(p, b)

Forget(p) ==
  \/ ForgetList(p) \/ Plan(p) \/ ForgetLock(p) \/ ForgetDone(p)
  \/ \E s \in Proc : DeleteSnapshot(p, s)

Prune(p) ==
  \/ PruneStart(p) \/ PruneLock(p) \/ PruneList(p) \/ Scan(p) \/ SweepDone(p)
  \/ \E b \in Blob : Sweep(p, b)

RestoreOrVerify(p) ==
  \/ \E s \in Proc : FindSnapshot(p, s, "restore.lock") \/ FindSnapshot(p, s, "verify.fetch")
  \/ RestoreLock(p) \/ FetchDone(p)
  \/ \E b \in Blob : FetchChunk(p, b) \/ FetchFails(p, b)

Check(p) ==
  \/ CheckList(p) \/ CheckBlobs(p) \/ CheckPassed(p) \/ CheckFailed(p)
  \/ \E b \in Blob : Probe(p, b)

ListSnapshots(p) ==
  \/ UnreadableDirectory(p)
  \/ \E s \in Proc : ReadSnapshot(p, s) \/ SnapshotGone(p, s)

Next ==
  \E p \in Proc :
    \/ Backup(p) \/ Forget(p) \/ Prune(p) \/ RestoreOrVerify(p) \/ Check(p)
    \/ ListSnapshots(p) \/ Release(p) \/ Abort(p) \/ Expire(p)

Spec == Init /\ [][Next]_vars

-----------------------------------------------------------------------------
(***************************************************************************)
(* Types.  Only a snapshot that was committed has a file.                  *)
(***************************************************************************)
TypeOK ==
  /\ Lock!TypeOK
  /\ pc \in [Proc -> Stage]
  /\ clock \in Nat
  /\ started \in [Proc -> Nat]
  /\ data \in [Proc -> SUBSET Blob]
  /\ snaps \subseteq ever /\ ever \subseteq Proc
  /\ blobs \subseteq Blob
  /\ ids \in [Proc -> SUBSET Proc] /\ seen \in [Proc -> SUBSET Proc]
  /\ todo \in [Proc -> SUBSET Blob] /\ absent \in [Proc -> SUBSET Blob]

(***************************************************************************)
(* Prune never deletes a blob that belongs to a committed snapshot, not    *)
(* even one that a backup found in the store, did not upload again and     *)
(* committed afterwards (put_chunk's deduplication against prune's sweep). *)
(***************************************************************************)
SnapshotsComplete == \A s \in snaps : data[s] \subseteq blobs

(***************************************************************************)
(* The KeepLast newest snapshots survive, although forget plans before it  *)
(* holds the lock and backups commit, and other forgets delete, meanwhile. *)
(***************************************************************************)
NewestKept ==
  \A s \in ever : Cardinality(NewerIn(ever, s)) < KeepLast => s \in snaps

(***************************************************************************)
(* Restore and verify miss a blob only if the snapshot they had found was  *)
(* forgotten meanwhile: neither holds a lock when it looks it up.          *)
(***************************************************************************)
MissingOnlyIfForgotten ==
  \A p \in Proc : pc[p] = "missing" => seen[p] \cap snaps = {}

(***************************************************************************)
(* When prune has swept, only blobs that a snapshot names are left: what   *)
(* failed backups and forgotten snapshots left behind is gone.             *)
(***************************************************************************)
PruneComplete ==
  \A p \in Proc : pc[p] = "prune.release" => blobs \subseteq Referenced(snaps)

(***************************************************************************)
(* The repository keeps SnapshotStore's promise: a committed snapshot can  *)
(* be restored, whatever the commands do, until KeepLast newer ones        *)
(* supersede it and forget removes it.                                     *)
(***************************************************************************)
Store == INSTANCE SnapshotStore WITH
  Id <- Proc,
  taken <- [s \in ever |-> started[s]],
  avail <- {s \in snaps : data[s] \subseteq blobs}

StoreKept == Store!Spec

=============================================================================
