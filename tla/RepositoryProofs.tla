-------------------------- MODULE RepositoryProofs --------------------------
(***************************************************************************)
(* Proofs about Repository, for any number of commands, blobs and kept     *)
(* snapshots.                                                              *)
(***************************************************************************)
EXTENDS Repository, FiniteSetTheorems, TLAPS

\* The types hold at the start.
LEMMA TypeInit == Init => TypeOK
  BY DEF Init, Lock!Init, TypeOK, Lock!TypeOK, Lock!LockType, Stage, Ended

\* Every step keeps the types.
LEMMA TypeStep ==
  ASSUME TypeOK, [Next]_vars
  PROVE  TypeOK'
<1> USE DEF At, Go, vars, backups, locals, TypeOK, Lock!TypeOK, Lock!LockType,
      Stage, Ended
<1>1. ASSUME NEW p \in Proc, Backup(p) PROVE TypeOK'
  <2>1. ASSUME NEW D \in SUBSET Blob \ {{}}, BackupStart(p, D) PROVE TypeOK'
    BY <2>1 DEF BackupStart
  <2>2. ASSUME BackupLock(p) PROVE TypeOK'
    BY <2>2 DEF BackupLock, Acquire, Lock!Acquire
  <2>3. ASSUME NEW b \in Blob, ChunkExists(p, b) PROVE TypeOK'
    BY <2>3 DEF ChunkExists
  <2>4. ASSUME NEW b \in Blob, ChunkMissing(p, b) PROVE TypeOK'
    BY <2>4 DEF ChunkMissing
  <2>5. ASSUME PutChunk(p) PROVE TypeOK'
    BY <2>5 DEF PutChunk
  <2>6. ASSUME CommitSnapshot(p) PROVE TypeOK'
    BY <2>6 DEF CommitSnapshot, Uploaded
  <2> QED BY <1>1, <2>1, <2>2, <2>3, <2>4, <2>5, <2>6 DEF Backup
<1>2. ASSUME NEW p \in Proc, Forget(p) PROVE TypeOK'
  <2>1. ASSUME ForgetList(p) PROVE TypeOK'
    BY <2>1 DEF ForgetList, ListKeys
  <2>2. ASSUME Plan(p) PROVE TypeOK'
    BY <2>2 DEF Plan, ToRemove
  <2>3. ASSUME ForgetLock(p) PROVE TypeOK'
    BY <2>3 DEF ForgetLock, Acquire, Lock!Acquire
  <2>4. ASSUME NEW s \in Proc, DeleteSnapshot(p, s) PROVE TypeOK'
    BY <2>4 DEF DeleteSnapshot
  <2>5. ASSUME ForgetDone(p) PROVE TypeOK'
    BY <2>5 DEF ForgetDone
  <2> QED BY <1>2, <2>1, <2>2, <2>3, <2>4, <2>5 DEF Forget
<1>3. ASSUME NEW p \in Proc, Prune(p) PROVE TypeOK'
  <2>1. ASSUME PruneStart(p) PROVE TypeOK'
    BY <2>1 DEF PruneStart
  <2>2. ASSUME PruneLock(p) PROVE TypeOK'
    BY <2>2 DEF PruneLock, Acquire, Lock!Acquire
  <2>3. ASSUME PruneList(p) PROVE TypeOK'
    BY <2>3 DEF PruneList, ListKeys
  <2>4. ASSUME Scan(p) PROVE TypeOK'
    BY <2>4 DEF Scan, Garbage
  <2>5. ASSUME NEW b \in Blob, Sweep(p, b) PROVE TypeOK'
    BY <2>5 DEF Sweep
  <2>6. ASSUME SweepDone(p) PROVE TypeOK'
    BY <2>6 DEF SweepDone
  <2> QED BY <1>3, <2>1, <2>2, <2>3, <2>4, <2>5, <2>6 DEF Prune
<1>4. ASSUME NEW p \in Proc, RestoreOrVerify(p) PROVE TypeOK'
  <2>1. ASSUME NEW s \in Proc, NEW stage \in {"restore.lock", "verify.fetch"},
               FindSnapshot(p, s, stage)
        PROVE  TypeOK'
    BY <2>1 DEF FindSnapshot
  <2>2. ASSUME RestoreLock(p) PROVE TypeOK'
    BY <2>2 DEF RestoreLock, Acquire, Lock!Acquire
  <2>3. ASSUME NEW b \in Blob, FetchChunk(p, b) PROVE TypeOK'
    BY <2>3 DEF FetchChunk, Fetching
  <2>4. ASSUME NEW b \in Blob, FetchFails(p, b) PROVE TypeOK'
    BY <2>4 DEF FetchFails, Fetching
  <2>5. ASSUME FetchDone(p) PROVE TypeOK'
    BY <2>5 DEF FetchDone, Finish, Reset, Fetching
  <2> QED BY <1>4, <2>1, <2>2, <2>3, <2>4, <2>5 DEF RestoreOrVerify
<1>5. ASSUME NEW p \in Proc, Check(p) PROVE TypeOK'
  <2>1. ASSUME CheckList(p) PROVE TypeOK'
    BY <2>1 DEF CheckList, ListKeys
  <2>2. ASSUME CheckBlobs(p) PROVE TypeOK'
    BY <2>2 DEF CheckBlobs, Referenced
  <2>3. ASSUME NEW b \in Blob, Probe(p, b) PROVE TypeOK'
    BY <2>3 DEF Probe
  <2>4. ASSUME CheckPassed(p) PROVE TypeOK'
    BY <2>4 DEF CheckPassed, Finish, Reset
  <2>5. ASSUME CheckFailed(p) PROVE TypeOK'
    BY <2>5 DEF CheckFailed
  <2> QED BY <1>5, <2>1, <2>2, <2>3, <2>4, <2>5 DEF Check
<1>6. ASSUME NEW p \in Proc, ListSnapshots(p) PROVE TypeOK'
  <2>1. ASSUME NEW s \in Proc, ReadSnapshot(p, s) PROVE TypeOK'
    BY <2>1 DEF ReadSnapshot, Listing
  <2>2. ASSUME NEW s \in Proc, SnapshotGone(p, s) PROVE TypeOK'
    BY <2>2 DEF SnapshotGone, Fail, Reset, Listing
  <2>3. ASSUME UnreadableDirectory(p) PROVE TypeOK'
    BY <2>3 DEF UnreadableDirectory, Listing
  <2> QED BY <1>6, <2>1, <2>2, <2>3 DEF ListSnapshots
<1>7. ASSUME NEW p \in Proc, Release(p) PROVE TypeOK'
  BY <1>7 DEF Release, Finish, Reset
<1>8. ASSUME NEW p \in Proc, Abort(p) PROVE TypeOK'
  BY <1>8 DEF Abort, Fail, Reset
<1>9. ASSUME NEW p \in Proc, Expire(p) PROVE TypeOK'
  BY <1>9 DEF Expire
<1>10. CASE UNCHANGED vars
  BY <1>10
<1> QED BY <1>1, <1>2, <1>3, <1>4, <1>5, <1>6, <1>7, <1>8, <1>9, <1>10 DEF Next

(***************************************************************************)
(* What is in a plan or has been read was committed, what forget plans to  *)
(* delete is superseded for good, and so is every snapshot that is gone.   *)
(***************************************************************************)
Superseded(s) == Cardinality(NewerIn(ever, s)) >= KeepLast

CommitInv ==
  \A p \in Proc :
    /\ pc[p] \in {"idle", "backup.lock", "backup.store", "backup.put"} => p \notin ever
    /\ seen[p] \subseteq ever
    /\ pc[p] \in {"forget.lock", "forget.delete"} =>
         \A s \in ids[p] : s \in ever /\ Superseded(s)

GoneInv == \A s \in ever : s \in snaps \/ Superseded(s)

(***************************************************************************)
(* Without stalls and unreadable directories: what is stored or listed by  *)
(* a command that holds the lock stays so until it commits or sweeps.      *)
(***************************************************************************)
WellBehaved == Stalls = {} /\ "readdir" \notin Faults

HolderInv ==
  \A p \in Proc :
    /\ pc[p] \in {"backup.store", "backup.put"} =>
         held[p] = "Shared" /\ data[p] \subseteq blobs \cup todo[p]
    /\ pc[p] \in {"forget.delete", "prune.keys", "prune.list", "prune.sweep", "prune.release"} =>
         held[p] = "Exclusive"
    /\ pc[p] = "prune.list" => snaps = seen[p] \cup ids[p]
    /\ pc[p] = "prune.sweep" => todo[p] \cap Referenced(snaps) = {}
    /\ pc[p] = "prune.sweep" /\ Faults = {} => blobs \subseteq todo[p] \cup Referenced(snaps)

ReaderInv ==
  \A p \in Proc :
    pc[p] \in {"restore.lock"} \cup Fetching => \A s \in seen[p] : todo[p] \subseteq data[s]

SafeInv ==
  /\ Lock!Exclusion /\ HolderInv /\ ReaderInv
  /\ SnapshotsComplete /\ MissingOnlyIfForgotten
  /\ Faults = {} => PruneComplete

\* What KeepLast snapshots supersede, a larger set of them supersedes too.
LEMMA MoreNewer ==
  ASSUME NEW S \in SUBSET Proc, NEW T \in SUBSET Proc, S \subseteq T,
         Cardinality(S) >= KeepLast
  PROVE  Cardinality(T) >= KeepLast
<1>1. IsFiniteSet(T)
  BY FS_Subset, RepositoryAssumption
<1>2. IsFiniteSet(S) /\ Cardinality(S) <= Cardinality(T)
  BY <1>1, FS_Subset
<1>3. Cardinality(S) \in Nat /\ Cardinality(T) \in Nat
  BY <1>1, <1>2, FS_CardinalityType
<1> QED BY <1>2, <1>3, RepositoryAssumption

\* Started backups stay in the past: a superseded snapshot remains so.
LEMMA SupersededForGood ==
  ASSUME TypeOK, TypeOK', ever \subseteq ever', \A t \in ever : started'[t] = started[t],
         NEW s \in ever, Superseded(s)
  PROVE  Superseded(s)'
<1>1. NewerIn(ever, s) \subseteq NewerIn(ever, s)'
  BY DEF NewerIn
<1>2. NewerIn(ever, s) \in SUBSET Proc /\ NewerIn(ever, s)' \in SUBSET Proc
  BY DEF NewerIn, TypeOK
<1> HIDE DEF NewerIn
<1> QED BY <1>1, <1>2, MoreNewer DEF Superseded

\* The past is not rewritten: no step takes back a commit or a start time.
LEMMA PastKept ==
  ASSUME TypeOK, CommitInv, [Next]_vars
  PROVE  ever \subseteq ever' /\ \A s \in ever : started'[s] = started[s]
<1> USE DEF vars, backups
<1>1. ASSUME NEW p \in Proc, Backup(p)
      PROVE ever \subseteq ever' /\ \A s \in ever : started'[s] = started[s]
  <2>1. ASSUME NEW D \in SUBSET Blob \ {{}}, BackupStart(p, D)
        PROVE ever' = ever /\ \A s \in ever : started'[s] = started[s]
    BY <2>1 DEF BackupStart, Go, TypeOK, CommitInv
  <2>2. CASE CommitSnapshot(p)
    BY <2>2 DEF CommitSnapshot
  <2>3. ASSUME NEW b \in Blob, ChunkExists(p, b) \/ ChunkMissing(p, b)
        PROVE UNCHANGED <<ever, started>>
    BY <2>3 DEF ChunkExists, ChunkMissing
  <2>4. CASE BackupLock(p) \/ PutChunk(p)
    BY <2>4 DEF BackupLock, PutChunk
  <2> QED BY <1>1, <2>1, <2>2, <2>3, <2>4 DEF Backup
<1>2. ASSUME NEW p \in Proc, Forget(p) PROVE UNCHANGED <<ever, started>>
  BY <1>2 DEF Forget, ForgetList, ListKeys, Plan, ForgetLock, ForgetDone, DeleteSnapshot
<1>3. ASSUME NEW p \in Proc, Prune(p) PROVE UNCHANGED <<ever, started>>
  BY <1>3 DEF Prune, PruneStart, PruneLock, PruneList, ListKeys, Scan, SweepDone, Sweep
<1>4. ASSUME NEW p \in Proc, RestoreOrVerify(p) PROVE UNCHANGED <<ever, started>>
  BY <1>4 DEF RestoreOrVerify, FindSnapshot, RestoreLock, FetchDone, FetchChunk, FetchFails, Finish
<1>5. ASSUME NEW p \in Proc, Check(p) PROVE UNCHANGED <<ever, started>>
  BY <1>5 DEF Check, CheckList, ListKeys, CheckBlobs, CheckPassed, CheckFailed, Probe, Finish
<1>6. ASSUME NEW p \in Proc, ListSnapshots(p) PROVE UNCHANGED <<ever, started>>
  BY <1>6 DEF ListSnapshots, UnreadableDirectory, ReadSnapshot, SnapshotGone, Fail
<1>7. ASSUME NEW p \in Proc, Release(p) \/ Abort(p) \/ Expire(p) PROVE UNCHANGED <<ever, started>>
  BY <1>7 DEF Release, Abort, Expire, Finish, Fail
<1> QED BY <1>1, <1>2, <1>3, <1>4, <1>5, <1>6, <1>7 DEF Next

\* No step plans to delete, or reads, what is not committed or not superseded.
LEMMA CommitStep ==
  ASSUME TypeOK, CommitInv, [Next]_vars
  PROVE  CommitInv'
<1> USE DEF At, Go, vars, backups, locals, TypeOK, CommitInv, Ended
<1>t. TypeOK'
  BY TypeStep
<1>0. /\ ever \subseteq ever'
      /\ \A s \in ever : started'[s] = started[s] /\ (Superseded(s) => Superseded(s)')
  <2>1. ever \subseteq ever' /\ \A s \in ever : started'[s] = started[s]
    BY PastKept
  <2> QED BY <2>1, <1>t, SupersededForGood
<1>1. ASSUME NEW p \in Proc, Backup(p) PROVE CommitInv'
  <2>1. ASSUME NEW D \in SUBSET Blob \ {{}}, BackupStart(p, D) PROVE CommitInv'
    BY <2>1, <1>0 DEF BackupStart
  <2>2. ASSUME BackupLock(p) PROVE CommitInv'
    BY <2>2, <1>0 DEF BackupLock, Acquire, Lock!Acquire
  <2>3. ASSUME NEW b \in Blob, ChunkExists(p, b) PROVE CommitInv'
    BY <2>3, <1>0 DEF ChunkExists
  <2>4. ASSUME NEW b \in Blob, ChunkMissing(p, b) PROVE CommitInv'
    BY <2>4, <1>0 DEF ChunkMissing
  <2>5. ASSUME PutChunk(p) PROVE CommitInv'
    BY <2>5, <1>0 DEF PutChunk
  <2>6. ASSUME CommitSnapshot(p) PROVE CommitInv'
    BY <2>6, <1>0 DEF CommitSnapshot, Uploaded
  <2> QED BY <1>1, <2>1, <2>2, <2>3, <2>4, <2>5, <2>6 DEF Backup
<1>2. ASSUME NEW p \in Proc, Forget(p) PROVE CommitInv'
  <2>1. ASSUME ForgetList(p) PROVE CommitInv'
    BY <2>1, <1>0 DEF ForgetList, ListKeys
  <2>2. ASSUME Plan(p) PROVE CommitInv'
    <3>1. \A s \in ToRemove(seen[p]) : s \in ever /\ Superseded(s)
      <4> SUFFICES ASSUME NEW s \in ToRemove(seen[p]) PROVE s \in ever /\ Superseded(s)
        OBVIOUS
      <4>1. s \in seen[p] /\ seen[p] \subseteq ever /\ ever \subseteq Proc
        BY DEF ToRemove, TypeOK, CommitInv
      <4>2. Cardinality(NewerIn(seen[p], s)) >= KeepLast
        BY DEF ToRemove
      <4>3. NewerIn(seen[p], s) \subseteq NewerIn(ever, s) /\ NewerIn(ever, s) \subseteq Proc
        BY <4>1, <1>0 DEF NewerIn
      <4> QED BY <4>1, <4>2, <4>3, MoreNewer DEF Superseded
    <3> QED BY <2>2, <3>1, <1>0 DEF Plan
  <2>3. ASSUME ForgetLock(p) PROVE CommitInv'
    BY <2>3, <1>0 DEF ForgetLock, Acquire, Lock!Acquire
  <2>4. ASSUME NEW s \in Proc, DeleteSnapshot(p, s) PROVE CommitInv'
    BY <2>4, <1>0 DEF DeleteSnapshot
  <2>5. ASSUME ForgetDone(p) PROVE CommitInv'
    BY <2>5, <1>0 DEF ForgetDone
  <2> QED BY <1>2, <2>1, <2>2, <2>3, <2>4, <2>5 DEF Forget
<1>3. ASSUME NEW p \in Proc, Prune(p) PROVE CommitInv'
  <2>1. ASSUME PruneStart(p) PROVE CommitInv'
    BY <2>1, <1>0 DEF PruneStart
  <2>2. ASSUME PruneLock(p) PROVE CommitInv'
    BY <2>2, <1>0 DEF PruneLock, Acquire, Lock!Acquire
  <2>3. ASSUME PruneList(p) PROVE CommitInv'
    BY <2>3, <1>0 DEF PruneList, ListKeys
  <2>4. ASSUME Scan(p) PROVE CommitInv'
    BY <2>4, <1>0 DEF Scan, Garbage
  <2>5. ASSUME NEW b \in Blob, Sweep(p, b) PROVE CommitInv'
    BY <2>5, <1>0 DEF Sweep
  <2>6. ASSUME SweepDone(p) PROVE CommitInv'
    BY <2>6, <1>0 DEF SweepDone
  <2> QED BY <1>3, <2>1, <2>2, <2>3, <2>4, <2>5, <2>6 DEF Prune
<1>4. ASSUME NEW p \in Proc, RestoreOrVerify(p) PROVE CommitInv'
  <2>1. ASSUME NEW s \in Proc, NEW stage \in {"restore.lock", "verify.fetch"},
               FindSnapshot(p, s, stage)
        PROVE  CommitInv'
    BY <2>1, <1>0 DEF FindSnapshot
  <2>2. ASSUME RestoreLock(p) PROVE CommitInv'
    BY <2>2, <1>0 DEF RestoreLock, Acquire, Lock!Acquire
  <2>3. ASSUME NEW b \in Blob, FetchChunk(p, b) PROVE CommitInv'
    BY <2>3, <1>0 DEF FetchChunk, Fetching
  <2>4. ASSUME NEW b \in Blob, FetchFails(p, b) PROVE CommitInv'
    BY <2>4, <1>0 DEF FetchFails, Fetching
  <2>5. ASSUME FetchDone(p) PROVE CommitInv'
    BY <2>5, <1>0 DEF FetchDone, Finish, Reset, Fetching
  <2> QED BY <1>4, <2>1, <2>2, <2>3, <2>4, <2>5 DEF RestoreOrVerify
<1>5. ASSUME NEW p \in Proc, Check(p) PROVE CommitInv'
  <2>1. ASSUME CheckList(p) PROVE CommitInv'
    BY <2>1, <1>0 DEF CheckList, ListKeys
  <2>2. ASSUME CheckBlobs(p) PROVE CommitInv'
    BY <2>2, <1>0 DEF CheckBlobs, Referenced
  <2>3. ASSUME NEW b \in Blob, Probe(p, b) PROVE CommitInv'
    BY <2>3, <1>0 DEF Probe
  <2>4. ASSUME CheckPassed(p) PROVE CommitInv'
    BY <2>4, <1>0 DEF CheckPassed, Finish, Reset
  <2>5. ASSUME CheckFailed(p) PROVE CommitInv'
    BY <2>5, <1>0 DEF CheckFailed
  <2> QED BY <1>5, <2>1, <2>2, <2>3, <2>4, <2>5 DEF Check
<1>6. ASSUME NEW p \in Proc, ListSnapshots(p) PROVE CommitInv'
  <2>1. ASSUME NEW s \in Proc, ReadSnapshot(p, s) PROVE CommitInv'
    BY <2>1, <1>0 DEF ReadSnapshot, Listing
  <2>2. ASSUME NEW s \in Proc, SnapshotGone(p, s) PROVE CommitInv'
    BY <2>2, <1>0 DEF SnapshotGone, Fail, Reset, Listing
  <2>3. ASSUME UnreadableDirectory(p) PROVE CommitInv'
    BY <2>3, <1>0 DEF UnreadableDirectory, Listing
  <2> QED BY <1>6, <2>1, <2>2, <2>3 DEF ListSnapshots
<1>7. ASSUME NEW p \in Proc, Release(p) PROVE CommitInv'
  BY <1>7, <1>0 DEF Release, Finish, Reset
<1>8. ASSUME NEW p \in Proc, Abort(p) PROVE CommitInv'
  BY <1>8, <1>0 DEF Abort, Fail, Reset
<1>9. ASSUME NEW p \in Proc, Expire(p) PROVE CommitInv'
  BY <1>9, <1>0 DEF Expire
<1>10. CASE UNCHANGED vars
  BY <1>10, <1>0
<1> QED BY <1>1, <1>2, <1>3, <1>4, <1>5, <1>6, <1>7, <1>8, <1>9, <1>10 DEF Next

\* Under the lock, every step keeps the committed snapshots complete.
LEMMA SafeStep ==
  ASSUME WellBehaved, TypeOK, CommitInv, SafeInv, [Next]_vars
  PROVE  SafeInv'
<1> USE DEF At, Go, vars, backups, locals, WellBehaved, TypeOK, Lock!TypeOK,
      Lock!LockType, CommitInv, SafeInv, Lock!Exclusion, Lock!Conflict,
      Lock!Grantable, HolderInv, ReaderInv, SnapshotsComplete,
      MissingOnlyIfForgotten, PruneComplete, Referenced, Fetching, Ended
<1>1. ASSUME NEW p \in Proc, Backup(p) PROVE SafeInv'
  <2>1. ASSUME NEW D \in SUBSET Blob \ {{}}, BackupStart(p, D) PROVE SafeInv'
    BY <2>1 DEF BackupStart
  <2>2. ASSUME BackupLock(p) PROVE SafeInv'
    BY <2>2 DEF BackupLock, Acquire, Lock!Acquire
  <2>3. ASSUME NEW b \in Blob, ChunkExists(p, b) PROVE SafeInv'
    BY <2>3 DEF ChunkExists
  <2>4. ASSUME NEW b \in Blob, ChunkMissing(p, b) PROVE SafeInv'
    BY <2>4 DEF ChunkMissing
  <2>5. ASSUME PutChunk(p) PROVE SafeInv'
    BY <2>5 DEF PutChunk
  <2>6. ASSUME CommitSnapshot(p) PROVE SafeInv'
    BY <2>6 DEF CommitSnapshot, Uploaded
  <2> QED BY <1>1, <2>1, <2>2, <2>3, <2>4, <2>5, <2>6 DEF Backup
<1>2. ASSUME NEW p \in Proc, Forget(p) PROVE SafeInv'
  <2>1. ASSUME ForgetList(p) PROVE SafeInv'
    BY <2>1 DEF ForgetList, ListKeys
  <2>2. ASSUME Plan(p) PROVE SafeInv'
    BY <2>2 DEF Plan, ToRemove
  <2>3. ASSUME ForgetLock(p) PROVE SafeInv'
    BY <2>3 DEF ForgetLock, Acquire, Lock!Acquire
  <2>4. ASSUME NEW s \in Proc, DeleteSnapshot(p, s) PROVE SafeInv'
    BY <2>4 DEF DeleteSnapshot
  <2>5. ASSUME ForgetDone(p) PROVE SafeInv'
    BY <2>5 DEF ForgetDone
  <2> QED BY <1>2, <2>1, <2>2, <2>3, <2>4, <2>5 DEF Forget
<1>3. ASSUME NEW p \in Proc, Prune(p) PROVE SafeInv'
  <2>1. ASSUME PruneStart(p) PROVE SafeInv'
    BY <2>1 DEF PruneStart
  <2>2. ASSUME PruneLock(p) PROVE SafeInv'
    BY <2>2 DEF PruneLock, Acquire, Lock!Acquire
  <2>3. ASSUME PruneList(p) PROVE SafeInv'
    BY <2>3 DEF PruneList, ListKeys
  <2>4. ASSUME Scan(p) PROVE SafeInv'
    BY <2>4 DEF Scan, Garbage
  <2>5. ASSUME NEW b \in Blob, Sweep(p, b) PROVE SafeInv'
    BY <2>5 DEF Sweep
  <2>6. ASSUME SweepDone(p) PROVE SafeInv'
    BY <2>6 DEF SweepDone
  <2> QED BY <1>3, <2>1, <2>2, <2>3, <2>4, <2>5, <2>6 DEF Prune
<1>4. ASSUME NEW p \in Proc, RestoreOrVerify(p) PROVE SafeInv'
  <2>1. ASSUME NEW s \in Proc, NEW stage \in {"restore.lock", "verify.fetch"},
               FindSnapshot(p, s, stage)
        PROVE  SafeInv'
    BY <2>1 DEF FindSnapshot
  <2>2. ASSUME RestoreLock(p) PROVE SafeInv'
    BY <2>2 DEF RestoreLock, Acquire, Lock!Acquire
  <2>3. ASSUME NEW b \in Blob, FetchChunk(p, b) PROVE SafeInv'
    BY <2>3 DEF FetchChunk, Fetching
  <2>4. ASSUME NEW b \in Blob, FetchFails(p, b) PROVE SafeInv'
    BY <2>4 DEF FetchFails, Fetching
  <2>5. ASSUME FetchDone(p) PROVE SafeInv'
    BY <2>5 DEF FetchDone, Finish, Reset, Fetching
  <2> QED BY <1>4, <2>1, <2>2, <2>3, <2>4, <2>5 DEF RestoreOrVerify
<1>5. ASSUME NEW p \in Proc, Check(p) PROVE SafeInv'
  <2>1. ASSUME CheckList(p) PROVE SafeInv'
    BY <2>1 DEF CheckList, ListKeys
  <2>2. ASSUME CheckBlobs(p) PROVE SafeInv'
    BY <2>2 DEF CheckBlobs, Referenced
  <2>3. ASSUME NEW b \in Blob, Probe(p, b) PROVE SafeInv'
    BY <2>3 DEF Probe
  <2>4. ASSUME CheckPassed(p) PROVE SafeInv'
    BY <2>4 DEF CheckPassed, Finish, Reset
  <2>5. ASSUME CheckFailed(p) PROVE SafeInv'
    BY <2>5 DEF CheckFailed
  <2> QED BY <1>5, <2>1, <2>2, <2>3, <2>4, <2>5 DEF Check
<1>6. ASSUME NEW p \in Proc, ListSnapshots(p) PROVE SafeInv'
  <2>1. ASSUME NEW s \in Proc, ReadSnapshot(p, s) PROVE SafeInv'
    BY <2>1 DEF ReadSnapshot, Listing
  <2>2. ASSUME NEW s \in Proc, SnapshotGone(p, s) PROVE SafeInv'
    BY <2>2 DEF SnapshotGone, Fail, Reset, Listing
  <2>3. ASSUME UnreadableDirectory(p) PROVE SafeInv'
    BY <2>3 DEF UnreadableDirectory, Listing
  <2> QED BY <1>6, <2>1, <2>2, <2>3 DEF ListSnapshots
<1>7. ASSUME NEW p \in Proc, Release(p) PROVE SafeInv'
  BY <1>7 DEF Release, Finish, Reset
<1>8. ASSUME NEW p \in Proc, Abort(p) PROVE SafeInv'
  BY <1>8 DEF Abort, Fail, Reset
<1>9. ASSUME NEW p \in Proc, Expire(p) PROVE SafeInv'
  BY <1>9 DEF Expire
<1>10. CASE UNCHANGED vars
  BY <1>10
<1> QED BY <1>1, <1>2, <1>3, <1>4, <1>5, <1>6, <1>7, <1>8, <1>9, <1>10 DEF Next

-----------------------------------------------------------------------------
\* An empty repository is a good one.
LEMMA InvInit == Init => CommitInv /\ GoneInv /\ SafeInv
  BY DEF Init, Lock!Init, CommitInv, GoneInv, SafeInv, Lock!Exclusion, HolderInv,
         ReaderInv, SnapshotsComplete, MissingOnlyIfForgotten, PruneComplete,
         Fetching, Ended

(***************************************************************************)
(* The variables keep their types, whatever stalls or fails.               *)
(***************************************************************************)
THEOREM TypeCorrect == Spec => []TypeOK
  BY TypeInit, TypeStep, PTL DEF Spec

\* What the safety invariants rest on, whatever stalls or fails.
LEMMA CommitCorrect == Spec => [](TypeOK /\ CommitInv)
  BY TypeInit, TypeStep, InvInit, CommitStep, PTL DEF Spec

(***************************************************************************)
(* Only commits and forget's deletions change the set of snapshot files.   *)
(***************************************************************************)
Committed(p) == p \notin ever /\ snaps' = snaps \cup {p} /\ ever' = ever \cup {p}

Forgotten(s) == s \in ever /\ Superseded(s) /\ snaps' = snaps \ {s} /\ ever' = ever

\* Snapshots come by commits of new ones and go when they are superseded.
LEMMA SnapshotsStep ==
  ASSUME TypeOK, CommitInv, [Next]_vars
  PROVE  \/ \E p \in Proc : Committed(p) \/ Forgotten(p)
         \/ UNCHANGED <<snaps, ever>>
<1> USE DEF vars, backups
<1>1. ASSUME NEW p \in Proc, Backup(p)
      PROVE  Committed(p) \/ UNCHANGED <<snaps, ever>>
  BY <1>1 DEF Backup, BackupStart, BackupLock, PutChunk, ChunkExists, ChunkMissing,
     CommitSnapshot, Committed, Go, TypeOK, CommitInv
<1>2. ASSUME NEW p \in Proc, Forget(p)
      PROVE  (\E s \in Proc : Forgotten(s)) \/ UNCHANGED <<snaps, ever>>
  <2>1. ASSUME NEW s \in Proc, DeleteSnapshot(p, s) PROVE Forgotten(s)
    BY <2>1 DEF DeleteSnapshot, Forgotten, At, CommitInv
  <2> QED BY <1>2, <2>1 DEF Forget, ForgetList, ListKeys, Plan, ForgetLock, ForgetDone
<1>3. ASSUME NEW p \in Proc, Prune(p) PROVE UNCHANGED <<snaps, ever>>
  BY <1>3 DEF Prune, PruneStart, PruneLock, PruneList, ListKeys, Scan, SweepDone, Sweep
<1>4. ASSUME NEW p \in Proc, RestoreOrVerify(p) PROVE UNCHANGED <<snaps, ever>>
  BY <1>4 DEF RestoreOrVerify, FindSnapshot, RestoreLock, FetchDone, FetchChunk, FetchFails, Finish
<1>5. ASSUME NEW p \in Proc, Check(p) PROVE UNCHANGED <<snaps, ever>>
  BY <1>5 DEF Check, CheckList, ListKeys, CheckBlobs, CheckPassed, CheckFailed, Probe, Finish
<1>6. ASSUME NEW p \in Proc, ListSnapshots(p) PROVE UNCHANGED <<snaps, ever>>
  BY <1>6 DEF ListSnapshots, UnreadableDirectory, ReadSnapshot, SnapshotGone, Fail
<1>7. ASSUME NEW p \in Proc, Release(p) \/ Abort(p) \/ Expire(p)
      PROVE  UNCHANGED <<snaps, ever>>
  BY <1>7 DEF Release, Abort, Expire, Finish, Fail
<1> QED BY <1>1, <1>2, <1>3, <1>4, <1>5, <1>6, <1>7 DEF Next

\* A snapshot is gone only when superseded.
LEMMA GoneStep ==
  ASSUME TypeOK, CommitInv, GoneInv, [Next]_vars
  PROVE  GoneInv'
<1>1. \A s \in ever : Superseded(s) => Superseded(s)'
  BY TypeStep, PastKept, SupersededForGood
<1>2. CASE \E p \in Proc : Committed(p)
  BY <1>1, <1>2 DEF Committed, GoneInv
<1>3. CASE \E s \in Proc : Forgotten(s)
  BY <1>1, <1>3 DEF Forgotten, GoneInv
<1>4. CASE UNCHANGED <<snaps, ever>>
  BY <1>1, <1>4 DEF GoneInv
<1> QED BY <1>2, <1>3, <1>4, SnapshotsStep

(***************************************************************************)
(* The KeepLast newest snapshots are kept, whatever plans were made on an  *)
(* old listing, and even by commands that lost their lock.                 *)
(***************************************************************************)
THEOREM RetentionCorrect == Spec => []NewestKept
<1>1. TypeOK /\ GoneInv => NewestKept
  <2> SUFFICES ASSUME TypeOK, GoneInv, NEW s \in ever, s \notin snaps
               PROVE  ~ Cardinality(NewerIn(ever, s)) < KeepLast
    BY DEF NewestKept
  <2>1. IsFiniteSet(NewerIn(ever, s))
    BY FS_Subset, RepositoryAssumption DEF NewerIn, TypeOK
  <2>2. Cardinality(NewerIn(ever, s)) \in Nat
    BY <2>1, FS_CardinalityType
  <2> QED BY <2>2, RepositoryAssumption DEF GoneInv, Superseded
<1> QED BY CommitCorrect, InvInit, GoneStep, <1>1, PTL DEF Spec

\* The inductive invariant of the safety theorems.
LEMMA SafeCorrect == ASSUME WellBehaved PROVE Spec => [](TypeOK /\ CommitInv /\ SafeInv)
<1>1. TypeOK /\ CommitInv /\ SafeInv /\ [Next]_vars => SafeInv'
  BY SafeStep
<1> QED BY <1>1, CommitCorrect, InvInit, PTL DEF Spec

(***************************************************************************)
(* Prune never takes a blob of a committed snapshot, and no backup commits *)
(* a snapshot that misses one.                                             *)
(***************************************************************************)
THEOREM PruneSafe == ASSUME WellBehaved PROVE Spec => []SnapshotsComplete
<1>1. SafeInv => SnapshotsComplete
  BY DEF SafeInv
<1> QED BY <1>1, SafeCorrect, PTL

(***************************************************************************)
(* Restore and verify fail on a missing blob only if their snapshot was    *)
(* forgotten after they had found it.                                      *)
(***************************************************************************)
THEOREM ReadersSafe == ASSUME WellBehaved PROVE Spec => []MissingOnlyIfForgotten
<1>1. SafeInv => MissingOnlyIfForgotten
  BY DEF SafeInv
<1> QED BY <1>1, SafeCorrect, PTL

(***************************************************************************)
(* When no deletion fails either, prune leaves no unreferenced blob.       *)
(***************************************************************************)
THEOREM PruneThorough == ASSUME WellBehaved, Faults = {} PROVE Spec => []PruneComplete
<1>1. SafeInv => PruneComplete
  BY DEF SafeInv
<1> QED BY <1>1, SafeCorrect, PTL

-----------------------------------------------------------------------------
\* The state of SnapshotStore in that of Repository.
Taken == [s \in ever |-> started[s]]

Avail == {s \in snaps : data[s] \subseteq blobs}

\* A step of the commands is a step, or a stutter, of the store.
LEMMA StoreStep ==
  ASSUME TypeOK, CommitInv, SnapshotsComplete, SnapshotsComplete', [Next]_vars
  PROVE  [Store!Next]_<<Taken, Avail>>
<1>1. Avail = snaps /\ Avail' = snaps'
  BY DEF Avail, SnapshotsComplete
<1>2. ever \subseteq ever' /\ \A s \in ever : started'[s] = started[s]
  BY PastKept
<1>3. ASSUME NEW p \in Proc, Committed(p) PROVE Store!Commit(p)
  <2>1. DOMAIN Taken = ever /\ DOMAIN Taken' = ever' /\ \A t \in ever : Taken'[t] = Taken[t]
    BY <1>2 DEF Taken
  <2> QED BY <1>1, <1>3, <2>1 DEF Committed, Store!Commit, Taken, Avail
<1>4. ASSUME NEW s \in Proc, Forgotten(s)
      PROVE  Store!Forget(s) \/ UNCHANGED <<Taken, Avail>>
  <2>1. UNCHANGED Taken
    BY <1>2, <1>4 DEF Taken, Forgotten
  <2>2. Store!Superseded(s)
    <3>1. Store!Newer(s) = NewerIn(ever, s)
      <4>1. s \in ever
        BY <1>4 DEF Forgotten
      <4>2. DOMAIN Taken = ever /\ \A t \in ever : Taken[t] = started[t]
        BY DEF Taken
      <4>3. Store!Newer(s) = {t \in DOMAIN Taken : Taken[t] > Taken[s]}
        BY DEF Store!Newer, Taken
      <4> QED BY <4>1, <4>2, <4>3 DEF NewerIn
    <3>2. Store!Cardinality(NewerIn(ever, s)) = Cardinality(NewerIn(ever, s))
      BY DEF Store!Cardinality, Cardinality
    <3> QED BY <1>4, <3>1, <3>2 DEF Store!Superseded, Forgotten, Superseded
  <2> QED BY <1>1, <1>4, <2>1, <2>2 DEF Store!Forget, Forgotten, Taken, Avail
<1>5. CASE UNCHANGED <<snaps, ever>>
  BY <1>1, <1>2, <1>5 DEF Taken
<1> QED BY <1>3, <1>4, <1>5, SnapshotsStep DEF Store!Next

(***************************************************************************)
(* The commands of main.rs keep what SnapshotStore promises of a           *)
(* repository.                                                             *)
(***************************************************************************)
THEOREM StorePromise == ASSUME WellBehaved PROVE Spec => StoreKept
<1>1. Init => Store!Init
  BY DEF Init, Store!Init
<1>2. TypeOK /\ CommitInv /\ SafeInv /\ (SafeInv)' /\ [Next]_vars => [Store!Next]_<<Taken, Avail>>
  BY StoreStep DEF SafeInv
<1> QED BY <1>1, <1>2, SafeCorrect, PTL DEF Spec, StoreKept, Store!Spec, Taken, Avail

=============================================================================
