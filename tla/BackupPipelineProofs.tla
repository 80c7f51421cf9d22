------------------------ MODULE BackupPipelineProofs ------------------------
(***************************************************************************)
(* Proofs about BackupPipeline, for chunks, records and dumps of any size. *)
(***************************************************************************)
EXTENDS BackupPipeline, TLAPS

\* No byte is lost or repeated between the encoder and the blobs.
Conserved == stored + buffered + piped + unsent = logical + frame

\* The main task leaves the dump with an error, or with the trailer written.
DumpInv ==
  /\ main = "dump" => ~sealed
  /\ sealed => frame = 0
  /\ Writing => dump = "ok"
  /\ main \notin {"dump", "finish", "join", "failed"} => dump = "ok"
  /\ ~Writing /\ dump = "ok" => sealed

\* The upload task ends well only when it has stored everything.
UploadInv ==
  /\ upload \in {"last", "done"} => ~Writing /\ piped = 0
  /\ upload = "done" => buffered = 0
  /\ main \in {"commit", "release", "ok"} => upload = "done"

\* The pipe breaks only because the upload failed.
ErrorInv ==
  /\ dump = "pipe" => upload = "failed"
  /\ reported # "pipe"

\* The snapshot is written after the upload and the dump ended well.
SnapshotInv ==
  snapshot => main \in {"release", "ok", "failed"} /\ upload = "done" /\ dump = "ok"

IInv ==
  TypeOK /\ Conserved /\ DumpInv /\ UploadInv /\ ErrorInv /\ SnapshotInv

-----------------------------------------------------------------------------
\* The smaller of two numbers is one of them and at most each of them.
LEMMA LeastIs ==
  ASSUME NEW m \in Nat, NEW n \in Nat
  PROVE  Least(m, n) \in Nat /\ Least(m, n) <= m /\ Least(m, n) <= n
  BY DEF Least

\* The invariant holds at the start.
LEMMA InvInit == Init => IInv
<1> USE DEF Init, Writing
<1>1. Init => TypeOK
  <2>1. Init => frame \in 0..MaxFrame /\ unsent \in 0..frame
    BY PipelineAssumption DEF PipelineAssumption
  <2>2. Init => piped \in 0..ChunkSize /\ buffered \in 0..ChunkSize
    BY PipelineAssumption DEF PipelineAssumption
  <2>3. Init => sealed \in BOOLEAN /\ snapshot \in BOOLEAN
    BY Zenon
  <2> QED BY <2>1, <2>2, <2>3 DEF TypeOK
<1>2. Init => Conserved
  BY DEF Conserved
<1>3. Init => DumpInv /\ UploadInv /\ ErrorInv /\ SnapshotInv
  BY DEF DumpInv, UploadInv, ErrorInv, SnapshotInv
<1> QED
  BY <1>1, <1>2, <1>3 DEF IInv

\* Every step of the main task keeps the invariant.
LEMMA MainKeepsInv ==
  ASSUME IInv, MainStep
  PROVE  IInv'
<1> USE PipelineAssumption
    DEF PipelineAssumption, IInv, TypeOK, Conserved, DumpInv, UploadInv, ErrorInv,
        SnapshotInv, Writing, encoder, chunker, outcome
<1>1. ASSUME NEW size \in 1..MaxFrame, BeginRecord(size) PROVE IInv'
  BY <1>1 DEF BeginRecord
<1>2. CASE Write
  <2> DEFINE n == Least(unsent, ChunkSize - piped)
  <2>1. n \in Nat /\ n <= unsent /\ n <= ChunkSize - piped
    BY LeastIs
  <2>2. unsent' = unsent - n /\ piped' = piped + n
    BY <1>2 DEF Write
  <2> HIDE DEF n
  <2> QED BY <1>2, <2>1, <2>2 DEF Write
<1>3. CASE EndRecord
  BY <1>3 DEF EndRecord
<1>4. CASE BrokenPipe
  BY <1>4 DEF BrokenPipe, Stop, ReaderOpen
<1>5. CASE DumpFails
  BY <1>5 DEF DumpFails, Stop
<1>6. CASE DumpDone
  BY <1>6 DEF DumpDone
<1>7. CASE Finished
  BY <1>7 DEF Finished, Stop
<1>8. CASE Join
  BY <1>8 DEF Join, Joined, Error
<1>9. CASE Commit
  BY <1>9 DEF Commit
<1>10. CASE Release
  BY <1>10 DEF Release
<1> QED
  BY <1>1, <1>2, <1>3, <1>4, <1>5, <1>6, <1>7, <1>8, <1>9, <1>10 DEF MainStep

\* Every step of the upload task keeps the invariant.
LEMMA UploadKeepsInv ==
  ASSUME IInv, UploadStep \/ UploadFails
  PROVE  IInv'
<1> USE PipelineAssumption
    DEF PipelineAssumption, IInv, TypeOK, Conserved, DumpInv, UploadInv, ErrorInv,
        SnapshotInv, Writing, encoder, chunker, outcome
<1>1. CASE Read
  <2> DEFINE n == Least(piped, Room)
  <2>1. n \in Nat /\ n <= piped /\ n <= ChunkSize - buffered
    BY LeastIs DEF Room
  <2>2. piped' = piped - n /\ buffered' = buffered + n
    BY <1>1 DEF Read
  <2> HIDE DEF n
  <2> QED BY <1>1, <2>1, <2>2 DEF Read
<1>2. CASE EndOfStream
  BY <1>2 DEF EndOfStream, AfterStream, WriterOpen
<1>3. CASE PutChunk
  BY <1>3 DEF PutChunk
<1>4. CASE UploadFails
  BY <1>4 DEF UploadFails, ReaderOpen
<1> QED
  BY <1>1, <1>2, <1>3, <1>4 DEF UploadStep

\* The invariant holds in every behaviour.
LEMMA Invariant == Spec => []IInv
<1>1. IInv /\ UNCHANGED vars => IInv'
  BY DEF IInv, TypeOK, Conserved, DumpInv, UploadInv, ErrorInv, SnapshotInv, Writing,
         vars, encoder, chunker, outcome
<1>2. IInv /\ [Next]_vars => IInv'
  BY <1>1, MainKeepsInv, UploadKeepsInv DEF Next
<1> QED
  BY InvInit, <1>2, PTL DEF Spec

-----------------------------------------------------------------------------
(***************************************************************************)
(* The types are invariant: pipe and chunk buffer are never overfull,      *)
(* whatever their sizes and those of the records.                          *)
(***************************************************************************)
THEOREM TypeCorrect == Spec => []TypeOK
<1>1. IInv => TypeOK
  BY DEF IInv
<1> QED
  BY Invariant, <1>1, PTL

(***************************************************************************)
(* The blobs of a committed snapshot hold the whole stream, its trailer    *)
(* included, whichever task failed when.                                   *)
(***************************************************************************)
THEOREM CommitsWhole == Spec => []CommittedWhole
<1>1. IInv => CommittedWhole
  <2> SUFFICES ASSUME IInv, snapshot
               PROVE  dump = "ok" /\ sealed /\ upload = "done" /\ stored = logical
    BY DEF CommittedWhole
  <2>1. dump = "ok" /\ upload = "done" /\ ~Writing
    BY DEF IInv, SnapshotInv, Writing
  <2>2. sealed /\ frame = 0 /\ unsent = 0
    BY <2>1 DEF IInv, DumpInv, TypeOK
  <2>3. piped = 0 /\ buffered = 0
    BY <2>1 DEF IInv, UploadInv
  <2> QED BY <2>1, <2>2, <2>3 DEF IInv, Conserved, TypeOK
<1> QED
  BY Invariant, <1>1, PTL

(***************************************************************************)
(* The user is never told that the pipe broke: that the upload failed      *)
(* comes first.                                                            *)
(***************************************************************************)
THEOREM CauseReported == Spec => []RootCause
<1>1. IInv => RootCause
  BY DEF IInv, ErrorInv, RootCause
<1> QED
  BY Invariant, <1>1, PTL

=============================================================================
