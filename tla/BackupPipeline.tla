--------------------------- MODULE BackupPipeline ---------------------------
(***************************************************************************)
(* The backup command of main.rs between its lock and its exit: the main   *)
(* task dumps the database as a stream of records into a bounded pipe, an  *)
(* upload task cuts what it reads into chunks and stores them, and the     *)
(* main task joins it and commits the snapshot.                            *)
(*                                                                         *)
(* Bytes are counted, not named: the pipe is first in, first out, so the   *)
(* blobs hold the stream if they hold as many bytes as were written.       *)
(***************************************************************************)
EXTENDS Naturals

CONSTANTS
  ChunkSize,   \* size of a chunk, and of the pipe
  MaxFrame,    \* size of the largest record
  MaxStream    \* bound on the size of a dump, for the checker

ASSUME PipelineAssumption ==
  /\ ChunkSize \in Nat \ {0}
  /\ MaxFrame \in Nat \ {0}
  /\ MaxStream \in Nat

VARIABLES
  main,       \* the main task
  dump,       \* how the dump ended: backup_res and finish_res
  upload,     \* the upload task
  reported,   \* the error main returned
  frame,      \* size of the record being written, 0 if none
  unsent,     \* what of it is not in the pipe yet
  logical,    \* total_bytes_written of the encoder
  sealed,     \* the trailer was written
  piped,      \* bytes in the pipe
  buffered,   \* chunk_bytes_read
  stored,     \* bytes in stored_blobs
  snapshot    \* the snapshot file is there

encoder == <<frame, unsent, logical, sealed>>
chunker == <<upload, buffered, stored>>
outcome == <<dump, reported, snapshot>>
vars    == <<main, encoder, piped, chunker, outcome>>

Writing == main \in {"dump", "finish"}

\* Mutant: the encoder lives on after an error of the database.
WriterOpenLong == Writing \/ dump = "database"

\* The encoder owns the writing end; finish consumes it, an error drops it.
WriterOpen == Writing

\* The upload task owns the reading end.
ReaderOpen == upload \in {"read", "put", "last"}

Least(m, n) == IF m < n THEN m ELSE n

-----------------------------------------------------------------------------
Init ==
  /\ main = "dump" /\ upload = "read"
  /\ dump = "ok" /\ reported = "none"
  /\ frame = 0 /\ unsent = 0 /\ logical = 0 /\ sealed = FALSE
  /\ piped = 0 /\ buffered = 0 /\ stored = 0
  /\ snapshot = FALSE

(***************************************************************************)
(* The encoder writes records, of the database while main dumps, and the   *)
(* trailer last.                                                           *)
(***************************************************************************)
BeginRecord(size) ==
  /\ Writing /\ frame = 0 /\ ~sealed
  /\ main = "dump" => logical + size <= MaxStream
  /\ frame' = size /\ unsent' = size
  /\ UNCHANGED <<main, logical, sealed, piped, chunker, outcome>>

\* The pipe takes what it has room for; the writer waits while it is full.
Write ==
  LET n == Least(unsent, ChunkSize - piped) IN
  /\ Writing /\ ReaderOpen
  /\ n > 0
  /\ unsent' = unsent - n
  /\ piped' = piped + n
  /\ UNCHANGED <<main, frame, logical, sealed, chunker, outcome>>

EndRecord ==
  /\ Writing /\ frame > 0 /\ unsent = 0
  /\ logical' = logical + frame
  /\ frame' = 0
  /\ sealed' = (main = "finish")
  /\ UNCHANGED <<main, unsent, piped, chunker, outcome>>

\* The dump ends, with or without an error, and main waits for the upload.
Stop(error) ==
  /\ dump' = error
  /\ main' = "join"
  /\ UNCHANGED <<encoder, piped, chunker, reported, snapshot>>

BrokenPipe ==
  /\ Writing /\ ~ReaderOpen
  /\ unsent > 0
  /\ Stop("pipe")

\* A query fails, or a record is larger than a frame may be.
DumpFails ==
  /\ main = "dump" /\ frame = 0
  /\ Stop("database")

DumpDone ==
  /\ main = "dump" /\ frame = 0
  /\ main' = "finish"
  /\ UNCHANGED <<encoder, piped, chunker, outcome>>

Finished ==
  /\ main = "finish" /\ sealed
  /\ Stop("ok")

-----------------------------------------------------------------------------
(***************************************************************************)
(* The upload task fills its buffer, stores it when it is full, and what   *)
(* is left of it at the end of the stream.                                 *)
(***************************************************************************)
\* Mutant: the buffer is read into from its start.
RoomWhole == ChunkSize

Room == ChunkSize - buffered

Read ==
  LET n == Least(piped, Room) IN
  /\ upload = "read"
  /\ n > 0
  /\ piped' = piped - n
  /\ buffered' = buffered + n
  /\ upload' = IF buffered' = ChunkSize THEN "put" ELSE "read"
  /\ UNCHANGED <<main, encoder, stored, outcome>>

\* Mutant: only full chunks are stored.
AfterStreamFull == "done"

AfterStream == IF buffered > 0 THEN "last" ELSE "done"

EndOfStream ==
  /\ upload = "read" /\ piped = 0 /\ ~WriterOpen
  /\ upload' = AfterStream
  /\ UNCHANGED <<main, encoder, piped, buffered, stored, outcome>>

PutChunk ==
  /\ upload \in {"put", "last"}
  /\ stored' = stored + buffered
  /\ buffered' = 0
  /\ upload' = IF upload = "put" THEN "read" ELSE "done"
  /\ UNCHANGED <<main, encoder, piped, outcome>>

\* put_chunk fails, or the task panics.
UploadFails ==
  /\ ReaderOpen
  /\ upload' = "failed"
  /\ UNCHANGED <<main, encoder, piped, buffered, stored, outcome>>

-----------------------------------------------------------------------------
(***************************************************************************)
(* main joins the upload task and looks at its error first, then at those  *)
(* of the dump.                                                            *)
(***************************************************************************)
\* Mutant: the dump's error is looked at first.
ErrorDumpFirst ==
  IF dump # "ok" THEN dump ELSE IF upload = "failed" THEN "upload" ELSE "none"

Error ==
  IF upload = "failed" THEN "upload" ELSE IF dump # "ok" THEN dump ELSE "none"

Joined == upload \in {"done", "failed"}

Join ==
  /\ main = "join" /\ Joined
  /\ reported' = Error
  /\ main' = IF Error = "none" THEN "commit" ELSE "failed"
  /\ UNCHANGED <<encoder, piped, chunker, dump, snapshot>>

\* A put that fails may have reached the store.
Commit ==
  /\ main = "commit"
  /\ \/ snapshot' = TRUE /\ main' = "release" /\ UNCHANGED reported
     \/ snapshot' \in BOOLEAN /\ main' = "failed" /\ reported' = "commit"
  /\ UNCHANGED <<encoder, piped, chunker, dump>>

Release ==
  /\ main = "release"
  /\ \/ main' = "ok" /\ UNCHANGED reported
     \/ main' = "failed" /\ reported' = "release"
  /\ UNCHANGED <<encoder, piped, chunker, dump, snapshot>>

MainStep ==
  \/ \E size \in 1..MaxFrame : BeginRecord(size)
  \/ Write \/ EndRecord \/ BrokenPipe \/ DumpFails \/ DumpDone \/ Finished
  \/ Join \/ Commit \/ Release

UploadStep == Read \/ EndOfStream \/ PutChunk

Next == MainStep \/ UploadStep \/ UploadFails

Spec == Init /\ [][Next]_vars

\* The runtime polls both tasks, and requests and queries come to an end.
FairSpec == Spec /\ WF_vars(MainStep) /\ WF_vars(UploadStep)

-----------------------------------------------------------------------------
(***************************************************************************)
(* Types.  Neither the pipe nor the chunk buffer is ever overfull.         *)
(***************************************************************************)
TypeOK ==
  /\ main \in {"dump", "finish", "join", "commit", "release", "ok", "failed"}
  /\ upload \in {"read", "put", "last", "done", "failed"}
  /\ dump \in {"ok", "database", "pipe"}
  /\ reported \in {"none", "upload", "database", "pipe", "commit", "release"}
  /\ frame \in 0..MaxFrame /\ unsent \in 0..frame
  /\ logical \in Nat /\ stored \in Nat
  /\ piped \in 0..ChunkSize /\ buffered \in 0..ChunkSize
  /\ sealed \in BOOLEAN /\ snapshot \in BOOLEAN

(***************************************************************************)
(* A snapshot that was committed is whole: the dump ended well, its        *)
(* trailer was written, and the blobs named in the snapshot hold every     *)
(* byte of the stream, however its records straddle the chunks and         *)
(* whichever of the two tasks fails when.                                  *)
(***************************************************************************)
CommittedWhole ==
  snapshot => dump = "ok" /\ sealed /\ upload = "done" /\ stored = logical

(***************************************************************************)
(* The user is told the cause and not its consequence: "Prioritize upload  *)
(* task error over downstream broken pipe database errors so root cause is *)
(* reported" (main.rs).                                                    *)
(***************************************************************************)
RootCause == reported # "pipe"

(***************************************************************************)
(* Whatever fails, the command comes to an end: neither task waits for the *)
(* other at a full or an empty pipe for ever.                              *)
(***************************************************************************)
CommandEnds == <>(main \in {"ok", "failed"})

=============================================================================
