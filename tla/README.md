# Verification of dumper

Dumper backs databases up into a content-addressed repository that lives in a
directory or in an S3 bucket, and that several hosts may use at the same time.
This directory holds TLA+ models of the parts of it that are hard to test, the
configurations that check them with TLC, and proofs about them for TLAPS.

    tlc -config lock.cfg MCRepoLock.tla        # a run (the others likewise)
    tlapm RepositoryProofs.tla                 # the proofs

Paths below are relative to the root of the repository; the code is in `src/`.

## The system

A `dumper` process runs one command and exits. Everything that outlives it is in
the storage: `config`, `locks/<id>`, `blobs/<xx>/<hash>`, `snapshots/<id>`. The
storage offers put, get, exists, size, delete and list (`repository/backend.rs`),
and nothing like compare-and-swap; every request is an `await`. An object is replaced
all at once, but a listing is read page by page or directory by directory, and a
local delete tests before it removes.

| component | state | operations | interacts with |
|---|---|---|---|
| Repository lock, `repository/lock.rs` | lock files; per process the guard, the heartbeat task, `ACTIVE_CLEANUPS` | acquire (check, put, settle 500 ms, verify), heartbeat, release, drop, `cleanup_all_active`, `unlock_all` | every command that changes the repository; the signal task |
| Engine, `repository/engine.rs` | blobs, snapshots | `put_chunk`, `get_chunk`, `commit_snapshot`, `list_snapshots`, `find_snapshot`, `delete_snapshot`, `prune`, `verify_snapshot`, `check`, `init`, `open` | storage backends, crypto, compression |
| Commands, `main.rs` | the locals of one command; `INTERRUPTED` | backup, restore, verify, check, forget, prune, stats, unlock; signal task, error exit | all the others |
| Retention, `retention/mod.rs` | none | `evaluate_retention` | forget |
| Local backend, `repository/local.rs` | files, temporary files | write to a temporary file and rename, walk directories, clean up temporary files of dead processes | file system, also of other hosts |
| S3 backend, `repository/s3` | none | requests with retries and backoff, paginated list | the object store |
| Backup and restore pipelines, `main.rs` | a bounded pipe, the upload or download task, the chunk buffer | dump, encode, chunk, upload; download, decode, restore | adapters, engine |
| Record stream, `stream` | position, checksums | encode, decode | pipelines |
| Database adapters, `database` | a session, a transaction | inspect, backup, restore | the database servers |
| Keys, `crypto`, `repository/config.rs` | the wrapped master key | derive, wrap, unlock, encrypt | engine |
| Statistics, `stats/mod.rs` | none | `compute_stats` | the stats command |

What makes it hard: commands of different hosts interleave at every request; the
lock is built from puts and listings and from clocks; a process may be killed,
suspended or interrupted at any point; requests fail, and some of their errors
are ignored on purpose (heartbeats, deletes of prune) or by accident (reads of
lock files, unreadable directories); plans are made on state read before the
lock is held; the pipelines join tasks that fail independently.

What makes each part correct:

* lock: conflicting holders never work together; a live lock is never taken for
  stale; racing commands do not all give way; a leftover expires;
* commands: a committed snapshot keeps all its blobs until it is forgotten;
  forget removes only what the policy gives up; prune leaves no garbage; a reader
  fails only on a snapshot that was forgotten;
* retention: however often and from however old a plan forget is run, what each rule
  asks for of all the snapshots that ever were is kept;
* backends: an object is there completely or not at all, also after a crash; an Ok is
  never given for what did not happen; a cleanup takes no file from a put under way;
* pipelines: a snapshot is committed only if dump, encoder and uploads all ended
  well, and no failure leaves a task waiting;
* stream: what is decoded is what was encoded, and a truncated stream is an error;
* restore: with `--single-transaction`, all or nothing; MySQL, which has no such
  thing, gets whole slices of rows, all of one moment;
* views: every view is created once, after the views it uses.

`PROJECT.json` lists the hazards of the code at their lines.

## Modules

| module | models | state and actions |
|---|---|---|
| `RWLock` | what the lock promises | `held[p]`; `Acquire`, `Release` |
| `RepoLock` | `repository/lock.rs`, the signal task and the error exit of `main.rs` | see below |
| `SnapshotStore` | what the repository promises its users | `taken` (snapshots ever committed), `avail` (those that can be restored); `Commit`, `Forget` |
| `Repository` | the commands of `main.rs` over `repository/engine.rs` | see below |
| `BackupPipeline` | the backup of `main.rs`, the writer of `stream/encoder.rs` | see below |
| `PostgresRestore` | the restore of `main.rs`, `stream/decoder.rs`, the dump order and the restore of `database/postgres.rs` | see below |
| `MySqlAdapter` | the dump and the restore of `database/mysql.rs` | see below |
| `ObjectStore` | what a backend promises the rest of the program | `obj[k]`, `call[c]`; `Apply`, `Observe`, `Return`, `Fail`, ... |
| `StorageBackend` | the calls of `repository/backend.rs`, and how they map to `ObjectStore` | `call`, `pos`, `took`, `saw`, `ans` |
| `LocalBackend`, `S3Client` | `repository/local.rs`, `repository/s3/client.rs` | see below |
| `AnyBackend` | the choice of a backend in `main.rs` | `kind`; the steps of either |
| `Retention` | `retention/mod.rs` as forget applies it | see below |
| `MCRepoLock`, `MCRepository`, `MCPostgresRestore`, `MCMySqlAdapter`, `MCAnyBackend`, `MCRetention` | instances for TLC | clocks of the hosts; symmetry; small databases; a calendar |
| `RepoLockProofs`, `RepositoryProofs`, `BackupPipelineProofs`, `PostgresRestoreProofs`, `MySqlAdapterProofs`, `AnyBackendProofs`, `RetentionProofs` | theorems | |

`RepoLock` implements `RWLock` (property `PromiseKept`, theorem `LockPromise`).
`Repository` is built on an instance of `RWLock` instead of on lock files, and
implements `SnapshotStore` (`StoreKept`, `StorePromise`). `LocalBackend` and `S3Client`
extend `StorageBackend`, `AnyBackend` composes them, and both implement `ObjectStore`
(`PromiseKept`, theorems `PromiseCorrect` and `BucketPromiseCorrect`).

### RepoLock

A process is one acquisition. `files` and `beat` are the lock files and the
`last_heartbeat` in them, `flight[p]` is a put that was sent and has not landed,
`keys`, `readAt` and `blocked` are the locals of `list_active_locks` and of the
loops over its result, `created` is `created_at`, `wake` and `due` the two timers.
`now` is true time and `Skew[p]` the error of the clock of p's host.

`BeginCheck`, `ReadLock`, `Refuse`, `SendLock`, `LockLands`, `BeginVerify`, `Yield`
and `Acquire` are `acquire_raw`, one storage request per step. `Heartbeat` sends,
`PutLands` and `HeartbeatFails` end the request; a put outlives its aborted task
(`PutLost` if it does not). `Release` is `release`; `FailExit` the drop of the guard
followed by `process::exit`, which never runs the spawned delete; `Interrupt`,
`CleanupDelete` and `InterruptExit` the signal task, during which the command goes
on; `Crash` a kill. `UnlockList`, `UnlockRead` and `UnlockDelete` are `dumper unlock`.
`Faults` says which requests may fail.

The environment is bounded by constants: a first put lands within `PutDelay`,
an acquisition lasts at most `AcqTime`, a heartbeat starts and lands within `Lag`
of when it should, and at most `Grace` worth of heartbeats are lost in a row. `Tick`
does not pass these limits. `WellTimed` relates them to the code's constants:
`PutDelay + MaxSkew < Settle` (500 ms) and
`AcqTime + Interval + 2 Lag + Grace + MaxSkew < TTL` (60 s, 15 min); it also asks that lock
files can be read and that nobody runs `unlock --force`. The code enforces none of
it, so these are the conditions an operator relies on.

### Repository

A process is one run of a command and the id of the snapshot it commits, if it is
a backup. `held` is the lock, `pc` the command and its stage, `snaps` and `blobs` the
storage, `data[p]` the blobs of snapshot p, `started[p]` its `started_at`, `ever` a
history variable. `ids`, `seen`, `todo` and `absent` are the locals of the loops: the
snapshot files still to read or to delete, those read, the blobs still to store,
fetch, probe or delete, and those found missing.

Every storage request is a step, and `Abort` may end a command between any two:
by an error, a kill, a refused lock. The lock of an aborted command stays until
`Expire`. `Stalls` names the commands whose lock may expire while they go on: a
suspended process, a lost connection, an interrupt. `Faults` lets a delete of prune
fail (the code ignores that) and a directory of the local backend be unreadable
(the code lists it as empty). A snapshot's metadata is written by one atomic put.

The content of a backup is any non-empty set of blobs, fixed when it starts;
the order of its chunks is left open. `evaluate_retention` is modelled for
`--keep-last` and one engine, database and tag. Start times are distinct.

### BackupPipeline

The two tasks of one backup, between the lock and the exit: what `Repository` does in
one step per blob. `main` is the task that dumps, `upload` the one that reads the
pipe; bytes are counted: `frame` and `unsent` are the record in the encoder, `piped` what
the duplex pipe holds, `buffered` the chunk buffer, `stored` what the blobs hold,
`logical` the encoder's count. `BeginRecord`, `Write` and `EndRecord` are
`write_raw_record`, in as many writes as the pipe makes of it; `BrokenPipe`, `DumpFails`,
`DumpDone` and `Finished` how the dump ends; `Read`, `EndOfStream`, `PutChunk` and
`UploadFails` the upload task; `Join`, `Commit` and `Release` the rest, with the order in
which errors are looked at. The encoder is the writing end of the pipe and is dropped
on an error, the upload task is the reading end: that, and nothing else, unblocks
the other task.

### PostgresRestore

The database is a set of objects of the snapshot, with what each needs. `left` are the
records not yet read, and `Earliest` says which of them may come next: the groups in
the order in which `backup` writes them, by name where its queries say so, views as
`sort_views_topologically` orders them, otherwise any. `unsent`, `piped` and `download` are
the download task. `work` is the database as the session sees it, `base` as everybody
else does; `tx` is "auto" without `--single-transaction`, "aborted" after an error inside
a transaction. `sink` and `fed` are the COPY in progress, whose rows are in the table
when it finishes.

Each record is one action (`Header`, `CreateObject`, `DropExisting`, `Slice`, `LastSlice`,
`SetSequence`, `Trailer`), the table one two: the DROP and the CREATE, between which the
command may die or the DROP may fail (`DropFails`), an error that the code ignores.
`RefuseRecord` and `RefuseTable` are a database that says no, `EndOfStream` a stream that
ends without its trailer, `Abort` anything else, also a COMMIT whose answer is lost.
After an error with --single-transaction a ROLLBACK is awaited (`GiveUp`); if a COPY is
still open, whose sink outlives the await (postgres.rs:1083, 1293), the driver never sends
it and the restore stays in "rollback" (`CopyInTheWay`).

What CREATE, DROP ... CASCADE, COPY, setval and transactions do is PostgreSQL's
(`external` in the map). `DropTable` takes all that depends on the table or on a sequence
that it owns (`Gone`); another table stays, but loses its default over such a sequence
(`Bereft`), and `CREATE SEQUENCE IF NOT EXISTS` before a table or a setval brings a sequence
back without its options (`CreatePlain`). `spoilt` has what is there but not as dumped.

Left out: the skipped `pg_` schemas, which no dump contains; a release of the lock that
fails after everything is restored; two refusals that come of more than order, namely of
a setval that is out of bounds for a sequence without its options, and of a foreign key
over a unique index that the dump does not have (postgres.rs:953).

### MySqlAdapter

A database that goes on changing is dumped, and the dump restored into a target that is
empty, has a part of it or all of it. `source[t]` is the version of a table's rows, which
`Transfer` changes in several tables at once; `moment` is what the dump's transaction
sees. `stream` are the records, `objs` and `rows` the target as others see it, `fed` what
the session has inserted and not committed. `DumpTable` is the loop over the tables,
`DumpObject` one of the views, triggers, procedures and functions. A record of an object is
two steps, the DROP whose error is ignored (`DropExisting`, `DropFails`) and the CREATE
(`Create`, `Refuse`); a slice is `StartSlice`, an `Insert` for each batch and `CommitSlice`.
`EndOfStream` and `Abort` are the failures. What the statements do is MySQL's, with foreign
key checks off as the code sets them. Dump and restore pass over the columns whose EXTRA
contains GENERATED (mysql.rs:201, 585). Of these the server computes some again, but MySQL 8
says DEFAULT_GENERATED of a column with a DEFAULT CURRENT_TIMESTAMP or another expression,
which gets a new value instead: a row has the version of its dumped columns and of the rest,
which in a table that is `Stamped` is lost (`Filled`). A header of another engine, which is
refused at once, is in `PostgresRestore`.

### ObjectStore, StorageBackend

A client is a task and makes one call at a time. In `ObjectStore` a put or delete takes
effect at least once, all at once, before its Ok (`Apply`), or perhaps if it fails; a get
tells what was there at some moment of the call, a listing so for each key separately
(`Observe`). Three promises are weaker: a `Fragile` client's put may remove the old object
first (`Clear`); a `Blind` one may be told that an object is not there because the look
failed, so that its delete may be Ok and have done nothing; and requests that a `Late`
one has given up on may still take effect (`Lose`, `Arrive`). `AnyBackend` says who is what:
the clients of the local backend whose system calls fail are Blind and Fragile, those on
Windows Fragile. The mapping of `StorageBackend` (`PromisedCall`) makes a delete a write of
nothing, and counts the page that a listing has received and not yet read as seen
(`Joined`).

### LocalBackend

`CreateTmp`, `Rename`, `RenameFails`, `RemoveTarget`, `RenameFailsAgain` and `RemoveTmp` are
`put_object`. A rename fails when the temporary file is gone, on Windows when there is a
file to replace, and for a client in `Failing` at any time; whatever the reason, the target
is removed if it is there, and the rename tried again. `Probe` and `Unlink` are
`delete_object`, `Read` and `Exists` the calls on one object, `BeginList` and `ReadDir` the
walk. `BeginCleanup`, `FindTmp`, `Judge`, `Discard` and `EndCleanup` are `cleanup_temp_files`,
judged by age (`HourPasses`), host and process id. `Crash` kills a process, `IoError` and
`WriteFails` are system calls whose failure is reported.

Others are not reported. A look that fails counts as absence (`Looks`: `try_exists`, and
`read_dir` in a walk), removals are attempted and forgotten (`RemoveTarget`, `RemoveTmp`,
`Discard`), and the cleanup passes over a directory that it cannot read (`SkipDir`); all this
happens to the clients in `Failing`. The process id of one in `Reused` may have been given to
another process, and its file then counts as in flight (`PidTaken`). One in `Misread` may
not be able to tell how old a file is, which then does not count as in flight.

`Host` is the name of a process's host, `Machine` the process table it is in, so that hosts
that share a name can be told apart. `Orderly` says what the cleanup relies on: names of
hosts are different, the age of a file can be told (`Misread` is empty: no clock is behind
the file server's and metadata can be read), no put takes an hour. Outside it
`LiveFilesKept` fails. `AbandonedGo` takes out of account exactly what the errors above and
reused process ids excuse (`due`, a history variable).

### S3Client

`Send`, `Serve` and `Answer` are a request, `NoAnswer` one that times out or gets a 5xx or
429, with the retry (`MayRetry`) or the error after the last one; it may have been carried
out or not, and a `Late` one still may be (`echo`). `Denied` is any other answer. A listing
goes from page to page by its `token`. A late DELETE can remove an object that was
uploaded again after the call: the program has no protection, `ObjectStore` says so.

### Retention

`Commit` adds a snapshot with any `started_at`, also one older than those that are there;
`Plan` is the evaluation before the lock is taken, `Remove` the deletions under it, newest
first and up to an error, by several processes with plans of any age. `Bucket` is what each
rule counts by, `Chosen` what it keeps of a group, `Kept` all the rules with `--database`
and `--tag`. `Calendar` gives the hour, day, week and month of a time stamp.

## Runs

| run | question | bounds |
|---|---|---|
| `lock` | Do the lock files implement the lock, and does a live lock always count, also against `unlock`? | an exclusive and a shared acquisition, one clock a unit ahead, one lost heartbeat in a row, TTL 6 units, time 0 to 5 |
| `lock_expiry` | Does every leftover lock stop counting, does somebody always win, and is the lock still exclusive, with failing listings, puts and deletes? | an exclusive and a shared acquisition, fair, TTL 3 units, time 0 to 5 |
| `repository` | Do prune, forget, backups and readers respect each other, does prune leave no garbage, and is the promise of `SnapshotStore` kept? | 4 commands of any kind, 1 blob, keep-last 1 |
| `repository_storm` | Does forget keep the newest snapshots, also from a plan that others have overtaken, and whatever else goes wrong? | 4 commands that may all lose their locks, 1 blob, keep-last 1, failing deletes, unreadable directories |
| `backup_pipeline` | Is a committed snapshot whole, is the cause of a failure reported, and does the command end? | chunks and pipe of 3 bytes, records up to 5, dumps up to 12, fair |
| `restore` | Does a restore restore everything but what CASCADE spoils, or report failure, is it atomic when asked to be, does it end? | 15 objects of 13 kinds, an empty target and an older one, pipe of 2 records, all faults, fair |
| `mysql` | Is what is restored, of the dumped columns, the database of one moment, are slices whole, is what should stay left alone, is nothing but a view refused? | 7 objects, a table with a DEFAULT_GENERATED column, slices of 2 batches, up to 2 changes of a table, 3 targets, all faults |
| `storage` | Do both backends keep the promise of `ObjectStore`, does the cleanup spare live files and leave no dead ones but what errors excuse, does every call end? | 3 clients, two of one host, of which one has failing system calls and one a process id that is used again, and one elsewhere, which has Windows and late requests, 2 keys, 2 calls or cleanups, 1 retry, pages of 1 key, fair |
| `retention` | Do repeated and concurrent forgets keep what the rules promise, and do plans stay valid? | 4 snapshots, 6 time stamps around two New Years, 2 groups, 4 policies, 2 processes |

The bounds. Locks interact in pairs, and the theorems extend what is checked of a pair
to any number. The clock of `lock_expiry` runs to the moment at which a lock that got its
first heartbeat at time 2 is stale, so both sides of the TTL are reached there; `lock` has the
slack that `WellTimed` asks for, with a lost heartbeat and a clock difference. In `repository` the
lifecycles that matter take a forget that needs two backups, and a prune or a
reader beside them, hence four commands; they all contend for one blob, which a
backup may find or upload. `repository_storm` needs four commands too: a plan of forget that
deletes anything takes two backups, and a third backup or a second forget has to overtake
it. In `backup_pipeline` a record is larger than a chunk and smaller
than two, so records straddle chunks and the last chunk is empty, partial or full;
the pipe fills and runs empty. The database of `restore` (`WellOrdered`) has one object of each
kind, or more where their order matters: a view that sorts before the view it uses, a
materialized view over both with an index, a sequence owned by one table and
used by the default of another, which comes before it by name, so that a restore over the
older state spoils that default, a table with two data records and one with none.
That of `mysql` has two tables that change together and one that changes alone, and a view
that comes before the view it uses. In `storage` two calls make every pair of operations meet
on one key or two, each with every crash, retry and late copy; a listing of two
keys has two pages or two directories; at first one object is there and the other not, so
that a put replaces or creates. In
`retention` four snapshots are one more than any rule of the policies keeps, and the
stamps share hours, days, months and weeks, or just miss it.
Symmetry is used in `Repository`, where `Stalls` is empty or everybody; the processes of
`RepoLock` are not symmetric, because the lower lock id wins ties. All runs turn
deadlock checking off, because commands really end.

Fairness, in `lock_expiry`: the clock advances, and an acquisition, a heartbeat, a put
under way and the cleanup of the signal task proceed. In `backup_pipeline` and
`restore`: the main task and the upload or download task each go on when they can. In
`storage`: a call that was begun goes on, since a request ends by an answer or its timeout.
The runtime polls every task, and every request has a timeout; that the database
answers a statement is assumed of the database (a ROLLBACK behind an open COPY never reaches
it, see `PostgresRestore`). No fairness is assumed of failures,
of commands ending in `Repository`, or of anybody running `unlock`.

Three runs show where the code does not do what the repository says of it (each
is a finding in `PROJECT.json`):

* `stalled_backup`: a backup that lost its lock is not told. Prune deletes blobs it
  has stored or found, and it commits a snapshot without them.
* `unreadable_directory`: prune takes a snapshots directory that it cannot read for
  an empty one and deletes every blob.
* `weeks`: --keep-weekly pairs the calendar year with the ISO week, so that around New
  Year one week counts as two, or two as one, and the snapshot of a week is lost.

The models also contain these, which no property rules out: a failed command leaves its
lock file until it expires, since dropping the guard only spawns the delete and `main`
exits first (`FailExit`); an interrupt deletes the lock while the command goes on
(`CleanupDelete`), as `INTERRUPTED` is never read; enums and domains are created
unconditionally, so a PostgreSQL database that has one refuses a restore in place; an in-place
restore with --drop-existing may lose defaults over sequences that other tables own, and
the options of sequences, under a success (`Spoils`); a MySQL restore under a success has new
values in DEFAULT_GENERATED columns (`Stamped`); a restore with --single-transaction whose
stream ends within a table's data waits for its ROLLBACK for ever (`CopyInTheWay`), while
OPERATIONS.md:120 says that "if any error occurs during restoration, all changes are
automatically rolled back" (they are, once somebody kills the command); a local put whose
rename fails may leave neither the old nor the new object (`RemoveTarget`).

## Proofs

`RepoLockProofs` (any number of processes, any clock errors, any delays):

* `TypeCorrect` and `LockSomebodyWins` (`SomebodyWins`), without assumptions;
* `LockExclusion`, `LockKeptAlive`, `LockPromise`, from `WellTimed`.

Exclusion is not inductive. The invariant `IInv` adds `StampsInv` (how old a lock is at
each stage, by the clock of its own host), `RefreshInv` (the file of a tended lock is
there, and its heartbeat is followed by the next in time), `AdminInv` (`unlock` is only
after locks nobody relies on) and `YieldInv`: a process that verifies has still to
read every older conflicting lock, or is blocked already, and one that works has
none. The step that needs the timing is the put of a rival (`NoLateOlder`): whoever
has settled cannot be overtaken by an older lock, because that would have been
stamped `PutDelay` ago at most.

`SomebodyWins` needs an argument of its own. `ReasonInv` says that whoever was refused saw
the lock of somebody who has stamped one, and that whoever yielded did so to an older
lock, by stamp and id; a stamp is never changed. Had all been turned away, the one with
the least stamp (`Least`), and of those the lowest id, would have yielded to nobody.

`RepositoryProofs` (any number of commands and blobs, any `KeepLast`):

* `TypeCorrect` and `RetentionCorrect` (`NewestKept`), without assumptions;
* `PruneSafe` (`SnapshotsComplete`), `ReadersSafe` (`MissingOnlyIfForgotten`) and
  `StorePromise` (`StoreKept`), from `WellBehaved`: no stalls, no unreadable directories;
* `PruneThorough` (`PruneComplete`), if no delete fails either.

`CommitInv` says that what was read or planned was committed, and that what forget
plans to delete is superseded; `SupersededForGood` that it remains so, which is why
planning without the lock is harmless. `HolderInv` says what a lock holder may rely
on: a backup that the blobs it has dealt with are there, a prune that what it has
listed or is about to delete agrees with the snapshots. `RWLock`'s `Exclusion` makes it
inductive: commits need a Shared lock, deletions an Exclusive one.

`BackupPipelineProofs` (any sizes, without assumptions on failures): `TypeCorrect`,
`CommitsWhole` (`CommittedWhole`) and `CauseReported` (`RootCause`). The invariant is
`Conserved`, that the bytes stored, buffered, piped and unsent are those written, with
what each way to end says of them: an upload task that is done saw the end of an
empty pipe, which only a writer that has stopped produces.

`PostgresRestoreProofs` (any database, target, options and faults):

* `TypeCorrect` and `RestoreAtomic` (`AllOrNothing`), without assumptions;
* `RestoreComplete` (`Complete`), from `TypesFirst`: extensions, schemas and types need only
  each other. If a domain used a function over a table, the DROP of that table would take
  away a type that had just been created, and the restore would report success. What may
  be there otherwise than dumped is bounded by `Spoils`: sequences that go with a table of the
  target, and tables restored before such a table whose default used one;
* `RestoreUnrefused` (`NothingRefused`), from `Suited`, that whatever an object needs comes
  before it in the dump, or both are views and these have no cycle, and `Removable`, that
  what cannot be created again (a key, an index...) goes with a table of the target,
  which therefore has no type of its own. The code establishes the order of the views and nothing more of this: it
  is what a user relies on, and the database of the run has it (assumption `WellOrdered`).

`AllOrNothing` is not inductive: `Atomic` adds that a session asked for a transaction
never executes outside it while it reads (`InTransaction`), and that what may be committed
was read to its end (`CommitAtEnd`), which rests on `TrailerLast`: in the order of the dump
nothing comes after the trailer. For `Complete`, `Progress` says what a record that was
read has left behind, as long as the restore goes on: an object (`ObjectsInv`), a sequence
with its value, and rows that are in their table or in the open COPY (`RowsInv`). A
DROP ... CASCADE might undo that; it does not, because records were read in the order
of the dump (`InOrder`), so while a table is to come nothing after the tables was read
(`BeforeTable`), and what precedes them is out of reach of the cascade (`GoneOthers`, by a
set closed under dependency that leaves it out). What it does undo is a table's default,
and `SpoiltInv` keeps account of that: what is spoilt is in `Spoils` or `undropped`, or is a
table that will yet be dropped and created again, and a sequence that was read is missing
only if a table of the target took it. `RemoveInv` is the other half: what
cannot be created again and is still there hangs on a table whose DROP is to come.

`MySqlAdapterProofs` (any database, target, sizes and faults; `SchemaAssumption` says that
triggers need tables only, and views tables, views and functions): `TypeCorrect`,
`MomentCorrect` (`MomentRestored`: the dumped columns of all tables, all columns of those that
are not `Stamped`), `SlicesCorrect` (`SlicesWhole`), `ExistingCorrect`
(`ExistingKept`: without --drop-existing), `RefusedCorrect` (`OnlyViewsRefused`). The invariant follows the stream
from end to end: what is dumped is in order and apart from what is still to be dumped
(`StreamInv`, with lemmas about the head, tail and concatenation of such streams);
what the session has, is owed by the rest of the stream or was there before
(`KeptInv`, `FedInv`); and as long as it is alive, what it has read it has executed
(`LiveInv`).

`AnyBackendProofs` (any keys, calls, sizes of a page, faults): `TypeCorrect`,
`AbandonedCorrect` (`AbandonedGo`), and

* `LiveFilesCorrect` (`LiveFilesKept`), from `Orderly` (see `LocalBackend`);
* `PromiseCorrect` (`PromiseKept`): both backends implement `ObjectStore`, with the weaker
  promises for clients that are `Failing` or on Windows; the local one from `Orderly`, since
  a put whose temporary file was swept removes the object that it failed to replace;
  `BucketPromiseCorrect` is the same of a bucket, without that assumption.

`AbandonedGo` is of a cleanup with nothing left to do: until then each file that is `due` is
in a directory to be read, among those found, or about to be removed (`SweepInv`).

The refinement is proved step by step: each step is one of `ObjectStore`'s or a stutter
under the mapping `PromisedCall`. `CallInv` ties the position of a call to what it
remembers, `PlaceInv` and `FileInv` the temporary files to the calls that own them,
`SweepInv` and `KeepInv` the sweep to the age of what it finds, `S3Inv` a listing to its
pages. A listing of S3 reads at several moments; what it has seen includes the page under
way (`Joined`), and a page that is not the last has a last key, by rank, from which the
next one goes on.

`RetentionProofs` (any snapshots, calendar and policies): `TypeCorrect`, `RulesCorrect`
(`RulesKept`), `PlansCorrect` (`PlansStayValid`). What a rule chooses depends on which
snapshots are still there. `GoneInv` says that what is gone is superseded for good:
among fewer snapshots a rule still chooses what it chose (`ChosenAmongFewer`), and as
long as its choice is there it chooses nothing else (`ChosenAmongMore`), by the number
of buckets before a snapshot. Hence a plan of any age deletes nothing that a fresh one
would keep.

Every invariant and action property of the passing runs is a theorem. Model-checked
only: `LeftoversExpire`, `CommandEnds`, `RestoreEnds` and `CallsEnd`, which are liveness under
fairness and beyond the prover, and `WeeksKept`, which is refuted.

## Not modelled, and the plan

Models that would follow, each with the theorems of its safety properties: `RecordStream`
(frames, checksums, truncation and corruption in `stream`), `RepoInit` (concurrent `init`,
the wrapped key), the choice of a snapshot by prefix, `Stats`.

Left out for good: the ciphers, compression and hashing (libraries; a blob is its
name), request signing, the catalogue queries of the adapters, progress output
and tables, argument parsing. In the models so far: lock files without a
heartbeat (an old format, valid for two hours), corrupted lock files, damaged blobs;
the weaker promises of `ObjectStore` (`Fragile`, `Blind`, `Late`; but for the unreadable
directories of `Faults`) in `Repository` and `RepoLock`, which take requests to be atomic
(except the heartbeat's); power failures, after which a file system may have lost a
rename; renames that take effect and report an error all the same (NFS); listings that a
service truncates without a token; non-transactional MySQL tables and changes of the
schema during a dump. An unreadable lock file is modelled (the fault "get") but no run allows it: the code skips such a file, and a
lock that is skipped excludes nobody.
