---------------------------- MODULE LocalBackend ----------------------------
(***************************************************************************)
(* The local storage backend, src/repository/local.rs.  A put writes a     *)
(* temporary file next to its target, syncs it and renames it; if the      *)
(* rename fails, for any reason, and the target is there, it removes the   *)
(* target and renames again.  A listing walks the directories one by one.  *)
(* prune ends with a cleanup of temporary files that looks abandoned ones  *)
(* up by age, host and process id, while other processes go on writing.    *)
(*                                                                         *)
(* Many errors are ignored: one of a look at a file is taken for its       *)
(* absence, a directory that cannot be read for an empty one, and a file   *)
(* that cannot be removed is passed over.                                  *)
(*                                                                         *)
(* The directory may be shared by several hosts.  A temporary file is      *)
(* known by its writer and the number of the call, as its name is by host, *)
(* process id and a random number.  Every client is a process of its own.  *)
(***************************************************************************)
EXTENDS StorageBackend

CONSTANTS
  Dir,      \* Dir[k]: the directory of key k
  Machine,  \* Machine[c]: the process table that c's process is in
  Windows,  \* clients whose rename does not replace a file, and that cannot
            \* ask whether a process is alive
  Failing,  \* clients whose looks, renames and removals may fail
  Misread,  \* clients that may not be able to tell a file's age: their clock
            \* is behind the file server's, or its metadata cannot be read
  Reused,   \* clients whose process id another process may have or get
  Slow      \* clients whose put may take an hour

\* Checked where the constants get their values.
HostAssumption ==
  /\ DOMAIN Dir = Key /\ DOMAIN Machine = Client
  /\ Windows \cup Failing \cup Misread \cup Reused \cup Slow \subseteq Client

(***************************************************************************)
(* What the cleanup relies on: hosts have names of their own, the age of   *)
(* a file can be told, nobody takes an hour for one put.                   *)
(***************************************************************************)
Orderly ==
  /\ Misread = {} /\ Slow = {}
  /\ \A c, d \in Client :
       c # d /\ Host[c] = Host[d] => Machine[c] = Machine[d] /\ c \notin Windows

VARIABLES
  tmp,     \* the temporary files
  old,     \* those last written an hour ago or more
  todo,    \* todo[c]: directories its walk has still to read
  found,   \* found[c]: temporary files its cleanup has still to judge
  doomed,  \* found[c] judged abandoned and about to be removed
  due      \* due[c]: files abandoned when its cleanup began, but for those
           \* that an error or a reused process id excuses (history)

calling == <<obj, call, pos, took, saw, ans, calls>>
walking == <<todo, found, doomed, due>>
files   == <<tmp, old>>
localVars == <<files, walking>>
vars == <<calling, localVars>>

Dirs == {Dir[k] : k \in Key}

InDir(dirs) == {k \in Key : Dir[k] \in dirs}

LocalInit ==
  /\ tmp = {} /\ old = {}
  /\ todo = [c \in Client |-> {}]
  /\ found = [c \in Client |-> {}]
  /\ doomed = [c \in Client |-> {}]
  /\ due = [c \in Client |-> {}]

Init == CallsInit /\ LocalInit

\* The key of a call on one object.
Target(c) == CHOOSE k \in Key : k \in call[c].keys

\* The temporary file of c's present call.
Tmp(c) == [by |-> c, n |-> call[c].n, dir |-> Dir[Target(c)]]

Put(data, c) == [obj EXCEPT ![Target(c)] = data]

\* What a look at the keys may tell: an error is taken for absence.
Looks(c, keys) ==
  {Look(c, keys)} \cup IF c \in Failing THEN {[k \in keys |-> FALSE]} ELSE {}

\* Temporary files are removed or renamed away.
Gone(F) == tmp' = tmp \ F /\ old' = old \ F

-----------------------------------------------------------------------------
(***************************************************************************)
(* put_object.                                                             *)
(***************************************************************************)
CreateTmp(c) ==
  /\ pos[c] = "begin" /\ call[c].op = "put"
  /\ tmp' = tmp \cup {Tmp(c)}
  /\ Goto(c, "writing")
  /\ UNCHANGED <<obj, call, took, saw, ans, calls, old, walking>>

\* write_all or sync_all: no space, no permission, an input/output error.
WriteFails(c) ==
  /\ pos[c] = "writing"
  /\ Goto(c, "undo")
  /\ UNCHANGED <<obj, call, took, saw, ans, calls, localVars>>

\* The file is written and synced, also if it has been unlinked meanwhile.
CanRename(c) ==
  Tmp(c) \in tmp /\ (c \in Windows => obj[Target(c)] = Absent)

Rename(c) ==
  /\ pos[c] \in {"writing", "again"} /\ CanRename(c)
  /\ obj' = Put(call[c].data, c)
  /\ took' = [took EXCEPT ![c] = TRUE]
  /\ Gone({Tmp(c)})
  /\ Goto(c, "done")
  /\ UNCHANGED <<call, saw, ans, calls, walking>>

\* The first rename failed, for whatever reason: is the target there?
RenameFails(c) ==
  /\ pos[c] = "writing" /\ (c \in Failing \/ ~ CanRename(c))
  /\ \E look \in Looks(c, call[c].keys) :
       Goto(c, IF look[Target(c)] THEN "blocked" ELSE "undo")
  /\ UNCHANGED <<obj, call, took, saw, ans, calls, localVars>>

\* The error of the removal is ignored.
RemoveTarget(c) ==
  /\ pos[c] = "blocked"
  /\ obj' = Put(Absent, c) \/ (c \in Failing /\ UNCHANGED obj)
  /\ Goto(c, "again")
  /\ UNCHANGED <<call, took, saw, ans, calls, localVars>>

RenameFailsAgain(c) ==
  /\ pos[c] = "again" /\ (c \in Failing \/ ~ CanRename(c))
  /\ Goto(c, "undo")
  /\ UNCHANGED <<obj, call, took, saw, ans, calls, localVars>>

\* The error of this removal is ignored as well.
RemoveTmp(c) ==
  /\ pos[c] = "undo"
  /\ Gone({Tmp(c)}) \/ (c \in Failing /\ UNCHANGED <<tmp, old>>)
  /\ Goto(c, "failed")
  /\ UNCHANGED <<obj, call, took, saw, ans, calls, walking>>

-----------------------------------------------------------------------------
(***************************************************************************)
(* delete_object: a file that is gone between the test and the removal is  *)
(* an error, one that was not there to begin with, or could not be looked  *)
(* at, is none.                                                            *)
(***************************************************************************)
Probe(c) ==
  /\ pos[c] = "begin" /\ call[c].op = "delete"
  /\ \E look \in Looks(c, call[c].keys) :
       IF look[Target(c)]
         THEN Goto(c, "unlink") /\ UNCHANGED took
         ELSE Goto(c, "done") /\ took' = [took EXCEPT ![c] = obj[Target(c)] = Absent]
  /\ UNCHANGED <<obj, call, saw, ans, calls, localVars>>

Unlink(c) ==
  /\ pos[c] = "unlink"
  /\ IF obj[Target(c)] = Absent
       THEN Goto(c, "failed") /\ UNCHANGED <<obj, took>>
       ELSE /\ Goto(c, "done")
            /\ obj' = Put(Absent, c)
            /\ took' = [took EXCEPT ![c] = TRUE]
  /\ UNCHANGED <<call, saw, ans, calls, localVars>>

\* get_object and get_object_size: one system call, whose error is reported.
Read(c) ==
  /\ pos[c] = "begin" /\ call[c].op = "get"
  /\ saw' = [saw EXCEPT ![c] = Look(c, call[c].keys)]
  /\ Goto(c, "done")
  /\ UNCHANGED <<obj, call, took, ans, calls, localVars>>

\* object_exists: one system call, whose error is not.
Exists(c) ==
  /\ pos[c] = "begin" /\ call[c].op = "exists"
  /\ \E look \in Looks(c, call[c].keys) : saw' = [saw EXCEPT ![c] = look]
  /\ Goto(c, "done")
  /\ UNCHANGED <<obj, call, took, ans, calls, localVars>>

(***************************************************************************)
(* list_objects: the directories are read one at a time.  One that does    *)
(* not exist, or cannot be read, shows nothing.                            *)
(***************************************************************************)
Walk(c, dirs) ==
  /\ todo' = [todo EXCEPT ![c] = dirs]
  /\ Goto(c, IF dirs = {} THEN "done" ELSE "walk")

BeginList(c) ==
  /\ pos[c] = "begin" /\ call[c].op = "list"
  /\ Walk(c, Dirs)
  /\ UNCHANGED <<obj, call, took, saw, ans, calls, files, found, doomed, due>>

ReadDir(c, d) ==
  /\ pos[c] = "walk" /\ d \in todo[c]
  /\ Walk(c, todo[c] \ {d})
  /\ \E look \in Looks(c, InDir({d})) : saw' = [saw EXCEPT ![c] = Joined(@, look)]
  /\ UNCHANGED <<obj, call, took, ans, calls, files, found, doomed, due>>

\* The system call of a step that changes nothing else fails, and the code does
\* not take the error for an answer; in a walk it is one entry that is unreadable.
IoError(c) ==
  /\ \/ pos[c] \in {"unlink", "walk"}
     \/ pos[c] = "begin" /\ call[c].op \in {"put", "get", "list"}
  /\ Goto(c, "failed")
  /\ todo' = [todo EXCEPT ![c] = {}]
  /\ UNCHANGED <<obj, call, took, saw, ans, calls, files, found, doomed, due>>

-----------------------------------------------------------------------------
(***************************************************************************)
(* cleanup_temp_files: walk the directories, judge each temporary file by  *)
(* its metadata and name, remove it if it is not in flight.                *)
(***************************************************************************)
\* The process of c finds a process with the id of d's in its own table.
PidAlive(c, d) ==
  d = c \/ (c \notin Windows /\ Machine[c] = Machine[d] /\ pos[d] # "dead")

\* Mutant: the age of a file is not looked at.
RecentNoAge(c, f) == TRUE

Recent(c, f) == f \notin old

\* Mutant: the host in the name is not looked at.
InFlightByPid(c, f) == Recent(c, f) /\ PidAlive(c, f.by)

InFlight(c, f) ==
  Recent(c, f) /\ (Host[f.by] = Host[c] => PidAlive(c, f.by))

\* The id of the process that wrote f is another one's now.
PidTaken(c, f) == Recent(c, f) /\ Host[f.by] = Host[c] /\ f.by \in Reused

\* Written by a process of this host that died, or an hour ago.
Abandoned(c, f) ==
  f \in old \/ (Host[f.by] = Host[c] /\ pos[f.by] = "dead")

BeginCleanup(c) ==
  /\ pos[c] = "idle"
  /\ Goto(c, "sweep")
  /\ calls' = calls + 1
  /\ \E r \in Cleanup : r.n = calls' /\ call' = [call EXCEPT ![c] = r]
  /\ todo' = [todo EXCEPT ![c] = Dirs]
  /\ due' = [due EXCEPT ![c] = {f \in tmp : Abandoned(c, f)}]
  /\ UNCHANGED <<obj, took, saw, ans, files, found, doomed>>

\* The cleanup of c does not have to remove these.
Excused(c, F) == due' = [due EXCEPT ![c] = @ \ F]

FindTmp(c, d) ==
  /\ pos[c] = "sweep" /\ d \in todo[c]
  /\ todo' = [todo EXCEPT ![c] = @ \ {d}]
  /\ found' = [found EXCEPT ![c] = @ \cup {f \in tmp : f.dir = d}]
  /\ UNCHANGED <<calling, files, doomed, due>>

\* A directory that cannot be read is skipped.
SkipDir(c, d) ==
  /\ pos[c] = "sweep" /\ d \in todo[c] /\ c \in Failing
  /\ todo' = [todo EXCEPT ![c] = @ \ {d}]
  /\ Excused(c, {f \in due[c] : f.dir = d})
  /\ UNCHANGED <<calling, files, found, doomed>>

\* A file whose age cannot be told does not count as in flight.
Judge(c, f) ==
  /\ f \in found[c]
  /\ found' = [found EXCEPT ![c] = @ \ {f}]
  /\ \/ InFlight(c, f) /\ UNCHANGED <<doomed, due>>
     \/ PidTaken(c, f) /\ Excused(c, {f}) /\ UNCHANGED doomed
     \/ /\ ~ InFlight(c, f) \/ c \in Misread
        /\ doomed' = [doomed EXCEPT ![c] = @ \cup {f}]
        /\ UNCHANGED due
  /\ UNCHANGED <<calling, files, todo>>

\* The error of the removal is ignored.
Discard(c, f) ==
  /\ f \in doomed[c]
  /\ doomed' = [doomed EXCEPT ![c] = @ \ {f}]
  /\ \/ Gone({f}) /\ UNCHANGED due
     \/ c \in Failing /\ Excused(c, {f}) /\ UNCHANGED <<tmp, old>>
  /\ UNCHANGED <<calling, todo, found>>

\* It is through, or an entry that cannot be read ends it early.
EndCleanup(c) ==
  /\ pos[c] = "sweep"
  /\ Over(c, ans[c], "idle")
  /\ todo' = [todo EXCEPT ![c] = {}]
  /\ found' = [found EXCEPT ![c] = {}]
  /\ doomed' = [doomed EXCEPT ![c] = {}]
  /\ due' = [due EXCEPT ![c] = {}]
  /\ UNCHANGED files

-----------------------------------------------------------------------------
\* The process is killed; its temporary file stays.
Crash(c) ==
  /\ pos[c] \notin {"idle", "dead"}
  /\ Over(c, IF call[c].op = "cleanup" THEN ans[c] ELSE "error", "dead")
  /\ todo' = [todo EXCEPT ![c] = {}]
  /\ found' = [found EXCEPT ![c] = {}]
  /\ doomed' = [doomed EXCEPT ![c] = {}]
  /\ due' = [due EXCEPT ![c] = {}]
  /\ UNCHANGED files

\* The files that a put under way writes or is about to rename.
Live == {Tmp(c) : c \in {d \in Client : pos[d] \in {"writing", "blocked", "again"}}}

HourPasses(f) ==
  /\ f \in tmp \ old
  /\ f \notin Live \/ f.by \in Slow
  /\ old' = old \cup {f}
  /\ UNCHANGED <<calling, tmp, walking>>

\* The next step of a call; PutStep, and so on, by operation.
PutStep(c) ==
  \/ CreateTmp(c) \/ WriteFails(c) \/ Rename(c) \/ RenameFails(c)
  \/ RemoveTarget(c) \/ RenameFailsAgain(c) \/ RemoveTmp(c)

ListStep(c) == BeginList(c) \/ \E d \in todo[c] : ReadDir(c, d)

CleanupStep(c) ==
  \/ \E d \in todo[c] : FindTmp(c, d) \/ SkipDir(c, d)
  \/ \E f \in found[c] : Judge(c, f)
  \/ \E f \in doomed[c] : Discard(c, f)
  \/ EndCleanup(c)

End(c) == (Return(c) \/ ReturnError(c)) /\ UNCHANGED localVars

Step(c) ==
  \/ PutStep(c) \/ Probe(c) \/ Unlink(c) \/ Read(c) \/ Exists(c)
  \/ ListStep(c) \/ IoError(c) \/ CleanupStep(c) \/ End(c)

Begin(c) == Invoke(c) /\ UNCHANGED localVars

Next ==
  \/ \E c \in Client : Begin(c) \/ BeginCleanup(c) \/ Step(c) \/ Crash(c)
  \/ \E f \in tmp : HourPasses(f)

Spec == Init /\ [][Next]_vars

-----------------------------------------------------------------------------
TypeOK ==
  /\ CallsTypeOK
  /\ old \subseteq [by : Client, n : 1 .. MaxCalls, dir : Dirs]
  /\ tmp \subseteq [by : Client, n : 1 .. MaxCalls, dir : Dirs]

(***************************************************************************)
(* The cleanup takes no temporary file away from a put that is under way   *)
(* (local.rs: "Do not delete in-flight temporary files written by active   *)
(* processes"); a put that lost it would remove its target and fail.  It   *)
(* holds of directories that are Orderly.                                  *)
(***************************************************************************)
LiveFilesKept == Live \subseteq tmp

(***************************************************************************)
(* Of the files that were abandoned when it began, those of dead processes *)
(* of its host and those an hour old, a cleanup that has got through       *)
(* leaves only what it could not remove, what is in directories that it    *)
(* could not read, and recent files whose process id is another one's now  *)
(* (which have then been taken off due).                                   *)
(***************************************************************************)
AbandonedGo ==
  \A c \in Client :
    pos[c] = "sweep" /\ todo[c] = {} /\ found[c] = {} /\ doomed[c] = {}
      => due[c] \cap tmp = {}

=============================================================================
