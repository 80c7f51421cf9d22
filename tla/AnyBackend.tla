----------------------------- MODULE AnyBackend -----------------------------
(***************************************************************************)
(* A repository is in a directory or in a bucket, as its URL says          *)
(* (src/main.rs); either backend implements ObjectStore.                   *)
(***************************************************************************)
EXTENDS StorageBackend

CONSTANTS
  Dir, Machine, Windows, Failing, Misread, Reused, Slow,   \* see LocalBackend
  MaxRetries, PageSize, Late, MaxEcho                      \* see S3Client

VARIABLES
  kind,    \* the backend in use, "local" or "s3"
  tmp, old, todo, found, doomed, due,   \* of LocalBackend
  attempt, token, page, echo            \* of S3Client

Local == INSTANCE LocalBackend
S3 == INSTANCE S3Client

ASSUME BackendAssumption == Local!HostAssumption /\ S3!RetryAssumption

calling == <<obj, call, pos, took, saw, ans, calls>>
localVars == <<tmp, old, todo, found, doomed, due>>
s3Vars == <<attempt, token, page, echo>>
vars == <<kind, calling, localVars, s3Vars>>

Init ==
  /\ kind \in {"local", "s3"}
  /\ CallsInit /\ Local!LocalInit /\ S3!S3Init

LocalNext == kind = "local" /\ Local!Next /\ UNCHANGED <<kind, s3Vars>>

S3Next == kind = "s3" /\ S3!Next /\ UNCHANGED <<kind, localVars>>

Next == LocalNext \/ S3Next

Spec == Init /\ [][Next]_vars

(***************************************************************************)
(* The runtime polls every task, system calls return, and a request is     *)
(* answered or times out: a call that was begun goes on.                   *)
(***************************************************************************)
StepOf(c) ==
  \/ kind = "local" /\ Local!Step(c) /\ UNCHANGED <<kind, s3Vars>>
  \/ kind = "s3" /\ S3!Step(c) /\ UNCHANGED <<kind, localVars>>

Fairness == \A c \in Client : WF_vars(StepOf(c))

FairSpec == Spec /\ Fairness

-----------------------------------------------------------------------------
TypeOK == IF kind = "local" THEN Local!TypeOK ELSE S3!TypeOK

(***************************************************************************)
(* Both backends keep the promise of ObjectStore: objects change all at    *)
(* once and only as a call under way asks, an Ok is never given for a      *)
(* write that did not happen, and what a listing or a get answers was so   *)
(* during the call, whatever the crashes, retries, lost answers and        *)
(* cleanups of temporary files.  Three exceptions are the code's: a put    *)
(* whose rename fails, on Windows over any existing file, may remove the   *)
(* old object first; a look of object_exists, delete_object or             *)
(* list_objects that fails is answered with absence, so that a delete may  *)
(* be Ok and have done nothing; and requests of Late clients may arrive    *)
(* after the call.                                                         *)
(***************************************************************************)
PromisedCall == AbstractCall(IF kind = "s3" THEN S3!Seen ELSE saw)

Promise == INSTANCE ObjectStore
  WITH call <- PromisedCall, Fragile <- Windows \cup Failing, Blind <- Failing

PromiseKept == Promise!Spec

(* See LocalBackend. *)
LiveFilesKept == Local!LiveFilesKept

(* See LocalBackend. *)
AbandonedGo == Local!AbandonedGo

(***************************************************************************)
(* Every call ends: retries are bounded, a listing makes progress from     *)
(* page to page, and no error path of a put waits for anything.            *)
(***************************************************************************)
CallsEnd == \A c \in Client : (pos[c] # "idle") ~> (pos[c] \in {"idle", "dead"})

=============================================================================
