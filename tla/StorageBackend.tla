--------------------------- MODULE StorageBackend ---------------------------
(***************************************************************************)
(* The calls of the StorageBackend trait (src/repository/backend.rs): what *)
(* LocalBackend and S3Client have in common, and the mapping under which   *)
(* both implement ObjectStore.  A client is a task of a dumper process; it *)
(* makes one call at a time.                                               *)
(***************************************************************************)
EXTENDS Naturals

CONSTANTS
  Client, Key, Data, Absent,
  Host,      \* Host[c]: where c runs
  MaxCalls   \* bound on the calls of all the clients together

ASSUME ClientAssumption == MaxCalls \in Nat /\ DOMAIN Host = Client
ASSUME KeyAssumption == Key \subseteq Nat \ {0} /\ Absent \notin Data

VARIABLES
  obj,     \* obj[k]: the content of object k, or Absent
  call,    \* call[c]: the arguments of the call under way
  pos,     \* pos[c]: where in it c is
  took,    \* took[c]: a request of it has changed the storage as asked
  saw,     \* saw[c]: what it has read, by key
  ans,     \* ans[c]: how the last call ended
  calls    \* how many calls were begun

NoCall == [op |-> "none", keys |-> {}, data |-> Absent, n |-> 0]

\* The trait's operations; get_object_size reads one object as get_object does,
\* and tells less of it.
Request ==
  LET one == {{k} : k \in Key}
      n   == 1 .. MaxCalls
  IN  [op : {"put"}, keys : one, data : Data, n : n]
      \cup [op : {"delete", "get", "exists"}, keys : one, data : {Absent}, n : n]
      \cup [op : {"list"}, keys : {Key}, data : {Absent}, n : n]

Cleanup == [op : {"cleanup"}, keys : {{}}, data : {Absent}, n : 1 .. MaxCalls]

CallsInit ==
  /\ obj \in [Key -> Data \cup {Absent}]
  /\ call = [c \in Client |-> NoCall]
  /\ pos = [c \in Client |-> "idle"]
  /\ took = [c \in Client |-> FALSE]
  /\ saw = [c \in Client |-> <<>>]
  /\ ans = [c \in Client |-> "none"]
  /\ calls = 0

Goto(c, place) == pos' = [pos EXCEPT ![c] = place]

Invoke(c) ==
  /\ pos[c] = "idle"
  /\ calls' = calls + 1
  /\ \E r \in Request : r.n = calls' /\ call' = [call EXCEPT ![c] = r]
  /\ Goto(c, "begin")
  /\ ans' = [ans EXCEPT ![c] = "none"]
  /\ UNCHANGED <<obj, took, saw>>

\* The call is over for c, which answers `answer' and goes to `place'.
Over(c, answer, place) ==
  /\ Goto(c, place)
  /\ call' = [call EXCEPT ![c] = NoCall]
  /\ took' = [took EXCEPT ![c] = FALSE]
  /\ saw' = [saw EXCEPT ![c] = <<>>]
  /\ ans' = [ans EXCEPT ![c] = answer]
  /\ UNCHANGED <<obj, calls>>

\* Ok, or for a get of an absent object the error that says so.
Return(c) ==
  /\ pos[c] = "done"
  /\ Over(c, "ok", "idle")

ReturnError(c) ==
  /\ pos[c] = "failed"
  /\ Over(c, "error", "idle")

\* What a look at the keys tells: contents for a get, otherwise presence.
Look(c, keys) ==
  [k \in keys |-> IF call[c].op = "get" THEN obj[k] ELSE obj[k] # Absent]

\* Looks at some keys, after those that were looked at before.
Joined(before, looks) ==
  [k \in DOMAIN before \cup DOMAIN looks |->
    IF k \in DOMAIN looks THEN looks[k] ELSE before[k]]

-----------------------------------------------------------------------------
\* The calls in the terms of ObjectStore, if seen[c] is what c has read.
AbstractOp(c) ==
  CASE call[c].op \in {"put", "delete"}           -> "write"
    [] call[c].op = "get"                         -> "get"
    [] call[c].op \in {"list", "exists"}          -> "names"
    [] OTHER                                      -> "none"

AbstractCall(seen) ==
  [c \in Client |->
    [op   |-> AbstractOp(c),
     keys |-> call[c].keys,
     data |-> call[c].data,
     saw  |-> seen[c],
     done |-> took[c]]]

Contents == Data \cup {Absent}

CallsTypeOK ==
  /\ obj \in [Key -> Contents]
  /\ call \in [Client -> Request \cup Cleanup \cup {NoCall}]
  /\ took \in [Client -> BOOLEAN]
  /\ calls \in 0 .. MaxCalls
  /\ \A c \in Client :
       /\ DOMAIN saw[c] \subseteq call[c].keys
       /\ ans[c] \in {"none", "ok", "error"}

=============================================================================
