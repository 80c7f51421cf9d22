-------------------------- MODULE AnyBackendProofs --------------------------
(***************************************************************************)
(* Proofs about AnyBackend, for any clients, hosts, keys, directories and  *)
(* sizes of pages: either backend implements ObjectStore.                  *)
(***************************************************************************)
EXTENDS AnyBackend, FiniteSetTheorems, WellFoundedInduction, TLAPS

(***************************************************************************)
(* Both backends.  A client has a call from its beginning to its end; only *)
(* a read has seen something, only a write has taken effect, and only a    *)
(* delete that could not look may be done without.                         *)
(***************************************************************************)
Writing(c) == call[c].op \in {"put", "delete"}

Reading(c) == call[c].op \in {"get", "list", "exists"}

CallInv ==
  /\ obj \in [Key -> Contents]
  /\ call \in [Client -> Request \cup Cleanup \cup {NoCall}]
  /\ took \in [Client -> BOOLEAN]
  /\ ans \in [Client -> {"none", "ok", "error"}]
  /\ calls \in 0 .. MaxCalls
  /\ DOMAIN saw = Client /\ DOMAIN pos = Client
  /\ \A c \in Client :
       /\ call[c].n <= calls
       /\ pos[c] \in {"idle", "dead"} <=> call[c] = NoCall
       /\ ~ Reading(c) => saw[c] = <<>>
       /\ took[c] => Writing(c)
       /\ pos[c] = "done" =>
            IF Writing(c) THEN took[c] \/ (c \in Failing /\ call[c].op = "delete")
                          ELSE Reading(c) /\ DOMAIN saw[c] = call[c].keys
       /\ DOMAIN saw[c] \subseteq call[c].keys

-----------------------------------------------------------------------------
(***************************************************************************)
(* The local backend: where a call can be, what a listing has seen.        *)
(***************************************************************************)
LocalPlace(op) ==
  CASE op = "none"    -> {"idle", "dead"}
    [] op = "put"     -> {"begin", "writing", "blocked", "again", "undo", "done", "failed"}
    [] op = "delete"  -> {"begin", "unlink", "done", "failed"}
    [] op = "get"     -> {"begin", "done", "failed"}
    [] op = "exists"  -> {"begin", "done", "failed"}
    [] op = "list"    -> {"begin", "walk", "done", "failed"}
    [] op = "cleanup" -> {"sweep"}

PlaceInv ==
  \A c \in Client :
    /\ pos[c] \in LocalPlace(call[c].op)
    /\ pos[c] = "begin" => saw[c] = <<>> /\ took[c] = FALSE
    /\ pos[c] = "walk" => DOMAIN saw[c] = Local!InDir(Local!Dirs \ todo[c])

(***************************************************************************)
(* Its temporary files, which carry the number of the call they are of.    *)
(***************************************************************************)
File == [by : Client, n : 1 .. MaxCalls, dir : Local!Dirs]

\* Files that there are, or that a cleanup has come across.
Known == tmp \cup UNION {found[c] \cup doomed[c] \cup due[c] : c \in Client}

FileInv ==
  /\ tmp \subseteq File /\ old \subseteq tmp
  /\ todo \in [Client -> SUBSET Local!Dirs]
  /\ found \in [Client -> SUBSET File]
  /\ doomed \in [Client -> SUBSET File]
  /\ due \in [Client -> SUBSET File]
  /\ \A c \in Client : pos[c] # "sweep" => found[c] = {} /\ doomed[c] = {}
  /\ \A f \in Known : f.n <= calls /\ (pos[f.by] = "begin" => f.n # call[f.by].n)

\* A cleanup has yet to come to what was abandoned when it began and is due.
SweepInv ==
  \A c \in Client :
    pos[c] = "sweep" =>
      \A f \in due[c] \cap tmp :
        /\ Local!Abandoned(c, f)
        /\ f.dir \in todo[c] \/ f \in found[c] \/ f \in doomed[c]

\* The files of puts under way are there, recent, and not about to be removed.
KeepInv ==
  /\ Local!Live \subseteq tmp \ old
  /\ \A c \in Client : doomed[c] \cap Local!Live = {}
  /\ \A c \in Client : pos[c] = "blocked" => c \in Windows \cup Failing

LocalInv == PlaceInv /\ FileInv /\ SweepInv /\ (Local!Orderly => KeepInv)

-----------------------------------------------------------------------------
(***************************************************************************)
(* The S3 client: a listing has seen the keys up to its token, and the     *)
(* page under way goes on from there.                                      *)
(***************************************************************************)
S3Place(op) ==
  IF op = "none" THEN {"idle", "dead"} ELSE {"begin", "sent", "served", "done", "failed"}

PageFits(c) ==
  LET p == page[c]
  IN  IF p.more
        THEN DOMAIN p.saw = {k \in call[c].keys : token[c] < k /\ k <= p.last}
        ELSE p.last = 0 /\ DOMAIN p.saw = {k \in call[c].keys : token[c] < k}

S3Of(c) ==
  /\ call[c].op # "cleanup" /\ pos[c] \in S3Place(call[c].op)
  /\ page[c].more => page[c].last \in Key /\ page[c].last > token[c]
  /\ DOMAIN page[c].saw \subseteq call[c].keys
  /\ pos[c] \notin {"served", "failed"} \/ ~ Reading(c) => page[c] = S3!NoPage
  /\ pos[c] = "idle" \/ ~ Reading(c) => token[c] = 0
  /\ pos[c] = "served" => IF Writing(c) THEN took[c] ELSE PageFits(c)
  /\ Reading(c) /\ pos[c] \in {"begin", "sent", "served"} =>
       DOMAIN saw[c] = {k \in call[c].keys : k <= token[c]}

S3Inv ==
  /\ attempt \in [Client -> 0 .. MaxRetries]
  /\ token \in [Client -> Key \cup {0}]
  /\ DOMAIN page = Client
  /\ echo \subseteq [keys : SUBSET Key, data : Contents]
  /\ \A c \in Client : S3Of(c)

IInv ==
  /\ kind \in {"local", "s3"} /\ CallInv
  /\ IF kind = "local" THEN LocalInv ELSE S3Inv

-----------------------------------------------------------------------------
\* What the backends share they understand alike.
LEMMA SameTerms ==
  /\ Local!Request = Request /\ S3!Request = Request
  /\ Local!NoCall = NoCall /\ S3!NoCall = NoCall /\ Local!Cleanup = Cleanup
  /\ \A c, keys : Local!Look(c, keys) = Look(c, keys) /\ S3!Look(c, keys) = Look(c, keys)
  BY DEF Local!Request, S3!Request, Request, Local!NoCall, S3!NoCall, NoCall,
         Local!Cleanup, Cleanup, Local!Look, S3!Look, Look

\* The calls of the trait: on one object, or on all of them.
LEMMA Requests ==
  /\ \A r \in Request :
       /\ r.op \in {"put", "delete", "get", "list", "exists"} /\ r.n \in 1 .. MaxCalls
       /\ r.keys \subseteq Key /\ r.data \in Contents
       /\ r.op = "list" => r.keys = Key
       /\ r.op # "list" => \E k \in Key : r.keys = {k}
       /\ r.op = "put" => r.data \in Data
       /\ r.op = "delete" => r.data = Absent
  /\ \A r \in Cleanup :
       r.op = "cleanup" /\ r.n \in 1 .. MaxCalls /\ r.keys = {} /\ r.data = Absent
  /\ NoCall.op = "none" /\ NoCall.n = 0 /\ NoCall.keys = {} /\ NoCall.data = Absent
<1>1. \A r \in Request :
        \/ r.op = "put" /\ r.data \in Data /\ \E k \in Key : r.keys = {k}
        \/ r.op \in {"delete", "get", "exists"} /\ r.data = Absent /\ \E k \in Key : r.keys = {k}
        \/ r.op = "list" /\ r.data = Absent /\ r.keys = Key
  BY DEF Request
<1>2. \A r \in Request : r.n \in 1 .. MaxCalls
  BY DEF Request
<1>3. \A r \in Cleanup :
        r.op = "cleanup" /\ r.n \in 1 .. MaxCalls /\ r.keys = {} /\ r.data = Absent
  BY DEF Cleanup
<1>4. NoCall.op = "none" /\ NoCall.n = 0 /\ NoCall.keys = {} /\ NoCall.data = Absent
  BY DEF NoCall
<1> QED BY <1>1, <1>2, <1>3, <1>4 DEF Contents

\* What the calls of the trait ask for, of the call of a client.
LEMMA CallIs ==
  ASSUME CallInv, NEW c \in Client
  PROVE  LET r == call[c]
         IN  /\ r.op \in {"none", "cleanup", "put", "delete", "get", "list", "exists"}
             /\ r.keys \subseteq Key /\ r.data \in Contents /\ r.n \in 0 .. MaxCalls
             /\ r.op \in {"none", "cleanup"} => r.keys = {} /\ r.data = Absent
             /\ r.op = "none" <=> r = NoCall
             /\ r.op = "list" => r.keys = Key
             /\ r.op \in {"put", "delete", "get", "exists"} =>
                  Local!Target(c) \in Key /\ r.keys = {Local!Target(c)}
             /\ ~ (r.op \in {"none", "cleanup"}) => r \in Request /\ r.n \in 1 .. MaxCalls
<1>1. call[c] \in Request \cup Cleanup \cup {NoCall} /\ MaxCalls \in Nat
  BY ClientAssumption DEF CallInv
<1>2. ASSUME NEW k \in Key, call[c].keys = {k} PROVE Local!Target(c) = k
  BY <1>2 DEF Local!Target
<1> QED BY <1>1, <1>2, Requests DEF Contents

\* A step of c's call leaves the calls of the others alone.
Others(c) ==
  \A d \in Client \ {c} :
    /\ call'[d] = call[d] /\ pos'[d] = pos[d] /\ took'[d] = took[d]
    /\ saw'[d] = saw[d] /\ ans'[d] = ans[d]

\* So the invariant of the calls is kept if it is of c's.
LEMMA CallStep ==
  ASSUME CallInv, NEW c \in Client, Others(c), obj' \in [Key -> Contents],
         call' \in [Client -> Request \cup Cleanup \cup {NoCall}],
         took' \in [Client -> BOOLEAN], ans' \in [Client -> {"none", "ok", "error"}],
         DOMAIN saw' = Client, DOMAIN pos' = Client, calls' \in calls .. MaxCalls,
         call'[c].n <= calls',
         pos'[c] \in {"idle", "dead"} <=> call'[c] = NoCall,
         call'[c].op \notin {"get", "list", "exists"} => saw'[c] = <<>>,
         took'[c] => call'[c].op \in {"put", "delete"},
         pos'[c] = "done" =>
           IF call'[c].op \in {"put", "delete"}
             THEN took'[c] \/ (c \in Failing /\ call'[c].op = "delete")
             ELSE call'[c].op \in {"get", "list", "exists"} /\ DOMAIN saw'[c] = call'[c].keys,
         DOMAIN saw'[c] \subseteq call'[c].keys
  PROVE  CallInv'
<1>1. calls \in 0 .. MaxCalls /\ MaxCalls \in Nat /\ calls' \in 0 .. MaxCalls
  BY ClientAssumption DEF CallInv
<1>2. ASSUME NEW d \in Client
      PROVE  /\ call'[d].n <= calls'
             /\ pos'[d] \in {"idle", "dead"} <=> call'[d] = NoCall
             /\ call'[d].op \notin {"get", "list", "exists"} => saw'[d] = <<>>
             /\ took'[d] => call'[d].op \in {"put", "delete"}
             /\ pos'[d] = "done" =>
                  IF call'[d].op \in {"put", "delete"}
                    THEN took'[d] \/ (d \in Failing /\ call'[d].op = "delete")
                    ELSE call'[d].op \in {"get", "list", "exists"} /\ DOMAIN saw'[d] = call'[d].keys
             /\ DOMAIN saw'[d] \subseteq call'[d].keys
  <2>1. CASE d = c
    BY <2>1
  <2>2. CASE d # c
    <3>1. /\ call'[d] = call[d] /\ pos'[d] = pos[d] /\ took'[d] = took[d]
          /\ saw'[d] = saw[d] /\ call[d].n \in Nat
      BY <2>2, CallIs DEF Others
    <3> QED BY <1>1, <3>1 DEF CallInv, Reading, Writing
  <2> QED BY <2>1, <2>2
<1> QED BY <1>1, <1>2 DEF CallInv, Reading, Writing, Contents, Request, Cleanup, NoCall

\* A step that changes no more of the calls than where c is in its own.
LEMMA CallMoves ==
  ASSUME CallInv, NEW c \in Client, pos[c] \notin {"idle", "dead"},
         NEW place, place \notin {"idle", "dead", "done"}, pos' = [pos EXCEPT ![c] = place],
         obj' \in [Key -> Contents], UNCHANGED <<call, took, saw, ans, calls>>
  PROVE  CallInv' /\ Others(c)
<1>1. Others(c) /\ pos'[c] = place /\ DOMAIN pos' = Client
  BY DEF Others, CallInv
<1>2. calls' \in calls .. MaxCalls
  BY ClientAssumption DEF CallInv
<1>3. CallInv'
  BY <1>1, <1>2, CallStep DEF CallInv, Reading, Writing
<1> QED BY <1>1, <1>3

\* The places of the local backend, by operation and the other way round.
LEMMA LocalPlaces ==
  ASSUME CallInv, PlaceInv, NEW c \in Client
  PROVE  /\ pos[c] \in {"writing", "blocked", "again", "undo"} => call[c].op = "put"
         /\ pos[c] = "unlink" => call[c].op = "delete"
         /\ pos[c] = "walk" => call[c].op = "list"
         /\ pos[c] = "sweep" <=> call[c].op = "cleanup"
         /\ pos[c] \in {"idle", "dead"} <=> call[c].op = "none"
         /\ pos[c] \in {"idle", "dead", "begin", "writing", "blocked", "again", "undo",
                        "unlink", "walk", "sweep", "done", "failed"}
<1>1. call[c].op \in {"none", "cleanup", "put", "delete", "get", "list", "exists"}
  BY CallIs
<1>2. pos[c] \in LocalPlace(call[c].op)
  BY DEF PlaceInv
<1> QED BY <1>1, <1>2 DEF LocalPlace

\* Calls begin and end, whether by themselves or by a crash.
LEMMA CallEnds ==
  ASSUME CallInv, NEW c \in Client,
         \/ Local!Invoke(c) \/ Local!BeginCleanup(c)
         \/ \E answer \in {"none", "ok", "error"}, place \in {"idle", "dead"} :
              Local!Over(c, answer, place)
  PROVE  CallInv' /\ Others(c)
<1>1. CASE Local!Invoke(c) \/ Local!BeginCleanup(c)
  <2>1. /\ pos[c] = "idle" /\ call[c] = NoCall /\ saw[c] = <<>> /\ took[c] = FALSE
        /\ calls' = calls + 1 /\ UNCHANGED <<obj, took, saw>>
    <3>1. pos[c] = "idle" /\ calls' = calls + 1 /\ UNCHANGED <<obj, took, saw>>
      BY <1>1 DEF Local!Invoke, Local!BeginCleanup
    <3>2. call[c] = NoCall
      BY <3>1 DEF CallInv
    <3> QED BY <3>1, <3>2, Requests DEF CallInv, Reading, Writing
  <2>2. PICK r \in Request \cup Cleanup :
          r.n = calls' /\ call' = [call EXCEPT ![c] = r]
            /\ \/ r \in Request /\ pos' = [pos EXCEPT ![c] = "begin"]
               \/ r \in Cleanup /\ pos' = [pos EXCEPT ![c] = "sweep"]
    <3>1. CASE Local!Invoke(c)
      <4>1. PICK r \in Request : r.n = calls' /\ call' = [call EXCEPT ![c] = r]
        BY <3>1, SameTerms DEF Local!Invoke
      <4>2. pos' = [pos EXCEPT ![c] = "begin"]
        BY <3>1 DEF Local!Invoke, Local!Goto
      <4> QED BY <4>1, <4>2
    <3>2. CASE Local!BeginCleanup(c)
      <4>1. PICK r \in Cleanup : r.n = calls' /\ call' = [call EXCEPT ![c] = r]
        BY <3>2, SameTerms DEF Local!BeginCleanup
      <4>2. pos' = [pos EXCEPT ![c] = "sweep"]
        BY <3>2 DEF Local!BeginCleanup, Local!Goto
      <4> QED BY <4>1, <4>2
    <3> QED BY <1>1, <3>1, <3>2
  <2>3. ans' \in [Client -> {"none", "ok", "error"}]
          /\ \A d \in Client \ {c} : ans'[d] = ans[d]
    BY <1>1 DEF Local!Invoke, Local!BeginCleanup, CallInv
  <2>4. r.n \in 1 .. MaxCalls /\ r.op # "none" /\ r # NoCall
    BY <2>2, Requests
  <2>5. Others(c) /\ pos'[c] \in {"begin", "sweep"} /\ DOMAIN pos' = Client /\ call'[c] = r
    BY <2>1, <2>2, <2>3 DEF Others, CallInv
  <2>6. calls' \in calls .. MaxCalls
    BY <2>1, <2>2, <2>4, ClientAssumption DEF CallInv
  <2>7. call' \in [Client -> Request \cup Cleanup \cup {NoCall}]
    BY <2>2 DEF CallInv
  <2>8. DOMAIN saw'[c] = {} /\ saw'[c] = <<>> /\ ~ took'[c] /\ call'[c].n <= calls'
    BY <2>1, <2>2, <2>5, <2>6, ClientAssumption DEF CallInv
  <2> QED BY <2>1, <2>3, <2>4, <2>5, <2>6, <2>7, <2>8, CallStep DEF CallInv
<1>2. CASE ~ (Local!Invoke(c) \/ Local!BeginCleanup(c))
  <2>1. PICK answer \in {"none", "ok", "error"}, place \in {"idle", "dead"} :
          Local!Over(c, answer, place)
    BY <1>2
  <2>2. /\ call' = [call EXCEPT ![c] = NoCall] /\ pos' = [pos EXCEPT ![c] = place]
        /\ took' = [took EXCEPT ![c] = FALSE] /\ saw' = [saw EXCEPT ![c] = <<>>]
        /\ ans' = [ans EXCEPT ![c] = answer] /\ UNCHANGED <<obj, calls>>
    BY <2>1, SameTerms DEF Local!Over, Local!Goto
  <2>3. /\ call'[c] = NoCall /\ pos'[c] = place /\ took'[c] = FALSE /\ saw'[c] = <<>>
        /\ DOMAIN pos' = Client /\ DOMAIN saw' = Client
        /\ took' \in [Client -> BOOLEAN] /\ ans' \in [Client -> {"none", "ok", "error"}]
        /\ call' \in [Client -> Request \cup Cleanup \cup {NoCall}] /\ Others(c)
    BY <2>2 DEF CallInv, Others
  <2>4. calls' \in calls .. MaxCalls /\ NoCall.n <= calls'
    BY <2>2, Requests, ClientAssumption DEF CallInv
  <2> QED BY <2>2, <2>3, <2>4, Requests, CallStep DEF CallInv
<1> QED BY <1>1, <1>2

\* A look that does not fail tells what is there; one that fails, nothing.
LEMMA LooksTell ==
  ASSUME NEW c, NEW keys, NEW look \in Local!Looks(c, keys)
  PROVE  /\ DOMAIN look = keys
         /\ \A k \in keys : look[k] = Look(c, {k})[k] \/ (c \in Failing /\ look[k] = FALSE)
         /\ call[c].op # "get" => \A k \in keys : ~ look[k] => obj[k] = Absent \/ c \in Failing
<1>1. CASE look = Look(c, keys)
  BY <1>1 DEF Look
<1>2. CASE look = [k \in keys |-> FALSE] /\ c \in Failing
  BY <1>2
<1>3. look = Look(c, keys) \/ (look = [k \in keys |-> FALSE] /\ c \in Failing)
  BY SameTerms DEF Local!Looks
<1> QED BY <1>1, <1>2, <1>3

\* The calls go on.
LEMMA LocalWrites ==
  ASSUME CallInv, PlaceInv, NEW c \in Client,
         Local!PutStep(c) \/ Local!Probe(c) \/ Local!Unlink(c) \/ Local!IoError(c)
  PROVE  CallInv' /\ Others(c)
<1>0. \A k \in Key, x \in Contents : [obj EXCEPT ![k] = x] \in [Key -> Contents]
  BY DEF CallInv
<1>1. Writing(c) => Local!Target(c) \in Key /\ call[c].data \in Contents /\ call[c] # NoCall
  BY CallIs, Requests DEF Writing
<1>2. CASE \E place \in {"writing", "undo", "blocked", "again", "failed", "unlink"} :
             /\ pos' = [pos EXCEPT ![c] = place] /\ pos[c] \notin {"idle", "dead"}
             /\ obj' \in [Key -> Contents] /\ UNCHANGED <<call, took, saw, ans, calls>>
  BY <1>2, CallMoves
<1>3. CASE /\ pos' = [pos EXCEPT ![c] = "done"] /\ pos[c] \notin {"idle", "dead"} /\ Writing(c)
           /\ \/ took' = [took EXCEPT ![c] = TRUE]
              \/ /\ c \in Failing /\ call[c].op = "delete"
                 /\ \E b \in BOOLEAN : took' = [took EXCEPT ![c] = b]
           /\ obj' \in [Key -> Contents] /\ UNCHANGED <<call, saw, ans, calls>>
  <2>1. /\ Others(c) /\ pos'[c] = "done" /\ DOMAIN pos' = Client
        /\ took'[c] \/ (c \in Failing /\ call[c].op = "delete")
        /\ took' \in [Client -> BOOLEAN]
    BY <1>3 DEF Others, CallInv
  <2>2. calls' \in calls .. MaxCalls
    BY <1>3, ClientAssumption DEF CallInv
  <2> QED BY <1>1, <1>3, <2>1, <2>2, CallStep DEF CallInv, Writing, Reading
<1>4. CASE Local!CreateTmp(c)
  BY <1>2, <1>4 DEF Local!CreateTmp, Local!Goto, CallInv
<1>5. CASE Local!WriteFails(c)
  BY <1>2, <1>5 DEF Local!WriteFails, Local!Goto, CallInv
<1>6. CASE Local!Rename(c)
  <2>1. Writing(c)
    BY <1>6, LocalPlaces DEF Local!Rename, Writing
  <2> QED BY <1>0, <1>1, <1>3, <1>6, <2>1 DEF Local!Rename, Local!Goto, Local!Put
<1>7. CASE Local!RenameFails(c)
  <2>1. \E place \in {"blocked", "undo"} : pos' = [pos EXCEPT ![c] = place]
    BY <1>7 DEF Local!RenameFails, Local!Goto
  <2> QED BY <1>2, <1>7, <2>1 DEF Local!RenameFails, CallInv
<1>8. CASE Local!RemoveTarget(c)
  <2>1. Writing(c)
    BY <1>8, LocalPlaces DEF Local!RemoveTarget, Writing
  <2>2. obj' \in [Key -> Contents]
    BY <1>0, <1>1, <1>8, <2>1 DEF Local!RemoveTarget, Local!Put, Contents, CallInv
  <2> QED BY <1>2, <1>8, <2>2 DEF Local!RemoveTarget, Local!Goto
<1>9. CASE Local!RenameFailsAgain(c)
  BY <1>2, <1>9 DEF Local!RenameFailsAgain, Local!Goto, CallInv
<1>10. CASE Local!RemoveTmp(c)
  BY <1>2, <1>10 DEF Local!RemoveTmp, Local!Goto, CallInv
<1>11. CASE Local!Probe(c)
  <2>1. /\ pos[c] = "begin" /\ call[c].op = "delete" /\ Writing(c)
        /\ obj' \in [Key -> Contents] /\ UNCHANGED <<obj, call, saw, ans, calls>>
    BY <1>11 DEF Local!Probe, Writing, CallInv
  <2>2. PICK look \in Local!Looks(c, call[c].keys) :
          IF look[Local!Target(c)]
            THEN pos' = [pos EXCEPT ![c] = "unlink"] /\ UNCHANGED took
            ELSE /\ pos' = [pos EXCEPT ![c] = "done"]
                 /\ took' = [took EXCEPT ![c] = obj[Local!Target(c)] = Absent]
    BY <1>11 DEF Local!Probe, Local!Goto
  <2>3. CASE look[Local!Target(c)]
    BY <1>2, <2>1, <2>2, <2>3
  <2>4. CASE ~ look[Local!Target(c)]
    <3>1. obj[Local!Target(c)] = Absent \/ c \in Failing
      <4>1. Local!Target(c) \in call[c].keys /\ call[c].op # "get"
        BY <2>1, CallIs
      <4>2. \A k \in call[c].keys : ~ look[k] => obj[k] = Absent \/ c \in Failing
        BY <4>1, LooksTell
      <4> QED BY <2>4, <4>1, <4>2
    <3>2. CASE obj[Local!Target(c)] = Absent
      BY <1>3, <2>1, <2>2, <2>4, <3>2
    <3>3. CASE obj[Local!Target(c)] # Absent
      BY <1>3, <2>1, <2>2, <2>4, <3>1, <3>3
    <3> QED BY <3>2, <3>3
  <2> QED BY <2>3, <2>4
<1>12. CASE Local!Unlink(c)
  <2>1. Writing(c)
    BY <1>12, LocalPlaces DEF Local!Unlink, Writing
  <2>2. CASE obj[Local!Target(c)] = Absent
    BY <1>2, <1>12, <2>2 DEF Local!Unlink, Local!Goto, CallInv
  <2>3. CASE obj[Local!Target(c)] # Absent
    BY <1>0, <1>1, <1>3, <1>12, <2>1, <2>3 DEF Local!Unlink, Local!Goto, Local!Put, Contents
  <2> QED BY <2>2, <2>3
<1>13. CASE Local!IoError(c)
  BY <1>2, <1>13 DEF Local!IoError, Local!Goto, CallInv
<1> QED BY <1>4, <1>5, <1>6, <1>7, <1>8, <1>9, <1>10, <1>11, <1>12, <1>13 DEF Local!PutStep

\* What a look at keys tells, and what is known after it.
LEMMA LookIs ==
  /\ \A c, keys : DOMAIN Look(c, keys) = keys
  /\ \A f, g : /\ DOMAIN Joined(f, g) = DOMAIN f \cup DOMAIN g
               /\ \A k \in DOMAIN g : Joined(f, g)[k] = g[k]
               /\ \A k \in DOMAIN f \ DOMAIN g : Joined(f, g)[k] = f[k]
               /\ DOMAIN g = {} => Joined(f, g) = [k \in DOMAIN f |-> f[k]]
  /\ \A f, g : Local!Joined(f, g) = Joined(f, g) /\ S3!Joined(f, g) = Joined(f, g)
  /\ DOMAIN <<>> = {}
<1>1. \A f, g : Local!Joined(f, g) = Joined(f, g) /\ S3!Joined(f, g) = Joined(f, g)
  BY DEF Local!Joined, S3!Joined, Joined
<1>2. \A c, keys : DOMAIN Look(c, keys) = keys
  BY DEF Look
<1>3. ASSUME NEW f, NEW g
      PROVE  /\ DOMAIN Joined(f, g) = DOMAIN f \cup DOMAIN g
             /\ \A k \in DOMAIN g : Joined(f, g)[k] = g[k]
             /\ \A k \in DOMAIN f \ DOMAIN g : Joined(f, g)[k] = f[k]
             /\ DOMAIN g = {} => Joined(f, g) = [k \in DOMAIN f |-> f[k]]
  BY DEF Joined
<1>4. DOMAIN <<>> = {}
  OBVIOUS
<1> QED BY <1>1, <1>2, <1>3, <1>4

\* What a read has seen after a step of it, and where it is then.
LocalRead(c, keys, place) ==
  /\ pos' = [pos EXCEPT ![c] = place]
  /\ DOMAIN saw' = Client /\ \A d \in Client \ {c} : saw'[d] = saw[d]
  /\ DOMAIN saw'[c] = keys
  /\ UNCHANGED <<obj, call, took, ans, calls>>

\* Such a step keeps the invariant of the calls.
LEMMA ReadStep ==
  ASSUME CallInv, NEW c \in Client, Reading(c), NEW keys, keys \subseteq call[c].keys,
         NEW place, LocalRead(c, keys, place), place \notin {"idle", "dead"},
         place = "done" => keys = call[c].keys
  PROVE  CallInv' /\ Others(c)
<1>1. Others(c) /\ pos'[c] = place /\ DOMAIN pos' = Client
  BY DEF LocalRead, Others, CallInv
<1>2. calls' \in calls .. MaxCalls /\ call[c] # NoCall
  BY ClientAssumption, Requests DEF LocalRead, CallInv, Reading
<1>3. CallInv'
  BY <1>1, <1>2, CallStep DEF LocalRead, CallInv, Reading, Writing
<1> QED BY <1>1, <1>3

\* The walk of a listing has seen the keys of the directories it has left.
LEMMA LocalReads ==
  ASSUME CallInv, PlaceInv, FileInv, NEW c \in Client,
         Local!Read(c) \/ Local!Exists(c) \/ Local!ListStep(c)
  PROVE  /\ CallInv' /\ Others(c)
         /\ todo' \in [Client -> SUBSET Local!Dirs]
         /\ \A d \in Client \ {c} : todo'[d] = todo[d]
         /\ pos'[c] = "walk" => DOMAIN saw'[c] = Local!InDir(Local!Dirs \ todo'[c])
         /\ \E place \in {"walk", "done"} :
              pos' = [pos EXCEPT ![c] = place] /\ (place = "walk" => call[c].op = "list")
         /\ pos[c] \notin {"idle", "dead", "sweep"}
         /\ UNCHANGED <<call, calls, tmp, old, found, doomed, due>>
<1>1. CASE Local!Read(c)
  <2>1. /\ call[c].op = "get" /\ pos[c] = "begin"
        /\ saw' = [saw EXCEPT ![c] = Look(c, call[c].keys)]
        /\ pos' = [pos EXCEPT ![c] = "done"]
        /\ UNCHANGED <<obj, call, took, ans, calls, tmp, old, todo, found, doomed, due>>
    BY <1>1, SameTerms DEF Local!Read, Local!Goto, Local!localVars, Local!files, Local!walking
  <2>2. LocalRead(c, call[c].keys, "done")
    BY <2>1, LookIs DEF LocalRead, CallInv
  <2>3. CallInv' /\ Others(c)
    <3>1. Reading(c) /\ call[c].keys \subseteq call[c].keys
      BY <2>1 DEF Reading
    <3> QED BY <2>2, <3>1, ReadStep
  <2>4. pos'[c] = "done"
    BY <2>1 DEF CallInv
  <2> QED BY <2>1, <2>3, <2>4 DEF FileInv
<1>2. CASE Local!BeginList(c)
  <2> DEFINE place == IF Local!Dirs = {} THEN "done" ELSE "walk"
  <2>1. /\ call[c].op = "list" /\ pos[c] = "begin" /\ call[c].keys = Key /\ saw[c] = <<>>
        /\ pos' = [pos EXCEPT ![c] = place] /\ todo' = [todo EXCEPT ![c] = Local!Dirs]
        /\ UNCHANGED <<obj, call, took, saw, ans, calls, tmp, old, found, doomed, due>>
    BY <1>2, CallIs
       DEF Local!BeginList, Local!Walk, Local!Goto, Local!files, PlaceInv
  <2>2. place = "done" => {} = Key
    BY DEF Local!Dirs
  <2>3. Local!InDir(Local!Dirs \ Local!Dirs) = {}
    BY DEF Local!InDir
  <2>4. LocalRead(c, {}, place)
    BY <2>1, LookIs DEF LocalRead, CallInv
  <2>5. todo' \in [Client -> SUBSET Local!Dirs] /\ todo'[c] = Local!Dirs
    BY <2>1 DEF FileInv
  <2>6. CallInv' /\ Others(c)
    BY <2>1, <2>2, <2>4, ReadStep DEF Reading
  <2> QED BY <2>1, <2>3, <2>4, <2>5, <2>6 DEF LocalRead, FileInv
<1>3. ASSUME NEW dir \in todo[c], Local!ReadDir(c, dir)
      PROVE  /\ CallInv' /\ Others(c)
             /\ todo' \in [Client -> SUBSET Local!Dirs]
             /\ \A d \in Client \ {c} : todo'[d] = todo[d]
             /\ pos'[c] = "walk" => DOMAIN saw'[c] = Local!InDir(Local!Dirs \ todo'[c])
             /\ \E place \in {"walk", "done"} :
                  pos' = [pos EXCEPT ![c] = place] /\ (place = "walk" => call[c].op = "list")
             /\ pos[c] \notin {"idle", "dead", "sweep"}
             /\ UNCHANGED <<call, calls, tmp, old, found, doomed, due>>
  <2> DEFINE rest == todo[c] \ {dir}
             keys == Local!InDir(Local!Dirs \ rest)
             place == IF rest = {} THEN "done" ELSE "walk"
  <2>1. /\ pos[c] = "walk" /\ call[c].op = "list" /\ call[c].keys = Key
        /\ \E look \in Local!Looks(c, Local!InDir({dir})) :
             saw' = [saw EXCEPT ![c] = Joined(saw[c], look)]
        /\ pos' = [pos EXCEPT ![c] = place] /\ todo' = [todo EXCEPT ![c] = rest]
        /\ UNCHANGED <<obj, call, took, ans, calls, tmp, old, found, doomed, due>>
    BY <1>3, LookIs, LocalPlaces, CallIs
       DEF Local!ReadDir, Local!Walk, Local!Goto, Local!files, CallInv
  <2>2. /\ keys = Local!InDir(Local!Dirs \ todo[c]) \cup Local!InDir({dir})
        /\ keys \subseteq Key /\ (place = "done" => keys = Key)
        /\ DOMAIN saw[c] = Local!InDir(Local!Dirs \ todo[c])
    <3>1. todo[c] \subseteq Local!Dirs /\ Local!Dirs \ rest = (Local!Dirs \ todo[c]) \cup {dir}
      BY <1>3 DEF FileInv
    <3> QED BY <2>1, <3>1 DEF Local!InDir, Local!Dirs, PlaceInv
  <2> HIDE DEF keys, rest
  <2>3. LocalRead(c, keys, place)
    <3>0. PICK look \in Local!Looks(c, Local!InDir({dir})) :
            saw' = [saw EXCEPT ![c] = Joined(saw[c], look)]
      BY <2>1
    <3>1. DOMAIN look = Local!InDir({dir})
      BY LooksTell
    <3>2. DOMAIN Joined(saw[c], look) = keys
      <4>1. DOMAIN Joined(saw[c], look) = DOMAIN saw[c] \cup DOMAIN look
        BY LookIs, Zenon
      <4> QED BY <2>2, <3>1, <4>1
    <3> QED BY <2>1, <3>0, <3>2 DEF LocalRead, CallInv
  <2>4. todo' \in [Client -> SUBSET Local!Dirs] /\ todo'[c] = rest
    BY <2>1 DEF FileInv, rest
  <2>5. CallInv' /\ Others(c)
    <3>1. place \notin {"idle", "dead"} /\ (place = "done" => keys = call[c].keys)
      BY <2>1, <2>2
    <3>2. Reading(c) /\ keys \subseteq call[c].keys
      BY <2>1, <2>2 DEF Reading
    <3> HIDE DEF place
    <3> QED BY <2>3, <3>1, <3>2, ReadStep
  <2> QED BY <2>1, <2>3, <2>4, <2>5 DEF LocalRead, FileInv, keys, rest
<1>4. CASE Local!Exists(c)
  <2>1. /\ call[c].op = "exists" /\ pos[c] = "begin"
        /\ pos' = [pos EXCEPT ![c] = "done"]
        /\ UNCHANGED <<obj, call, took, ans, calls, tmp, old, todo, found, doomed, due>>
    BY <1>4 DEF Local!Exists, Local!Goto, Local!localVars, Local!files, Local!walking
  <2> DEFINE keys == call[c].keys
  <2>2. PICK look \in Local!Looks(c, keys) : saw' = [saw EXCEPT ![c] = look]
    BY <1>4 DEF Local!Exists
  <2>3. LocalRead(c, call[c].keys, "done")
    <3> HIDE DEF keys
    <3>1. DOMAIN look = keys
      BY LooksTell
    <3> QED BY <2>1, <2>2, <3>1 DEF LocalRead, CallInv, keys
  <2>4. CallInv' /\ Others(c)
    <3>1. Reading(c) /\ call[c].keys \subseteq call[c].keys
      BY <2>1 DEF Reading
    <3> QED BY <2>3, <3>1, ReadStep
  <2>5. pos'[c] = "done"
    BY <2>1 DEF CallInv
  <2> QED BY <2>1, <2>4, <2>5 DEF FileInv
<1> QED BY <1>1, <1>2, <1>3, <1>4 DEF Local!ListStep

-----------------------------------------------------------------------------
(***************************************************************************)
(* The temporary files.                                                    *)
(***************************************************************************)
LivePlace == {"writing", "blocked", "again"}

\* The file of a call is of that call alone.
LEMMA TmpIs ==
  ASSUME CallInv, NEW c \in Client
  PROVE  /\ Local!Tmp(c).by = c /\ Local!Tmp(c).n = call[c].n
         /\ Local!Tmp(c).dir = Dir[Local!Target(c)]
         /\ call[c].op = "put" => Local!Tmp(c) \in File /\ Dir[Local!Target(c)] \in Local!Dirs
<1>1. call[c].op = "put" => Local!Target(c) \in Key /\ call[c].n \in 1 .. MaxCalls
  BY CallIs
<1> QED BY <1>1 DEF Local!Tmp, File, Local!Dirs

\* The places of a step of c's call.
LEMMA PlaceStep ==
  ASSUME PlaceInv, NEW c \in Client, Others(c), \A d \in Client \ {c} : todo'[d] = todo[d],
         pos'[c] \in LocalPlace(call'[c].op),
         pos'[c] = "begin" => saw'[c] = <<>> /\ took'[c] = FALSE,
         pos'[c] = "walk" => DOMAIN saw'[c] = Local!InDir(Local!Dirs \ todo'[c])
  PROVE  PlaceInv'
<1>1. ASSUME NEW d \in Client
      PROVE  /\ pos'[d] \in LocalPlace(call'[d].op)
             /\ pos'[d] = "begin" => saw'[d] = <<>> /\ took'[d] = FALSE
             /\ pos'[d] = "walk" => DOMAIN saw'[d] = Local!InDir(Local!Dirs \ todo'[d])
  BY DEF PlaceInv, Others
<1> QED BY <1>1 DEF PlaceInv, LocalPlace, Local!InDir

\* A step of c that has to do with no file, or ends a cleanup.
LEMMA FilesStay ==
  ASSUME CallInv, FileInv, SweepInv, NEW c \in Client, Others(c),
         UNCHANGED <<tmp, old>>, calls' \in Nat, calls <= calls',
         todo' \in [Client -> SUBSET Local!Dirs], found' \in [Client -> SUBSET File],
         doomed' \in [Client -> SUBSET File], due' \in [Client -> SUBSET File],
         \A d \in Client \ {c} :
           todo'[d] = todo[d] /\ found'[d] = found[d] /\ doomed'[d] = doomed[d] /\ due'[d] = due[d],
         found'[c] = {}, doomed'[c] = {}, due'[c] \subseteq due[c],
         pos[c] # "dead", pos'[c] # "sweep", pos'[c] = "begin" => call'[c].n = calls' /\ calls' = calls + 1
  PROVE  FileInv' /\ SweepInv'
<1>1. Known' \subseteq Known
  BY DEF Known
<1>2. ASSUME NEW f \in Known'
      PROVE  f.n <= calls' /\ (pos'[f.by] = "begin" => f.n # call'[f.by].n)
  <2>1. f \in Known /\ f.by \in Client /\ f.n \in Nat /\ calls \in Nat /\ f.n <= calls
    BY <1>1, <1>2, ClientAssumption DEF Known, FileInv, File, CallInv
  <2>2. CASE f.by = c
    BY <2>1, <2>2
  <2>3. CASE f.by # c
    BY <2>1, <2>3 DEF FileInv, Others
  <2> QED BY <2>2, <2>3
<1>3. FileInv'
  <2>1. \A d \in Client : pos'[d] # "sweep" => found'[d] = {} /\ doomed'[d] = {}
    BY DEF FileInv, Others
  <2> QED BY <1>2, <2>1 DEF FileInv, File, Known
<1>4. SweepInv'
  <2> SUFFICES ASSUME NEW d \in Client, pos'[d] = "sweep", NEW f \in due'[d] \cap tmp'
               PROVE  /\ f \in old' \/ (Host[f.by] = Host[d] /\ pos'[f.by] = "dead")
                      /\ f.dir \in todo'[d] \/ f \in found'[d] \/ f \in doomed'[d]
    BY DEF SweepInv, Local!Abandoned
  <2>1. d # c /\ pos[d] = "sweep" /\ f \in due[d] \cap tmp /\ f.by \in Client
    BY DEF Others, FileInv, File
  <2>2. Local!Abandoned(d, f) /\ (f.dir \in todo[d] \/ f \in found[d] \/ f \in doomed[d])
    BY <2>1 DEF SweepInv
  <2>3. f.by # c => pos'[f.by] = pos[f.by]
    BY <2>1 DEF Others
  <2> QED BY <2>1, <2>2, <2>3 DEF Local!Abandoned
<1> QED BY <1>3, <1>4

\* No file becomes live, old or doomed by it.
LEMMA KeepStays ==
  ASSUME KeepInv, NEW c \in Client, Others(c),
         tmp \ tmp' \subseteq {f \in tmp : f.by = c}, old' \subseteq old,
         \A d \in Client : doomed'[d] \subseteq doomed[d],
         pos'[c] \in LivePlace => pos[c] \in LivePlace /\ call'[c] = call[c] /\ tmp' = tmp,
         pos'[c] = "blocked" => c \in Windows \cup Failing
  PROVE  KeepInv'
<1>1. ASSUME NEW d \in Client, pos'[d] \in LivePlace
      PROVE  /\ Local!Tmp(d)' = Local!Tmp(d) /\ Local!Tmp(d) \in Local!Live
             /\ Local!Tmp(d) \in tmp'
  <2>1. call'[d] = call[d] /\ pos[d] \in LivePlace
    BY <1>1 DEF Others
  <2>2. Local!Tmp(d)' = Local!Tmp(d) /\ Local!Tmp(d).by = d
    BY <2>1 DEF Local!Tmp, Local!Target
  <2>3. Local!Tmp(d) \in Local!Live
    BY <2>1 DEF Local!Live, LivePlace
  <2>4. Local!Tmp(d) \in tmp
    BY <2>3 DEF KeepInv
  <2> QED BY <1>1, <2>2, <2>3, <2>4
<1>2. Local!Live' \subseteq Local!Live /\ Local!Live' \subseteq tmp'
  BY <1>1 DEF Local!Live, LivePlace
<1>3. \A d \in Client : pos'[d] = "blocked" => d \in Windows \cup Failing
  BY DEF KeepInv, Others
<1> QED BY <1>2, <1>3 DEF KeepInv

\* The steps of a call that leave the temporary files as they are.
LEMMA QuietSteps ==
  ASSUME CallInv, LocalInv, NEW c \in Client,
         Local!Begin(c) \/ Local!WriteFails(c) \/ Local!RenameFails(c) \/ Local!RemoveTarget(c)
           \/ Local!RenameFailsAgain(c) \/ Local!Probe(c) \/ Local!Unlink(c) \/ Local!Read(c)
           \/ Local!Exists(c) \/ Local!ListStep(c) \/ Local!IoError(c) \/ Local!End(c)
           \/ Local!EndCleanup(c) \/ Local!Crash(c)
  PROVE  CallInv' /\ LocalInv'
<1> DEFINE Walks == Local!Read(c) \/ Local!Exists(c) \/ Local!ListStep(c)
           Moves == \/ Local!WriteFails(c) \/ Local!RenameFails(c) \/ Local!RemoveTarget(c)
                    \/ Local!RenameFailsAgain(c) \/ Local!Probe(c) \/ Local!Unlink(c)
                    \/ Local!IoError(c)
           Ends == Local!End(c) \/ Local!EndCleanup(c) \/ Local!Crash(c)
<1>0. PlaceInv /\ FileInv /\ SweepInv
  BY DEF LocalInv
<1>1. CallInv' /\ Others(c)
  <2>1. CASE Walks
    BY <1>0, <2>1, LocalReads
  <2>2. CASE Moves
    BY <1>0, <2>2, LocalWrites DEF Local!PutStep
  <2>3. CASE Ends \/ Local!Begin(c)
    <3>1. \/ Local!Invoke(c)
          \/ \E answer \in {"none", "ok", "error"}, place \in {"idle", "dead"} :
               Local!Over(c, answer, place)
      BY <2>3 DEF Local!Begin, Local!End, Local!Return, Local!ReturnError, Local!EndCleanup,
         Local!Crash, CallInv
    <3> QED BY <3>1, CallEnds
  <2> QED BY <2>1, <2>2, <2>3
<1>2. /\ UNCHANGED <<tmp, old>>
      /\ todo' \in [Client -> SUBSET Local!Dirs] /\ \A d \in Client \ {c} : todo'[d] = todo[d]
      /\ pos'[c] = "walk" => DOMAIN saw'[c] = Local!InDir(Local!Dirs \ todo'[c])
  <2>1. CASE Walks
    BY <1>0, <2>1, LocalReads
  <2>2. CASE Moves \/ Ends \/ Local!Begin(c)
    <3>1. UNCHANGED <<tmp, old>> /\ (UNCHANGED todo \/ todo' = [todo EXCEPT ![c] = {}])
      BY <2>2 DEF Local!WriteFails, Local!RenameFails, Local!RemoveTarget,
         Local!RenameFailsAgain, Local!Probe, Local!Unlink, Local!IoError, Local!End,
         Local!Begin, Local!EndCleanup, Local!Crash, Local!localVars, Local!files, Local!walking
    <3>2. \E place \in {"idle", "dead", "begin", "undo", "blocked", "again", "done",
                         "unlink", "failed"} : pos' = [pos EXCEPT ![c] = place]
      BY <2>2 DEF Local!WriteFails, Local!RenameFails, Local!RemoveTarget,
         Local!RenameFailsAgain, Local!Probe, Local!Unlink, Local!IoError, Local!End,
         Local!Begin, Local!EndCleanup, Local!Crash, Local!Over, Local!Goto, Local!Invoke,
         Local!Return, Local!ReturnError
    <3>3. pos'[c] # "walk"
      BY <3>2 DEF CallInv
    <3> QED BY <1>0, <3>1, <3>3 DEF FileInv
  <2> QED BY <2>1, <2>2
<1>3. /\ pos[c] # "dead" /\ pos'[c] # "sweep" /\ pos'[c] \in LocalPlace(call'[c].op)
      /\ pos'[c] = "begin" => saw'[c] = <<>> /\ took'[c] = FALSE
      /\ pos'[c] = "begin" => call'[c].n = calls' /\ calls' = calls + 1
      /\ pos'[c] \in LivePlace => pos[c] \in LivePlace /\ call'[c] = call[c]
  <2>1. CASE Walks
    <3>1. PICK place \in {"walk", "done"} :
            pos' = [pos EXCEPT ![c] = place] /\ (place = "walk" => call[c].op = "list")
      BY <1>0, <2>1, LocalReads
    <3>2. pos'[c] = place /\ call'[c] = call[c] /\ pos[c] \notin {"idle", "dead", "sweep"}
      BY <1>0, <2>1, <3>1, LocalReads DEF CallInv
    <3>3. call[c].op \in {"put", "delete", "get", "list", "exists"}
      BY <1>0, <3>2, LocalPlaces, CallIs
    <3> QED BY <3>1, <3>2, <3>3 DEF LocalPlace, LivePlace
  <2>2. CASE Moves
    <3>1. /\ pos[c] \notin {"idle", "dead", "sweep"} /\ call'[c] = call[c]
          /\ call[c].op \in {"put", "delete", "get", "list", "exists"}
      BY <1>0, <2>2, LocalPlaces, CallIs DEF Local!WriteFails, Local!RenameFails,
         Local!RemoveTarget, Local!RenameFailsAgain, Local!Probe, Local!Unlink, Local!IoError
    <3>2. PICK place \in {"undo", "blocked", "again", "done", "unlink", "failed"} :
            /\ pos' = [pos EXCEPT ![c] = place]
            /\ place \in {"undo", "blocked", "again"} => pos[c] \in LivePlace
            /\ place = "unlink" => call[c].op = "delete"
      BY <2>2 DEF Local!WriteFails, Local!RenameFails, Local!RemoveTarget,
         Local!RenameFailsAgain, Local!Probe, Local!Unlink, Local!IoError, Local!Goto, LivePlace
    <3>3. pos'[c] = place
      BY <3>2 DEF CallInv
    <3>4. place \in {"undo", "blocked", "again"} => call[c].op = "put"
      BY <1>0, <3>2, LocalPlaces DEF LivePlace
    <3> QED BY <3>1, <3>2, <3>3, <3>4 DEF LocalPlace, LivePlace
  <2>3. CASE Ends
    <3>1. PICK answer \in {"none", "ok", "error"}, place \in {"idle", "dead"} :
            Local!Over(c, answer, place)
      BY <2>3 DEF Local!End, Local!Return, Local!ReturnError, Local!EndCleanup, Local!Crash,
         CallInv
    <3>2. pos'[c] = place /\ call'[c].op = "none" /\ pos[c] # "dead"
      BY <2>3, <3>1, SameTerms, Requests DEF Local!Over, Local!Goto, CallInv, Local!End,
         Local!Return, Local!ReturnError, Local!EndCleanup, Local!Crash
    <3> QED BY <3>1, <3>2 DEF LocalPlace, LivePlace
  <2>4. CASE Local!Begin(c)
    <3>1. /\ pos[c] = "idle" /\ pos'[c] = "begin" /\ saw' = saw /\ calls' = calls + 1
          /\ call'[c].op \in {"put", "delete", "get", "list", "exists"} /\ call'[c].n = calls'
      BY <2>4, SameTerms, Requests DEF Local!Begin, Local!Invoke, Local!Goto, CallInv
    <3>2. saw[c] = <<>> /\ took'[c] = FALSE
      BY <1>0, <2>4, <3>1, LocalPlaces
         DEF CallInv, Reading, Writing, Local!Begin, Local!Invoke
    <3> QED BY <3>1, <3>2 DEF LocalPlace, LivePlace
  <2> QED BY <2>1, <2>2, <2>3, <2>4
<1>4. /\ found' \in [Client -> SUBSET File] /\ doomed' \in [Client -> SUBSET File]
      /\ due' \in [Client -> SUBSET File]
      /\ \A d \in Client \ {c} : found'[d] = found[d] /\ doomed'[d] = doomed[d] /\ due'[d] = due[d]
      /\ found'[c] = {} /\ doomed'[c] = {} /\ due'[c] \subseteq due[c]
  <2>1. CASE Local!EndCleanup(c) \/ Local!Crash(c)
    BY <1>0, <2>1 DEF Local!EndCleanup, Local!Crash, FileInv
  <2>2. CASE Walks \/ Moves \/ Local!End(c) \/ Local!Begin(c)
    <3>1. UNCHANGED <<found, doomed, due>>
      <4>1. CASE Walks
        BY <1>0, <4>1, LocalReads
      <4> QED BY <2>2, <4>1 DEF Local!WriteFails, Local!RenameFails, Local!RemoveTarget,
         Local!RenameFailsAgain, Local!Probe, Local!Unlink, Local!IoError, Local!End,
         Local!Begin, Local!localVars, Local!walking
    <3>2. pos[c] # "sweep"
      <4>1. CASE Walks
        BY <1>0, <4>1, LocalReads
      <4> QED BY <2>2, <4>1 DEF Local!WriteFails, Local!RenameFails, Local!RemoveTarget,
         Local!RenameFailsAgain, Local!Probe, Local!Unlink, Local!IoError, Local!End,
         Local!Begin, Local!Invoke, Local!Return, Local!ReturnError
    <3> QED BY <1>0, <3>1, <3>2 DEF FileInv
  <2> QED BY <2>1, <2>2
<1>5. calls' \in Nat /\ calls \in Nat /\ calls <= calls'
  <2>1. calls' = calls \/ calls' = calls + 1
    <3>1. CASE Walks
      BY <1>0, <3>1, LocalReads
    <3> QED BY <3>1 DEF Local!WriteFails, Local!RenameFails, Local!RemoveTarget,
       Local!RenameFailsAgain, Local!Probe, Local!Unlink, Local!IoError, Local!End,
       Local!Begin, Local!EndCleanup, Local!Crash, Local!Over, Local!Invoke,
       Local!Return, Local!ReturnError
  <2> QED BY <2>1, ClientAssumption DEF CallInv
<1>6. FileInv' /\ SweepInv'
  BY <1>0, <1>1, <1>2, <1>3, <1>4, <1>5, FilesStay
<1>7. PlaceInv'
  BY <1>0, <1>1, <1>2, <1>3, PlaceStep
<1>8. ASSUME KeepInv PROVE KeepInv'
  <2>1. ASSUME pos'[c] = "blocked" PROVE c \in Windows \cup Failing
    <3>1. Local!RenameFails(c)
      <4>1. CASE Walks
        <5>1. PICK place \in {"walk", "done"} : pos' = [pos EXCEPT ![c] = place]
          BY <1>0, <4>1, LocalReads
        <5> QED BY <2>1, <5>1 DEF CallInv
      <4> QED BY <2>1, <4>1 DEF Local!WriteFails, Local!RemoveTarget,
         Local!RenameFailsAgain, Local!Probe, Local!Unlink, Local!IoError, Local!End,
         Local!Begin, Local!EndCleanup, Local!Crash, Local!Over, Local!Invoke, Local!Goto,
         Local!Return, Local!ReturnError, CallInv
    <3>2. pos[c] = "writing" /\ (c \in Failing \/ ~ Local!CanRename(c))
      BY <3>1 DEF Local!RenameFails
    <3>3. Local!Tmp(c) \in tmp
      BY <1>8, <3>2 DEF KeepInv, Local!Live
    <3> QED BY <3>2, <3>3 DEF Local!CanRename
  <2>2. \A d \in Client : doomed'[d] \subseteq doomed[d]
    BY <1>4
  <2> QED BY <1>1, <1>2, <1>3, <1>8, <2>1, <2>2, KeepStays
<1> QED BY <1>1, <1>6, <1>7, <1>8 DEF LocalInv, Local!Orderly

\* The temporary file that a put creates is a new one: nobody knows it.
LEMMA CreateTmpKeeps ==
  ASSUME CallInv, LocalInv, NEW c \in Client, Local!CreateTmp(c)
  PROVE  CallInv' /\ LocalInv'
<1> DEFINE t == Local!Tmp(c)
<1>0. PlaceInv /\ FileInv /\ SweepInv
  BY DEF LocalInv
<1>1. CallInv' /\ Others(c)
  BY <1>0, LocalWrites DEF Local!PutStep
<1>2. /\ pos[c] = "begin" /\ call[c].op = "put" /\ pos' = [pos EXCEPT ![c] = "writing"]
      /\ tmp' = tmp \cup {t}
      /\ UNCHANGED <<call, calls, old, todo, found, doomed, due>>
  BY TmpIs DEF Local!CreateTmp, Local!Goto, Local!walking
<1>3. t \in File /\ t.by = c /\ t.n = call[c].n
  BY <1>2, TmpIs
<1>4. t.n <= calls
  BY <1>3 DEF CallInv
<1> HIDE DEF t
<1>5. t \notin Known
  BY <1>0, <1>2, <1>3 DEF FileInv
<1>6. pos'[c] = "writing" /\ \A d \in Client \ {c} : pos'[d] = pos[d]
  BY <1>1, <1>2 DEF Others, CallInv
<1>7. FileInv'
  <2>1. Known' = Known \cup {t}
    BY <1>2 DEF Known
  <2>2. ASSUME NEW f \in Known'
        PROVE  f.n <= calls' /\ (pos'[f.by] = "begin" => f.n # call'[f.by].n)
    <3>1. f \in Known \/ f = t
      BY <2>1
    <3>2. f.by \in Client
      BY <1>0, <1>3, <3>1 DEF Known, FileInv, File
    <3>3. pos'[f.by] = "begin" => pos[f.by] = "begin" /\ f.by # c
      BY <1>6, <3>2
    <3> QED BY <1>0, <1>2, <1>3, <1>4, <3>1, <3>3 DEF FileInv
  <2>3. \A d \in Client : pos'[d] # "sweep" => found'[d] = {} /\ doomed'[d] = {}
    BY <1>0, <1>2, <1>6 DEF FileInv
  <2>4. tmp' \subseteq File /\ old' \subseteq tmp'
    BY <1>0, <1>2, <1>3 DEF FileInv
  <2> QED BY <1>0, <1>2, <2>2, <2>3, <2>4 DEF FileInv, File, Known
<1>8. SweepInv'
  <2> SUFFICES ASSUME NEW d \in Client, pos'[d] = "sweep", NEW f \in due'[d] \cap tmp'
               PROVE  /\ f \in old' \/ (Host[f.by] = Host[d] /\ pos'[f.by] = "dead")
                      /\ f.dir \in todo'[d] \/ f \in found'[d] \/ f \in doomed'[d]
    BY DEF SweepInv, Local!Abandoned
  <2>1. d # c /\ pos[d] = "sweep" /\ f \in due[d] /\ f # t
    BY <1>2, <1>5, <1>6 DEF Known
  <2>2. f \in tmp /\ f.by \in Client
    BY <1>0, <1>2, <2>1 DEF FileInv, File
  <2>3. Local!Abandoned(d, f) /\ (f.dir \in todo[d] \/ f \in found[d] \/ f \in doomed[d])
    BY <1>0, <2>1, <2>2 DEF SweepInv
  <2>4. pos[f.by] = "dead" => pos'[f.by] = "dead"
    BY <1>2, <1>6, <2>2
  <2> QED BY <1>2, <2>3, <2>4 DEF Local!Abandoned
<1>9. PlaceInv'
  <2>1. "writing" \in LocalPlace("put")
    BY DEF LocalPlace
  <2> QED BY <1>0, <1>1, <1>2, <1>6, <2>1, PlaceStep
<1>10. ASSUME KeepInv PROVE KeepInv'
  <2>1. Local!Live' \subseteq Local!Live \cup {t}
    <3> SUFFICES ASSUME NEW d \in Client, pos'[d] \in LivePlace
                 PROVE  Local!Tmp(d)' \in Local!Live \cup {t}
      BY DEF Local!Live, LivePlace
    <3>1. Local!Tmp(d)' = Local!Tmp(d)
      BY <1>2 DEF Local!Tmp, Local!Target
    <3>2. CASE d # c
      BY <1>6, <3>1, <3>2 DEF Local!Live, LivePlace
    <3> QED BY <3>1, <3>2 DEF t
  <2>2. t \notin old /\ \A d \in Client : t \notin doomed[d]
    BY <1>0, <1>5 DEF Known, FileInv
  <2>3. \A d \in Client : pos'[d] = "blocked" => d \in Windows \cup Failing
    BY <1>6, <1>10 DEF KeepInv
  <2> QED BY <1>2, <1>10, <2>1, <2>2, <2>3 DEF KeepInv
<1> QED BY <1>1, <1>7, <1>8, <1>9, <1>10 DEF LocalInv, Local!Orderly

\* What is left of the files when some are removed, and some are no longer due.
LEMMA FilesGone ==
  ASSUME CallInv, FileInv, SweepInv, NEW F, tmp' = tmp \ F, old' = old \ F,
         UNCHANGED <<call, calls, todo, found>>, DOMAIN pos' = Client,
         doomed' \in [Client -> SUBSET File], due' \in [Client -> SUBSET File],
         \A d \in Client : /\ doomed'[d] \subseteq doomed[d] /\ due'[d] \subseteq due[d]
                           /\ (doomed[d] \ doomed'[d]) \cap due'[d] \subseteq F
                           /\ pos[d] = "dead" => pos'[d] = "dead"
                           /\ pos'[d] = "sweep" <=> pos[d] = "sweep"
                           /\ pos'[d] = "begin" => pos[d] = "begin"
  PROVE  FileInv' /\ SweepInv'
<1>1. \A f \in Known : f.by \in Client
  BY DEF Known, FileInv, File
<1>2. FileInv'
  <2>1. Known' \subseteq Known
    BY DEF Known
  <2>2. \A f \in Known' : f.n <= calls' /\ (pos'[f.by] = "begin" => f.n # call'[f.by].n)
    BY <1>1, <2>1 DEF FileInv
  <2>3. \A d \in Client : pos'[d] # "sweep" => found'[d] = {} /\ doomed'[d] = {}
    BY DEF FileInv
  <2> QED BY <2>2, <2>3 DEF FileInv, File, Known
<1>3. SweepInv'
  <2> SUFFICES ASSUME NEW d \in Client, pos'[d] = "sweep", NEW f \in due'[d] \cap tmp'
               PROVE  /\ f \in old' \/ (Host[f.by] = Host[d] /\ pos'[f.by] = "dead")
                      /\ f.dir \in todo'[d] \/ f \in found'[d] \/ f \in doomed'[d]
    BY DEF SweepInv, Local!Abandoned
  <2>1. pos[d] = "sweep" /\ f \in due[d] \cap tmp /\ f \notin F /\ f.by \in Client
    BY <1>1 DEF Known
  <2>2. Local!Abandoned(d, f) /\ (f.dir \in todo[d] \/ f \in found[d] \/ f \in doomed[d])
    BY <2>1 DEF SweepInv
  <2> QED BY <2>1, <2>2 DEF Local!Abandoned
<1> QED BY <1>2, <1>3

\* A put that is through has no temporary file any more; one that failed may
\* have left it.
LEMMA TmpGoes ==
  ASSUME CallInv, LocalInv, NEW c \in Client, Local!Rename(c) \/ Local!RemoveTmp(c)
  PROVE  CallInv' /\ LocalInv'
<1>0. PlaceInv /\ FileInv /\ SweepInv
  BY DEF LocalInv
<1>1. CallInv' /\ Others(c)
  BY <1>0, LocalWrites DEF Local!PutStep
<1>2. PICK place \in {"done", "failed"} : pos' = [pos EXCEPT ![c] = place]
  BY DEF Local!Rename, Local!RemoveTmp, Local!Goto
<1>3. /\ pos[c] \in {"writing", "again", "undo"}
      /\ UNCHANGED <<call, calls, todo, found, doomed, due>>
  BY DEF Local!Rename, Local!RemoveTmp, Local!walking
<1>4. PICK F \in SUBSET {Local!Tmp(c)} : tmp' = tmp \ F /\ old' = old \ F
  <2>1. \/ tmp' = tmp \ {Local!Tmp(c)} /\ old' = old \ {Local!Tmp(c)}
        \/ tmp' = tmp \ {} /\ old' = old \ {}
    BY DEF Local!Rename, Local!RemoveTmp, Local!Gone
  <2> QED BY <2>1
<1>5. pos'[c] = place /\ \A d \in Client \ {c} : pos'[d] = pos[d]
  BY <1>1, <1>2 DEF Others, CallInv
<1>6. FileInv' /\ SweepInv'
  <2>1. /\ DOMAIN pos' = Client /\ doomed' \in [Client -> SUBSET File]
        /\ due' \in [Client -> SUBSET File]
    BY <1>0, <1>1, <1>3 DEF CallInv, FileInv
  <2> QED BY <1>0, <1>3, <1>5, <1>4, <2>1, FilesGone
<1>7. PlaceInv'
  <2>1. call[c].op = "put"
    BY <1>0, <1>3, LocalPlaces
  <2> QED BY <1>0, <1>1, <1>3, <1>5, <2>1, PlaceStep DEF LocalPlace
<1>8. ASSUME KeepInv PROVE KeepInv'
  <2>1. pos'[c] \notin LivePlace /\ pos'[c] # "blocked"
    BY <1>5 DEF LivePlace
  <2>2. tmp \ tmp' \subseteq {f \in tmp : f.by = c}
    BY <1>4, TmpIs
  <2>3. old' \subseteq old
    BY <1>4
  <2> QED BY <1>1, <1>3, <1>8, <2>1, <2>2, <2>3, KeepStays
<1> QED BY <1>1, <1>6, <1>7, <1>8 DEF LocalInv, Local!Orderly

\* A cleanup begins: what is abandoned is in a directory it will read.
LEMMA BeginCleanupKeeps ==
  ASSUME CallInv, LocalInv, NEW c \in Client, Local!BeginCleanup(c)
  PROVE  CallInv' /\ LocalInv'
<1>0. PlaceInv /\ FileInv /\ SweepInv
  BY DEF LocalInv
<1>1. CallInv' /\ Others(c)
  BY CallEnds
<1>2. /\ pos[c] = "idle" /\ pos' = [pos EXCEPT ![c] = "sweep"] /\ calls' = calls + 1
      /\ todo' = [todo EXCEPT ![c] = Local!Dirs]
      /\ due' = [due EXCEPT ![c] = {f \in tmp : Local!Abandoned(c, f)}]
      /\ UNCHANGED <<tmp, old, found, doomed>>
  BY DEF Local!BeginCleanup, Local!Goto, Local!files
<1>3. call'[c].op = "cleanup"
  BY SameTerms, Requests DEF Local!BeginCleanup, CallInv
<1>4. pos'[c] = "sweep" /\ \A d \in Client \ {c} : pos'[d] = pos[d] /\ call'[d] = call[d]
  BY <1>1, <1>2 DEF Others, CallInv
<1>5. FileInv'
  <2>1. due' \in [Client -> SUBSET File] /\ todo' \in [Client -> SUBSET Local!Dirs]
    BY <1>0, <1>2 DEF FileInv
  <2>2. Known' \subseteq Known
    <3>1. \A d \in Client : due'[d] \subseteq due[d] \cup tmp
      BY <1>0, <1>2 DEF FileInv
    <3> QED BY <1>2, <3>1 DEF Known
  <2>3. ASSUME NEW f \in Known'
        PROVE  f.n <= calls' /\ (pos'[f.by] = "begin" => f.n # call'[f.by].n)
    <3>1. f \in Known /\ f.by \in Client /\ f.n \in Nat /\ calls \in Nat /\ f.n <= calls
      BY <1>0, <2>2, <2>3, ClientAssumption DEF Known, FileInv, File, CallInv
    <3> QED BY <1>0, <1>2, <1>4, <3>1 DEF FileInv
  <2>4. \A d \in Client : pos'[d] # "sweep" => found'[d] = {} /\ doomed'[d] = {}
    BY <1>0, <1>2, <1>4 DEF FileInv
  <2> QED BY <1>0, <1>2, <2>1, <2>3, <2>4 DEF FileInv, File, Known
<1>6. SweepInv'
  <2> SUFFICES ASSUME NEW d \in Client, pos'[d] = "sweep", NEW f \in due'[d] \cap tmp'
               PROVE  /\ f \in old' \/ (Host[f.by] = Host[d] /\ pos'[f.by] = "dead")
                      /\ f.dir \in todo'[d] \/ f \in found'[d] \/ f \in doomed'[d]
    BY DEF SweepInv, Local!Abandoned
  <2>1. f \in tmp /\ f.by \in Client /\ f.dir \in Local!Dirs
    BY <1>0, <1>2 DEF FileInv, File
  <2>2. pos[f.by] = "dead" => pos'[f.by] = "dead"
    BY <1>2, <1>4, <2>1
  <2>3. CASE d = c
    <3>1. Local!Abandoned(c, f) /\ todo'[c] = Local!Dirs
      BY <1>0, <1>2, <2>3 DEF FileInv
    <3> QED BY <1>2, <2>1, <2>2, <2>3, <3>1 DEF Local!Abandoned
  <2>4. CASE d # c
    <3>1. pos[d] = "sweep" /\ f \in due[d] \cap tmp
      BY <1>0, <1>2, <1>4, <2>4 DEF FileInv
    <3>2. Local!Abandoned(d, f) /\ (f.dir \in todo[d] \/ f \in found[d] \/ f \in doomed[d])
      BY <1>0, <3>1 DEF SweepInv
    <3> QED BY <1>0, <1>2, <2>2, <2>4, <3>2 DEF Local!Abandoned, FileInv
  <2> QED BY <2>3, <2>4
<1>7. PlaceInv'
  <2>1. "sweep" \in LocalPlace("cleanup")
    BY DEF LocalPlace
  <2>2. \A d \in Client \ {c} : todo'[d] = todo[d]
    BY <1>0, <1>2 DEF FileInv
  <2> QED BY <1>0, <1>1, <1>3, <1>4, <2>1, <2>2, PlaceStep
<1>8. ASSUME KeepInv PROVE KeepInv'
  BY <1>1, <1>2, <1>4, <1>8, KeepStays DEF LivePlace
<1> QED BY <1>1, <1>5, <1>6, <1>7, <1>8 DEF LocalInv, Local!Orderly

\* Steps of a cleanup and of the clock change nothing of the calls.
LEMMA CallSame ==
  ASSUME CallInv, PlaceInv, UNCHANGED Local!calling,
         \A c \in Client : pos[c] # "sweep" => todo'[c] = todo[c]
  PROVE  CallInv' /\ PlaceInv'
<1>1. UNCHANGED <<obj, call, pos, took, saw, ans, calls>>
  BY DEF Local!calling
<1>2. CallInv'
  BY <1>1 DEF CallInv, Reading, Writing, Contents, Request, Cleanup, NoCall
<1>3. PlaceInv'
  BY <1>1 DEF PlaceInv, LocalPlace, Local!InDir
<1> QED BY <1>2, <1>3

\* A directory is read: its temporary files are found.
LEMMA FindTmpKeeps ==
  ASSUME CallInv, LocalInv, NEW c \in Client, NEW dir, Local!FindTmp(c, dir)
  PROVE  CallInv' /\ LocalInv'
<1>0. PlaceInv /\ FileInv /\ SweepInv
  BY DEF LocalInv
<1>1. /\ pos[c] = "sweep" /\ todo' = [todo EXCEPT ![c] = @ \ {dir}]
      /\ found' = [found EXCEPT ![c] = @ \cup {f \in tmp : f.dir = dir}]
      /\ UNCHANGED Local!calling /\ UNCHANGED <<pos, call, calls, tmp, old, doomed, due>>
  BY DEF Local!FindTmp, Local!calling, Local!files
<1>2. CallInv' /\ PlaceInv'
  <2>1. \A d \in Client : pos[d] # "sweep" => todo'[d] = todo[d]
    BY <1>0, <1>1 DEF FileInv
  <2> QED BY <1>0, <1>1, <2>1, CallSame
<1>3. FileInv'
  <2>1. found' \in [Client -> SUBSET File] /\ todo' \in [Client -> SUBSET Local!Dirs]
    BY <1>0, <1>1 DEF FileInv
  <2>2. Known' \subseteq Known
    <3>1. \A d \in Client : found'[d] \subseteq found[d] \cup tmp
      BY <1>0, <1>1 DEF FileInv
    <3> QED BY <1>1, <3>1 DEF Known
  <2>3. \A d \in Client : pos'[d] # "sweep" => found'[d] = {} /\ doomed'[d] = {}
    BY <1>0, <1>1 DEF FileInv
  <2>4. \A f \in Known' : f.n <= calls' /\ (pos'[f.by] = "begin" => f.n # call'[f.by].n)
    BY <1>0, <1>1, <2>2 DEF FileInv
  <2> QED BY <1>0, <1>1, <2>1, <2>3, <2>4 DEF FileInv, File, Known
<1>4. SweepInv'
  <2> SUFFICES ASSUME NEW d \in Client, pos[d] = "sweep", NEW f \in due[d] \cap tmp
               PROVE  /\ Local!Abandoned(d, f)
                      /\ f.dir \in todo'[d] \/ f \in found'[d] \/ f \in doomed'[d]
    BY <1>1 DEF SweepInv, Local!Abandoned
  <2>1. Local!Abandoned(d, f) /\ (f.dir \in todo[d] \/ f \in found[d] \/ f \in doomed[d])
    BY <1>0 DEF SweepInv
  <2> QED BY <1>0, <1>1, <2>1 DEF FileInv
<1>5. ASSUME KeepInv PROVE KeepInv'
  BY <1>1, <1>5 DEF KeepInv, Local!Live, Local!Tmp, Local!Target
<1> QED BY <1>2, <1>3, <1>4, <1>5 DEF LocalInv, Local!Orderly

\* A directory is skipped: what is in it is no longer due.
LEMMA SkipDirKeeps ==
  ASSUME CallInv, LocalInv, NEW c \in Client, NEW dir, Local!SkipDir(c, dir)
  PROVE  CallInv' /\ LocalInv'
<1>0. PlaceInv /\ FileInv /\ SweepInv
  BY DEF LocalInv
<1>1. /\ pos[c] = "sweep" /\ todo' = [todo EXCEPT ![c] = @ \ {dir}]
      /\ due' = [due EXCEPT ![c] = @ \ {f \in due[c] : f.dir = dir}]
      /\ UNCHANGED Local!calling /\ UNCHANGED <<pos, call, calls, tmp, old, found, doomed>>
  BY DEF Local!SkipDir, Local!Excused, Local!calling, Local!files
<1>2. CallInv' /\ PlaceInv'
  <2>1. \A d \in Client : pos[d] # "sweep" => todo'[d] = todo[d]
    BY <1>0, <1>1 DEF FileInv
  <2> QED BY <1>0, <1>1, <2>1, CallSame
<1>3. FileInv'
  <2>1. due' \in [Client -> SUBSET File] /\ todo' \in [Client -> SUBSET Local!Dirs]
    BY <1>0, <1>1 DEF FileInv
  <2>2. Known' \subseteq Known
    <3>1. \A d \in Client : due'[d] \subseteq due[d]
      BY <1>0, <1>1 DEF FileInv
    <3> QED BY <1>1, <3>1 DEF Known
  <2>3. \A f \in Known' : f.n <= calls' /\ (pos'[f.by] = "begin" => f.n # call'[f.by].n)
    BY <1>0, <1>1, <2>2 DEF FileInv
  <2> QED BY <1>0, <1>1, <2>1, <2>3 DEF FileInv, File, Known
<1>4. SweepInv'
  <2> SUFFICES ASSUME NEW d \in Client, pos[d] = "sweep", NEW f \in due'[d] \cap tmp
               PROVE  /\ Local!Abandoned(d, f)
                      /\ f.dir \in todo'[d] \/ f \in found[d] \/ f \in doomed[d]
    BY <1>1 DEF SweepInv, Local!Abandoned
  <2>1. f \in due[d] /\ (d = c => f.dir # dir)
    BY <1>0, <1>1 DEF FileInv
  <2>2. Local!Abandoned(d, f) /\ (f.dir \in todo[d] \/ f \in found[d] \/ f \in doomed[d])
    BY <1>0, <2>1 DEF SweepInv
  <2> QED BY <1>0, <1>1, <2>1, <2>2 DEF FileInv
<1>5. ASSUME KeepInv PROVE KeepInv'
  BY <1>1, <1>5 DEF KeepInv, Local!Live, Local!Tmp, Local!Target
<1> QED BY <1>2, <1>3, <1>4, <1>5 DEF LocalInv, Local!Orderly

\* The judgement: what was abandoned is doomed, unless its process id is taken;
\* the file of a put under way is recent, and its process is seen to be alive
\* from its own host.
LEMMA JudgeKeeps ==
  ASSUME CallInv, LocalInv, NEW c \in Client, NEW g, Local!Judge(c, g)
  PROVE  CallInv' /\ LocalInv'
<1>0. PlaceInv /\ FileInv /\ SweepInv
  BY DEF LocalInv
<1>1. /\ g \in found[c] /\ found' = [found EXCEPT ![c] = @ \ {g}]
      /\ UNCHANGED Local!calling /\ UNCHANGED <<pos, call, calls, tmp, old, todo>>
  BY DEF Local!Judge, Local!calling, Local!files
<1>2. CallInv' /\ PlaceInv'
  BY <1>0, <1>1, CallSame
<1>3. pos[c] = "sweep" /\ g \in File /\ g.by \in Client
  BY <1>0, <1>1 DEF FileInv, File
<1>4. /\ doomed' \in [Client -> SUBSET File] /\ due' \in [Client -> SUBSET File]
      /\ \A d \in Client : /\ doomed[d] \subseteq doomed'[d] /\ due'[d] \subseteq due[d]
                           /\ doomed'[d] \subseteq IF d = c THEN doomed[d] \cup {g} ELSE doomed[d]
      /\ \/ Local!InFlight(c, g) /\ g \notin doomed'[c] \ doomed[c]
         \/ g \notin due'[c] /\ g \notin doomed'[c] \ doomed[c]
         \/ g \in doomed'[c] /\ (~ Local!InFlight(c, g) \/ c \in Misread)
  <2>1. CASE Local!InFlight(c, g) /\ UNCHANGED <<doomed, due>>
    BY <1>0, <2>1 DEF FileInv
  <2>2. CASE due' = [due EXCEPT ![c] = @ \ {g}] /\ UNCHANGED doomed
    BY <1>0, <2>2 DEF FileInv
  <2>3. CASE /\ ~ Local!InFlight(c, g) \/ c \in Misread
             /\ doomed' = [doomed EXCEPT ![c] = @ \cup {g}] /\ UNCHANGED due
    BY <1>0, <1>3, <2>3 DEF FileInv
  <2> QED BY <2>1, <2>2, <2>3 DEF Local!Judge, Local!Excused
<1>5. FileInv'
  <2>1. found' \in [Client -> SUBSET File]
    BY <1>0, <1>1 DEF FileInv
  <2>2. Known' \subseteq Known
    <3>1. \A d \in Client : /\ found'[d] \subseteq found[d] /\ due'[d] \subseteq due[d]
                            /\ doomed'[d] \subseteq doomed[d] \cup found[d]
      BY <1>0, <1>1, <1>4 DEF FileInv
    <3> QED BY <1>1, <3>1 DEF Known
  <2>3. \A d \in Client : pos'[d] # "sweep" => found'[d] = {} /\ doomed'[d] = {}
    <3> SUFFICES ASSUME NEW d \in Client, pos[d] # "sweep"
                 PROVE  found'[d] = {} /\ doomed'[d] = {}
      BY <1>1
    <3>1. d # c /\ found[d] = {} /\ doomed[d] = {}
      BY <1>0, <1>3 DEF FileInv
    <3>2. found'[d] = found[d] /\ doomed'[d] \subseteq doomed[d]
      BY <1>0, <1>1, <1>4, <3>1 DEF FileInv
    <3> QED BY <3>1, <3>2
  <2>4. \A f \in Known' : f.n <= calls' /\ (pos'[f.by] = "begin" => f.n # call'[f.by].n)
    BY <1>0, <1>1, <2>2 DEF FileInv
  <2> QED BY <1>0, <1>1, <1>4, <2>1, <2>3, <2>4 DEF FileInv, File, Known
<1>6. SweepInv'
  <2> SUFFICES ASSUME NEW d \in Client, pos[d] = "sweep", NEW f \in due'[d] \cap tmp
               PROVE  /\ Local!Abandoned(d, f)
                      /\ f.dir \in todo[d] \/ f \in found'[d] \/ f \in doomed'[d]
    BY <1>1 DEF SweepInv, Local!Abandoned
  <2>1. Local!Abandoned(d, f) /\ (f.dir \in todo[d] \/ f \in found[d] \/ f \in doomed[d])
    BY <1>0, <1>4 DEF SweepInv
  <2>2. CASE d = c /\ f = g
    <3>1. ~ Local!InFlight(c, g)
      BY <1>3, <2>1, <2>2 DEF Local!Abandoned, Local!InFlight, Local!Recent, Local!PidAlive
    <3>2. g \in doomed'[c]
      BY <1>4, <2>2, <3>1
    <3> QED BY <2>1, <2>2, <3>2
  <2>3. CASE ~ (d = c /\ f = g)
    <3>1. f \in found[d] => f \in found'[d]
      BY <1>0, <1>1, <2>3 DEF FileInv
    <3> QED BY <1>4, <2>1, <3>1
  <2> QED BY <2>2, <2>3
<1>7. ASSUME KeepInv, Local!Orderly PROVE KeepInv'
  <2>1. Local!Live' = Local!Live
    BY <1>1 DEF Local!Live, Local!Tmp, Local!Target
  <2>2. ASSUME g \in Local!Live PROVE Local!InFlight(c, g)
    <3>1. pos[g.by] \in LivePlace /\ g \notin old
      BY <1>7, <2>2 DEF Local!Live, Local!Tmp, LivePlace, KeepInv
    <3>2. Local!Recent(c, g)
      BY <3>1 DEF Local!Recent
    <3>3. g.by # c /\ pos[g.by] # "dead"
      BY <1>3, <3>1 DEF LivePlace
    <3>4. Host[g.by] = Host[c] => Machine[g.by] = Machine[c] /\ c \notin Windows
      BY <1>3, <1>7, <3>3 DEF Local!Orderly
    <3> QED BY <3>2, <3>3, <3>4 DEF Local!InFlight, Local!PidAlive
  <2>3. ASSUME NEW d \in Client, NEW f \in doomed'[d] PROVE f \notin Local!Live
    <3>1. f \in doomed[d] \/ (d = c /\ f = g /\ f \notin doomed[c])
      BY <1>4, <2>3
    <3>2. CASE f \in doomed[d]
      BY <1>7, <3>2 DEF KeepInv
    <3>3. CASE d = c /\ f = g /\ f \notin doomed[c]
      <4>1. ~ Local!InFlight(c, g)
        BY <1>7, <1>4, <2>3, <3>3 DEF Local!Orderly
      <4> QED BY <2>2, <3>3, <4>1
    <3> QED BY <3>1, <3>2, <3>3
  <2>4. \A d \in Client : doomed'[d] \cap Local!Live = {}
    BY <2>3
  <2> QED BY <1>1, <1>7, <2>1, <2>4 DEF KeepInv
<1> QED BY <1>2, <1>5, <1>6, <1>7 DEF LocalInv, Local!Orderly

\* What is removed is not live; and what is an hour old is not either.
LEMMA DiscardKeeps ==
  ASSUME CallInv, LocalInv, NEW c \in Client, NEW g, Local!Discard(c, g)
  PROVE  CallInv' /\ LocalInv'
<1>0. PlaceInv /\ FileInv /\ SweepInv
  BY DEF LocalInv
<1>1. /\ g \in doomed[c] /\ doomed' = [doomed EXCEPT ![c] = @ \ {g}]
      /\ UNCHANGED Local!calling /\ UNCHANGED <<pos, call, calls, todo, found>>
  BY DEF Local!Discard, Local!calling
<1>2. CallInv' /\ PlaceInv'
  BY <1>0, <1>1, CallSame
<1>3. PICK F \in SUBSET {g} : /\ tmp' = tmp \ F /\ old' = old \ F
                             /\ \/ g \in F /\ UNCHANGED due
                                \/ due' = [due EXCEPT ![c] = @ \ {g}]
  <2>1. CASE Local!Gone({g}) /\ UNCHANGED due
    BY <2>1 DEF Local!Gone
  <2>2. CASE Local!Excused(c, {g}) /\ UNCHANGED <<tmp, old>>
    <3>1. {} \in SUBSET {g} /\ tmp' = tmp \ {} /\ old' = old \ {}
      BY <2>2
    <3> QED BY <2>2, <3>1 DEF Local!Excused
  <2> QED BY <2>1, <2>2 DEF Local!Discard
<1>4. FileInv' /\ SweepInv'
  <2>1. doomed' \in [Client -> SUBSET File] /\ due' \in [Client -> SUBSET File]
    BY <1>0, <1>1, <1>3 DEF FileInv
  <2>2. \A d \in Client : /\ doomed'[d] \subseteq doomed[d] /\ due'[d] \subseteq due[d]
                          /\ (doomed[d] \ doomed'[d]) \cap due'[d] \subseteq F
    BY <1>0, <1>1, <1>3 DEF FileInv
  <2>3. DOMAIN pos' = Client
    BY <1>2 DEF CallInv
  <2> QED BY <1>0, <1>1, <1>3, <2>1, <2>2, <2>3, FilesGone
<1>5. ASSUME KeepInv PROVE KeepInv'
  <2>1. Local!Live' = Local!Live /\ g \notin Local!Live
    BY <1>1, <1>5 DEF KeepInv, Local!Live, Local!Tmp, Local!Target
  <2>2. \A d \in Client : doomed'[d] \subseteq doomed[d]
    BY <1>0, <1>1 DEF FileInv
  <2> QED BY <1>1, <1>5, <1>3, <2>1, <2>2 DEF KeepInv
<1> QED BY <1>2, <1>4, <1>5 DEF LocalInv, Local!Orderly

\* Time passes for files that no put is writing, or a slow one is.
LEMMA HourKeeps ==
  ASSUME CallInv, LocalInv, NEW g \in tmp, Local!HourPasses(g)
  PROVE  CallInv' /\ LocalInv'
<1>0. PlaceInv /\ FileInv /\ SweepInv
  BY DEF LocalInv
<1>1. /\ g \in tmp /\ old' = old \cup {g} /\ (g \notin Local!Live \/ g.by \in Slow)
      /\ UNCHANGED Local!calling
      /\ UNCHANGED <<pos, call, calls, tmp, todo, found, doomed, due>>
  BY DEF Local!HourPasses, Local!calling, Local!walking
<1>2. CallInv' /\ PlaceInv'
  BY <1>0, <1>1, CallSame
<1>3. FileInv'
  BY <1>0, <1>1 DEF FileInv, File, Known
<1>4. SweepInv'
  BY <1>0, <1>1 DEF SweepInv, Local!Abandoned
<1>5. ASSUME KeepInv, Local!Orderly PROVE KeepInv'
  BY <1>1, <1>5 DEF KeepInv, Local!Live, Local!Tmp, Local!Target, Local!Orderly
<1> QED BY <1>2, <1>3, <1>4, <1>5 DEF LocalInv, Local!Orderly

\* So every step of the local backend keeps its invariant.
LEMMA LocalKeeps ==
  ASSUME CallInv, LocalInv, Local!Next
  PROVE  CallInv' /\ LocalInv'
<1>1. ASSUME NEW c \in Client,
             Local!Begin(c) \/ Local!BeginCleanup(c) \/ Local!Step(c) \/ Local!Crash(c)
      PROVE  CallInv' /\ LocalInv'
  <2>1. CASE Local!PutStep(c)
    BY <2>1, QuietSteps, CreateTmpKeeps, TmpGoes DEF Local!PutStep
  <2>2. CASE Local!CleanupStep(c)
    BY <2>2, FindTmpKeeps, SkipDirKeeps, JudgeKeeps, DiscardKeeps, QuietSteps DEF Local!CleanupStep
  <2> QED BY <1>1, <2>1, <2>2, QuietSteps, BeginCleanupKeeps DEF Local!Step
<1> QED BY <1>1, HourKeeps DEF Local!Next

-----------------------------------------------------------------------------
(***************************************************************************)
(* The pages of a listing.  A page that is not the last has a last key,    *)
(* whatever the number of keys: there is a key of the greatest rank among  *)
(* those that fit.                                                         *)
(***************************************************************************)
LEMMA LeastNat ==
  ASSUME NEW S, S \subseteq Nat, S # {}
  PROVE  \E m \in S : \A n \in S : m <= n
<1>1. PICK m \in S : \A n \in S : ~ (<<n, m>> \in OpToRel(<, Nat))
  BY NatLessThanWellFounded, WFMin
<1>2. \A n \in S : n \in Nat /\ m \in Nat /\ ~ (n < m)
  BY <1>1 DEF OpToRel
<1>3. ASSUME NEW n \in S PROVE m <= n
  <2>1. n \in Nat /\ m \in Nat /\ ~ (n < m)
    BY <1>2
  <2> QED BY <2>1
<1> QED BY <1>3

\* The number of elements of L up to k.
Rank(L, k) == Cardinality({j \in L : j <= k})

\* Ranks begin with 1 and grow.
LEMMA Ranks ==
  ASSUME NEW L, L \subseteq Nat
  PROVE  /\ \A k \in L : Rank(L, k) \in Nat
         /\ \A k, j \in L : k < j => Rank(L, k) < Rank(L, j)
         /\ \A k \in L : (\A j \in L : k <= j) => Rank(L, k) = 1
<1> DEFINE Upto(k) == {j \in L : j <= k}
<1>1. \A k \in L : IsFiniteSet(Upto(k)) /\ Cardinality(Upto(k)) \in Nat
  <2> TAKE k \in L
  <2>0. k \in Nat /\ Upto(k) \subseteq 0 .. k
    <3>1. k \in Nat /\ \A j \in L : j \in Nat
      OBVIOUS
    <3>2. ASSUME NEW j \in L, j <= k PROVE j \in 0 .. k
      <4>1. j \in Nat
        BY <3>1
      <4> QED BY <3>1, <3>2, <4>1
    <3> QED BY <3>1, <3>2
  <2>1. IsFiniteSet(0 .. k)
    BY <2>0, FS_Interval
  <2>2. IsFiniteSet(Upto(k))
    BY <2>0, <2>1, FS_Subset
  <2> QED BY <2>2, FS_CardinalityType
<1>2. ASSUME NEW k \in L, NEW j \in L, k < j PROVE Rank(L, k) < Rank(L, j)
  <2>1. \A i \in L : i \in Nat /\ k \in Nat /\ j \in Nat
    OBVIOUS
  <2>2. Upto(k) \subseteq Upto(j) /\ j \in Upto(j) /\ j \notin Upto(k)
    <3>1. k \in Nat /\ j \in Nat
      BY <2>1
    <3>2. ASSUME NEW i \in L, i <= k PROVE i <= j
      <4>1. i \in Nat
        BY <2>1
      <4> QED BY <1>2, <3>1, <3>2, <4>1
    <3>3. j <= j /\ ~ (j <= k)
      BY <1>2, <3>1
    <3> QED BY <3>2, <3>3
  <2>3. /\ Cardinality(Upto(k)) <= Cardinality(Upto(j))
        /\ Cardinality(Upto(k)) = Cardinality(Upto(j)) => Upto(k) = Upto(j)
    BY <1>1, <2>2, FS_Subset
  <2>4. Upto(k) # Upto(j) /\ Cardinality(Upto(k)) \in Nat /\ Cardinality(Upto(j)) \in Nat
    BY <1>1, <2>2
  <2> QED BY <2>3, <2>4 DEF Rank
<1>3. ASSUME NEW k \in L, \A j \in L : k <= j PROVE Rank(L, k) = 1
  <2>1. Upto(k) = {k}
    <3>1. \A j \in L : j \in Nat /\ k \in Nat /\ k <= j
      BY <1>3
    <3>2. k \in Upto(k)
      BY <3>1
    <3>3. \A j \in Upto(k) : j = k
      BY <3>1
    <3> QED BY <3>2, <3>3
  <2> QED BY <2>1, FS_Singleton DEF Rank
<1> QED BY <1>1, <1>2, <1>3 DEF Rank

\* A page that leaves keys out has a last one.
LEMMA LastOfPage ==
  ASSUME NEW L, L \subseteq Nat, NEW W, W = {k \in L : Rank(L, k) <= PageSize}, W # L
  PROVE  \E k \in W : \A j \in W : j <= k
<1>0. PageSize \in Nat /\ 1 <= PageSize
  BY BackendAssumption DEF S3!RetryAssumption
<1>1. \A k \in L : Rank(L, k) \in Nat
  BY Ranks
<1>2. W # {}
  <2>1. PICK m \in L : \A n \in L : m <= n
    BY LeastNat
  <2>2. Rank(L, m) = 1
    BY <2>1, Ranks
  <2> QED BY <1>0, <2>2
<1> DEFINE Room == {PageSize - Rank(L, k) : k \in W}
<1>3. \A k \in W : k \in L /\ Rank(L, k) \in Nat /\ PageSize - Rank(L, k) \in Nat
  BY <1>0, <1>1
<1>4. Room \subseteq Nat /\ Room # {}
  BY <1>2, <1>3
<1>5. PICK m \in Room : \A n \in Room : m <= n
  BY <1>4, LeastNat
<1>6. PICK k \in W : m = PageSize - Rank(L, k)
  BY <1>5
<1>7. ASSUME NEW j \in W PROVE j <= k
  <2>1. PageSize - Rank(L, k) <= PageSize - Rank(L, j)
    BY <1>5, <1>6
  <2>2. j \in L /\ k \in L /\ j \in Nat /\ k \in Nat
    BY <1>3
  <2>3. k < j => Rank(L, k) < Rank(L, j)
    BY <2>2, Ranks
  <2>4. Rank(L, k) \in Nat /\ Rank(L, j) \in Nat
    BY <1>3
  <2>5. ~ (Rank(L, k) < Rank(L, j))
    BY <1>0, <2>1, <2>4
  <2> QED BY <2>2, <2>3, <2>5
<1> QED BY <1>7

\* The answer to a read goes on from the token.
LEMMA PageIs ==
  ASSUME CallInv, NEW c \in Client, token[c] \in Key \cup {0}
  PROVE  LET p == S3!Page(c)
         IN  /\ p.more => /\ p.last \in Key /\ p.last > token[c]
                          /\ DOMAIN p.saw = {k \in call[c].keys : token[c] < k /\ k <= p.last}
             /\ ~ p.more => /\ p.last = 0
                            /\ DOMAIN p.saw = {k \in call[c].keys : token[c] < k}
             /\ \A k \in DOMAIN p.saw : p.saw[k] = Look(c, {k})[k]
<1> DEFINE L == S3!Listed(c)
           W == {k \in L : Rank(L, k) <= PageSize}
           more == W # L
           last == IF more THEN CHOOSE k \in W : \A j \in W : j <= k ELSE 0
           keys == {k \in call[c].keys : k > token[c] /\ (more => k <= last)}
<1>1. call[c].keys \subseteq Key /\ Key \subseteq Nat
  BY CallIs, KeyAssumption
<1>2. L \subseteq Nat /\ L \subseteq Key /\ \A k \in L : k > token[c]
  BY <1>1 DEF S3!Listed
<1>3. S3!Page(c) = [saw |-> Look(c, keys), last |-> last, more |-> more]
  <2>1. \A S : S3!Cardinality(S) = Cardinality(S)
    BY DEF S3!Cardinality, Cardinality
  <2>2. W = {k \in S3!Listed(c) : S3!Cardinality({j \in S3!Listed(c) : j <= k}) <= PageSize}
    BY <2>1 DEF Rank
  <2> HIDE DEF L, W
  <2>3. S3!Page(c) = [saw |-> S3!Look(c, keys), last |-> last, more |-> more]
    BY <2>2 DEF S3!Page, L
  <2> HIDE DEF more, last, keys
  <2> QED BY <2>3, SameTerms
<1>4. ASSUME more PROVE last \in W
  <2>1. \E k \in W : \A j \in W : j <= k
    BY <1>2, <1>4, LastOfPage
  <2> HIDE DEF W
  <2> QED BY <1>4, <2>1
<1>5. more => last \in L
  BY <1>4
<1>6. ~ more => last = 0
  OBVIOUS
<1> HIDE DEF L, W, more, last
<1>7. DOMAIN Look(c, keys) = keys /\ \A k \in keys : Look(c, keys)[k] = Look(c, {k})[k]
  BY DEF Look
<1>8. token[c] \in Nat /\ \A k \in call[c].keys : k \in Nat
  <2>1. Key \cup {0} \subseteq Nat
    BY <1>1
  <2>2. token[c] \in Nat
    BY <2>1
  <2> QED BY <1>1, <2>2
<1>9. ASSUME more
      PROVE  /\ last \in Key /\ last > token[c]
             /\ keys = {k \in call[c].keys : token[c] < k /\ k <= last}
  BY <1>2, <1>5, <1>8, <1>9
<1>10. ASSUME ~ more PROVE keys = {k \in call[c].keys : token[c] < k}
  BY <1>8, <1>10
<1> HIDE DEF keys
<1> QED BY <1>3, <1>6, <1>7, <1>9, <1>10

-----------------------------------------------------------------------------
(***************************************************************************)
(* The S3 client keeps its invariant.                                      *)
(***************************************************************************)
\* Its calls begin and end as those of the local backend.
LEMMA SameCalls ==
  /\ \A c : S3!Invoke(c) <=> Local!Invoke(c)
  /\ \A c, answer, place : S3!Over(c, answer, place) <=> Local!Over(c, answer, place)
<1>1. \A c : S3!Invoke(c) <=> Local!Invoke(c)
  BY SameTerms DEF S3!Invoke, Local!Invoke, S3!Goto, Local!Goto
<1>2. \A c, answer, place : S3!Over(c, answer, place) <=> Local!Over(c, answer, place)
  BY SameTerms DEF S3!Over, Local!Over, S3!Goto, Local!Goto
<1> QED BY <1>1, <1>2

\* A step of c's call leaves the requests of the others alone.
OthersRequests(c) == \A d \in Client \ {c} : token'[d] = token[d] /\ page'[d] = page[d]

\* So the invariant is kept if it is of c's.
LEMMA S3Step ==
  ASSUME S3Inv, NEW c \in Client, Others(c), OthersRequests(c),
         attempt' \in [Client -> 0 .. MaxRetries], token' \in [Client -> Key \cup {0}],
         DOMAIN page' = Client, echo' \subseteq [keys : SUBSET Key, data : Contents],
         S3Of(c)'
  PROVE  S3Inv'
<1>1. ASSUME NEW d \in Client PROVE S3Of(d)'
  <2>1. CASE d = c
    BY <2>1
  <2>2. CASE d # c
    <3>1. /\ call'[d] = call[d] /\ pos'[d] = pos[d] /\ took'[d] = took[d]
          /\ saw'[d] = saw[d] /\ token'[d] = token[d] /\ page'[d] = page[d]
      BY <2>2 DEF Others, OthersRequests
    <3>2. S3Of(d)
      BY DEF S3Inv
    <3> QED BY <3>1, <3>2 DEF S3Of, Reading, Writing, PageFits, S3!NoPage
  <2> QED BY <2>1, <2>2
<1> QED BY <1>1 DEF S3Inv, Contents

\* A write that is given up may linger.
LEMMA EchoStep ==
  ASSUME CallInv, S3Inv, NEW c \in Client,
         \/ UNCHANGED echo
         \/ echo' = echo \cup {[keys |-> call[c].keys, data |-> call[c].data]}
  PROVE  echo' \subseteq [keys : SUBSET Key, data : Contents]
BY CallIs DEF S3Inv

\* A request is sent, carried out, not answered, or refused.
LEMMA RequestKeeps ==
  ASSUME CallInv, S3Inv, NEW c \in Client,
         S3!Send(c) \/ S3!Serve(c) \/ S3!NoAnswer(c) \/ S3!Denied(c)
  PROVE  CallInv' /\ S3Inv'
<1>0. S3Of(c) /\ call[c] # NoCall
  <2>1. pos[c] \in {"begin", "sent", "served"}
    BY DEF S3!Send, S3!Serve, S3!NoAnswer, S3!Denied
  <2> QED BY <2>1 DEF CallInv, S3Inv
<1>1. /\ attempt \in [Client -> 0 .. MaxRetries] /\ token \in [Client -> Key \cup {0}]
      /\ DOMAIN page = Client /\ echo \subseteq [keys : SUBSET Key, data : Contents]
      /\ MaxRetries \in Nat
  BY BackendAssumption DEF S3Inv, S3!RetryAssumption
<1>2. call[c].op \in {"put", "delete", "get", "list", "exists"}
  BY <1>0, CallIs DEF S3Of
<1>3. CASE S3!Send(c)
  <2>1. pos[c] = "begin" /\ pos' = [pos EXCEPT ![c] = "sent"]
        /\ UNCHANGED <<obj, call, took, saw, ans, calls, attempt, token, page, echo>>
    BY <1>3 DEF S3!Send, S3!Goto, S3!s3Vars
  <2>2. CallInv' /\ Others(c) /\ pos'[c] = "sent"
    BY <2>1, CallMoves DEF CallInv
  <2>3. S3Of(c)'
    BY <1>0, <1>2, <2>1, <2>2 DEF S3Of, Reading, Writing, S3Place, S3!NoPage
  <2> QED BY <1>1, <2>1, <2>2, <2>3, S3Step DEF OthersRequests
<1>4. CASE S3!Serve(c) /\ Writing(c)
  <2>1. /\ pos[c] = "sent" /\ pos' = [pos EXCEPT ![c] = "served"]
        /\ took' = [took EXCEPT ![c] = TRUE] /\ obj' = S3!Written(call[c])
        /\ UNCHANGED <<call, saw, ans, calls, attempt, token, page, echo>>
    BY <1>4 DEF S3!Serve, S3!Goto, S3!Writes, Writing
  <2>2. obj' \in [Key -> Contents]
    BY <2>1, CallIs DEF S3!Written, CallInv
  <2>3. Others(c) /\ pos'[c] = "served" /\ DOMAIN pos' = Client /\ took'[c]
        /\ took' \in [Client -> BOOLEAN]
    BY <2>1 DEF Others, CallInv
  <2>4. calls' \in calls .. MaxCalls
    BY <2>1, ClientAssumption DEF CallInv
  <2>5. CallInv'
    BY <1>0, <1>4, <2>1, <2>2, <2>3, <2>4, CallStep DEF CallInv, Writing, Reading
  <2>6. S3Of(c)'
    BY <1>0, <1>2, <1>4, <2>1, <2>3 DEF S3Of, Reading, Writing, S3Place, S3!NoPage
  <2> QED BY <1>1, <2>1, <2>3, <2>5, <2>6, S3Step DEF OthersRequests
<1>5. CASE S3!Serve(c) /\ ~ Writing(c)
  <2>1. /\ pos[c] = "sent" /\ pos' = [pos EXCEPT ![c] = "served"]
        /\ page' = [page EXCEPT ![c] = S3!Page(c)]
        /\ UNCHANGED <<obj, call, took, saw, ans, calls, attempt, token, echo>>
    BY <1>5 DEF S3!Serve, S3!Goto, S3!Writes, Writing
  <2>2. CallInv' /\ Others(c) /\ pos'[c] = "served"
    BY <2>1, CallMoves DEF CallInv
  <2>3. page'[c] = S3!Page(c) /\ DOMAIN page' = Client /\ OthersRequests(c)
    BY <1>1, <2>1 DEF OthersRequests
  <2>4. Reading(c) /\ call'[c] = call[c] /\ token'[c] = token[c] /\ token[c] \in Key \cup {0}
    BY <1>1, <1>2, <1>5, <2>1 DEF Reading, Writing
  <2>5. /\ PageFits(c)' /\ DOMAIN page'[c].saw \subseteq call[c].keys
        /\ page'[c].more => page'[c].last \in Key /\ page'[c].last > token[c]
    BY <2>3, <2>4, PageIs DEF PageFits
  <2>6. S3Of(c)'
    BY <1>0, <1>2, <1>5, <2>1, <2>2, <2>4, <2>5 DEF S3Of, Reading, Writing, S3Place
  <2> QED BY <1>1, <2>1, <2>2, <2>3, <2>6, S3Step
<1>6. CASE S3!NoAnswer(c)
  <2>1. /\ pos[c] \in {"sent", "served"} /\ page' = [page EXCEPT ![c] = S3!NoPage]
        /\ UNCHANGED <<obj, call, took, saw, ans, calls, token>>
    BY <1>6 DEF S3!NoAnswer
  <2>2. /\ \E place \in {"begin", "failed"} : pos' = [pos EXCEPT ![c] = place]
        /\ attempt' \in [Client -> 0 .. MaxRetries]
    BY <1>1, <1>6 DEF S3!NoAnswer, S3!Goto, S3!MayRetry, S3!AfterLastAttempt
  <2>3. echo' \subseteq [keys : SUBSET Key, data : Contents]
    BY <1>6, EchoStep DEF S3!NoAnswer
  <2>4. CallInv' /\ Others(c) /\ pos'[c] \in {"begin", "failed"}
    <3>1. PICK place \in {"begin", "failed"} : pos' = [pos EXCEPT ![c] = place]
      BY <2>2
    <3>2. obj' \in [Key -> Contents] /\ pos'[c] = place
      BY <2>1, <3>1 DEF CallInv
    <3> QED BY <2>1, <3>1, <3>2, CallMoves
  <2>5. page'[c] = S3!NoPage /\ DOMAIN page' = Client /\ OthersRequests(c)
    BY <1>1, <2>1 DEF OthersRequests
  <2>6. S3Of(c)'
    BY <1>0, <1>2, <2>1, <2>4, <2>5 DEF S3Of, Reading, Writing, S3Place, S3!NoPage
  <2> QED BY <1>1, <2>1, <2>2, <2>3, <2>4, <2>5, <2>6, S3Step
<1>7. CASE S3!Denied(c)
  <2>1. /\ pos[c] \in {"sent", "served"} /\ pos' = [pos EXCEPT ![c] = "failed"]
        /\ UNCHANGED <<obj, call, took, saw, ans, calls, attempt, token, page, echo>>
    BY <1>7 DEF S3!Denied, S3!Goto, S3!s3Vars
  <2>2. CallInv' /\ Others(c) /\ pos'[c] = "failed"
    BY <2>1, CallMoves DEF CallInv
  <2>3. S3Of(c)'
    BY <1>0, <1>2, <2>1, <2>2 DEF S3Of, Reading, Writing, S3Place, S3!NoPage
  <2> QED BY <1>1, <2>1, <2>2, <2>3, S3Step DEF OthersRequests
<1> QED BY <1>3, <1>4, <1>5, <1>6, <1>7


\* An answer has come: with the page the listing has seen the keys up to the
\* next token, or all of them.
LEMMA AnswerKeeps ==
  ASSUME CallInv, S3Inv, NEW c \in Client, S3!Answer(c)
  PROVE  CallInv' /\ S3Inv'
<1> DEFINE p == page[c]
           place == IF p.more THEN "begin" ELSE "done"
<1>1. /\ pos[c] = "served" /\ pos' = [pos EXCEPT ![c] = place]
      /\ saw' = [saw EXCEPT ![c] = Joined(saw[c], p.saw)]
      /\ token' = [token EXCEPT ![c] = p.last]
      /\ page' = [page EXCEPT ![c] = S3!NoPage] /\ attempt' = [attempt EXCEPT ![c] = 0]
      /\ UNCHANGED <<obj, call, took, ans, calls, echo>>
  BY LookIs DEF S3!Answer, S3!Goto, S3!NextToken, CallInv
<1>2. S3Of(c) /\ call[c] # NoCall
  BY <1>1 DEF CallInv, S3Inv
<1>3. call[c].op \in {"put", "delete", "get", "list", "exists"} /\ call[c].keys \subseteq Key
  BY <1>2, CallIs DEF S3Of
<1>4. /\ attempt \in [Client -> 0 .. MaxRetries] /\ token \in [Client -> Key \cup {0}]
      /\ DOMAIN page = Client /\ echo \subseteq [keys : SUBSET Key, data : Contents]
      /\ MaxRetries \in Nat
  BY BackendAssumption DEF S3Inv, S3!RetryAssumption
<1>5. /\ page'[c] = S3!NoPage /\ token'[c] = p.last /\ saw'[c] = Joined(saw[c], p.saw)
      /\ pos'[c] = place /\ call'[c] = call[c] /\ took'[c] = took[c]
      /\ Others(c) /\ OthersRequests(c) /\ DOMAIN pos' = Client /\ DOMAIN saw' = Client
      /\ DOMAIN page' = Client /\ attempt' \in [Client -> 0 .. MaxRetries]
  BY <1>1, <1>4 DEF CallInv, Others, OthersRequests
<1>6. calls' \in calls .. MaxCalls /\ ~ S3!NoPage.more /\ S3!NoPage.last = 0
      /\ DOMAIN S3!NoPage.saw = {} /\ DOMAIN <<>> = {}
  BY <1>1, ClientAssumption DEF CallInv, S3!NoPage
<1>7. CASE Writing(c)
  <2>1. p = S3!NoPage /\ took[c] /\ saw[c] = <<>> /\ ~ Reading(c)
    BY <1>1, <1>2, <1>7 DEF S3Of, CallInv, Writing, Reading
  <2>2. saw'[c] = <<>> /\ place = "done" /\ token'[c] = 0
    <3>1. Joined(<<>>, <<>>) = <<>>
      BY DEF Joined
    <3> QED BY <1>5, <1>6, <2>1, <3>1 DEF S3!NoPage
  <2>3. CallInv'
    BY <1>1, <1>2, <1>5, <1>6, <1>7, <2>1, <2>2, CallStep DEF CallInv, Writing, Reading
  <2>4. S3Of(c)'
    BY <1>2, <1>5, <1>6, <1>7, <2>1, <2>2 DEF S3Of, Writing, Reading, S3Place, S3!NoPage
  <2>5. token' \in [Client -> Key \cup {0}]
    BY <1>1, <1>4, <1>5, <2>2
  <2> QED BY <1>1, <1>4, <1>5, <2>3, <2>4, <2>5, S3Step
<1>8. CASE ~ Writing(c)
  <2>1. Reading(c) /\ PageFits(c) /\ DOMAIN saw[c] = {k \in call[c].keys : k <= token[c]}
    BY <1>1, <1>2, <1>3, <1>8 DEF S3Of, Writing, Reading
  <2>2. token[c] \in Nat /\ \A k \in call[c].keys : k \in Nat
    <3>1. Key \cup {0} \subseteq Nat
      BY KeyAssumption
    <3> QED BY <1>3, <1>4, <3>1
  <2>3. DOMAIN saw'[c] = DOMAIN saw[c] \cup DOMAIN p.saw
    <3>1. DOMAIN Joined(saw[c], p.saw) = DOMAIN saw[c] \cup DOMAIN p.saw
      BY DEF Joined
    <3> QED BY <1>5, <3>1
  <2>4. ASSUME p.more
        PROVE  /\ p.last \in Key /\ p.last \in Nat /\ p.last > token[c]
               /\ DOMAIN saw'[c] = {k \in call[c].keys : k <= p.last}
    <3>1. p.last \in Key /\ p.last \in Nat /\ p.last > token[c]
      BY <1>2, <2>4, KeyAssumption DEF S3Of
    <3>2. DOMAIN p.saw = {k \in call[c].keys : token[c] < k /\ k <= p.last}
      BY <2>1, <2>4 DEF PageFits
    <3>3. \A k \in call[c].keys : k <= p.last <=> k <= token[c] \/ (token[c] < k /\ k <= p.last)
      BY <2>2, <3>1
    <3> QED BY <2>1, <2>3, <3>1, <3>2, <3>3
  <2>5. ASSUME ~ p.more PROVE p.last = 0 /\ DOMAIN saw'[c] = call[c].keys
    <3>1. p.last = 0 /\ DOMAIN p.saw = {k \in call[c].keys : token[c] < k}
      BY <2>1, <2>5 DEF PageFits
    <3>2. \A k \in call[c].keys : k <= token[c] \/ token[c] < k
      BY <2>2
    <3> QED BY <2>1, <2>3, <3>1, <3>2
  <2>6. DOMAIN saw'[c] \subseteq call[c].keys
    BY <2>4, <2>5
  <2>7. CallInv'
    BY <1>1, <1>2, <1>5, <1>6, <1>8, <2>1, <2>5, <2>6, CallStep DEF CallInv, Writing, Reading
  <2>8. token' \in [Client -> Key \cup {0}]
    BY <1>1, <1>4, <2>4, <2>5
  <2>9. S3Of(c)'
    BY <1>2, <1>3, <1>5, <1>6, <1>8, <2>1, <2>4, <2>5
       DEF S3Of, Writing, Reading, S3Place, S3!NoPage
  <2> QED BY <1>1, <1>4, <1>5, <2>7, <2>8, <2>9, S3Step
<1> QED BY <1>7, <1>8

\* A call begins.
LEMMA BeginKeeps ==
  ASSUME CallInv, S3Inv, NEW c \in Client, S3!Begin(c)
  PROVE  CallInv' /\ S3Inv'
<1>1. Local!Invoke(c) /\ UNCHANGED <<attempt, token, page, echo>>
  BY SameCalls DEF S3!Begin, S3!s3Vars
<1>2. CallInv' /\ Others(c)
  BY <1>1, CallEnds
<1>3. /\ pos[c] = "idle" /\ pos'[c] = "begin" /\ call'[c] \in Request /\ saw'[c] = saw[c]
      /\ call[c] = NoCall
  <2>1. pos[c] = "idle" /\ pos' = [pos EXCEPT ![c] = "begin"] /\ UNCHANGED saw
    BY <1>1 DEF Local!Invoke, Local!Goto
  <2>2. PICK r \in Request : call' = [call EXCEPT ![c] = r]
    BY <1>1, SameTerms DEF Local!Invoke
  <2> QED BY <2>1, <2>2 DEF CallInv
<1>4. S3Of(c) /\ ~ Reading(c) /\ page[c] = S3!NoPage /\ token[c] = 0 /\ saw[c] = <<>>
  BY <1>3, Requests DEF S3Inv, S3Of, Reading, CallInv
<1>5. call'[c].op \in {"put", "delete", "get", "list", "exists"} /\ call'[c].keys \subseteq Key
  BY <1>3, Requests
<1>6. DOMAIN saw'[c] = {k \in call'[c].keys : k <= 0}
  <2>1. \A k \in Key : ~ (k <= 0)
    BY KeyAssumption
  <2>2. DOMAIN saw'[c] = {}
    BY <1>3, <1>4
  <2> QED BY <1>5, <2>1, <2>2
<1>7. S3Of(c)'
  BY <1>1, <1>3, <1>4, <1>5, <1>6 DEF S3Of, S3Place, Reading, Writing, S3!NoPage
<1> QED BY <1>1, <1>2, <1>7, S3Step DEF S3Inv, OthersRequests

\* A call ends, or its client dies.
LEMMA EndKeeps ==
  ASSUME CallInv, S3Inv, NEW c \in Client, S3!End(c) \/ S3!Crash(c)
  PROVE  CallInv' /\ S3Inv'
<1>1. /\ \E answer \in {"none", "ok", "error"}, place \in {"idle", "dead"} :
           Local!Over(c, answer, place)
      /\ attempt' = [attempt EXCEPT ![c] = 0] /\ token' = [token EXCEPT ![c] = 0]
      /\ page' = [page EXCEPT ![c] = S3!NoPage]
  BY SameCalls DEF S3!End, S3!Crash, S3!Return, S3!ReturnError, S3!Dropped
<1>2. echo' \subseteq [keys : SUBSET Key, data : Contents]
  BY EchoStep DEF S3!End, S3!Crash
<1>3. CallInv' /\ Others(c)
  BY <1>1, CallEnds
<1>4. call'[c] = NoCall /\ pos'[c] \in {"idle", "dead"}
  BY <1>1, SameTerms DEF Local!Over, Local!Goto, CallInv
<1>5. /\ attempt' \in [Client -> 0 .. MaxRetries] /\ token' \in [Client -> Key \cup {0}]
      /\ DOMAIN page' = Client /\ token'[c] = 0 /\ page'[c] = S3!NoPage /\ OthersRequests(c)
  BY <1>1, BackendAssumption DEF S3Inv, S3!RetryAssumption, OthersRequests
<1>6. S3Of(c)'
  BY <1>4, <1>5, Requests DEF S3Of, S3Place, Reading, Writing, S3!NoPage
<1> QED BY <1>2, <1>3, <1>5, <1>6, S3Step

\* A request that was given up arrives.
LEMMA ArriveKeeps ==
  ASSUME CallInv, S3Inv, NEW e \in echo, S3!Arrive(e)
  PROVE  CallInv' /\ S3Inv'
<1>1. /\ obj' = S3!Written(e) /\ echo' = echo \ {e}
      /\ UNCHANGED <<call, pos, took, saw, ans, calls, attempt, token, page>>
  BY DEF S3!Arrive
<1>2. e.data \in Contents
  BY DEF S3Inv
<1>3. obj' \in [Key -> Contents]
  BY <1>1, <1>2 DEF S3!Written, CallInv
<1>4. CallInv'
  BY <1>1, <1>3 DEF CallInv, Reading, Writing, Contents, Request, Cleanup, NoCall
<1>5. S3Inv'
  BY <1>1 DEF S3Inv, S3Of, S3Place, PageFits, Reading, Writing, S3!NoPage, Contents
<1> QED BY <1>4, <1>5

\* So every step of the S3 client keeps its invariant.
LEMMA S3Keeps ==
  ASSUME CallInv, S3Inv, S3!Next
  PROVE  CallInv' /\ S3Inv'
BY RequestKeeps, AnswerKeeps, BeginKeeps, EndKeeps, ArriveKeeps DEF S3!Next, S3!Step


-----------------------------------------------------------------------------
(***************************************************************************)
(* The invariant holds of every behaviour of either backend.               *)
(***************************************************************************)
LEMMA InitHolds == Init => IInv
<1> SUFFICES ASSUME Init PROVE IInv
  OBVIOUS
<1>1. /\ obj \in [Key -> Contents] /\ call = [c \in Client |-> NoCall]
      /\ pos = [c \in Client |-> "idle"] /\ took = [c \in Client |-> FALSE]
      /\ saw = [c \in Client |-> <<>>] /\ ans = [c \in Client |-> "none"] /\ calls = 0
  BY DEF Init, CallsInit, Contents
<1>2. CallInv
  <2>1. 0 \in 0 .. MaxCalls
    BY ClientAssumption
  <2> QED BY <1>1, <2>1, Requests, LookIs DEF CallInv, Reading, Writing
<1>3. LocalInv
  <2>1. /\ tmp = {} /\ old = {}
        /\ todo = [c \in Client |-> {}] /\ found = [c \in Client |-> {}]
        /\ doomed = [c \in Client |-> {}] /\ due = [c \in Client |-> {}]
    BY DEF Init, Local!LocalInit
  <2>2. PlaceInv
    BY <1>1, Requests DEF PlaceInv, LocalPlace
  <2>3. FileInv
    BY <2>1 DEF FileInv, Known
  <2>4. SweepInv
    BY <1>1 DEF SweepInv
  <2>5. KeepInv
    BY <1>1, <2>1 DEF KeepInv, Local!Live
  <2> QED BY <2>2, <2>3, <2>4, <2>5 DEF LocalInv
<1>4. S3Inv
  <2>1. /\ attempt = [c \in Client |-> 0] /\ token = [c \in Client |-> 0]
        /\ page = [c \in Client |-> S3!NoPage] /\ echo = {}
    BY DEF Init, S3!S3Init
  <2>2. 0 \in 0 .. MaxRetries
    BY BackendAssumption DEF S3!RetryAssumption
  <2>3. \A c \in Client : S3Of(c)
    BY <1>1, <2>1, Requests, LookIs DEF S3Of, S3Place, Reading, Writing, S3!NoPage
  <2> QED BY <2>1, <2>2, <2>3 DEF S3Inv
<1> QED BY <1>2, <1>3, <1>4 DEF Init, IInv

\* Every step keeps the invariant.
LEMMA NextKeeps == IInv /\ [Next]_vars => IInv'
<1> SUFFICES ASSUME IInv, [Next]_vars PROVE IInv'
  OBVIOUS
<1>1. CASE LocalNext
  <2>1. kind = "local" /\ kind' = kind /\ Local!Next
    BY <1>1 DEF LocalNext
  <2> QED BY <2>1, LocalKeeps DEF IInv
<1>2. CASE S3Next
  <2>1. kind = "s3" /\ kind' = kind /\ S3!Next
    BY <1>2 DEF S3Next
  <2> QED BY <2>1, S3Keeps DEF IInv
<1>3. CASE UNCHANGED vars
  <2>1. /\ UNCHANGED <<kind, obj, call, pos, took, saw, ans, calls>>
        /\ UNCHANGED <<tmp, old, todo, found, doomed, due>>
        /\ UNCHANGED <<attempt, token, page, echo>>
    BY <1>3 DEF vars, calling, localVars, s3Vars
  <2>2. CallInv'
    BY <2>1 DEF IInv, CallInv, Reading, Writing, Contents, Request, Cleanup, NoCall
  <2>3. ASSUME LocalInv PROVE LocalInv'
    <3>1. PlaceInv'
      BY <2>1, <2>3 DEF LocalInv, PlaceInv, LocalPlace, Local!InDir, Local!Dirs
    <3>2. FileInv'
      BY <2>1, <2>3 DEF LocalInv, FileInv, File, Known, Local!Dirs
    <3>3. SweepInv'
      BY <2>1, <2>3 DEF LocalInv, SweepInv, Local!Abandoned
    <3>4. ASSUME KeepInv PROVE KeepInv'
      BY <2>1, <3>4 DEF KeepInv, Local!Live, Local!Tmp, Local!Target
    <3> QED BY <2>3, <3>1, <3>2, <3>3, <3>4 DEF LocalInv, Local!Orderly
  <2>4. ASSUME S3Inv PROVE S3Inv'
    BY <2>1, <2>4 DEF S3Inv, S3Of, S3Place, PageFits, Reading, Writing, S3!NoPage, Contents
  <2> QED BY <2>1, <2>2, <2>3, <2>4 DEF IInv
<1> QED BY <1>1, <1>2, <1>3 DEF Next

(* Every state of either backend satisfies the invariant: a listing has     *)
(* seen what it has walked or been sent, and the temporary files that a     *)
(* cleanup knows of are those of calls that were begun.                     *)
THEOREM Inductive == Spec => []IInv
BY InitHolds, NextKeeps, PTL DEF Spec

(* The calls of both backends are of their types: a call has looked at no   *)
(* key it did not ask for, and a page that is not the last goes on.         *)
THEOREM TypeCorrect == Spec => []TypeOK
<1>1. IInv => TypeOK
  <2> SUFFICES ASSUME IInv PROVE TypeOK
    OBVIOUS
  <2>1. CallInv /\ kind \in {"local", "s3"}
    BY DEF IInv
  <2>2. Local!CallsTypeOK
    BY <2>1, SameTerms DEF CallInv, Local!CallsTypeOK, Local!Contents, Contents
  <2>3. S3!CallsTypeOK
    BY <2>1, SameTerms
       DEF CallInv, S3!CallsTypeOK, S3!Contents, Contents, S3!Cleanup, Cleanup
  <2>4. CASE kind = "local"
    BY <2>2, <2>4 DEF IInv, LocalInv, FileInv, File, Local!TypeOK, TypeOK
  <2>5. CASE kind = "s3"
    BY <2>3, <2>5 DEF IInv, S3Inv, S3Of, S3!TypeOK, TypeOK, Contents
  <2> QED BY <2>1, <2>4, <2>5
<1> QED BY <1>1, Inductive, PTL

(* Of the files that were abandoned when it began, a cleanup that gets      *)
(* through leaves only those that an error or a reused process id excuses,  *)
(* whatever other clients do and however files come and go meanwhile.       *)
THEOREM AbandonedCorrect == Spec => []AbandonedGo
<1>1. IInv => AbandonedGo
  <2> SUFFICES ASSUME IInv PROVE AbandonedGo
    OBVIOUS
  <2>1. CASE kind = "local"
    BY <2>1 DEF IInv, LocalInv, SweepInv, AbandonedGo, Local!AbandonedGo
  <2>2. CASE kind = "s3"
    BY <2>2 DEF IInv, S3Inv, S3Of, S3Place, AbandonedGo, Local!AbandonedGo
  <2> QED BY <2>1, <2>2 DEF IInv
<1> QED BY <1>1, Inductive, PTL

(* In an orderly directory no cleanup takes its temporary file away from a  *)
(* put that is writing it.                                                  *)
THEOREM LiveFilesCorrect ==
  ASSUME Local!Orderly
  PROVE  Spec => []LiveFilesKept
<1>1. IInv => LiveFilesKept
  <2> SUFFICES ASSUME IInv PROVE LiveFilesKept
    OBVIOUS
  <2>1. CASE kind = "local"
    BY <2>1 DEF IInv, LocalInv, KeepInv, LiveFilesKept, Local!LiveFilesKept
  <2>2. CASE kind = "s3"
    BY <2>2 DEF IInv, S3Inv, S3Of, S3Place, LiveFilesKept, Local!LiveFilesKept, Local!Live
  <2> QED BY <2>1, <2>2 DEF IInv
<1> QED BY <1>1, Inductive, PTL


-----------------------------------------------------------------------------
(***************************************************************************)
(* Either backend implements ObjectStore.  The promise is about the calls  *)
(* as Asked: what a read has seen counts the page under way to it.         *)
(***************************************************************************)
SeenBy == IF kind = "s3" THEN S3!Seen ELSE saw

Asked(c) ==
  [op |-> AbstractOp(c), keys |-> call[c].keys, data |-> call[c].data,
   saw |-> SeenBy[c], done |-> took[c]]

SeenInv ==
  \A c \in Client :
    /\ DOMAIN SeenBy[c] \subseteq call[c].keys
    /\ ~ Reading(c) => SeenBy[c] = <<>>
    /\ pos[c] = "done" /\ Reading(c) => DOMAIN SeenBy[c] = call[c].keys

\* The promise is about what is Asked.
LEMMA Promised == PromisedCall = [c \in Client |-> Asked(c)]
BY DEF PromisedCall, AbstractCall, Asked, SeenBy

\* What has been seen, for both backends.
LEMMA SeenIs ==
  /\ kind = "local" => SeenBy = saw
  /\ kind = "s3" => \A c \in Client : SeenBy[c] = Joined(saw[c], page[c].saw)
BY LookIs DEF SeenBy, S3!Seen

\* A call has seen nothing it did not ask for, and a read that is done all of it.
LEMMA SeenHolds == IInv => SeenInv
<1> SUFFICES ASSUME IInv PROVE SeenInv
  OBVIOUS
<1>1. CASE kind = "local"
  <2>1. SeenBy = saw
    BY <1>1, SeenIs
  <2> QED BY <2>1 DEF IInv, SeenInv, CallInv, Reading, Writing
<1>2. CASE kind = "s3"
  <2> SUFFICES ASSUME NEW c \in Client
               PROVE  /\ DOMAIN SeenBy[c] \subseteq call[c].keys
                      /\ ~ Reading(c) => SeenBy[c] = <<>>
                      /\ pos[c] = "done" /\ Reading(c) => DOMAIN SeenBy[c] = call[c].keys
    BY DEF SeenInv
  <2>1. SeenBy[c] = Joined(saw[c], page[c].saw)
    BY <1>2, SeenIs
  <2>2. DOMAIN SeenBy[c] = DOMAIN saw[c] \cup DOMAIN page[c].saw
    BY <2>1 DEF Joined
  <2>3. S3Of(c) /\ CallInv
    BY <1>2 DEF IInv, S3Inv
  <2>4. DOMAIN SeenBy[c] \subseteq call[c].keys
    BY <2>2, <2>3 DEF S3Of, CallInv
  <2>5. ~ Reading(c) => SeenBy[c] = <<>>
    <3>1. Joined(<<>>, <<>>) = <<>>
      BY DEF Joined
    <3>2. ~ Reading(c) => saw[c] = <<>> /\ page[c].saw = <<>>
      BY <2>3 DEF CallInv, S3Of, S3!NoPage
    <3> QED BY <2>1, <3>1, <3>2
  <2>6. pos[c] = "done" /\ Reading(c) => DOMAIN saw[c] = call[c].keys
    BY <2>3 DEF CallInv, Reading, Writing
  <2> QED BY <2>2, <2>4, <2>5, <2>6
<1> QED BY <1>1, <1>2 DEF IInv

\* The calls of the others look the same after a step of c.
Shows(c) == \A d \in Client \ {c} : Asked(d)' = Asked(d)

\* A step of the local backend for c.
LEMMA LocalShows ==
  ASSUME NEW c \in Client, kind = "local", kind' = kind, Others(c)
  PROVE  Shows(c)
BY DEF Shows, Others, Asked, AbstractOp, SeenBy

\* A step of the S3 client for c.
LEMMA S3Shows ==
  ASSUME NEW c \in Client, kind = "s3", kind' = kind, Others(c), OthersRequests(c)
  PROVE  Shows(c)
<1> SUFFICES ASSUME NEW d \in Client \ {c} PROVE Asked(d)' = Asked(d)
  BY DEF Shows
<1>1. SeenBy'[d] = SeenBy[d]
  BY DEF SeenBy, S3!Seen, S3!Joined, Others, OthersRequests
<1> QED BY <1>1 DEF Others, Asked, AbstractOp

\* So what changes is c's entry alone.
LEMMA AskedMoves ==
  ASSUME NEW c \in Client, Shows(c)
  PROVE  \A x : Asked(c)' = x => PromisedCall' = [PromisedCall EXCEPT ![c] = x]
<1> SUFFICES ASSUME NEW x, Asked(c)' = x
             PROVE  PromisedCall' = [PromisedCall EXCEPT ![c] = x]
  OBVIOUS
<1>1. PromisedCall' = [d \in Client |-> Asked(d)']
  BY DEF PromisedCall, AbstractCall, Asked, SeenBy, AbstractOp
<1>2. \A d \in Client : Asked(d)' = IF d = c THEN x ELSE Asked(d)
  BY DEF Shows
<1> QED BY <1>1, <1>2, Promised

\* A step that shows nothing of c either is none of the promise's.
LEMMA Stutter ==
  ASSUME NEW c \in Client, Shows(c), Asked(c)' = Asked(c), UNCHANGED <<obj, ans, echo>>
  PROVE  UNCHANGED Promise!vars
<1>1. PromisedCall' = [PromisedCall EXCEPT ![c] = Asked(c)]
  BY AskedMoves
<1>2. PromisedCall' = PromisedCall
  BY <1>1, Promised
<1> QED BY <1>2 DEF Promise!vars

\* A write takes effect.
LEMMA Applied ==
  ASSUME CallInv, NEW c \in Client, Shows(c), Writing(c), took'[c] = TRUE,
         call'[c] = call[c], SeenBy'[c] = SeenBy[c], UNCHANGED <<ans, echo>>,
         obj' = [k \in Key |-> IF k \in call[c].keys THEN call[c].data ELSE obj[k]]
  PROVE  Promise!Apply(c)
<1>1. PromisedCall[c] = Asked(c) /\ Asked(c).op = "write" /\ Asked(c).keys = call[c].keys
        /\ Asked(c).data = call[c].data
  BY Promised DEF Asked, AbstractOp, Writing
<1>2. obj' = Promise!Written(PromisedCall[c])
  BY <1>1 DEF Promise!Written
<1>3. Asked(c)' = [Asked(c) EXCEPT !.done = TRUE]
  <2>1. AbstractOp(c)' = AbstractOp(c)
    BY DEF AbstractOp
  <2>2. Asked(c)' = [op |-> AbstractOp(c), keys |-> call[c].keys, data |-> call[c].data,
                     saw |-> SeenBy[c], done |-> TRUE]
    BY <2>1, Zenon DEF Asked
  <2>3. \A t : [Asked(c) EXCEPT !.done = t] =
               [op |-> AbstractOp(c), keys |-> call[c].keys, data |-> call[c].data,
                saw |-> SeenBy[c], done |-> t]
    BY DEF Asked
  <2> QED BY <2>2, <2>3, Zenon
<1>4. PromisedCall' = [PromisedCall EXCEPT ![c].done = TRUE]
  BY <1>1, <1>3, AskedMoves
<1> QED BY <1>1, <1>2, <1>4 DEF Promise!Apply

\* The old object is removed.
LEMMA Cleared ==
  ASSUME CallInv, NEW c \in Client, Shows(c), Writing(c), c \in Windows \cup Failing,
         Asked(c)' = Asked(c), UNCHANGED <<ans, echo>>,
         obj' = [k \in Key |-> IF k \in call[c].keys THEN Absent ELSE obj[k]]
  PROVE  Promise!Clear(c)
<1>1. PromisedCall[c] = Asked(c) /\ Asked(c).op = "write" /\ Asked(c).keys = call[c].keys
  BY Promised DEF Asked, AbstractOp, Writing
<1>2. obj' = Promise!Written([PromisedCall[c] EXCEPT !.data = Absent])
  <2>1. /\ [Asked(c) EXCEPT !.data = Absent].keys = call[c].keys
        /\ [Asked(c) EXCEPT !.data = Absent].data = Absent
    BY DEF Asked
  <2> QED BY <1>1, <2>1 DEF Promise!Written
<1>3. PromisedCall' = [PromisedCall EXCEPT ![c] = Asked(c)]
  BY AskedMoves
<1>4. PromisedCall' = PromisedCall
  BY <1>3, Promised
<1> QED BY <1>1, <1>2, <1>4 DEF Promise!Clear

\* A read looks at some keys, or forgets what it saw of some.
LEMMA Observed ==
  ASSUME NEW c \in Client, Shows(c), Reading(c), call'[c] = call[c], took'[c] = took[c],
         UNCHANGED <<obj, ans, echo>>, DOMAIN SeenBy'[c] \subseteq call[c].keys,
         \A k \in DOMAIN SeenBy'[c] :
           \/ SeenBy'[c][k] = Look(c, {k})[k]
           \/ k \in DOMAIN SeenBy[c] /\ SeenBy'[c][k] = SeenBy[c][k]
           \/ c \in Failing /\ call[c].op # "get" /\ SeenBy'[c][k] = FALSE
  PROVE  Promise!Observe(c)
<1>1. /\ PromisedCall[c] = Asked(c) /\ Asked(c).keys = call[c].keys
      /\ Asked(c).op \in {"get", "names"} /\ (Asked(c).op = "get" <=> call[c].op = "get")
      /\ Asked(c).saw = SeenBy[c]
  BY Promised DEF Asked, AbstractOp, Reading
<1>2. Asked(c)' = [Asked(c) EXCEPT !.saw = SeenBy'[c]]
  BY DEF Asked, AbstractOp
<1>3. PromisedCall' = [PromisedCall EXCEPT ![c].saw = SeenBy'[c]]
  BY <1>1, <1>2, AskedMoves
<1>4. PromisedCall'[c].saw = SeenBy'[c]
  <2>1. PromisedCall'[c] = Asked(c)'
    BY DEF PromisedCall, AbstractCall, Asked, SeenBy, AbstractOp
  <2> QED BY <2>1 DEF Asked
<1>5. \A k : Promise!Look(c, k) = Look(c, {k})[k]
  BY <1>1 DEF Promise!Look, Look
<1> QED BY <1>1, <1>3, <1>4, <1>5 DEF Promise!Observe

\* A call begins.
LEMMA Invoked ==
  ASSUME CallInv, SeenInv, NEW c \in Client, Shows(c), Local!Invoke(c), UNCHANGED echo,
         SeenBy'[c] = SeenBy[c]
  PROVE  Promise!Invoke(c)
<1>1. /\ pos[c] = "idle" /\ ans' = [ans EXCEPT ![c] = "none"] /\ UNCHANGED <<obj, took, saw>>
  BY DEF Local!Invoke
<1>2. call[c] = NoCall /\ ~ took[c] /\ ~ Reading(c)
  BY <1>1, Requests DEF CallInv, Writing, Reading
<1>3. PromisedCall[c] = Promise!NoCall
  BY <1>2, Promised, Requests DEF Asked, AbstractOp, SeenInv, CallInv, Promise!NoCall
<1>4. PICK r \in Request : call' = [call EXCEPT ![c] = r]
  BY SameTerms DEF Local!Invoke
<1>5. call'[c] = r /\ took'[c] = FALSE
  BY <1>1, <1>2, <1>4 DEF CallInv
<1>6. SeenBy'[c] = <<>>
  BY <1>2 DEF SeenInv
<1>7. PromisedCall' = [PromisedCall EXCEPT ![c] = Asked(c)'] /\ PromisedCall'[c] = Asked(c)'
  <2>1. PromisedCall'[c] = Asked(c)'
    BY DEF PromisedCall, AbstractCall, Asked, SeenBy, AbstractOp
  <2> QED BY <2>1, AskedMoves
<1>8. Promise!Fresh(Asked(c)')
  BY <1>5, <1>6, Requests DEF Promise!Fresh, Asked, AbstractOp, Contents
<1> QED BY <1>1, <1>3, <1>7, <1>8 DEF Promise!Invoke


\* A call ends, well or not; a request of it may linger.
LEMMA CallOver ==
  ASSUME CallInv, SeenInv', NEW c \in Client, Shows(c),
         call[c].op \in {"put", "delete", "get", "list", "exists"},
         NEW answer, NEW place, Local!Over(c, answer, place)
  PROVE  /\ PromisedCall' = [PromisedCall EXCEPT ![c] = Promise!NoCall]
         /\ PromisedCall[c] # Promise!NoCall
         /\ ans' = [ans EXCEPT ![c] = answer] /\ UNCHANGED obj
<1>1. /\ call' = [call EXCEPT ![c] = NoCall] /\ took' = [took EXCEPT ![c] = FALSE]
      /\ ans' = [ans EXCEPT ![c] = answer] /\ UNCHANGED obj
  BY SameTerms DEF Local!Over
<1>2. call'[c] = NoCall /\ took'[c] = FALSE
  BY <1>1 DEF CallInv
<1>3. SeenBy'[c] = <<>>
  BY <1>2, Requests DEF SeenInv, Reading
<1>4. Asked(c)' = Promise!NoCall
  <2>1. AbstractOp(c)' = "none"
    BY <1>2, Requests DEF AbstractOp
  <2> QED BY <1>2, <1>3, <2>1, Requests, Zenon DEF Asked, Promise!NoCall
<1>5. PromisedCall' = [PromisedCall EXCEPT ![c] = Promise!NoCall]
  BY <1>4, AskedMoves
<1>6. PromisedCall[c].op # Promise!NoCall.op
  BY Promised DEF Asked, AbstractOp, Promise!NoCall
<1> QED BY <1>1, <1>5, <1>6

\* A call returns Ok: a write has taken effect, or is a delete that could not
\* look; a read has seen all of its keys.
LEMMA Returned ==
  ASSUME CallInv, SeenInv, SeenInv', NEW c \in Client, Shows(c),
         call[c].op \in {"put", "delete", "get", "list", "exists"}, pos[c] = "done",
         NEW place, Local!Over(c, "ok", place), UNCHANGED echo
  PROVE  Promise!Return(c)
<1>1. \/ /\ PromisedCall[c].op = "write"
         /\ PromisedCall[c].done \/ (c \in Failing /\ PromisedCall[c].data = Absent)
      \/ /\ PromisedCall[c].op \in {"get", "names"}
         /\ DOMAIN PromisedCall[c].saw = PromisedCall[c].keys
  <2>1. CASE Writing(c)
    <3>1. took[c] \/ (c \in Failing /\ call[c].op = "delete")
      BY <2>1 DEF CallInv
    <3>2. call[c].op = "delete" => call[c].data = Absent
      BY CallIs, Requests
    <3> QED BY <2>1, <3>1, <3>2, Promised DEF Asked, AbstractOp, Writing
  <2>2. CASE ~ Writing(c)
    <3>1. Reading(c) /\ DOMAIN SeenBy[c] = call[c].keys
      BY <2>2 DEF CallInv, SeenInv
    <3> QED BY <2>2, <3>1, Promised DEF Asked, AbstractOp, Writing, Reading
  <2> QED BY <2>1, <2>2
<1> QED BY <1>1, CallOver DEF Promise!Return

\* What the promise allows to linger is a write of a late client.
LEMMA Lingers ==
  ASSUME NEW c \in Client,
         \/ UNCHANGED echo
         \/ /\ c \in Late /\ Writing(c)
            /\ echo' = echo \cup {[keys |-> call[c].keys, data |-> call[c].data]}
  PROVE  \E e \in Promise!Lingering(c) : echo' = echo \cup e
<1>1. CASE UNCHANGED echo
  <2>1. {} \in Promise!Lingering(c)
    BY DEF Promise!Lingering
  <2> QED BY <1>1, <2>1
<1>2. CASE /\ c \in Late /\ Writing(c)
           /\ echo' = echo \cup {[keys |-> call[c].keys, data |-> call[c].data]}
  <2>1. /\ PromisedCall[c].op = "write" /\ PromisedCall[c].keys = call[c].keys
        /\ PromisedCall[c].data = call[c].data
    BY <1>2, Promised DEF Asked, AbstractOp, Writing
  <2>2. {[keys |-> call[c].keys, data |-> call[c].data]} \in Promise!Lingering(c)
    BY <1>2, <2>1 DEF Promise!Lingering
  <2> QED BY <1>2, <2>2
<1> QED BY <1>1, <1>2

\* A call ends with an error.
LEMMA Failed ==
  ASSUME CallInv, SeenInv', NEW c \in Client, Shows(c),
         call[c].op \in {"put", "delete", "get", "list", "exists"},
         NEW place, Local!Over(c, "error", place),
         \/ UNCHANGED echo
         \/ /\ c \in Late /\ Writing(c)
            /\ echo' = echo \cup {[keys |-> call[c].keys, data |-> call[c].data]}
  PROVE  Promise!Fail(c)
BY CallOver, Lingers DEF Promise!Fail

\* A write that has not ended is lost sight of.
LEMMA Lost ==
  ASSUME NEW c \in Client, Shows(c), Asked(c)' = Asked(c), UNCHANGED <<obj, ans>>,
         \/ UNCHANGED echo
         \/ /\ c \in Late /\ Writing(c)
            /\ echo' = echo \cup {[keys |-> call[c].keys, data |-> call[c].data]}
  PROVE  Promise!Lose(c)
<1>1. PromisedCall' = [PromisedCall EXCEPT ![c] = Asked(c)]
  BY AskedMoves
<1>2. PromisedCall' = PromisedCall
  BY <1>1, Promised
<1> QED BY <1>2, Lingers DEF Promise!Lose

-----------------------------------------------------------------------------
(***************************************************************************)
(* The steps of the S3 client, as the promise has them.                    *)
(***************************************************************************)
LEMMA S3Others ==
  ASSUME CallInv, S3Inv, NEW c \in Client, S3!Begin(c) \/ S3!Step(c) \/ S3!Crash(c)
  PROVE  Others(c) /\ OthersRequests(c)
<1>0. DOMAIN page = Client /\ token \in [Client -> Key \cup {0}]
  BY DEF S3Inv
<1>1. CASE S3!Begin(c)
  BY <1>1, SameCalls, CallEnds DEF S3!Begin, S3!s3Vars, OthersRequests
<1>2. CASE S3!Send(c)
  BY <1>2 DEF S3!Send, S3!Goto, S3!s3Vars, Others, OthersRequests, CallInv
<1>3. CASE S3!Serve(c)
  BY <1>0, <1>3 DEF S3!Serve, S3!Goto, Others, OthersRequests, CallInv
<1>4. CASE S3!NoAnswer(c)
  BY <1>0, <1>4 DEF S3!NoAnswer, S3!Goto, Others, OthersRequests, CallInv
<1>5. CASE S3!Denied(c)
  BY <1>5 DEF S3!Denied, S3!Goto, S3!s3Vars, Others, OthersRequests, CallInv
<1>6. CASE S3!Answer(c)
  BY <1>0, <1>6 DEF S3!Answer, S3!Goto, Others, OthersRequests, CallInv
<1>7. CASE S3!End(c) \/ S3!Crash(c)
  BY <1>0, <1>7 DEF S3!End, S3!Crash, S3!Return, S3!ReturnError, S3!Over, S3!Dropped, S3!Goto,
                    Others, OthersRequests, CallInv
<1> QED BY <1>1, <1>2, <1>3, <1>4, <1>5, <1>6, <1>7 DEF S3!Step

\* A call that sends nothing and gets nothing is not seen to do anything.
LEMMA S3Quiet ==
  ASSUME CallInv, S3Inv, NEW c \in Client, kind = "s3", kind' = kind,
         S3!Send(c) \/ S3!Denied(c)
  PROVE  UNCHANGED Promise!vars
<1>1. UNCHANGED <<obj, call, took, saw, ans, calls, attempt, token, page, echo>>
  BY DEF S3!Send, S3!Denied, S3!s3Vars
<1>2. Shows(c)
  BY S3Others, S3Shows DEF S3!Step
<1>3. Asked(c)' = Asked(c)
  BY <1>1 DEF Asked, AbstractOp, SeenBy, S3!Seen, S3!Joined
<1> QED BY <1>1, <1>2, <1>3, Stutter

\* A request is carried out: this is when a write takes effect, and when a
\* read sees.
LEMMA ServePromised ==
  ASSUME CallInv, S3Inv, NEW c \in Client, kind = "s3", kind' = kind, S3!Serve(c)
  PROVE  Promise!Apply(c) \/ Promise!Observe(c)
<1>0. /\ Shows(c) /\ S3Of(c) /\ pos[c] = "sent" /\ call[c] # NoCall
      /\ call[c].op \in {"put", "delete", "get", "list", "exists"}
  <2>1. Shows(c) /\ S3Of(c) /\ pos[c] = "sent"
    BY S3Others, S3Shows DEF S3!Step, S3!Serve, S3Inv
  <2>2. call[c] # NoCall
    BY <2>1 DEF CallInv
  <2> QED BY <2>1, <2>2, CallIs DEF S3Of
<1>1. CASE Writing(c)
  <2>1. /\ took' = [took EXCEPT ![c] = TRUE] /\ obj' = S3!Written(call[c])
        /\ UNCHANGED <<call, saw, ans, calls, attempt, token, page, echo>>
    BY <1>1 DEF S3!Serve, S3!Writes, Writing
  <2>2. took'[c] = TRUE /\ call'[c] = call[c] /\ SeenBy'[c] = SeenBy[c]
    BY <2>1 DEF CallInv, SeenBy, S3!Seen, S3!Joined
  <2>3. Promise!Apply(c)
    BY <1>0, <1>1, <2>1, <2>2, Applied DEF S3!Written
  <2> QED BY <2>3
<1>2. CASE ~ Writing(c)
  <2>1. /\ page' = [page EXCEPT ![c] = S3!Page(c)]
        /\ UNCHANGED <<obj, call, took, saw, ans, calls, attempt, token, echo>>
    BY <1>2 DEF S3!Serve, S3!Writes, Writing
  <2> DEFINE p == S3!Page(c)
  <2>2. /\ DOMAIN p.saw \subseteq call[c].keys
        /\ \A k \in DOMAIN p.saw : p.saw[k] = Look(c, {k})[k]
    BY PageIs DEF S3Inv
  <2> HIDE DEF p
  <2>3. page'[c] = p /\ page[c] = S3!NoPage
    BY <1>0, <2>1 DEF S3Inv, S3Of, p
  <2>4. SeenBy[c] = Joined(saw[c], page[c].saw) /\ SeenBy'[c] = Joined(saw[c], p.saw)
    BY <2>1, <2>3, LookIs DEF SeenBy, S3!Seen
  <2>5. /\ DOMAIN SeenBy[c] = DOMAIN saw[c]
        /\ \A k \in DOMAIN saw[c] : SeenBy[c][k] = saw[c][k]
    <3>1. DOMAIN page[c].saw = {}
      BY <2>3 DEF S3!NoPage
    <3> QED BY <2>4, <3>1 DEF Joined
  <2>6. DOMAIN SeenBy'[c] = DOMAIN saw[c] \cup DOMAIN p.saw
    BY <2>4 DEF Joined
  <2>7. ASSUME NEW k \in DOMAIN SeenBy'[c]
        PROVE  \/ SeenBy'[c][k] = Look(c, {k})[k]
               \/ k \in DOMAIN SeenBy[c] /\ SeenBy'[c][k] = SeenBy[c][k]
    <3>1. CASE k \in DOMAIN p.saw
      BY <2>2, <2>4, <3>1 DEF Joined
    <3>2. CASE k \notin DOMAIN p.saw
      <4>1. k \in DOMAIN saw[c]
        BY <2>6, <3>2
      <4>2. SeenBy'[c][k] = saw[c][k]
        BY <2>4, <3>2, <4>1 DEF Joined
      <4> QED BY <2>5, <4>1, <4>2
    <3> QED BY <3>1, <3>2
  <2>8. DOMAIN SeenBy'[c] \subseteq call[c].keys
    BY <2>2, <2>6 DEF CallInv
  <2>9. Reading(c) /\ call'[c] = call[c] /\ took'[c] = took[c]
    BY <1>0, <1>2, <2>1 DEF Reading, Writing
  <2>10. Promise!Observe(c)
    BY <1>0, <2>1, <2>7, <2>8, <2>9, Observed
  <2> QED BY <2>10
<1> QED BY <1>1, <1>2


\* An answer that does not come: a write may linger, and what the page told of
\* its keys, which were not looked at before, is not seen.
LEMMA NoAnswerPromised ==
  ASSUME CallInv, S3Inv, NEW c \in Client, kind = "s3", kind' = kind, S3!NoAnswer(c)
  PROVE  Promise!Lose(c) \/ Promise!Observe(c)
<1>0. /\ Shows(c) /\ S3Of(c) /\ pos[c] \in {"sent", "served"} /\ call[c] # NoCall
      /\ call[c].op \in {"put", "delete", "get", "list", "exists"}
  <2>1. Shows(c) /\ S3Of(c) /\ pos[c] \in {"sent", "served"}
    BY S3Others, S3Shows DEF S3!Step, S3!NoAnswer, S3Inv
  <2>2. call[c] # NoCall
    BY <2>1 DEF CallInv
  <2> QED BY <2>1, <2>2, CallIs DEF S3Of
<1>1. /\ page' = [page EXCEPT ![c] = S3!NoPage]
      /\ UNCHANGED <<obj, call, took, saw, ans, calls, token>>
  BY DEF S3!NoAnswer
<1>2. SeenBy[c] = Joined(saw[c], page[c].saw) /\ SeenBy'[c] = Joined(saw[c], S3!NoPage.saw)
  BY <1>1, LookIs DEF SeenBy, S3!Seen, S3Inv
<1>3. CASE Writing(c)
  <2>1. page[c] = S3!NoPage
    BY <1>0, <1>3 DEF S3Of, Writing, Reading
  <2>2. Asked(c)' = Asked(c)
    BY <1>1, <1>2, <2>1 DEF Asked, AbstractOp
  <2>3. \/ UNCHANGED echo
        \/ /\ c \in Late /\ Writing(c)
           /\ echo' = echo \cup {[keys |-> call[c].keys, data |-> call[c].data]}
    BY <1>3 DEF S3!NoAnswer
  <2>4. Promise!Lose(c)
    BY <1>0, <1>1, <2>2, <2>3, Lost
  <2> QED BY <2>4
<1>4. CASE ~ Writing(c)
  <2>1. Reading(c) /\ UNCHANGED echo /\ call'[c] = call[c] /\ took'[c] = took[c]
    BY <1>0, <1>1, <1>4 DEF S3!NoAnswer, S3!Writes, Reading, Writing
  <2>2. /\ DOMAIN SeenBy'[c] = DOMAIN saw[c]
        /\ \A k \in DOMAIN saw[c] : SeenBy'[c][k] = saw[c][k]
    <3>1. DOMAIN S3!NoPage.saw = {}
      BY DEF S3!NoPage
    <3> QED BY <1>2, <3>1 DEF Joined
  <2>3. DOMAIN saw[c] \cap DOMAIN page[c].saw = {}
    <3>1. CASE pos[c] = "sent"
      BY <1>0, <3>1 DEF S3Of, S3!NoPage
    <3>2. CASE pos[c] = "served"
      <4>1. DOMAIN saw[c] = {k \in call[c].keys : k <= token[c]}
        BY <1>0, <2>1, <3>2 DEF S3Of
      <4>2. \A k \in DOMAIN page[c].saw : k \in call[c].keys /\ token[c] < k
        BY <1>0, <1>4, <3>2 DEF S3Of, PageFits
      <4>3. Key \cup {0} \subseteq Nat /\ call[c].keys \subseteq Key /\ token[c] \in Key \cup {0}
        BY KeyAssumption, CallIs DEF S3Inv
      <4>4. token[c] \in Nat /\ \A k \in call[c].keys : k \in Nat
        BY <4>3
      <4> QED BY <4>1, <4>2, <4>4
    <3> QED BY <1>0, <3>1, <3>2
  <2>4. ASSUME NEW k \in DOMAIN SeenBy'[c]
        PROVE  k \in DOMAIN SeenBy[c] /\ SeenBy'[c][k] = SeenBy[c][k]
    <3>1. k \in DOMAIN saw[c] /\ k \notin DOMAIN page[c].saw
      BY <2>2, <2>3
    <3> QED BY <1>2, <2>2, <3>1 DEF Joined
  <2>5. DOMAIN SeenBy'[c] \subseteq call[c].keys
    BY <2>2 DEF CallInv
  <2>6. Promise!Observe(c)
    BY <1>0, <1>1, <2>1, <2>4, <2>5, Observed
  <2> QED BY <2>6
<1> QED BY <1>3, <1>4

\* The arrival of an answer is not seen: its page counted before.
LEMMA AnswerPromised ==
  ASSUME CallInv, S3Inv, NEW c \in Client, kind = "s3", kind' = kind, S3!Answer(c)
  PROVE  UNCHANGED Promise!vars
<1>1. Shows(c)
  BY S3Others, S3Shows DEF S3!Step
<1>2. /\ saw' = [saw EXCEPT ![c] = Joined(saw[c], page[c].saw)]
      /\ page' = [page EXCEPT ![c] = S3!NoPage] /\ UNCHANGED <<obj, call, took, ans, echo>>
  BY LookIs DEF S3!Answer, CallInv
<1>3. /\ SeenBy[c] = Joined(saw[c], page[c].saw)
      /\ SeenBy'[c] = Joined(Joined(saw[c], page[c].saw), <<>>)
  BY <1>2, LookIs DEF SeenBy, S3!Seen, S3Inv, CallInv, S3!NoPage
<1>4. SeenBy'[c] = SeenBy[c]
  <2>1. \A f, g : Joined(Joined(f, g), <<>>) = Joined(f, g)
    BY DEF Joined
  <2> QED BY <1>3, <2>1
<1>5. Asked(c)' = Asked(c)
  BY <1>2, <1>4 DEF Asked, AbstractOp
<1> QED BY <1>1, <1>2, <1>5, Stutter

\* Calls begin and end as promised.
LEMMA S3CallsPromised ==
  ASSUME CallInv, S3Inv, SeenInv, SeenInv', NEW c \in Client, kind = "s3", kind' = kind,
         S3!Begin(c) \/ S3!End(c) \/ S3!Crash(c)
  PROVE  Promise!Invoke(c) \/ Promise!Return(c) \/ Promise!Fail(c)
<1>0. Shows(c) /\ S3Of(c)
  BY S3Others, S3Shows DEF S3!Step, S3Inv
<1>1. CASE S3!Begin(c)
  <2>1. Local!Invoke(c) /\ UNCHANGED <<saw, page, echo>>
    BY <1>1, SameCalls DEF S3!Begin, S3!s3Vars, Local!Invoke
  <2>2. SeenBy'[c] = SeenBy[c]
    BY <2>1 DEF SeenBy, S3!Seen, S3!Joined
  <2> QED BY <1>0, <2>1, <2>2, Invoked
<1>2. ASSUME pos[c] \notin {"idle", "dead"}
      PROVE  call[c].op \in {"put", "delete", "get", "list", "exists"}
  <2>1. call[c] # NoCall
    BY <1>2 DEF CallInv
  <2> QED BY <1>0, <2>1, CallIs DEF S3Of
<1>3. CASE S3!End(c)
  <2>1. UNCHANGED echo /\ pos[c] \in {"done", "failed"}
    BY <1>3 DEF S3!End, S3!Return, S3!ReturnError
  <2>2. CASE S3!Return(c)
    <3>1. pos[c] = "done" /\ Local!Over(c, "ok", "idle")
      BY <2>2, SameCalls DEF S3!Return
    <3> QED BY <1>0, <1>2, <2>1, <3>1, Returned
  <2>3. CASE S3!ReturnError(c)
    <3>1. Local!Over(c, "error", "idle")
      BY <2>3, SameCalls DEF S3!ReturnError
    <3> QED BY <1>0, <1>2, <2>1, <3>1, Failed
  <2> QED BY <1>3, <2>2, <2>3 DEF S3!End
<1>4. CASE S3!Crash(c)
  <2>1. pos[c] \notin {"idle", "dead"} /\ Local!Over(c, "error", "dead")
    BY <1>4, SameCalls DEF S3!Crash
  <2>2. \/ UNCHANGED echo
        \/ /\ c \in Late /\ Writing(c)
           /\ echo' = echo \cup {[keys |-> call[c].keys, data |-> call[c].data]}
    BY <1>4 DEF S3!Crash, S3!Writes, Writing
  <2> QED BY <1>0, <1>2, <2>1, <2>2, Failed
<1> QED BY <1>1, <1>3, <1>4

\* A lost request arrives when it will.
LEMMA ArrivePromised ==
  ASSUME NEW e \in echo, kind = "s3", kind' = kind, S3!Arrive(e)
  PROVE  Promise!Arrive(e)
<1>1. /\ obj' = S3!Written(e) /\ echo' = echo \ {e}
      /\ UNCHANGED <<call, took, saw, ans, page>>
  BY DEF S3!Arrive
<1>2. PromisedCall' = PromisedCall
  BY <1>1 DEF PromisedCall, AbstractCall, AbstractOp, S3!Seen, S3!Joined
<1> QED BY <1>1, <1>2 DEF Promise!Arrive, Promise!Written, S3!Written

\* So every step of the S3 client is as promised.
LEMMA S3Promised ==
  ASSUME CallInv, S3Inv, SeenInv, SeenInv', kind = "s3", kind' = kind, S3!Next
  PROVE  [Promise!Next]_(Promise!vars)
<1>1. ASSUME NEW c \in Client, S3!Begin(c) \/ S3!Step(c) \/ S3!Crash(c)
      PROVE  [Promise!Next]_(Promise!vars)
  <2>1. \/ UNCHANGED Promise!vars
        \/ Promise!Invoke(c) \/ Promise!Apply(c) \/ Promise!Observe(c)
        \/ Promise!Return(c) \/ Promise!Lose(c) \/ Promise!Fail(c)
    BY <1>1, S3Quiet, ServePromised, NoAnswerPromised, AnswerPromised, S3CallsPromised
       DEF S3!Step
  <2> QED BY <2>1 DEF Promise!Next
<1>2. ASSUME NEW e \in echo, S3!Arrive(e) PROVE [Promise!Next]_(Promise!vars)
  BY <1>2, ArrivePromised DEF Promise!Next
<1> QED BY <1>1, <1>2 DEF S3!Next


-----------------------------------------------------------------------------
(***************************************************************************)
(* The steps of the local backend, as the promise has them.                *)
(***************************************************************************)
LEMMA LocalOthers ==
  ASSUME CallInv, PlaceInv, FileInv, NEW c \in Client, kind = "local", kind' = kind,
         Local!Begin(c) \/ Local!BeginCleanup(c) \/ Local!Step(c) \/ Local!Crash(c)
  PROVE  Shows(c)
<1>1. CASE \E answer \in {"none", "ok", "error"}, place \in {"idle", "dead"} :
             Local!Over(c, answer, place)
  BY <1>1, CallEnds, LocalShows
<1>2. CASE UNCHANGED Local!calling
  BY <1>2, LocalShows DEF Local!calling, Others
<1>3. CASE Local!Begin(c) \/ Local!BeginCleanup(c)
  BY <1>3, CallEnds, LocalShows DEF Local!Begin
<1>4. CASE Local!PutStep(c) \/ Local!Probe(c) \/ Local!Unlink(c) \/ Local!IoError(c)
  BY <1>4, LocalWrites, LocalShows
<1>5. CASE Local!Read(c) \/ Local!Exists(c) \/ Local!ListStep(c)
  BY <1>5, LocalReads, LocalShows
<1>6. CASE Local!CleanupStep(c)
  BY <1>1, <1>2, <1>6
     DEF Local!CleanupStep, Local!FindTmp, Local!SkipDir, Local!Judge, Local!Discard,
         Local!EndCleanup, CallInv
<1>7. CASE Local!End(c)
  BY <1>1, <1>7 DEF Local!End, Local!Return, Local!ReturnError
<1>8. CASE Local!Crash(c)
  BY <1>1, <1>8 DEF Local!Crash, CallInv
<1> QED BY <1>3, <1>4, <1>5, <1>6, <1>7, <1>8 DEF Local!Step

\* A write of one object.
LEMMA PutIs ==
  ASSUME CallInv, NEW c \in Client, Writing(c), NEW x
  PROVE  Local!Put(x, c) = [k \in Key |-> IF k \in call[c].keys THEN x ELSE obj[k]]
<1>1. Local!Target(c) \in Key /\ call[c].keys = {Local!Target(c)}
  BY CallIs DEF Writing
<1> QED BY <1>1 DEF Local!Put, CallInv

\* The steps of a put or a delete: the rename or the removal is when it takes
\* effect; a target is removed before on Windows or after an error only.
LEMMA WritesPromised ==
  ASSUME CallInv, PlaceInv, KeepInv, NEW c \in Client, Shows(c), kind = "local",
         kind' = kind, UNCHANGED echo,
         Local!PutStep(c) \/ Local!Probe(c) \/ Local!Unlink(c) \/ Local!IoError(c)
  PROVE  UNCHANGED Promise!vars \/ Promise!Apply(c) \/ Promise!Clear(c)
<1>0. SeenBy = saw /\ SeenBy' = saw'
  BY DEF SeenBy
<1>1. CASE UNCHANGED <<obj, call, took, saw, ans>>
  <2>1. Asked(c)' = Asked(c)
    BY <1>0, <1>1 DEF Asked, AbstractOp
  <2> QED BY <1>1, <2>1, Stutter
<1>2. CASE /\ Writing(c) /\ obj' = Local!Put(call[c].data, c)
           /\ took' = [took EXCEPT ![c] = TRUE] /\ UNCHANGED <<call, saw, ans>>
  <2>1. took'[c] = TRUE /\ call'[c] = call[c] /\ SeenBy'[c] = SeenBy[c]
    BY <1>0, <1>2 DEF CallInv
  <2>2. obj' = [k \in Key |-> IF k \in call[c].keys THEN call[c].data ELSE obj[k]]
    BY <1>2, PutIs
  <2> QED BY <1>2, <2>1, <2>2, Applied
<1>3. ASSUME call[c].op = "delete"
      PROVE  call[c].data = Absent /\ Local!Target(c) \in Key
  BY <1>3, CallIs, Requests
<1>4. CASE Local!Rename(c)
  BY <1>2, <1>4, LocalPlaces DEF Local!Rename, Writing
<1>5. CASE Local!RemoveTarget(c)
  <2>0. CASE UNCHANGED obj
    BY <1>1, <1>5, <2>0 DEF Local!RemoveTarget
  <2> SUFFICES ASSUME obj' # obj
               PROVE  UNCHANGED Promise!vars \/ Promise!Apply(c) \/ Promise!Clear(c)
    BY <2>0
  <2>1. /\ pos[c] = "blocked" /\ obj' = Local!Put(Absent, c)
        /\ UNCHANGED <<call, took, saw, ans>>
    BY <1>5 DEF Local!RemoveTarget
  <2>2. Writing(c) /\ c \in Windows \cup Failing
    BY <2>1, LocalPlaces DEF KeepInv, Writing
  <2>3. Asked(c)' = Asked(c)
    BY <1>0, <2>1 DEF Asked, AbstractOp
  <2>4. obj' = [k \in Key |-> IF k \in call[c].keys THEN Absent ELSE obj[k]]
    BY <2>1, <2>2, PutIs
  <2> QED BY <2>1, <2>2, <2>3, <2>4, Cleared
<1>6. CASE Local!Probe(c)
  <2>1. /\ call[c].op = "delete" /\ Writing(c) /\ took[c] = FALSE
        /\ UNCHANGED <<obj, call, saw, ans>>
        /\ \/ UNCHANGED took
           \/ took' = [took EXCEPT ![c] = obj[Local!Target(c)] = Absent]
    BY <1>6 DEF Local!Probe, Writing, PlaceInv
  <2>2. CASE UNCHANGED took
    BY <1>1, <2>1, <2>2
  <2>3. CASE took' = [took EXCEPT ![c] = TRUE] /\ obj[Local!Target(c)] = Absent
    <3>1. obj' = Local!Put(call[c].data, c)
      BY <1>3, <2>1, <2>3 DEF Local!Put, CallInv
    <3> QED BY <1>2, <2>1, <2>3, <3>1
  <2>4. CASE took' = [took EXCEPT ![c] = FALSE]
    <3>1. UNCHANGED took
      BY <2>1, <2>4 DEF CallInv
    <3> QED BY <2>2, <3>1
  <2>5. \/ UNCHANGED took
        \/ took' = [took EXCEPT ![c] = TRUE] /\ obj[Local!Target(c)] = Absent
        \/ took' = [took EXCEPT ![c] = FALSE]
    <3>1. CASE obj[Local!Target(c)] = Absent
      BY <2>1, <3>1, Zenon
    <3>2. CASE obj[Local!Target(c)] # Absent
      <4>1. (obj[Local!Target(c)] = Absent) = FALSE
        BY <3>2
      <4> QED BY <2>1, <4>1, Zenon
    <3> QED BY <3>1, <3>2
  <2> QED BY <2>2, <2>3, <2>4, <2>5
<1>7. CASE Local!Unlink(c)
  <2>1. CASE obj[Local!Target(c)] = Absent
    BY <1>1, <1>7, <2>1 DEF Local!Unlink
  <2>2. CASE obj[Local!Target(c)] # Absent
    BY <1>2, <1>3, <1>7, <2>2, LocalPlaces DEF Local!Unlink, Writing
  <2> QED BY <2>1, <2>2
<1>8. CASE Local!CreateTmp(c) \/ Local!WriteFails(c) \/ Local!RenameFails(c)
             \/ Local!RenameFailsAgain(c) \/ Local!RemoveTmp(c) \/ Local!IoError(c)
  BY <1>1, <1>8 DEF Local!CreateTmp, Local!WriteFails, Local!RenameFails,
                    Local!RenameFailsAgain, Local!RemoveTmp, Local!IoError
<1> QED BY <1>4, <1>5, <1>6, <1>7, <1>8 DEF Local!PutStep

\* Every look of a read is one at the present contents, or fails.
LEMMA ReadsPromised ==
  ASSUME CallInv, PlaceInv, CallInv', NEW c \in Client, Shows(c), kind = "local",
         kind' = kind, UNCHANGED echo,
         Local!Read(c) \/ Local!Exists(c) \/ Local!ListStep(c)
  PROVE  Promise!Observe(c)
<1>0. SeenBy = saw /\ SeenBy' = saw'
  BY DEF SeenBy
<1>1. Reading(c) /\ UNCHANGED <<obj, call, took, ans>>
  BY LocalPlaces DEF Local!Read, Local!Exists, Local!ListStep, Local!BeginList, Local!ReadDir,
                     Reading
<1> DEFINE Told(look) ==
      \A k \in DOMAIN look :
        look[k] = Look(c, {k})[k] \/ (c \in Failing /\ call[c].op # "get" /\ look[k] = FALSE)
<1>2. \E look : Told(look) /\ (saw'[c] = look \/ saw'[c] = Joined(saw[c], look))
  <2>1. CASE Local!Read(c)
    <3>1. saw'[c] = Look(c, call[c].keys)
      BY <2>1, SameTerms DEF Local!Read, CallInv
    <3>2. Told(Look(c, call[c].keys))
      BY DEF Look
    <3> QED BY <3>1, <3>2
  <2>2. CASE Local!Exists(c)
    <3> DEFINE keys == call[c].keys
    <3>1. PICK look \in Local!Looks(c, keys) : saw' = [saw EXCEPT ![c] = look]
      BY <2>2 DEF Local!Exists
    <3>2. call[c].op # "get"
      BY <2>2 DEF Local!Exists
    <3> HIDE DEF keys
    <3>3. /\ DOMAIN look = keys
          /\ \A k \in keys :
               look[k] = Look(c, {k})[k] \/ (c \in Failing /\ look[k] = FALSE)
      BY LooksTell
    <3>4. Told(look)
      BY <3>2, <3>3
    <3> QED BY <3>1, <3>4 DEF CallInv
  <2>3. CASE Local!BeginList(c)
    <3>1. saw'[c] = <<>> /\ Told(<<>>)
      BY <2>3, LookIs DEF Local!BeginList, PlaceInv
    <3> QED BY <3>1
  <2>4. ASSUME NEW dir \in todo[c], Local!ReadDir(c, dir)
        PROVE  \E look : Told(look) /\ saw'[c] = Joined(saw[c], look)
    <3>1. PICK look \in Local!Looks(c, Local!InDir({dir})) :
            saw' = [saw EXCEPT ![c] = Joined(saw[c], look)]
      BY <2>4, LookIs DEF Local!ReadDir
    <3>2. call[c].op = "list"
      BY <2>4, LocalPlaces DEF Local!ReadDir
    <3>3. /\ DOMAIN look = Local!InDir({dir})
          /\ \A k \in Local!InDir({dir}) :
               look[k] = Look(c, {k})[k] \/ (c \in Failing /\ look[k] = FALSE)
      BY LooksTell
    <3>4. Told(look)
      BY <3>2, <3>3
    <3> QED BY <3>1, <3>4 DEF CallInv
  <2> QED BY <2>1, <2>2, <2>3, <2>4 DEF Local!ListStep
<1>3. PICK look : Told(look) /\ (saw'[c] = look \/ saw'[c] = Joined(saw[c], look))
  BY <1>2
<1>4. ASSUME NEW k \in DOMAIN saw'[c]
      PROVE  \/ saw'[c][k] = Look(c, {k})[k]
             \/ k \in DOMAIN saw[c] /\ saw'[c][k] = saw[c][k]
             \/ c \in Failing /\ call[c].op # "get" /\ saw'[c][k] = FALSE
  <2>1. CASE saw'[c] = look
    BY <1>3, <1>4, <2>1
  <2>2. CASE saw'[c] = Joined(saw[c], look)
    <3>1. k \in DOMAIN saw[c] \cup DOMAIN look
      BY <1>4, <2>2 DEF Joined
    <3>2. CASE k \in DOMAIN look
      BY <1>3, <2>2, <3>2 DEF Joined
    <3>3. CASE k \notin DOMAIN look
      BY <2>2, <3>1, <3>3 DEF Joined
    <3> QED BY <3>2, <3>3
  <2> QED BY <1>3, <2>1, <2>2
<1>5. DOMAIN saw'[c] \subseteq call[c].keys
  BY <1>1 DEF CallInv
<1> QED BY <1>0, <1>1, <1>4, <1>5, Observed

\* Calls begin and end as promised, and of a cleanup nothing is seen.
LEMMA LocalCallsPromised ==
  ASSUME CallInv, PlaceInv, SeenInv, SeenInv', NEW c \in Client, Shows(c), kind = "local",
         kind' = kind, UNCHANGED echo,
         Local!Begin(c) \/ Local!BeginCleanup(c) \/ Local!CleanupStep(c) \/ Local!End(c)
           \/ Local!Crash(c)
  PROVE  \/ UNCHANGED Promise!vars
         \/ Promise!Invoke(c) \/ Promise!Return(c) \/ Promise!Fail(c)
<1>0. SeenBy = saw /\ SeenBy' = saw'
  BY DEF SeenBy
<1>1. ASSUME pos[c] \notin {"idle", "dead"}
      PROVE  call[c].op \in {"put", "delete", "get", "list", "exists", "cleanup"}
  BY <1>1, LocalPlaces, CallIs
<1>2. CASE Local!Begin(c)
  <2>1. Local!Invoke(c) /\ SeenBy'[c] = SeenBy[c]
    BY <1>0, <1>2 DEF Local!Begin, Local!Invoke
  <2> QED BY <2>1, Invoked
<1>3. CASE UNCHANGED Local!calling
  <2>1. Asked(c)' = Asked(c) /\ UNCHANGED <<obj, ans>>
    BY <1>0, <1>3 DEF Local!calling, Asked, AbstractOp
  <2> QED BY <2>1, Stutter
<1>4. CASE Local!BeginCleanup(c)
  <2>1. call[c] = NoCall /\ UNCHANGED <<obj, took, saw, ans>>
    BY <1>4 DEF Local!BeginCleanup, CallInv
  <2>2. PICK r \in Cleanup : call' = [call EXCEPT ![c] = r]
    BY <1>4, SameTerms DEF Local!BeginCleanup
  <2>3. call'[c] = r
    BY <2>2 DEF CallInv
  <2>4. AbstractOp(c)' = AbstractOp(c) /\ call'[c].keys = call[c].keys
          /\ call'[c].data = call[c].data
    BY <2>1, <2>3, Requests DEF AbstractOp
  <2>5. Asked(c)' = Asked(c)
    BY <1>0, <2>1, <2>4 DEF Asked
  <2> QED BY <2>1, <2>5, Stutter
<1>5. ASSUME call[c].op = "cleanup", NEW place, Local!Over(c, ans[c], place)
      PROVE  UNCHANGED Promise!vars
  <2>1. /\ call' = [call EXCEPT ![c] = NoCall] /\ took' = [took EXCEPT ![c] = FALSE]
        /\ saw' = [saw EXCEPT ![c] = <<>>] /\ ans' = [ans EXCEPT ![c] = ans[c]]
        /\ UNCHANGED obj
    BY <1>5, SameTerms DEF Local!Over
  <2>2. /\ call'[c] = NoCall /\ took'[c] = took[c] /\ saw'[c] = saw[c] /\ UNCHANGED ans
    BY <1>5, <2>1 DEF CallInv, Writing, Reading
  <2>3. AbstractOp(c)' = AbstractOp(c) /\ call'[c].keys = call[c].keys
          /\ call'[c].data = call[c].data
    BY <1>5, <2>2, Requests, CallIs DEF AbstractOp
  <2>4. Asked(c)' = Asked(c)
    BY <1>0, <2>2, <2>3 DEF Asked
  <2> QED BY <2>1, <2>2, <2>4, Stutter
<1>6. CASE Local!CleanupStep(c)
  <2>1. CASE Local!EndCleanup(c)
    <3>1. pos[c] = "sweep" /\ Local!Over(c, ans[c], "idle")
      BY <2>1 DEF Local!EndCleanup
    <3>2. call[c].op = "cleanup"
      BY <3>1, LocalPlaces
    <3> QED BY <1>5, <3>1, <3>2
  <2>2. CASE ~ Local!EndCleanup(c)
    BY <1>3, <1>6, <2>2 DEF Local!CleanupStep, Local!FindTmp, Local!SkipDir, Local!Judge,
                            Local!Discard, Local!calling
  <2> QED BY <2>1, <2>2
<1>7. CASE Local!End(c)
  <2>1. pos[c] \in {"done", "failed"}
    BY <1>7 DEF Local!End, Local!Return, Local!ReturnError
  <2>2. call[c].op \in {"put", "delete", "get", "list", "exists"}
    BY <1>1, <2>1, LocalPlaces
  <2>3. CASE Local!Return(c)
    BY <2>2, <2>3, Returned DEF Local!Return
  <2>4. CASE Local!ReturnError(c)
    BY <2>2, <2>4, Failed DEF Local!ReturnError
  <2> QED BY <1>7, <2>3, <2>4 DEF Local!End
<1>8. CASE Local!Crash(c)
  <2>1. CASE call[c].op = "cleanup"
    BY <1>5, <1>8, <2>1 DEF Local!Crash
  <2>2. CASE call[c].op # "cleanup"
    <3>1. pos[c] \notin {"idle", "dead"} /\ Local!Over(c, "error", "dead")
      BY <1>8, <2>2 DEF Local!Crash
    <3> QED BY <1>1, <2>2, <3>1, Failed
  <2> QED BY <2>1, <2>2
<1> QED BY <1>2, <1>4, <1>6, <1>7, <1>8

\* So every step of the local backend is as promised.
LEMMA LocalPromised ==
  ASSUME CallInv, CallInv', PlaceInv, FileInv, KeepInv, SeenInv, SeenInv', kind = "local",
         kind' = kind, UNCHANGED echo, Local!Next
  PROVE  [Promise!Next]_(Promise!vars)
<1>1. ASSUME NEW c \in Client,
             Local!Begin(c) \/ Local!BeginCleanup(c) \/ Local!Step(c) \/ Local!Crash(c)
      PROVE  [Promise!Next]_(Promise!vars)
  <2>1. Shows(c)
    BY <1>1, LocalOthers
  <2>2. \/ UNCHANGED Promise!vars
        \/ Promise!Invoke(c) \/ Promise!Apply(c) \/ Promise!Clear(c) \/ Promise!Observe(c)
        \/ Promise!Return(c) \/ Promise!Fail(c)
    BY <1>1, <2>1, WritesPromised, ReadsPromised, LocalCallsPromised DEF Local!Step
  <2> QED BY <2>2 DEF Promise!Next
<1>2. ASSUME NEW f \in tmp, Local!HourPasses(f) PROVE [Promise!Next]_(Promise!vars)
  <2>1. UNCHANGED <<obj, call, took, saw, ans>>
    BY <1>2 DEF Local!HourPasses, Local!calling
  <2>2. PromisedCall' = PromisedCall
    BY <2>1 DEF PromisedCall, AbstractCall, AbstractOp
  <2> QED BY <2>1, <2>2 DEF Promise!vars
<1> QED BY <1>1, <1>2 DEF Local!Next

InBucket == kind = "s3"

\* Every step of either backend is one of the promise.
LEMMA PromiseStep ==
  IInv /\ SeenInv /\ IInv' /\ SeenInv' /\ (Local!Orderly \/ InBucket) /\ [Next]_vars
    => [Promise!Next]_(Promise!vars)
<1> SUFFICES ASSUME IInv, SeenInv, IInv', SeenInv', Local!Orderly \/ InBucket,
                    [Next]_vars
             PROVE  [Promise!Next]_(Promise!vars)
  OBVIOUS
<1>1. CASE LocalNext
  <2>1. kind = "local" /\ kind' = kind /\ UNCHANGED echo /\ Local!Next
    BY <1>1 DEF LocalNext, s3Vars
  <2>2. CallInv /\ CallInv' /\ LocalInv
    BY <2>1 DEF IInv
  <2> QED BY <2>1, <2>2, LocalPromised DEF LocalInv, InBucket
<1>2. CASE S3Next
  <2>1. kind = "s3" /\ kind' = kind /\ S3!Next
    BY <1>2 DEF S3Next
  <2> QED BY <2>1, S3Promised DEF IInv
<1>3. CASE UNCHANGED vars
  <2>1. UNCHANGED <<kind, obj, call, pos, took, saw, ans, page, echo>>
    BY <1>3 DEF vars, calling, s3Vars
  <2>2. PromisedCall' = PromisedCall
    BY <2>1 DEF PromisedCall, AbstractCall, AbstractOp, S3!Seen, S3!Joined
  <2> QED BY <2>1, <2>2 DEF Promise!vars
<1> QED BY <1>1, <1>2, <1>3 DEF Next

\* And so is every beginning.
LEMMA PromiseInit == Init => Promise!Init
<1> SUFFICES ASSUME Init PROVE Promise!Init
  OBVIOUS
<1>1. IInv /\ SeenInv
  BY InitHolds, SeenHolds
<1>2. /\ obj \in [Key -> Contents] /\ call = [c \in Client |-> NoCall]
      /\ took = [c \in Client |-> FALSE] /\ ans = [c \in Client |-> "none"]
      /\ echo = {}
  BY DEF Init, CallsInit, S3!S3Init, Contents
<1>3. \A c \in Client : Asked(c) = Promise!NoCall
  <2>1. TAKE c \in Client
  <2>2. SeenBy[c] = <<>> /\ AbstractOp(c) = "none" /\ call[c] = NoCall /\ took[c] = FALSE
    BY <1>1, <1>2, Requests DEF SeenInv, Reading, AbstractOp
  <2> QED BY <2>2, Requests, Zenon DEF Asked, Promise!NoCall
<1> QED BY <1>2, <1>3, Promised DEF Promise!Init, Contents

(* Both backends keep the promise of ObjectStore: a write takes effect all  *)
(* at once and before it returns Ok, a read answers with what it looked at  *)
(* during the call, whatever crashes, retries, lost answers and cleanups    *)
(* come between.  A client whose system calls fail has the weaker promise:  *)
(* its puts may remove the old object first, and what it cannot look at it  *)
(* takes for absent, in a delete as well.  The local backend needs an       *)
(* orderly directory: a put that lost its temporary file to a cleanup would *)
(* remove its target.                                                       *)
THEOREM PromiseCorrect ==
  ASSUME Local!Orderly
  PROVE  Spec => PromiseKept
BY PromiseInit, PromiseStep, Inductive, SeenHolds, PTL DEF Spec, PromiseKept, Promise!Spec

(* A bucket keeps it whatever the hosts are called and the clocks show.     *)
THEOREM BucketPromiseCorrect == Spec /\ InBucket => PromiseKept
<1>1. InBucket /\ [Next]_vars => InBucket'
  BY DEF InBucket, Next, LocalNext, S3Next, vars
<1> QED
  BY <1>1, PromiseInit, PromiseStep, Inductive, SeenHolds, PTL
     DEF Spec, PromiseKept, Promise!Spec

=============================================================================
