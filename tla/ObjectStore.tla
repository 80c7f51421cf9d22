----------------------------- MODULE ObjectStore -----------------------------
(***************************************************************************)
(* What a storage backend promises (the trait of src/repository/           *)
(* backend.rs, as the rest of the program relies on it).  A put or delete  *)
(* takes effect at least once, all at once, before it returns Ok; one that *)
(* returns an error may have taken effect or not.  A get answers with what *)
(* was there at some moment of the call.  A listing is not a snapshot: it  *)
(* answers for each key with a moment of its own.                          *)
(*                                                                         *)
(* Three weaker promises, each for a set of clients: the put of a Fragile  *)
(* one may remove the old object before it writes the new one; a Blind one *)
(* may be told that an object is not there when the look failed, and its   *)
(* delete may then have done nothing; and a request that a Late one gave   *)
(* up on may still take effect afterwards.                                 *)
(***************************************************************************)
CONSTANTS
  Client,   \* tasks that use the storage
  Key,      \* object names
  Data,     \* contents
  Absent,   \* what the storage holds under a name that is not in use
  Fragile,  \* clients whose put may remove what it is about to replace
  Blind,    \* clients that may take an object they cannot see for absent
  Late      \* clients whose lost requests may still arrive

VARIABLES
  obj,      \* obj[k]: the content stored under k, or Absent
  call,     \* call[c]: the call of c that is under way
  ans,      \* ans[c]: how its last call ended
  echo      \* writes given up on that may still arrive

vars == <<obj, call, ans, echo>>

NoCall ==
  [op |-> "none", keys |-> {}, data |-> Absent, saw |-> <<>>, done |-> FALSE]

Init ==
  /\ obj \in [Key -> Data \cup {Absent}]
  /\ call = [c \in Client |-> NoCall]
  /\ ans = [c \in Client |-> "none"]
  /\ echo = {}

\* A delete is a write of Absent; `names' asks which of the keys are in use.
Fresh(r) ==
  /\ r.op \in {"write", "get", "names"}
  /\ r.keys \subseteq Key /\ r.data \in Data \cup {Absent}
  /\ r.saw = <<>> /\ ~ r.done

Invoke(c) ==
  /\ call[c] = NoCall
  /\ Fresh(call'[c])
  /\ call' = [call EXCEPT ![c] = call'[c]]
  /\ ans' = [ans EXCEPT ![c] = "none"]
  /\ UNCHANGED <<obj, echo>>

Written(w) == [k \in Key |-> IF k \in w.keys THEN w.data ELSE obj[k]]

Apply(c) ==
  /\ call[c].op = "write"
  /\ obj' = Written(call[c])
  /\ call' = [call EXCEPT ![c].done = TRUE]
  /\ UNCHANGED <<ans, echo>>

Clear(c) ==
  /\ c \in Fragile
  /\ call[c].op = "write"
  /\ obj' = Written([call[c] EXCEPT !.data = Absent])
  /\ UNCHANGED <<call, ans, echo>>

\* What a look at key k tells c now.
Look(c, k) == IF call[c].op = "get" THEN obj[k] ELSE obj[k] # Absent

\* Some keys are looked at, for the first time or again; some earlier looks
\* are discarded.
Observe(c) ==
  /\ call[c].op \in {"get", "names"}
  /\ LET old == call[c].saw
         new == call'[c].saw
     IN  /\ DOMAIN new \subseteq call[c].keys
         /\ \A k \in DOMAIN new :
              \/ new[k] = Look(c, k)
              \/ k \in DOMAIN old /\ new[k] = old[k]
              \/ c \in Blind /\ call[c].op = "names" /\ ~ new[k]
         /\ call' = [call EXCEPT ![c].saw = new]
  /\ UNCHANGED <<obj, ans, echo>>

Return(c) ==
  /\ \/ call[c].op = "write" /\ call[c].done
     \/ call[c].op = "write" /\ c \in Blind /\ call[c].data = Absent
     \/ call[c].op \in {"get", "names"} /\ DOMAIN call[c].saw = call[c].keys
  /\ ans' = [ans EXCEPT ![c] = "ok"]
  /\ call' = [call EXCEPT ![c] = NoCall]
  /\ UNCHANGED <<obj, echo>>

\* A request of c is lost on the way and may arrive later.
Lingering(c) ==
  IF c \in Late /\ call[c].op = "write"
    THEN {{}, {[keys |-> call[c].keys, data |-> call[c].data]}}
    ELSE {{}}

Lose(c) ==
  /\ \E e \in Lingering(c) : echo' = echo \cup e
  /\ UNCHANGED <<obj, call, ans>>

\* The call ends with an error, or its client dies.
Fail(c) ==
  /\ call[c] # NoCall
  /\ \E e \in Lingering(c) : echo' = echo \cup e
  /\ ans' = [ans EXCEPT ![c] = "error"]
  /\ call' = [call EXCEPT ![c] = NoCall]
  /\ UNCHANGED obj

Arrive(e) ==
  /\ obj' = Written(e)
  /\ echo' \in {echo, echo \ {e}}
  /\ UNCHANGED <<call, ans>>

Next ==
  \/ \E c \in Client :
       \/ Invoke(c) \/ Apply(c) \/ Clear(c) \/ Observe(c)
       \/ Return(c) \/ Lose(c) \/ Fail(c)
  \/ \E e \in echo : Arrive(e)

Spec == Init /\ [][Next]_vars

=============================================================================
