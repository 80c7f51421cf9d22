------------------------------ MODULE S3Client ------------------------------
(***************************************************************************)
(* The S3 storage backend, src/repository/s3/client.rs.  Every operation   *)
(* is one HTTP request, a listing one for each page.  A request that gets  *)
(* no answer, a 5xx or a 429 is sent again, MaxRetries times at most; 401  *)
(* and 403 and other answers end the call.  The client cannot tell whether *)
(* a request without an answer was carried out, or still will be.          *)
(***************************************************************************)
EXTENDS StorageBackend, FiniteSets

CONSTANTS
  MaxRetries,  \* 4 in the code
  PageSize,    \* objects in an answer to a list request (1000)
  Late,        \* clients whose lost requests may still be carried out
  MaxEcho      \* bound on the number of such requests

\* Checked where the constants get their values.
RetryAssumption ==
  /\ MaxRetries \in Nat /\ MaxEcho \in Nat
  /\ PageSize \in Nat \ {0}
  /\ Late \subseteq Client

VARIABLES
  attempt,  \* attempt[c]: retries of its present request
  token,    \* token[c]: the last key of the pages received, 0 at first
  page,     \* page[c]: the answer under way to a read
  echo      \* writes that were given up and may still be carried out

calling == <<obj, call, pos, took, saw, ans, calls>>
s3Vars == <<attempt, token, page, echo>>
vars == <<calling, s3Vars>>

NoPage == [saw |-> <<>>, last |-> 0, more |-> FALSE]

S3Init ==
  /\ attempt = [c \in Client |-> 0]
  /\ token = [c \in Client |-> 0]
  /\ page = [c \in Client |-> NoPage]
  /\ echo = {}

Init == CallsInit /\ S3Init

Writes(c) == call[c].op \in {"put", "delete"}

Written(w) == [k \in Key |-> IF k \in w.keys THEN w.data ELSE obj[k]]

-----------------------------------------------------------------------------
(***************************************************************************)
(* The storage service: it carries a request out, all at once.  An answer  *)
(* to a list request has the first PageSize keys after the token.          *)
(***************************************************************************)
Listed(c) == {k \in call[c].keys : k > token[c] /\ obj[k] # Absent}

Page(c) ==
  LET within == {k \in Listed(c) : Cardinality({j \in Listed(c) : j <= k}) <= PageSize}
      more   == within # Listed(c)
      last   == IF more THEN CHOOSE k \in within : \A j \in within : j <= k ELSE 0
  IN  [saw  |-> Look(c, {k \in call[c].keys : k > token[c] /\ (more => k <= last)}),
       last |-> last,
       more |-> more]

Send(c) ==
  /\ pos[c] = "begin"
  /\ Goto(c, "sent")
  /\ UNCHANGED <<obj, call, took, saw, ans, calls, s3Vars>>

Serve(c) ==
  /\ pos[c] = "sent"
  /\ Goto(c, "served")
  /\ IF Writes(c)
       THEN /\ obj' = Written(call[c])
            /\ took' = [took EXCEPT ![c] = TRUE]
            /\ UNCHANGED page
       ELSE /\ page' = [page EXCEPT ![c] = Page(c)]
            /\ UNCHANGED <<obj, took>>
  /\ UNCHANGED <<call, saw, ans, calls, attempt, token, echo>>

Arrive(e) ==
  /\ obj' = Written(e)
  /\ echo' = echo \ {e}
  /\ UNCHANGED <<call, pos, took, saw, ans, calls, attempt, token, page>>

-----------------------------------------------------------------------------
(***************************************************************************)
(* send_request_with_retry.                                                *)
(***************************************************************************)
\* Mutant: one attempt too many.
MayRetryOneMore(c) == attempt[c] <= MaxRetries

MayRetry(c) == attempt[c] < MaxRetries

\* Mutant: a request that was never answered well counts as done.
AfterLastAttemptDone == "done"

AfterLastAttempt == "failed"

\* No answer within the timeout, a broken connection, or a 5xx or 429.  The
\* request was carried out or not; as a late one it still may be.
NoAnswer(c) ==
  /\ pos[c] \in {"sent", "served"}
  /\ IF MayRetry(c)
       THEN Goto(c, "begin") /\ attempt' = [attempt EXCEPT ![c] = @ + 1]
       ELSE Goto(c, AfterLastAttempt) /\ UNCHANGED attempt
  /\ page' = [page EXCEPT ![c] = NoPage]
  /\ \/ UNCHANGED echo
     \/ /\ c \in Late /\ Writes(c) /\ pos[c] = "sent"
        /\ Cardinality(echo) < MaxEcho
        /\ echo' = echo \cup {[keys |-> call[c].keys, data |-> call[c].data]}
  /\ UNCHANGED <<obj, call, took, saw, ans, calls, token>>

\* 401, 403, or an answer that is no success and not worth a retry; or the body
\* of a good answer is cut off.
Denied(c) ==
  /\ pos[c] = "sent" \/ (pos[c] = "served" /\ ~ Writes(c))
  /\ Goto(c, "failed")
  /\ UNCHANGED <<obj, call, took, saw, ans, calls, s3Vars>>

(***************************************************************************)
(* The answer arrives.  A listing goes on after the last key while the     *)
(* answers are truncated; a delete takes 404 for success.                  *)
(***************************************************************************)
\* Mutant: the token of the request is sent again.
NextTokenSame(c) == token[c]

NextToken(c) == page[c].last

Answer(c) ==
  /\ pos[c] = "served"
  /\ Goto(c, IF page[c].more THEN "begin" ELSE "done")
  /\ saw' = [saw EXCEPT ![c] = Joined(@, page[c].saw)]
  /\ token' = [token EXCEPT ![c] = NextToken(c)]
  /\ page' = [page EXCEPT ![c] = NoPage]
  /\ attempt' = [attempt EXCEPT ![c] = 0]
  /\ UNCHANGED <<obj, call, took, ans, calls, echo>>

\* The locals of the call are dropped.
Dropped(c) ==
  /\ attempt' = [attempt EXCEPT ![c] = 0]
  /\ token' = [token EXCEPT ![c] = 0]
  /\ page' = [page EXCEPT ![c] = NoPage]

Begin(c) == Invoke(c) /\ UNCHANGED s3Vars

End(c) == (Return(c) \/ ReturnError(c)) /\ Dropped(c) /\ UNCHANGED echo

\* The process is killed; a request it has sent may still be carried out.
Crash(c) ==
  /\ pos[c] \notin {"idle", "dead"}
  /\ Over(c, "error", "dead")
  /\ Dropped(c)
  /\ \/ UNCHANGED echo
     \/ /\ c \in Late /\ Writes(c) /\ pos[c] = "sent"
        /\ Cardinality(echo) < MaxEcho
        /\ echo' = echo \cup {[keys |-> call[c].keys, data |-> call[c].data]}

Step(c) == Send(c) \/ Serve(c) \/ NoAnswer(c) \/ Denied(c) \/ Answer(c) \/ End(c)

Next ==
  \/ \E c \in Client : Begin(c) \/ Step(c) \/ Crash(c)
  \/ \E e \in echo : Arrive(e)

Spec == Init /\ [][Next]_vars

-----------------------------------------------------------------------------
\* What c has read counts a page that has not arrived yet.
Seen == [c \in Client |-> Joined(saw[c], page[c].saw)]

TypeOK ==
  /\ CallsTypeOK
  /\ attempt \in [Client -> 0 .. MaxRetries]
  /\ token \in [Client -> Key \cup {0}]
  /\ \A c \in Client : page[c].more => page[c].last > token[c]
  /\ echo \subseteq [keys : SUBSET Key, data : Data \cup {Absent}]

=============================================================================
