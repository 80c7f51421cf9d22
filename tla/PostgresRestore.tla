-------------------------- MODULE PostgresRestore --------------------------
(***************************************************************************)
(* The restore command of main.rs into PostgreSQL: a task downloads the    *)
(* chunks of a snapshot into a bounded pipe, and the session decodes the   *)
(* records and executes them, each as it comes or all in one transaction.  *)
(*                                                                         *)
(* The database is a set of objects.  Which records a dump has, and in     *)
(* what order, is that of the backup (database/postgres.rs); where its     *)
(* queries have no ORDER BY, any record of the group may be next.          *)
(***************************************************************************)
EXTENDS Integers, FiniteSets, FiniteSetsExt

CONSTANTS
  Object,    \* objects of the snapshot, numbered in the order of their names
  Kind,      \* Kind[o]: the kind of o
  Needs,     \* Needs[o]: what must be there when o is created, without cycles
  Owned,     \* Owned[t]: the sequences dropped with the table t
  Slices,    \* Slices[t]: number of data records of t
  Targets,   \* what of the database may be in the target already
  Pipe,      \* number of records the pipe holds
  Faults     \* "fetch": a download fails; "drop": a DROP TABLE; "abort": anything else

Of(kind) == {o \in Object : Kind[o] = kind}

Table == Of("table")

ASSUME RestoreAssumption ==
  /\ Object \subseteq Nat /\ IsFiniteSet(Object)
  /\ Kind \in [Object -> {"extension", "schema", "type", "sequence", "table", "view",
                          "matview", "function", "index", "key", "foreign", "check",
                          "trigger"}]
  /\ Needs \in [Object -> SUBSET Object]
  /\ \A t \in Table : Needs[t] \cap Table = {}
  /\ Owned \in [Table -> SUBSET Of("sequence")]
  /\ Slices \in [Table -> Nat]
  /\ Targets \subseteq SUBSET Object
  /\ \A T \in Targets : \A t \in T \cap Table : Owned[t] \subseteq T
  /\ Pipe \in Nat \ {0}
  /\ Faults \subseteq {"fetch", "drop", "abort"}

VARIABLES
  cmd,        \* options of the command, engine of the snapshot, what the target has
  main,       \* the restore
  download,   \* the download task
  unsent,     \* number of records not yet in the pipe
  piped,      \* number of records in the pipe
  left,       \* the records not yet read
  current,    \* the table being restored
  tx,         \* state of the session's transaction
  work,       \* the database as the session sees it
  base,       \* the database as others see it
  sink,       \* the table being copied into
  fed,        \* its rows that were sent
  undropped   \* tables whose DROP failed and was ignored

pipe    == <<download, unsent, piped>>
session == <<tx, work, base, sink, fed, undropped>>
vars    == <<cmd, main, pipe, left, current, session>>

-----------------------------------------------------------------------------
(***************************************************************************)
(* The records of a dump.                                                  *)
(***************************************************************************)
Record(group, o, n) == [group |-> group, obj |-> o, n |-> n]

GroupOf(o) == IF Kind[o] = "matview" THEN "view" ELSE Kind[o]

TableRecords(t) ==
  {Record("table", t, n) : n \in 0..Slices[t] + 1}

Records ==
  {Record("header", 0, 0), Record("trailer", 0, 0)}
    \cup {Record(GroupOf(o), o, 0) : o \in Object \ Table}
    \cup {Record("setval", s, 0) : s \in Of("sequence")}
    \cup UNION {TableRecords(t) : t \in Table}

\* The order of the groups; constraints by contype: u and p, then f, then c.
Place ==
  [header |-> 0, extension |-> 1, schema |-> 2, type |-> 3, sequence |-> 4, table |-> 5,
   setval |-> 6, view |-> 7, function |-> 8, index |-> 9, key |-> 10, foreign |-> 11,
   check |-> 12, trigger |-> 13, trailer |-> 14]

\* Groups that the catalogue query sorts by name; indexes by the name of their table first.
ByName == {"extension", "schema", "sequence", "table", "setval", "index"}

Before(q, r) ==
  \/ Place[q.group] < Place[r.group]
  \/ /\ q.group = r.group /\ r.group \in ByName
     /\ q.obj < r.obj \/ (q.obj = r.obj /\ q.n < r.n)

\* Mutant: views are sorted by name only.
NextViewByName(V) == Min(V)

\* sort_views_topologically: the first by name of those whose needs are met.
NextView(V) ==
  LET ready == {v \in V : Needs[v] \cap V = {}} IN
  Min(IF ready = {} THEN V ELSE ready)

Earliest(r) ==
  /\ \A q \in left : ~Before(q, r)
  /\ r.group = "view" => r.obj = NextView({q.obj : q \in {q \in left : q.group = "view"}})

-----------------------------------------------------------------------------
(***************************************************************************)
(* Statements, as functions of the database.  rows[t] has the data records *)
(* copied into t, and 0 for rows that were there before; values has the    *)
(* sequences that were set to the snapshot's value, made the objects that  *)
(* the restore created, and spoilt what is there but not as it was dumped: *)
(* tables that have lost a default, sequences without their options.       *)
(***************************************************************************)
Existing(T) ==
  [objs |-> T, rows |-> [t \in Table |-> IF t \in T THEN {0} ELSE {}],
   values |-> {}, made |-> {}, spoilt |-> {}]

\* CREATE IF NOT EXISTS and CREATE OR REPLACE.
Repeatable == {"extension", "schema", "sequence", "table", "view", "function"}

CanCreate(db, o) ==
  IF o \in db.objs THEN Kind[o] \in Repeatable ELSE Needs[o] \subseteq db.objs

Create(db, O) == [db EXCEPT !.objs = @ \cup O, !.made = @ \cup (O \ db.objs)]

\* CREATE SEQUENCE IF NOT EXISTS without the options of the dumped sequences S.
CreatePlain(db, S) == [Create(db, S) EXCEPT !.spoilt = @ \cup (S \ db.objs)]

\* S has all that depends on the objects O or on a member of S, but no table.
Cascades(O, S) == \A q \in Object \ Table : Needs[q] \cap (O \cup S) # {} => q \in S

\* What CASCADE drops with the objects O: the least such set.
Dependents(O) ==
  LET closed == {S \in SUBSET (Object \ Table) : Cascades(O, S)} IN
  {q \in Object \ Table : \A S \in closed : q \in S}

\* What goes with a table: the sequences it owns, and all that depends on them.
Gone ==
  [t \in Table |-> LET roots == {t} \cup Owned[t] IN roots \cup Dependents(roots)]

\* The tables that stay and lose a default: it uses something that goes with t.
Bereft(db, t) ==
  {u \in (Table \cap db.objs) \ {t} : Needs[u] \cap Gone[t] \cap db.objs # {}}

\* DROP TABLE IF EXISTS t CASCADE.
DropTable(db, t) ==
  IF t \notin db.objs THEN db
  ELSE [objs   |-> db.objs \ Gone[t],
        rows   |-> [db.rows EXCEPT ![t] = {}],
        values |-> db.values \ Gone[t],
        made   |-> db.made \ Gone[t],
        spoilt |-> (db.spoilt \ Gone[t]) \cup Bereft(db, t)]

Copy(db, t, rows) == [db EXCEPT !.rows[t] = @ \cup rows]

SetValue(db, s) == [CreatePlain(db, {s}) EXCEPT !.values = @ \cup {s}]

\* The sequences in the defaults of a table.
Defaults(t) == Needs[t] \cap Of("sequence")

-----------------------------------------------------------------------------
Init ==
  /\ cmd \in [single : BOOLEAN, drop : BOOLEAN, engine : {"postgresql", "mysql"},
              target : Targets]
  /\ main = "begin" /\ download = "fetch"
  /\ unsent = Cardinality(Records) /\ piped = 0
  /\ left = Records /\ current = {}
  /\ tx = "auto"
  /\ work = Existing(cmd.target) /\ base = work
  /\ sink = {} /\ fed = {} /\ undropped = {}

(***************************************************************************)
(* The download task.  A record that is cut short counts as not sent: the  *)
(* decoder reports both as the end of a stream without its trailer.        *)
(***************************************************************************)
\* Mutant: the pipe takes a record when it is full.
HasRoomAtLimit == piped <= Pipe

HasRoom == piped < Pipe

Deliver ==
  /\ download = "fetch"
  /\ unsent > 0 /\ HasRoom
  /\ unsent' = unsent - 1 /\ piped' = piped + 1
  /\ UNCHANGED <<cmd, main, download, left, current, session>>

DownloadDone ==
  /\ download = "fetch" /\ unsent = 0
  /\ download' = "done"
  /\ UNCHANGED <<cmd, main, unsent, piped, left, current, session>>

DownloadFails ==
  /\ "fetch" \in Faults
  /\ download = "fetch" /\ unsent > 0
  /\ download' = "failed"
  /\ UNCHANGED <<cmd, main, unsent, piped, left, current, session>>

-----------------------------------------------------------------------------
\* The session executes a statement that leaves it with the database db.
Execute(db) ==
  /\ tx # "aborted"
  /\ work' = db
  /\ base' = IF tx = "auto" THEN db ELSE base
  /\ UNCHANGED <<cmd, tx, undropped>>

\* The session ends, and with it what was not committed.
Fail(how) ==
  /\ main' = how
  /\ tx' = "auto" /\ work' = base
  /\ sink' = {} /\ fed' = {}
  /\ UNCHANGED <<cmd, pipe, left, current, base, undropped>>

\* The COPY is still open when the ROLLBACK is sent, and the connection waits for its end.
CopyInTheWay == cmd.single /\ sink # {}

\* restore ends with an error: ROLLBACK is awaited, in a transaction.
GiveUp(how) ==
  \/ ~CopyInTheWay /\ Fail(how)
  \/ /\ CopyInTheWay
     /\ main' = "rollback"
     /\ UNCHANGED <<cmd, pipe, left, current, session>>

\* Mutant: --single-transaction is ignored.
BeginAuto == "auto"

BeginMode == IF cmd.single THEN "open" ELSE "auto"

Begin ==
  /\ main = "begin"
  /\ main' = "read"
  /\ tx' = BeginMode
  /\ UNCHANGED <<cmd, pipe, left, current, work, base, sink, fed, undropped>>

\* read_next_record returns the record r.
Read(r) ==
  /\ main = "read" /\ piped > 0
  /\ r \in left /\ Earliest(r)
  /\ left' = left \ {r}
  /\ piped' = piped - 1
  /\ UNCHANGED <<download, unsent>>

Header ==
  /\ Read(Record("header", 0, 0))
  /\ cmd.engine = "postgresql"
  /\ UNCHANGED <<cmd, main, current, session>>

\* Extensions, schemas, types, views, functions, indexes, constraints, triggers.
CreateObject(o) ==
  /\ Read(Record(GroupOf(o), o, 0))
  /\ CanCreate(work, o)
  /\ Execute(Create(work, {o}))
  /\ UNCHANGED <<main, current, sink, fed>>

(***************************************************************************)
(* A table: DROP TABLE with --drop-existing and the sequences of its       *)
(* defaults, whose errors are ignored, and CREATE TABLE.                   *)
(***************************************************************************)
DropExisting(t) ==
  /\ Read(Record("table", t, 0))
  /\ Execute(IF cmd.drop THEN DropTable(work, t) ELSE work)
  /\ main' = "create" /\ current' = {t}
  /\ UNCHANGED <<sink, fed>>

DropFails(t) ==
  /\ "drop" \in Faults
  /\ cmd.drop /\ t \in work.objs
  /\ Read(Record("table", t, 0))
  /\ main' = "create" /\ current' = {t}
  /\ tx' = IF tx = "auto" THEN "auto" ELSE "aborted"
  /\ undropped' = undropped \cup {t}
  /\ UNCHANGED <<cmd, work, base, sink, fed>>

PreCreated(t) == CreatePlain(work, Defaults(t))

CreateTable(t) ==
  /\ main = "create" /\ t \in current
  /\ CanCreate(PreCreated(t), t)
  /\ Execute(Create(PreCreated(t), {t}))
  /\ main' = "read" /\ current' = {}
  /\ UNCHANGED <<pipe, left, sink, fed>>

\* Mutant: the COPY is dropped without finish.
CopiedUnfinished == work

\* The COPY in progress ends, and its rows are in the table.
Copied == IF sink = {} THEN work ELSE Copy(work, CHOOSE t \in sink : TRUE, fed)

\* A data record opens the COPY of its table, if it is the first, and feeds it.
Slice(t, n) ==
  /\ Read(Record("table", t, n))
  /\ Execute(IF sink = {t} THEN work ELSE Copied)
  /\ sink' = {t}
  /\ fed' = IF sink = {t} THEN fed \cup {n} ELSE {n}
  /\ UNCHANGED <<main, current>>

LastSlice(t) ==
  /\ Read(Record("table", t, Slices[t] + 1))
  /\ Execute(Copied)
  /\ sink' = {} /\ fed' = {}
  /\ UNCHANGED <<main, current>>

\* A ROLLBACK does not undo the setval of a sequence that was there before.
SetSequence(s) ==
  /\ Read(Record("setval", s, 0))
  /\ tx # "aborted"
  /\ work' = SetValue(work, s)
  /\ base' = IF tx = "auto" THEN work'
             ELSE [base EXCEPT !.values = @ \cup ({s} \ work'.made)]
  /\ UNCHANGED <<cmd, main, current, tx, sink, fed, undropped>>

\* The end of the stream finishes a COPY that is still open.
Trailer ==
  /\ Read(Record("trailer", 0, 0))
  /\ Execute(Copied)
  /\ main' = "commit"
  /\ sink' = {} /\ fed' = {}
  /\ UNCHANGED current

(***************************************************************************)
(* What goes wrong: the database refuses a record, the stream ends early,  *)
(* or a statement, the connection or the process dies.                     *)
(***************************************************************************)
RefuseRecord ==
  /\ main = "read" /\ piped > 0
  /\ \E r \in left :
       /\ Earliest(r)
       /\ \/ r.group = "header" /\ cmd.engine # "postgresql"
          \/ r.group \notin {"header", "trailer", "setval", "table"} /\ ~CanCreate(work, r.obj)
  /\ GiveUp("refused")

RefuseTable ==
  /\ main = "create"
  /\ tx = "aborted" \/ \E t \in current : ~CanCreate(PreCreated(t), t)
  /\ GiveUp("refused")

\* Mutant: a download that fails leaves the pipe open.
NoMoreOnSuccess == piped = 0 /\ download = "done"

NoMore == piped = 0 /\ download # "fetch"

EndOfStream ==
  /\ main = "read"
  /\ NoMore
  /\ GiveUp("failed")

Commit ==
  /\ main = "commit"
  /\ main' = "join"
  /\ base' = IF tx = "open" THEN work ELSE base
  /\ work' = base'
  /\ tx' = "auto"
  /\ UNCHANGED <<cmd, pipe, left, current, sink, fed, undropped>>

Join ==
  /\ main = "join" /\ download # "fetch"
  /\ main' = IF download = "done" THEN "release" ELSE "failed"
  /\ UNCHANGED <<cmd, pipe, left, current, session>>

Release ==
  /\ main = "release"
  /\ main' = "ok"
  /\ UNCHANGED <<cmd, pipe, left, current, session>>

Ended == {"ok", "failed", "refused"}

Abort ==
  /\ "abort" \in Faults
  /\ main \notin Ended
  /\ \/ Fail("failed")
     \/ /\ main = "commit" /\ tx = "open"
        /\ main' = "failed" /\ base' = work /\ tx' = "auto"
        /\ UNCHANGED <<cmd, pipe, left, current, work, sink, fed, undropped>>

Session ==
  \/ Begin \/ Header \/ Trailer \/ RefuseRecord \/ RefuseTable \/ EndOfStream
  \/ Commit \/ Join \/ Release
  \/ \E o \in Object \ Table : CreateObject(o)
  \/ \E s \in Of("sequence") : SetSequence(s)
  \/ \E t \in Table :
       \/ DropExisting(t) \/ DropFails(t) \/ CreateTable(t) \/ LastSlice(t)
       \/ \E n \in 1..Slices[t] : Slice(t, n)

Download == Deliver \/ DownloadDone

Next == Session \/ Download \/ DownloadFails \/ Abort

Spec == Init /\ [][Next]_vars

\* The runtime polls both tasks, and requests and statements that are sent come to an end.
FairSpec == Spec /\ WF_vars(Session) /\ WF_vars(Download)

-----------------------------------------------------------------------------
(***************************************************************************)
(* Types, and the bounded pipe.                                            *)
(***************************************************************************)
Database ==
  [objs : SUBSET Object, rows : [Table -> SUBSET Nat],
   values : SUBSET Of("sequence"), made : SUBSET Object, spoilt : SUBSET Object]

TypeOK ==
  /\ cmd \in [single : BOOLEAN, drop : BOOLEAN, engine : {"postgresql", "mysql"},
              target : Targets]
  /\ main \in {"begin", "read", "create", "commit", "join", "release", "rollback"} \cup Ended
  /\ download \in {"fetch", "done", "failed"}
  /\ unsent \in Nat /\ piped \in 0..Pipe
  /\ left \subseteq Records
  /\ current \subseteq Table /\ sink \subseteq Table /\ undropped \subseteq Table
  /\ tx \in {"auto", "open", "aborted"}
  /\ work \in Database /\ base \in Database
  /\ fed \subseteq Nat

(***************************************************************************)
(* What --drop-existing may spoil.  A sequence that goes with a table of   *)
(* the target is created again without its options; a table that was       *)
(* restored before such a table loses the defaults that use the sequence.  *)
(***************************************************************************)
Spoils ==
  {o \in Object :
    /\ cmd.drop
    /\ \E t \in Table \cap cmd.target :
         \/ Kind[o] = "sequence" /\ o \in Gone[t]
         \/ Kind[o] = "table" /\ o < t /\ Needs[o] \cap Gone[t] # {}}

(***************************************************************************)
(* A restore that reports success has restored every object, every row and *)
(* every sequence value, whatever was dropped, ignored or left open on the *)
(* way, and all of it as it was dumped but for what --drop-existing spoils *)
(* and for tables whose DROP failed outside a transaction, which is        *)
(* ignored: only these keep old rows or may lack a default.                *)
(***************************************************************************)
Complete ==
  main = "ok" =>
    /\ cmd.engine = "postgresql"
    /\ base.objs = Object
    /\ base.values = Of("sequence")
    /\ base.spoilt \subseteq Spoils \cup undropped
    /\ \A t \in Table :
         base.rows[t] \ {0} = 1..Slices[t] /\ (0 \in base.rows[t] => ~cmd.drop \/ t \in undropped)

(***************************************************************************)
(* --single-transaction: nothing of a restore is seen, and nothing stays,  *)
(* until the stream was executed to its trailer.  The values of sequences  *)
(* are not under transactions.                                             *)
(***************************************************************************)
AllOrNothing ==
  cmd.single /\ left # {} =>
    base.objs = cmd.target /\ base.rows = Existing(cmd.target).rows

(***************************************************************************)
(* The order of the records suits the database: a snapshot of PostgreSQL   *)
(* restores into an empty database, and into an older state of it with     *)
(* --drop-existing, unless a fault interferes.                             *)
(***************************************************************************)
NothingRefused ==
  main = "refused" =>
    \/ cmd.engine # "postgresql"
    \/ cmd.target # {} /\ ~cmd.drop
    \/ undropped # {}

(***************************************************************************)
(* What Complete and NothingRefused ask of a database.  The dump orders    *)
(* its groups by kind, and only views by what they need.                   *)
(***************************************************************************)
First(o) == Record(GroupOf(o), o, 0)

Early == {"extension", "schema", "type"}

\* No DROP TABLE takes away what is created before the tables.
TypesFirst == \A o \in Object : Kind[o] \in Early => \A p \in Needs[o] : Kind[p] \in Early

\* Whatever an object needs comes before it, or both are views, without cycles.
Suited ==
  /\ \A o \in Object : \A p \in Needs[o] :
       /\ Before(First(p), First(o)) \/ {GroupOf(p), GroupOf(o)} = {"view"}
       /\ ~(Kind[p] = "sequence" /\ Kind[o] = "sequence")
  /\ \A V \in SUBSET {o \in Object : GroupOf(o) = "view"} :
       V # {} => \E v \in V : Needs[v] \cap V = {}

\* What cannot be created again goes with a table of the target.
Removable ==
  \A T \in Targets : \A o \in T :
    Kind[o] \notin Repeatable => \E t \in Table \cap T : o \in Gone[t]

(***************************************************************************)
(* Whatever fails, the restore comes to an end, unless its stream ends in  *)
(* the middle of a table's data with --single-transaction: then it waits   *)
(* for a ROLLBACK that is not sent before the COPY is closed.              *)
(***************************************************************************)
RestoreEnds == <>(main \in Ended \/ (main = "rollback" /\ CopyInTheWay))

=============================================================================
