---------------------------- MODULE MySqlAdapter ----------------------------
(***************************************************************************)
(* The MySQL adapter, src/database/mysql.rs: a dump of a database that an  *)
(* application goes on changing, and the restore of that dump into the     *)
(* same server or another one.  MySQL commits implicitly around every DDL  *)
(* statement, so a restore is never one transaction; each slice of rows is *)
(* one, of several INSERTs.                                                *)
(*                                                                         *)
(* The tables are InnoDB's, and nobody changes the schema during a dump.   *)
(* The two tasks and the pipe between adapter and repository are those of  *)
(* BackupPipeline and PostgresRestore: here the stream just ends early.    *)
(***************************************************************************)
EXTENDS Naturals, FiniteSets, Sequences

CONSTANTS
  Object,      \* objects of the database, numbered in the order of their names
  Kind,        \* Kind[o]: the kind of o
  Needs,       \* Needs[o]: what must be there when o is created
  Stamped,     \* tables with a column whose EXTRA says GENERATED, and which is not computed
  Slices,      \* Slices[t]: number of slices of t's rows (of 1000 each)
  Batches,     \* INSERTs for a slice (5, of 200 rows each)
  Transfers,   \* sets of tables that the application changes in a transaction
  MaxVersion,  \* bound on the changes of a table
  Targets,     \* what of the database may be in the target already
  Faults       \* "stream": it ends early; "drop": a DROP fails; "abort": anything else

Of(kind) == {o \in Object : Kind[o] = kind}

Table == Of("table")

ASSUME SchemaAssumption ==
  /\ Object \subseteq Nat \ {0} /\ IsFiniteSet(Object)
  /\ Kind \in [Object -> {"table", "view", "trigger", "procedure", "function"}]
  /\ Needs \in [Object -> SUBSET Object]
  /\ \A o \in Object :
       /\ Kind[o] \in {"table", "procedure", "function"} => Needs[o] = {}
       /\ Kind[o] = "trigger" => Needs[o] \subseteq Table
       /\ Kind[o] = "view" => Needs[o] \subseteq Table \cup Of("view") \cup Of("function")
  /\ Stamped \subseteq Table
  /\ Slices \in [Table -> Nat]
  /\ Transfers \subseteq SUBSET Table
  /\ Targets \subseteq SUBSET Object
ASSUME BoundAssumption ==
  /\ Batches \in Nat \ {0} /\ MaxVersion \in Nat \ {0}
  /\ Faults \subseteq {"stream", "drop", "abort"}

VARIABLES
  cmd,      \* --drop-existing, and what the target has
  pc,       \* the stage of the dump, and then of the restore
  source,   \* source[t]: version of t's rows in the dumped database
  moment,   \* source when the dump's transaction began
  todo,     \* objects still to dump
  stream,   \* the records that were written and not yet read
  objs,     \* the objects in the target
  rows,     \* rows[t]: the rows in the target's table t that others see
  fed,      \* rows inserted in the session's open transaction
  undropped \* objects whose DROP failed and was ignored

dumping   == <<source, moment, todo>>
restoring == <<objs, rows, fed, undropped>>
vars == <<cmd, pc, dumping, stream, restoring>>

(***************************************************************************)
(* Rows of one INSERT: the version of the columns that are dumped, and of  *)
(* the rest, those whose EXTRA has GENERATED in it.  Of these the server   *)
(* computes some from the others; the others (DEFAULT_GENERATED, a DEFAULT *)
(* CURRENT_TIMESTAMP) get their default, 0 here, when they are left out.   *)
(***************************************************************************)
Default == 0

Filled(t, version) == IF t \in Stamped THEN Default ELSE version

Row(t, n, b, version) ==
  [table |-> t, slice |-> n, batch |-> b, version |-> version, rest |-> Filled(t, version)]

\* Old stands for the rows that the target had before.
OldRow(t) == Row(t, 0, 0, 0)

\* The rows of the dumped database, and of rows the columns that are dumped.
RowsOf(t, version) ==
  {[Row(t, n, b, version) EXCEPT !.rest = version] : n \in 1 .. Slices[t], b \in 1 .. Batches}

Dumped(R) == {[r EXCEPT !.rest = Default] : r \in R}

Init ==
  /\ cmd \in [drop : BOOLEAN, target : Targets]
  /\ pc = "connect"
  /\ source = [t \in Table |-> 1] /\ moment = source
  /\ todo = Object /\ stream = <<>>
  /\ objs = cmd.target
  /\ rows = [t \in Table |-> IF t \in objs THEN {OldRow(t)} ELSE {}]
  /\ fed = {} /\ undropped = {}

\* A transaction of the application.
Transfer(T) ==
  /\ \A t \in T : source[t] < MaxVersion
  /\ pc \in {"connect", "dump"}
  /\ source' = [t \in Table |-> IF t \in T THEN source[t] + 1 ELSE source[t]]
  /\ UNCHANGED <<cmd, pc, moment, todo, stream, restoring>>

-----------------------------------------------------------------------------
(***************************************************************************)
(* backup.                                                                 *)
(***************************************************************************)
Record(kind, o, n, version) == [kind |-> kind, obj |-> o, n |-> n, version |-> version]

\* START TRANSACTION WITH CONSISTENT SNAPSHOT, the list of tables, the header.
StartDump ==
  /\ pc = "connect"
  /\ pc' = "dump"
  /\ moment' = source
  /\ stream' = <<Record("header", 0, 0, 0)>>
  /\ UNCHANGED <<cmd, source, todo, restoring>>

\* Mutant: the transaction is not REPEATABLE READ.
VisibleNow(t) == source[t]

\* What a SELECT of the transaction reads.
Visible(t) == moment[t]

\* The schema of t, its slices, and the record that ends them.
TableRecords(t) ==
  <<Record("table", t, 0, 0)>>
    \o [n \in 1 .. Slices[t] |-> Record("slice", t, n, Visible(t))]
    \o <<Record("end", t, Slices[t] + 1, 0)>>

DumpTable(t) ==
  /\ pc = "dump" /\ t \in todo
  /\ \A u \in todo \cap Table : t <= u
  /\ stream' = stream \o TableRecords(t)
  /\ todo' = todo \ {t}
  /\ UNCHANGED <<cmd, pc, source, moment, restoring>>

\* Views, triggers, procedures, functions; each in the order the server likes.
Rank == [table |-> 1, view |-> 2, trigger |-> 3, procedure |-> 4, function |-> 5]

DumpObject(o) ==
  /\ pc = "dump" /\ o \in todo \ Table
  /\ \A q \in todo : Rank[Kind[o]] <= Rank[Kind[q]]
  /\ stream' = Append(stream, Record(Kind[o], o, 0, 0))
  /\ todo' = todo \ {o}
  /\ UNCHANGED <<cmd, pc, source, moment, restoring>>

\* An error of the COMMIT is ignored; main writes the trailer.
EndDump ==
  /\ pc = "dump" /\ todo = {}
  /\ pc' = "read"
  /\ stream' = Append(stream, Record("trailer", 0, 0, 0))
  /\ UNCHANGED <<cmd, dumping, restoring>>

-----------------------------------------------------------------------------
(***************************************************************************)
(* restore: the record at the head of the stream is executed.              *)
(***************************************************************************)
Goto(place) == pc' = place

Current == Head(stream)

At(place, kinds) == pc = place /\ stream # <<>> /\ Current.kind \in kinds

Header ==
  /\ At("read", {"header"})
  /\ stream' = Tail(stream)
  /\ UNCHANGED <<cmd, pc, dumping, restoring>>

Objects == {"table", "view", "trigger", "procedure", "function"}

\* A table takes its triggers with it, and with the checks off nothing else.
GoneWith(o) ==
  {o} \cup IF o \in Table THEN {q \in Of("trigger") : o \in Needs[q]} ELSE {}

\* Mutant: only tables are dropped.
DroppableTables == {"table"}

Droppable == Objects

\* With --drop-existing the object is dropped first; an error is ignored.
DropExisting ==
  /\ At("read", Objects)
  /\ Goto("create")
  /\ IF cmd.drop /\ Current.kind \in Droppable
       THEN /\ objs' = objs \ GoneWith(Current.obj)
            /\ rows' = [t \in Table |-> IF t = Current.obj THEN {} ELSE rows[t]]
       ELSE UNCHANGED <<objs, rows>>
  /\ UNCHANGED <<cmd, dumping, stream, fed, undropped>>

DropFails ==
  /\ "drop" \in Faults
  /\ At("read", Objects) /\ cmd.drop
  /\ Goto("create")
  /\ undropped' = undropped \cup {Current.obj}
  /\ UNCHANGED <<cmd, dumping, stream, objs, rows, fed>>

\* Mutant: CREATE TABLE IF NOT EXISTS.
CanCreateTableToo(o) ==
  /\ o \in objs => Kind[o] \in {"view", "table"}
  /\ Needs[o] \subseteq objs

\* Only views are created OR REPLACE.
CanCreate(o) ==
  /\ o \in objs => Kind[o] = "view"
  /\ Needs[o] \subseteq objs

Create ==
  /\ At("create", Objects)
  /\ CanCreate(Current.obj)
  /\ objs' = objs \cup {Current.obj}
  /\ stream' = Tail(stream)
  /\ Goto("read")
  /\ UNCHANGED <<cmd, dumping, rows, fed, undropped>>

Refuse ==
  /\ At("create", Objects)
  /\ ~ CanCreate(Current.obj)
  /\ Goto("refused")
  /\ UNCHANGED <<cmd, dumping, stream, restoring>>

StartSlice ==
  /\ At("read", {"slice"})
  /\ Goto("insert")
  /\ UNCHANGED <<cmd, dumping, stream, restoring>>

\* Mutant: every INSERT is committed by itself.
InsertedAtOnce(R) ==
  /\ rows' = [t \in Table |-> rows[t] \cup {r \in R : r.table = t}]
  /\ fed' = fed \cup R

\* R is inserted in the transaction.
Inserted(R) == fed' = fed \cup R /\ UNCHANGED rows

\* Mutant: one INSERT too many.
SliceDoneLate == Cardinality(fed) > Batches

SliceDone == Cardinality(fed) = Batches

Insert ==
  /\ At("insert", {"slice"})
  /\ ~ SliceDone
  /\ Inserted({Row(Current.obj, Current.n, Cardinality(fed) + 1, Current.version)})
  /\ UNCHANGED <<cmd, pc, dumping, stream, objs, undropped>>

CommitSlice ==
  /\ At("insert", {"slice"})
  /\ SliceDone
  /\ rows' = [rows EXCEPT ![Current.obj] = @ \cup fed]
  /\ fed' = {}
  /\ stream' = Tail(stream)
  /\ Goto("read")
  /\ UNCHANGED <<cmd, dumping, objs, undropped>>

\* The last record of a table has no rows and does nothing.
EndSlices ==
  /\ At("read", {"end"})
  /\ stream' = Tail(stream)
  /\ UNCHANGED <<cmd, pc, dumping, restoring>>

Trailer ==
  /\ At("read", {"trailer"})
  /\ Goto("ok")
  /\ stream' = Tail(stream)
  /\ UNCHANGED <<cmd, dumping, restoring>>

(***************************************************************************)
(* A chunk cannot be fetched; a statement, the connection or the process   *)
(* dies, and with it what the session has not committed; the answer to a   *)
(* COMMIT is lost.                                                         *)
(***************************************************************************)
EndOfStream ==
  /\ "stream" \in Faults
  /\ pc = "read" /\ stream # <<>>
  /\ Goto("failed")
  /\ UNCHANGED <<cmd, dumping, stream, restoring>>

Ended == {"ok", "refused", "failed"}

Abort ==
  /\ "abort" \in Faults
  /\ pc \notin Ended
  /\ Goto("failed")
  /\ fed' = {}
  /\ \/ UNCHANGED rows
     \/ /\ pc = "insert" /\ SliceDone
        /\ rows' = [rows EXCEPT ![Current.obj] = @ \cup fed]
  /\ UNCHANGED <<cmd, dumping, stream, objs, undropped>>

Dump ==
  \/ StartDump \/ EndDump
  \/ \E t \in Table : DumpTable(t)
  \/ \E o \in Object \ Table : DumpObject(o)

Restore ==
  \/ Header \/ DropExisting \/ DropFails \/ Create \/ Refuse
  \/ StartSlice \/ Insert \/ CommitSlice \/ EndSlices \/ Trailer

Next ==
  \/ \E T \in Transfers : Transfer(T)
  \/ Dump \/ Restore \/ EndOfStream \/ Abort

Spec == Init /\ [][Next]_vars

-----------------------------------------------------------------------------
(***************************************************************************)
(* Types; and a session has no rows of two slices in one transaction.      *)
(***************************************************************************)
TypeOK ==
  /\ cmd \in [drop : BOOLEAN, target : Targets]
  /\ pc \in {"connect", "dump", "read", "create", "insert"} \cup Ended
  /\ source \in [Table -> 1 .. MaxVersion] /\ moment \in [Table -> 1 .. MaxVersion]
  /\ todo \subseteq Object /\ objs \subseteq Object /\ undropped \subseteq Object
  /\ \A t \in Table :
       Dumped(rows[t]) \subseteq {OldRow(t)} \cup UNION {Dumped(RowsOf(t, v)) : v \in 1 .. MaxVersion}
  /\ fed # {} => pc = "insert" /\ \A r \in fed : r.table = Current.obj /\ r.slice = Current.n

(***************************************************************************)
(* A restore that reports success has restored every object, and the rows  *)
(* of all the tables as they were together at the moment the dump's        *)
(* transaction began, whatever was committed while the tables were read    *)
(* one after the other; no old row is left, whichever errors were ignored. *)
(* In the tables that are Stamped this is so of the columns that are       *)
(* dumped only: the values of the others are lost, and nobody is told.     *)
(***************************************************************************)
MomentRestored ==
  pc = "ok" =>
    /\ objs = Object
    /\ \A t \in Table : Dumped(rows[t]) = Dumped(RowsOf(t, moment[t]))
    /\ \A t \in Table \ Stamped : rows[t] = RowsOf(t, moment[t])

(***************************************************************************)
(* However a restore ends, others see a slice of rows wholly or not at all *)
(* ("Wrap batch slice in a transaction for atomicity"), and of a table the *)
(* first slices.                                                           *)
(***************************************************************************)
SlicesWhole ==
  \A t \in Table :
    \E n \in 0 .. Slices[t] :
      {<<r.slice, r.batch>> : r \in rows[t] \ {OldRow(t)}} = (1 .. n) \X (1 .. Batches)

(***************************************************************************)
(* Without --drop-existing a restore leaves the tables that were there as  *)
(* they were: it is refused before it gets to their rows.                  *)
(***************************************************************************)
ExistingKept ==
  ~ cmd.drop => \A t \in cmd.target \cap Table : t \in objs /\ rows[t] = {OldRow(t)}

(***************************************************************************)
(* An empty server, or with --drop-existing one that has an older state of *)
(* the database, refuses nothing but a view that comes before a view or    *)
(* function it uses: the dump does not order views.                        *)
(***************************************************************************)
OnlyViewsRefused ==
  pc = "refused" /\ (cmd.target = {} \/ cmd.drop) /\ Current.obj \notin undropped =>
    /\ Kind[Current.obj] = "view"
    /\ \E q \in Needs[Current.obj] \ objs :
         Kind[q] \in {"view", "function"} /\ \E i \in DOMAIN stream : stream[i].obj = q

=============================================================================
