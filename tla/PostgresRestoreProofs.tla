----------------------- MODULE PostgresRestoreProofs -----------------------
(***************************************************************************)
(* Proofs about PostgresRestore, for any snapshot, target and options.     *)
(***************************************************************************)
EXTENDS PostgresRestore, FiniteSetTheorems, WellFoundedInduction, TLAPS

Groups ==
  {"extension", "schema", "type", "sequence", "table", "view", "function", "index", "key",
   "foreign", "check", "trigger"}

End == Record("trailer", 0, 0)

-----------------------------------------------------------------------------
\* A pair is finite.
LEMMA PairFinite ==
  ASSUME NEW a, NEW b
  PROVE  IsFiniteSet({a, b})
<1>1. IsFiniteSet({a})
  BY FS_Singleton
<1>2. IsFiniteSet({a} \cup {b})
  BY <1>1, FS_AddElement
<1>3. {a} \cup {b} = {a, b}
  OBVIOUS
<1> QED BY <1>2, <1>3

(***************************************************************************)
(* A dump has finitely many records.                                       *)
(***************************************************************************)
LEMMA RecordsFinite == IsFiniteSet(Records)
<1> USE RestoreAssumption DEF RestoreAssumption, Table, Of
<1>1. IsFiniteSet({Record("header", 0, 0), Record("trailer", 0, 0)})
  BY PairFinite
<1>2. IsFiniteSet({Record(GroupOf(o), o, 0) : o \in Object \ Table})
  <2> DEFINE S == Object \ Table
             T == {Record(GroupOf(o), o, 0) : o \in S}
             f == [o \in S |-> Record(GroupOf(o), o, 0)]
  <2>1. IsFiniteSet(S)
    BY FS_Subset
  <2>2. f \in Surjection(S, T)
    BY DEF Surjection
  <2> QED BY <2>1, <2>2, FS_Surjection
<1>3. IsFiniteSet({Record("setval", s, 0) : s \in Of("sequence")})
  <2> DEFINE S == Of("sequence")
             T == {Record("setval", s, 0) : s \in S}
             f == [s \in S |-> Record("setval", s, 0)]
  <2>1. IsFiniteSet(S)
    BY FS_Subset
  <2>2. f \in Surjection(S, T)
    BY DEF Surjection
  <2> QED BY <2>1, <2>2, FS_Surjection
<1>4. IsFiniteSet(UNION {TableRecords(t) : t \in Table})
  <2>1. ASSUME NEW t \in Table PROVE IsFiniteSet(TableRecords(t))
    <3> DEFINE S == 0..Slices[t] + 1
               T == {Record("table", t, n) : n \in S}
               f == [n \in S |-> Record("table", t, n)]
    <3>1. IsFiniteSet(S)
      BY FS_Interval
    <3>2. f \in Surjection(S, T)
      BY DEF Surjection
    <3> QED BY <3>1, <3>2, FS_Surjection DEF TableRecords
  <2>2. IsFiniteSet({TableRecords(t) : t \in Table})
    <3> DEFINE S == Table
               T == {TableRecords(t) : t \in S}
               f == [t \in S |-> TableRecords(t)]
    <3>1. IsFiniteSet(S)
      BY FS_Subset
    <3>2. f \in Surjection(S, T)
      BY DEF Surjection
    <3> QED BY <3>1, <3>2, FS_Surjection
  <2>3. ASSUME NEW T \in {TableRecords(t) : t \in Table} PROVE IsFiniteSet(T)
    <3>1. PICK t \in Table : T = TableRecords(t)
      OBVIOUS
    <3> QED BY <2>1, <3>1
  <2> QED BY <2>2, <2>3, FS_UNION
<1> QED
  BY <1>1, <1>2, <1>3, <1>4, FS_Union DEF Records

\* The trailer comes after every other record.
LEMMA TrailerLast ==
  ASSUME left \subseteq Records, End \in left, Earliest(End)
  PROVE  left = {End}
<1>1. SUFFICES ASSUME NEW q \in left PROVE q = End
  OBVIOUS
<1>2. ~ (Place[q.group] < Place["trailer"])
  <2>1. End.group = "trailer"
    BY DEF End, Record
  <2> QED BY <2>1 DEF Earliest, Before
<1>3. ASSUME NEW g \in Groups, q.group = g PROVE FALSE
  BY <1>2, <1>3 DEF Place, Groups
<1>4. ASSUME NEW o \in Object \ Table PROVE GroupOf(o) \in Groups
  BY RestoreAssumption DEF RestoreAssumption, GroupOf, Groups
<1>5. q.group # "header" /\ q.group # "setval"
  BY <1>2 DEF Place
<1> QED
  BY <1>3, <1>4, <1>5 DEF Records, TableRecords, Record, End, Groups

-----------------------------------------------------------------------------
(***************************************************************************)
(* The statements map databases to databases.                              *)
(***************************************************************************)
LEMMA ExistingType ==
  ASSUME NEW T \in SUBSET Object
  PROVE  Existing(T) \in Database
  BY DEF Existing, Database

\* Every statement turns a database into a database: creating objects,
LEMMA CreateType ==
  ASSUME NEW db \in Database, NEW O \in SUBSET Object
  PROVE  Create(db, O) \in Database
  BY DEF Create, Database

\* creating sequences without their options,
LEMMA CreatePlainType ==
  ASSUME NEW db \in Database, NEW O \in SUBSET Object
  PROVE  CreatePlain(db, O) \in Database
  BY CreateType DEF CreatePlain, Database

\* dropping a table with what depends on it,
LEMMA DropType ==
  ASSUME NEW db \in Database, NEW t \in Table
  PROVE  DropTable(db, t) \in Database
<1>1. Bereft(db, t) \subseteq Object
  BY DEF Bereft, Table, Of
<1> QED BY <1>1 DEF DropTable, Database

\* loading rows,
LEMMA CopyType ==
  ASSUME NEW db \in Database, NEW t \in Table, NEW rows \in SUBSET Nat
  PROVE  Copy(db, t, rows) \in Database
  BY DEF Copy, Database

\* and setting a sequence.
LEMMA SetValueType ==
  ASSUME NEW db \in Database, NEW s \in Of("sequence")
  PROVE  SetValue(db, s) \in Database
<1>1. CreatePlain(db, {s}) \in Database
  BY CreatePlainType DEF Of
<1> QED BY <1>1 DEF SetValue, Database

\* So does a COPY that the end of its stream completes.
LEMMA CopiedType ==
  ASSUME TypeOK
  PROVE  Copied \in Database
<1>1. CASE sink = {}
  BY <1>1 DEF Copied, TypeOK
<1>2. CASE sink # {}
  <2>1. (CHOOSE t \in sink : TRUE) \in Table
    BY <1>2 DEF TypeOK
  <2> QED BY <1>2, <2>1, CopyType DEF Copied, TypeOK
<1> QED BY <1>1, <1>2

-----------------------------------------------------------------------------
\* The types hold at the start.
LEMMA TypeInit == Init => TypeOK
<1> SUFFICES ASSUME Init PROVE TypeOK
  OBVIOUS
<1>1. Cardinality(Records) \in Nat
  BY RecordsFinite, FS_CardinalityType
<1>2. Existing(cmd.target) \in Database
  BY ExistingType, RestoreAssumption DEF Init, RestoreAssumption
<1>3. piped \in 0..Pipe
  BY RestoreAssumption DEF Init, RestoreAssumption
<1> QED
  BY <1>1, <1>2, <1>3 DEF Init, TypeOK

\* Executing a statement keeps the types of what it changes.
LEMMA ExecuteType ==
  ASSUME TypeOK, NEW db \in Database, Execute(db)
  PROVE  /\ work' \in Database /\ base' \in Database
         /\ cmd' = cmd /\ tx' = tx /\ undropped' = undropped
  BY DEF Execute, TypeOK

\* Reading a record keeps the types of what it changes.
LEMMA ReadType ==
  ASSUME TypeOK, NEW r, Read(r)
  PROVE  /\ left' \subseteq Records /\ piped' \in 0..Pipe
         /\ download' = download /\ unsent' = unsent
  BY RestoreAssumption DEF Read, TypeOK, RestoreAssumption

\* Giving up keeps the types.
LEMMA FailType ==
  ASSUME TypeOK, NEW how \in Ended, Fail(how)
  PROVE  TypeOK'
  BY DEF Fail, TypeOK, pipe

\* So does waiting for a ROLLBACK.
LEMMA GiveUpType ==
  ASSUME TypeOK, NEW how \in Ended, GiveUp(how)
  PROVE  TypeOK'
<1>1. CASE Fail(how)
  BY <1>1, FailType
<1>2. CASE ~Fail(how)
  BY <1>2 DEF GiveUp, TypeOK, pipe, session
<1> QED BY <1>1, <1>2

\* Every step keeps the types.
LEMMA TypeStep ==
  ASSUME TypeOK, [Next]_vars
  PROVE  TypeOK'
<1> USE DEF session, pipe
<1>1. CASE Deliver
  BY <1>1, RestoreAssumption DEF Deliver, HasRoom, TypeOK, RestoreAssumption
<1>2. CASE DownloadDone
  BY <1>2 DEF DownloadDone, TypeOK
<1>3. CASE DownloadFails
  BY <1>3 DEF DownloadFails, TypeOK
<1>4. CASE Begin
  BY <1>4 DEF Begin, BeginMode, TypeOK
<1>5. CASE Header
  BY <1>5, ReadType DEF Header, TypeOK
<1>6. ASSUME NEW o \in Object \ Table, CreateObject(o) PROVE TypeOK'
  <2>1. Create(work, {o}) \in Database
    BY CreateType DEF TypeOK
  <2> QED BY <1>6, <2>1, ReadType, ExecuteType DEF CreateObject, TypeOK
<1>7. ASSUME NEW t \in Table, DropExisting(t) PROVE TypeOK'
  <2>1. (IF cmd.drop THEN DropTable(work, t) ELSE work) \in Database
    BY DropType DEF TypeOK
  <2> QED BY <1>7, <2>1, ReadType, ExecuteType DEF DropExisting, TypeOK
<1>8. ASSUME NEW t \in Table, DropFails(t) PROVE TypeOK'
  BY <1>8, ReadType DEF DropFails, TypeOK
<1>9. ASSUME NEW t \in Table, CreateTable(t) PROVE TypeOK'
  <2>1. PreCreated(t) \in Database
    BY CreatePlainType DEF PreCreated, Defaults, Of, TypeOK
  <2>2. Create(PreCreated(t), {t}) \in Database
    BY <2>1, CreateType DEF Table, Of
  <2> QED BY <1>9, <2>2, ExecuteType DEF CreateTable, TypeOK
<1>10. ASSUME NEW t \in Table, NEW n \in 1..Slices[t], Slice(t, n) PROVE TypeOK'
  <2>1. (IF sink = {t} THEN work ELSE Copied) \in Database
    BY CopiedType DEF TypeOK
  <2>2. n \in Nat
    BY RestoreAssumption DEF RestoreAssumption
  <2> QED BY <1>10, <2>1, <2>2, ReadType, ExecuteType DEF Slice, TypeOK
<1>11. ASSUME NEW t \in Table, LastSlice(t) PROVE TypeOK'
  BY <1>11, CopiedType, ReadType, ExecuteType DEF LastSlice, TypeOK
<1>12. ASSUME NEW s \in Of("sequence"), SetSequence(s) PROVE TypeOK'
  <2>1. work' \in Database
    BY <1>12, SetValueType DEF SetSequence, TypeOK
  <2>2. base' \in Database
    BY <1>12, <2>1 DEF SetSequence, TypeOK, Database
  <2> QED BY <1>12, <2>1, <2>2, ReadType DEF SetSequence, TypeOK
<1>13. CASE Trailer
  BY <1>13, CopiedType, ReadType, ExecuteType DEF Trailer, TypeOK
<1>14. CASE RefuseRecord
  BY <1>14, GiveUpType DEF RefuseRecord, Ended
<1>15. CASE RefuseTable
  BY <1>15, GiveUpType DEF RefuseTable, Ended
<1>16. CASE EndOfStream
  BY <1>16, GiveUpType DEF EndOfStream, Ended
<1>17. CASE Commit
  BY <1>17 DEF Commit, TypeOK
<1>18. CASE Join
  BY <1>18 DEF Join, TypeOK, Ended
<1>19. CASE Release
  BY <1>19 DEF Release, TypeOK, Ended
<1>20. CASE Abort
  <2>1. CASE Fail("failed")
    BY <2>1, FailType DEF Ended
  <2>2. CASE ~Fail("failed")
    BY <1>20, <2>2 DEF Abort, TypeOK, Ended
  <2> QED BY <2>1, <2>2
<1>21. CASE UNCHANGED vars
  BY <1>21 DEF vars, TypeOK
<1> QED
  BY <1>1, <1>2, <1>3, <1>4, <1>5, <1>6, <1>7, <1>8, <1>9, <1>10, <1>11, <1>12, <1>13,
     <1>14, <1>15, <1>16, <1>17, <1>18, <1>19, <1>20, <1>21
  DEF Next, Session, Download

(***************************************************************************)
(* The types are invariant, whatever the snapshot, the target, the options *)
(* and the faults; the pipe is never overfull.                             *)
(***************************************************************************)
THEOREM TypeCorrect == Spec => []TypeOK
  BY TypeInit, TypeStep, PTL DEF Spec

-----------------------------------------------------------------------------
(***************************************************************************)
(* What makes AllOrNothing inductive: with --single-transaction, nothing   *)
(* is executed outside the transaction, and it is committed only when all  *)
(* records were read.                                                      *)
(***************************************************************************)
InTransaction == cmd.single /\ main \in {"read", "create"} => tx # "auto"

CommitAtEnd == main \in {"commit", "join", "release", "ok"} => left = {}

Atomic == InTransaction /\ CommitAtEnd /\ AllOrNothing

\* Within the transaction, a statement changes nothing that others see.
LEMMA ExecuteHidden ==
  ASSUME InTransaction, main \in {"read", "create"}, cmd.single, NEW db, Execute(db)
  PROVE  base' = base /\ tx' # "auto"
  BY DEF InTransaction, Execute

\* A step that reads or executes within the transaction keeps the invariant.
LEMMA AtomicWithin ==
  ASSUME Atomic, main \in {"read", "create"}, main' \in {"read", "create"},
         cmd' = cmd, left' \subseteq left,
         cmd.single => /\ base'.objs = base.objs /\ base'.rows = base.rows
                       /\ tx' # "auto"
  PROVE  Atomic'
<1>1. InTransaction'
  BY DEF InTransaction
<1>2. CommitAtEnd'
  BY DEF CommitAtEnd
<1>3. AllOrNothing'
  <2>1. SUFFICES ASSUME cmd.single, left' # {}
                 PROVE  base'.objs = cmd.target /\ base'.rows = Existing(cmd.target).rows
    BY DEF AllOrNothing, Existing
  <2>2. left # {}
    BY <2>1
  <2> QED BY <2>1, <2>2 DEF Atomic, AllOrNothing
<1> QED BY <1>1, <1>2, <1>3 DEF Atomic

\* Reading a record shrinks what is left.
LEMMA ReadShrinks ==
  ASSUME NEW r, Read(r)
  PROVE  main = "read" /\ left' \subseteq left
  BY DEF Read

\* Giving up rolls back what others have not seen, or leaves it unseen.
LEMMA AtomicFail ==
  ASSUME Atomic, NEW how \in {"failed", "refused"}, Fail(how) \/ GiveUp(how)
  PROVE  Atomic'
<1>1. CASE Fail(how)
  BY <1>1 DEF Fail, Atomic, InTransaction, CommitAtEnd, AllOrNothing, Existing
<1>2. CASE ~Fail(how)
  BY <1>2 DEF GiveUp, session, Atomic, InTransaction, CommitAtEnd, AllOrNothing, Existing
<1> QED BY <1>1, <1>2

\* A step that leaves the database and the records alone.
LEMMA AtomicAside ==
  ASSUME Atomic, cmd' = cmd, left' = left, base' = base, tx' = tx, main' = main
  PROVE  Atomic'
  BY DEF Atomic, InTransaction, CommitAtEnd, AllOrNothing, Existing

\* Once all records were read, what others see is no longer the old state.
LEMMA AtomicEnd ==
  ASSUME left' = {}, main' \notin {"read", "create"}
  PROVE  Atomic'
  BY DEF Atomic, InTransaction, CommitAtEnd, AllOrNothing

\* Every step keeps the invariant.
LEMMA AtomicStep ==
  ASSUME TypeOK, Atomic, [Next]_vars
  PROVE  Atomic'
<1> USE DEF session, pipe
<1>0. InTransaction /\ CommitAtEnd
  BY DEF Atomic
<1>1. CASE Deliver \/ DownloadDone \/ DownloadFails
  BY <1>1, AtomicAside DEF Deliver, DownloadDone, DownloadFails
<1>2. CASE Begin
  BY <1>2 DEF Begin, BeginMode, Atomic, InTransaction, CommitAtEnd, AllOrNothing, Existing
<1>3. CASE Header
  BY <1>3, <1>0, ReadShrinks, AtomicWithin DEF Header, InTransaction
<1>4. ASSUME NEW o \in Object \ Table, CreateObject(o) PROVE Atomic'
  <2>1. /\ main = "read" /\ main' = "read" /\ left' \subseteq left /\ cmd' = cmd
        /\ Execute(Create(work, {o}))
    BY <1>4, ReadShrinks DEF CreateObject, Execute
  <2> QED BY <2>1, <1>0, ExecuteHidden, AtomicWithin
<1>5. ASSUME NEW t \in Table, DropExisting(t) PROVE Atomic'
  <2>1. /\ main = "read" /\ main' = "create" /\ left' \subseteq left /\ cmd' = cmd
        /\ Execute(IF cmd.drop THEN DropTable(work, t) ELSE work)
    BY <1>5, ReadShrinks DEF DropExisting, Execute
  <2> QED BY <2>1, <1>0, ExecuteHidden, AtomicWithin
<1>6. ASSUME NEW t \in Table, DropFails(t) PROVE Atomic'
  <2>1. /\ main = "read" /\ main' = "create" /\ left' \subseteq left /\ cmd' = cmd
        /\ base' = base /\ tx' = IF tx = "auto" THEN "auto" ELSE "aborted"
    BY <1>6, ReadShrinks DEF DropFails
  <2> QED BY <2>1, <1>0, AtomicWithin DEF InTransaction
<1>7. ASSUME NEW t \in Table, CreateTable(t) PROVE Atomic'
  <2>1. /\ main = "create" /\ main' = "read" /\ left' = left /\ cmd' = cmd
        /\ Execute(Create(PreCreated(t), {t}))
    BY <1>7 DEF CreateTable, Execute
  <2> QED BY <2>1, <1>0, ExecuteHidden, AtomicWithin
<1>8. ASSUME NEW t \in Table, NEW n \in 1..Slices[t], Slice(t, n) PROVE Atomic'
  <2>1. /\ main = "read" /\ main' = "read" /\ left' \subseteq left /\ cmd' = cmd
        /\ Execute(IF sink = {t} THEN work ELSE Copied)
    BY <1>8, ReadShrinks DEF Slice, Execute
  <2> QED BY <2>1, <1>0, ExecuteHidden, AtomicWithin
<1>9. ASSUME NEW t \in Table, LastSlice(t) PROVE Atomic'
  <2>1. /\ main = "read" /\ main' = "read" /\ left' \subseteq left /\ cmd' = cmd
        /\ Execute(Copied)
    BY <1>9, ReadShrinks DEF LastSlice, Execute
  <2> QED BY <2>1, <1>0, ExecuteHidden, AtomicWithin
<1>10. ASSUME NEW s \in Of("sequence"), SetSequence(s) PROVE Atomic'
  <2>1. /\ main = "read" /\ main' = "read" /\ left' \subseteq left
        /\ cmd' = cmd /\ tx' = tx
    BY <1>10, ReadShrinks DEF SetSequence
  <2>2. ASSUME cmd.single
        PROVE  base'.objs = base.objs /\ base'.rows = base.rows /\ tx' # "auto"
    <3>1. tx # "auto"
      BY <2>1, <2>2, <1>0 DEF InTransaction
    <3>2. base' = [base EXCEPT !.values = @ \cup ({s} \ work'.made)]
      BY <1>10, <3>1 DEF SetSequence
    <3> QED BY <2>1, <3>1, <3>2 DEF TypeOK, Database
  <2> QED BY <2>1, <2>2, AtomicWithin
<1>11. CASE Trailer
  <2>1. left = {End}
    BY <1>11, TrailerLast DEF Trailer, Read, TypeOK, End
  <2>2. left' = {} /\ main' = "commit"
    BY <1>11, <2>1 DEF Trailer, Read, End
  <2> QED BY <2>2, AtomicEnd
<1>12. CASE RefuseRecord \/ RefuseTable \/ EndOfStream
  BY <1>12, AtomicFail DEF RefuseRecord, RefuseTable, EndOfStream
<1>13. CASE Commit \/ Join \/ Release
  BY <1>13, <1>0, AtomicEnd DEF Commit, Join, Release, CommitAtEnd
<1>14. CASE Abort
  <2>1. CASE Fail("failed")
    BY <2>1, AtomicFail
  <2>2. CASE ~Fail("failed")
    BY <1>14, <2>2, <1>0, AtomicEnd DEF Abort, CommitAtEnd
  <2> QED BY <2>1, <2>2
<1>15. CASE UNCHANGED vars
  BY <1>15, AtomicAside DEF vars
<1> QED
  BY <1>1, <1>2, <1>3, <1>4, <1>5, <1>6, <1>7, <1>8, <1>9, <1>10, <1>11, <1>12, <1>13,
     <1>14, <1>15
  DEF Next, Session, Download

(***************************************************************************)
(* A restore with --single-transaction is atomic, for any snapshot, target *)
(* and fault: only its end can change a table or any other object.         *)
(***************************************************************************)
THEOREM RestoreAtomic == Spec => []AllOrNothing
<1>1. Init => Atomic
  BY DEF Init, Atomic, InTransaction, CommitAtEnd, AllOrNothing, Existing
<1>2. TypeOK /\ Atomic /\ [Next]_vars => Atomic'
  BY AtomicStep
<1>3. Atomic => AllOrNothing
  BY DEF Atomic
<1> QED BY <1>1, <1>2, <1>3, TypeCorrect, PTL DEF Spec

-----------------------------------------------------------------------------
(***************************************************************************)
(* What makes Complete and NothingRefused inductive.  While the restore    *)
(* goes on, the records were read in the order of the dump, and what was   *)
(* read is in the database of the session: objects, values and rows, those *)
(* that are still on their way into a table included.                      *)
(***************************************************************************)
GoesOn == main \notin {"failed", "refused", "rollback"}

InOrder == \A r \in left, q \in Records \ left : ~Before(r, q)

BaseInv == tx = "auto" => base = work

ShapeInv ==
  /\ main \in {"begin", "join", "release", "ok"} => tx = "auto"
  /\ main = "create" => \E t \in Table : current = {t} /\ First(t) \notin left
  /\ main # "create" => current = {}
  /\ sink # {} => main \in {"read", "create"} /\ \E t \in Table : sink = {t}
  /\ tx = "aborted" => main = "create" /\ undropped # {}

ObjectsInv ==
  /\ Record("header", 0, 0) \notin left => cmd.engine = "postgresql"
  /\ \A o \in Object \ Of("sequence") :
       First(o) \notin left /\ o \notin current => o \in work.objs
  /\ \A s \in Of("sequence") :
       Record("setval", s, 0) \notin left => s \in work.objs /\ s \in work.values

\* The data records of t that were read.
SlicesRead(t) == {n \in 1..Slices[t] : Record("table", t, n) \notin left}

RowsInv ==
  \A t \in Table :
    /\ (work.rows[t] \ {0}) \cup (IF sink = {t} THEN fed ELSE {}) = SlicesRead(t)
    /\ 0 \in work.rows[t] =>
         t \in work.objs /\ (First(t) \in left \/ ~cmd.drop \/ t \in undropped)

\* What is spoilt is among Spoils, or will be dropped and created again.
SpoiltInv ==
  /\ work.spoilt \subseteq work.objs
  /\ \A o \in work.spoilt :
       o \in Spoils \cup undropped \/ (o \in Table /\ First(o) \in left /\ cmd.drop)
  /\ \A s \in Of("sequence") : First(s) \notin left /\ s \notin work.objs => s \in Spoils
  /\ \A t \in Table : t \in work.objs /\ First(t) \in left => t \in cmd.target

Progress ==
  /\ BaseInv /\ InOrder
  /\ GoesOn => ShapeInv /\ ObjectsInv /\ RowsInv /\ SpoiltInv

-----------------------------------------------------------------------------
(***************************************************************************)
(* The records, and what their order says.                                 *)
(***************************************************************************)
LEMMA RecordsEqual ==
  ASSUME NEW g, NEW o, NEW n, NEW h, NEW p, NEW m
  PROVE  /\ Record(g, o, n) = Record(h, p, m) <=> g = h /\ o = p /\ n = m
         /\ Record(g, o, n).group = g
         /\ Record(g, o, n).obj = o
         /\ Record(g, o, n).n = n
  BY DEF Record

\* The group of an object tells its kind, except for the views.
LEMMA GroupFacts ==
  ASSUME NEW o \in Object
  PROVE  /\ GroupOf(o) \in Groups
         /\ o \in Table <=> GroupOf(o) = "table"
         /\ o \in Of("sequence") <=> GroupOf(o) = "sequence"
         /\ Kind[o] \in Early <=> GroupOf(o) \in Early
         /\ First(o) \in Records
<1>1. /\ GroupOf(o) \in Groups
      /\ o \in Table <=> GroupOf(o) = "table"
      /\ o \in Of("sequence") <=> GroupOf(o) = "sequence"
      /\ Kind[o] \in Early <=> GroupOf(o) \in Early
  BY RestoreAssumption DEF RestoreAssumption, GroupOf, Groups, Table, Of, Early
<1>2. CASE o \in Table
  <2>1. 0 \in 0..Slices[o] + 1
    BY <1>2, RestoreAssumption DEF RestoreAssumption
  <2>2. Record("table", o, 0) \in TableRecords(o)
    BY <2>1 DEF TableRecords
  <2> QED BY <1>1, <1>2, <2>2 DEF First, Records
<1>3. CASE o \notin Table
  <2>1. First(o) \in {Record(GroupOf(q), q, 0) : q \in Object \ Table}
    BY <1>3 DEF First
  <2> QED BY <1>1, <2>1 DEF Records
<1> QED BY <1>1, <1>2, <1>3

\* Objects and their first records correspond; no other record is one.
LEMMA FirstFacts ==
  /\ \A o, p \in Object : First(o) = First(p) => o = p
  /\ \A o \in Object : \A p, n :
       /\ First(o) # Record("header", p, n)
       /\ First(o) # Record("setval", p, n)
       /\ First(o) # Record("trailer", p, n)
       /\ n # 0 => First(o) # Record("table", p, n)
       /\ o \notin Table => First(o) # Record("table", p, n)
  /\ \A t \in Table : First(t) = Record("table", t, 0)
<1>1. \A o \in Object : \A p, n :
        /\ First(o) # Record("header", p, n)
        /\ First(o) # Record("setval", p, n)
        /\ First(o) # Record("trailer", p, n)
        /\ n # 0 => First(o) # Record("table", p, n)
        /\ o \notin Table => First(o) # Record("table", p, n)
  BY GroupFacts, RecordsEqual DEF First, Groups
<1>2. \A t \in Table : First(t) = Record("table", t, 0)
  BY GroupFacts DEF First, Table, Of
<1>3. \A o, p \in Object : First(o) = First(p) => o = p
  BY RecordsEqual DEF First
<1> QED BY <1>1, <1>2, <1>3

\* While a table is to come, no later group was read, nor any of its rows.
LEMMA BeforeTable ==
  ASSUME InOrder, NEW t \in Table, First(t) \in left
  PROVE  /\ \A o \in Object \ Of("sequence") :
              First(o) \notin left => Kind[o] \in Early \/ o \in Table
         /\ \A s \in Of("sequence") : Record("setval", s, 0) \in left
         /\ SlicesRead(t) = {}
<1>1. First(t) = Record("table", t, 0) /\ t \in Object
  BY FirstFacts DEF Table, Of
<1>2. ASSUME NEW o \in Object \ Of("sequence"), First(o) \notin left
      PROVE  Kind[o] \in Early \/ o \in Table
  <2>1. First(o) \in Records /\ GroupOf(o) \in Groups /\ First(o).group = GroupOf(o)
    BY GroupFacts, RecordsEqual DEF First
  <2>2. ~ (Place["table"] < Place[GroupOf(o)])
    BY <1>1, <1>2, <2>1, RecordsEqual DEF InOrder, Before
  <2>3. GroupOf(o) \in {"extension", "schema", "type", "sequence", "table"}
    BY <2>1, <2>2 DEF Place, Groups
  <2> QED BY <2>3, GroupFacts DEF Early
<1>3. ASSUME NEW s \in Of("sequence"), Record("setval", s, 0) \notin left PROVE FALSE
  <2>1. Record("setval", s, 0) \in Records
    BY DEF Records
  <2>2. ~ (Place["table"] < Place["setval"])
    BY <1>1, <1>3, <2>1, RecordsEqual DEF InOrder, Before
  <2> QED BY <2>2 DEF Place
<1>4. ASSUME NEW n \in 1..Slices[t], Record("table", t, n) \notin left PROVE FALSE
  <2>1. n \in 0..Slices[t] + 1 /\ 0 < n
    BY RestoreAssumption DEF RestoreAssumption
  <2>2. Record("table", t, n) \in TableRecords(t)
    BY <2>1 DEF TableRecords
  <2>3. Record("table", t, n) \in Records
    BY <2>2 DEF Records
  <2>4. Before(Record("table", t, 0), Record("table", t, n))
    BY <2>1, RecordsEqual DEF Before, ByName
  <2> QED BY <1>1, <1>4, <2>3, <2>4 DEF InOrder
<1> QED BY <1>2, <1>3, <1>4 DEF SlicesRead

-----------------------------------------------------------------------------
(***************************************************************************)
(* What goes with a table: no other table, and nothing of what precedes    *)
(* the tables.                                                             *)
(***************************************************************************)
LEMMA GoneOthers ==
  ASSUME NEW t \in Table, NEW o \in Gone[t]
  PROVE  /\ o \in Object /\ (o \in Table => o = t)
         /\ TypesFirst => Kind[o] \notin Early
<1> DEFINE roots == {t} \cup Owned[t]
<1>1. /\ t \in Object /\ Kind[t] = "table"
      /\ \A s \in Owned[t] : s \in Object /\ Kind[s] = "sequence"
  BY RestoreAssumption DEF RestoreAssumption, Table, Of
<1>2. o \in roots \/ o \in Dependents(roots)
  BY DEF Gone
<1>3. CASE o \in roots
  BY <1>1, <1>3 DEF Table, Of, Early
<1>4. CASE o \in Dependents(roots)
  <2>1. o \in Object \ Table
    BY <1>4 DEF Dependents
  <2>2. ASSUME TypesFirst PROVE Kind[o] \notin Early
    <3> DEFINE S == {q \in Object \ Table : Kind[q] \notin Early}
    <3>1. Cascades(roots, S)
      <4> SUFFICES ASSUME NEW q \in Object \ Table, NEW p \in Needs[q],
                          p \in roots \cup S, Kind[q] \in Early
                   PROVE  FALSE
        BY DEF Cascades
      <4>1. Kind[p] \in Early
        BY <2>2 DEF TypesFirst
      <4> QED BY <1>1, <4>1 DEF Early
    <3>2. S \in SUBSET (Object \ Table)
      OBVIOUS
    <3> HIDE DEF S
    <3>3. o \in S
      BY <1>4, <3>1, <3>2 DEF Dependents
    <3> QED BY <3>3 DEF S
  <2> QED BY <2>1, <2>2
<1> QED BY <1>2, <1>3, <1>4

\* The statements, by the parts of a database that they change.
LEMMA CreateParts ==
  ASSUME NEW db \in Database, NEW O \in SUBSET Object
  PROVE  /\ Create(db, O).objs = db.objs \cup O
         /\ Create(db, O).rows = db.rows
         /\ Create(db, O).values = db.values
         /\ Create(db, O).spoilt = db.spoilt
  BY DEF Create, Database

\* A sequence that is created again has lost its options.
LEMMA CreatePlainParts ==
  ASSUME NEW db \in Database, NEW O \in SUBSET Object
  PROVE  /\ CreatePlain(db, O).objs = db.objs \cup O
         /\ CreatePlain(db, O).rows = db.rows
         /\ CreatePlain(db, O).values = db.values
         /\ CreatePlain(db, O).spoilt = db.spoilt \cup (O \ db.objs)
<1>1. Create(db, O) \in Database
  BY CreateType
<1> QED BY <1>1, CreateParts DEF CreatePlain, Database

\* Setting a sequence creates it, if it has gone.
LEMMA SetValueParts ==
  ASSUME NEW db \in Database, NEW s \in Of("sequence")
  PROVE  /\ SetValue(db, s).objs = db.objs \cup {s}
         /\ SetValue(db, s).rows = db.rows
         /\ SetValue(db, s).values = db.values \cup {s}
         /\ SetValue(db, s).spoilt = db.spoilt \cup ({s} \ db.objs)
<1>1. CreatePlain(db, {s}) \in Database
  BY CreatePlainType DEF Of
<1>2. /\ CreatePlain(db, {s}).objs = db.objs \cup {s}
      /\ CreatePlain(db, {s}).rows = db.rows
      /\ CreatePlain(db, {s}).values = db.values
      /\ CreatePlain(db, {s}).spoilt = db.spoilt \cup ({s} \ db.objs)
  BY CreatePlainParts DEF Of
<1> QED BY <1>1, <1>2 DEF SetValue, Database

\* Dropping a table takes its rows, and no row of another.
LEMMA DropParts ==
  ASSUME NEW db \in Database, NEW t \in Table
  PROVE  /\ t \notin db.objs => DropTable(db, t) = db
         /\ t \in db.objs =>
              /\ DropTable(db, t).objs = db.objs \ Gone[t]
              /\ DropTable(db, t).rows[t] = {}
              /\ DropTable(db, t).spoilt = (db.spoilt \ Gone[t]) \cup Bereft(db, t)
         /\ \A u \in Table : u # t => DropTable(db, t).rows[u] = db.rows[u]
  BY DEF DropTable, Database

\* A COPY that is completed has put the rows that were sent into their table.
LEMMA CopiedParts ==
  ASSUME TypeOK, ShapeInv, RowsInv
  PROVE  /\ Copied.objs = work.objs /\ Copied.values = work.values
         /\ Copied.spoilt = work.spoilt
         /\ \A t \in Table :
              /\ Copied.rows[t] \ {0} = SlicesRead(t)
              /\ 0 \in Copied.rows[t] => 0 \in work.rows[t]
<1>1. \A t \in Table : 0 \notin SlicesRead(t)
  BY DEF SlicesRead
<1>2. CASE sink = {}
  <2>1. \A t \in Table : sink # {t}
    BY <1>2
  <2> QED BY <1>2, <2>1 DEF Copied, RowsInv
<1>3. CASE sink # {}
  <2>1. PICK t \in Table : sink = {t}
    BY <1>3 DEF ShapeInv
  <2>2. Copied = Copy(work, t, fed)
    <3>1. (CHOOSE u \in sink : TRUE) = t
      BY <2>1
    <3> QED BY <1>3, <3>1 DEF Copied
  <2>3. /\ Copied.objs = work.objs /\ Copied.values = work.values
        /\ Copied.spoilt = work.spoilt
        /\ Copied.rows[t] = work.rows[t] \cup fed
        /\ \A u \in Table : u # t => Copied.rows[u] = work.rows[u]
    BY <2>2 DEF Copy, TypeOK, Database
  <2>4. (work.rows[t] \ {0}) \cup fed = SlicesRead(t)
    BY <2>1 DEF RowsInv
  <2>5. /\ Copied.rows[t] \ {0} = SlicesRead(t)
        /\ 0 \in Copied.rows[t] => 0 \in work.rows[t]
    BY <1>1, <2>3, <2>4
  <2>6. ASSUME NEW u \in Table, u # t
        PROVE  /\ Copied.rows[u] \ {0} = SlicesRead(u)
               /\ 0 \in Copied.rows[u] => 0 \in work.rows[u]
    <3>1. sink # {u}
      BY <2>1, <2>6
    <3> QED BY <2>3, <2>6, <3>1 DEF RowsInv
  <2> QED BY <2>3, <2>5, <2>6
<1> QED BY <1>2, <1>3

-----------------------------------------------------------------------------
(***************************************************************************)
(* How the invariant is kept: reading in order, and by parts.              *)
(***************************************************************************)
LEMMA ReadInOrder ==
  ASSUME InOrder, NEW r, Read(r)
  PROVE  InOrder'
<1>1. r \in left /\ left' = left \ {r} /\ \A q \in left : ~Before(q, r)
  BY DEF Read, Earliest
<1>2. ASSUME NEW a \in left', NEW b \in Records \ left' PROVE ~Before(a, b)
  BY <1>1, <1>2 DEF InOrder
<1> QED BY <1>2 DEF InOrder, Before

\* Without a record read, the order is that it was.
LEMMA SameOrder ==
  ASSUME InOrder, left' = left
  PROVE  InOrder'
  BY DEF InOrder, Before

\* The session sees what others see, unless a transaction is open.
LEMMA ExecuteBase ==
  ASSUME BaseInv, NEW db, Execute(db)
  PROVE  BaseInv' /\ work' = db /\ tx' = tx /\ tx # "aborted" /\ cmd' = cmd
         /\ undropped' = undropped
  BY DEF Execute, BaseInv

\* No object or value goes, and what is read now is there.
LEMMA ObjectsMore ==
  ASSUME ObjectsInv, cmd' = cmd, left' \subseteq left,
         work.objs \subseteq work'.objs, work.values \subseteq work'.values,
         Record("header", 0, 0) \in left \ left' => cmd.engine = "postgresql",
         \A o \in Object \ Of("sequence") :
           First(o) \notin left' /\ o \notin current' =>
             o \in work'.objs \/ (First(o) \notin left /\ o \notin current),
         \A s \in Of("sequence") :
           Record("setval", s, 0) \in left \ left' => s \in work'.objs /\ s \in work'.values
  PROVE  ObjectsInv'
<1>1. Record("header", 0, 0) \notin left' => cmd'.engine = "postgresql"
  BY DEF ObjectsInv
<1>2. ASSUME NEW o \in Object \ Of("sequence"), First(o) \notin left', o \notin current'
      PROVE  o \in work'.objs
  BY <1>2 DEF ObjectsInv
<1>3. ASSUME NEW s \in Of("sequence"), Record("setval", s, 0) \notin left'
      PROVE  s \in work'.objs /\ s \in work'.values
  BY <1>3 DEF ObjectsInv
<1> QED BY <1>1, <1>2, <1>3 DEF ObjectsInv

\* No row comes or goes.
LEMMA RowsSame ==
  ASSUME RowsInv, cmd' = cmd, sink' = sink, fed' = fed, undropped \subseteq undropped',
         work'.rows = work.rows, work.objs \subseteq work'.objs,
         \A t \in Table : \A n \in 1..Slices[t] :
           Record("table", t, n) \in left' <=> Record("table", t, n) \in left,
         \A t \in Table : First(t) \in left => First(t) \in left' \/ t \in undropped'
  PROVE  RowsInv'
<1> SUFFICES ASSUME NEW t \in Table
             PROVE  /\ (work'.rows[t] \ {0}) \cup (IF sink' = {t} THEN fed' ELSE {})
                         = SlicesRead(t)'
                    /\ 0 \in work'.rows[t] =>
                         /\ t \in work'.objs
                         /\ First(t) \in left' \/ ~cmd'.drop \/ t \in undropped'
  BY DEF RowsInv
<1>1. SlicesRead(t)' = SlicesRead(t)
  BY DEF SlicesRead
<1>2. (work.rows[t] \ {0}) \cup (IF sink = {t} THEN fed ELSE {}) = SlicesRead(t)
  BY DEF RowsInv
<1>3. 0 \in work.rows[t] =>
        t \in work.objs /\ (First(t) \in left \/ ~cmd.drop \/ t \in undropped)
  BY DEF RowsInv
<1> QED BY <1>1, <1>2, <1>3

\* Nothing is spoilt, or dropped, and no table appears but by its record.
LEMMA SpoiltSame ==
  ASSUME SpoiltInv, cmd' = cmd, undropped' = undropped, left' \subseteq left,
         work.objs \subseteq work'.objs, work'.spoilt = work.spoilt,
         \A t \in Table : First(t) \in left => First(t) \in left',
         \A t \in Table : t \in work'.objs => t \in work.objs \/ First(t) \notin left',
         \A s \in Of("sequence") : First(s) \in left => First(s) \in left' \/ s \in work'.objs
  PROVE  SpoiltInv'
<1>1. Spoils' = Spoils
  BY DEF Spoils
<1> QED BY <1>1 DEF SpoiltInv, First

\* A sequence that must be created again went with a table of the target.
LEMMA SpoiltPlain ==
  ASSUME SpoiltInv, cmd' = cmd, undropped' = undropped, left' \subseteq left,
         work.objs \subseteq work'.objs,
         NEW S \in SUBSET Of("sequence"),
         work'.spoilt = work.spoilt \cup (S \ work.objs), S \subseteq work'.objs,
         \A s \in S : First(s) \notin left,
         \A t \in Table : First(t) \in left => First(t) \in left',
         \A t \in Table : t \in work'.objs => t \in work.objs \/ First(t) \notin left',
         \A s \in Of("sequence") : First(s) \in left => First(s) \in left'
  PROVE  SpoiltInv'
<1>1. Spoils' = Spoils
  BY DEF Spoils
<1>2. \A s \in S \ work.objs : s \in Spoils
  BY DEF SpoiltInv
<1> QED BY <1>1, <1>2 DEF SpoiltInv, First

\* A step that does not concern the session.
LEMMA ProgressAside ==
  ASSUME Progress, UNCHANGED <<cmd, left, current, session>>,
         main' = main \/ main' \notin {"begin", "create", "read"},
         main' # main => main \in {"join", "release"}
  PROVE  Progress'
<1>1. BaseInv' /\ InOrder'
  BY SameOrder DEF Progress, BaseInv, session
<1>2. ASSUME GoesOn' PROVE ShapeInv' /\ ObjectsInv' /\ RowsInv' /\ SpoiltInv'
  <2>1. ShapeInv /\ ObjectsInv /\ RowsInv /\ SpoiltInv
    BY <1>2 DEF GoesOn, Progress
  <2>2. ShapeInv'
    BY <2>1 DEF ShapeInv, session, First
  <2>3. ObjectsInv'
    BY <2>1, ObjectsMore DEF session
  <2>4. RowsInv'
    BY <2>1, RowsSame DEF session
  <2>5. SpoiltInv'
    BY <2>1, SpoiltSame DEF session
  <2> QED BY <2>2, <2>3, <2>4, <2>5
<1> QED BY <1>1, <1>2 DEF Progress

\* Giving up.
LEMMA ProgressFail ==
  ASSUME Progress, left' = left, work' = base' \/ UNCHANGED <<tx, work, base>>,
         main' \in {"failed", "refused", "rollback"}
  PROVE  Progress'
  BY SameOrder DEF Progress, BaseInv, GoesOn

-----------------------------------------------------------------------------
\* Creating the object of a record keeps the invariant.
LEMMA ProgressCreate ==
  ASSUME TypeOK, Progress, NEW o \in Object \ Table, CreateObject(o)
  PROVE  Progress'
<1>1. /\ main = "read" /\ main' = "read" /\ left' = left \ {First(o)}
      /\ Read(First(o)) /\ Execute(Create(work, {o}))
      /\ current' = current /\ sink' = sink /\ fed' = fed
  BY DEF CreateObject, Read, First
<1>2. BaseInv /\ InOrder /\ ShapeInv /\ ObjectsInv /\ RowsInv /\ SpoiltInv
  BY <1>1 DEF Progress, GoesOn
<1>3. /\ BaseInv' /\ work' = Create(work, {o}) /\ tx' = tx /\ cmd' = cmd
      /\ tx # "aborted" /\ undropped' = undropped
  BY <1>1, <1>2, ExecuteBase
<1>4. /\ work'.objs = work.objs \cup {o} /\ work'.rows = work.rows
      /\ work'.values = work.values /\ work'.spoilt = work.spoilt
  BY <1>3, CreateParts DEF TypeOK
<1>5. ShapeInv'
  BY <1>1, <1>2, <1>3 DEF ShapeInv
<1>6. \A r : r # First(o) => (r \in left' <=> r \in left)
  BY <1>1
<1>7. ObjectsInv'
  <2>1. ASSUME NEW p \in Object \ Of("sequence"), First(p) \notin left', p \notin current'
        PROVE  p \in work'.objs \/ (First(p) \notin left /\ p \notin current)
    BY <1>1, <1>4, <1>6, <2>1, FirstFacts
  <2>2. Record("header", 0, 0) \notin left \ left'
    BY <1>6, FirstFacts
  <2>3. \A s \in Of("sequence") : Record("setval", s, 0) \notin left \ left'
    BY <1>6, FirstFacts
  <2> QED BY <1>1, <1>2, <1>3, <1>4, <2>1, <2>2, <2>3, ObjectsMore
<1>8. RowsInv'
  <2>1. \A t \in Table : \A n \in 1..Slices[t] :
          Record("table", t, n) \in left' <=> Record("table", t, n) \in left
    BY <1>6, FirstFacts
  <2>2. \A t \in Table : First(t) \in left => First(t) \in left'
    BY <1>6, FirstFacts DEF Table, Of
  <2> QED BY <1>1, <1>2, <1>3, <1>4, <2>1, <2>2, RowsSame
<1>9. SpoiltInv'
  <2>1. \A t \in Table : First(t) \in left => First(t) \in left'
    BY <1>6, FirstFacts DEF Table, Of
  <2>2. \A s \in Of("sequence") :
          First(s) \in left => First(s) \in left' \/ s \in work'.objs
    BY <1>4, <1>6, FirstFacts DEF Of
  <2> QED BY <1>1, <1>2, <1>3, <1>4, <2>1, <2>2, SpoiltSame
<1> QED BY <1>1, <1>2, <1>3, <1>5, <1>7, <1>8, <1>9, ReadInOrder DEF Progress

(***************************************************************************)
(* What a DROP TABLE spoils: tables whose record was read lie before it by *)
(* name, and the others will be dropped themselves.                        *)
(***************************************************************************)
LEMMA SpoiltTable ==
  ASSUME TypeOK, InOrder, SpoiltInv, NEW t \in Table, First(t) \in left,
         left' = left \ {First(t)}, cmd' = cmd,
         \/ /\ undropped' = undropped
            /\ work' = IF cmd.drop THEN DropTable(work, t) ELSE work
         \/ undropped' = undropped \cup {t} /\ work' = work
  PROVE  SpoiltInv'
<1>1. Spoils' = Spoils
  BY DEF Spoils
<1>2. /\ \A u \in Table : u # t => (First(u) \in left' <=> First(u) \in left)
      /\ \A s \in Of("sequence") : First(s) \in left' <=> First(s) \in left
  <2>1. \A o \in Object : o # t => First(o) # First(t)
    BY FirstFacts DEF Table, Of
  <2>2. t \notin Of("sequence")
    BY DEF Table, Of
  <2> QED BY <2>1, <2>2 DEF Table, Of
<1>3. CASE work' = work
  <2>1. t \in work.spoilt => t \in Spoils \cup undropped'
    <3> SUFFICES ASSUME t \in work.spoilt, t \notin Spoils \cup undropped' PROVE FALSE
      OBVIOUS
    <3>1. cmd.drop /\ t \in work.objs
      BY DEF SpoiltInv
    <3>2. work = DropTable(work, t) /\ undropped' = undropped
      BY <1>3, <3>1
    <3>3. t \notin work.objs
      <4>1. t \in Gone[t]
        BY DEF Gone
      <4> QED BY <3>2, <4>1, DropParts DEF TypeOK
    <3> QED BY <3>1, <3>3
  <2>2. \A o \in work.spoilt :
          o \in Spoils \cup undropped' \/ (o \in Table /\ First(o) \in left' /\ cmd.drop)
    BY <1>2, <2>1 DEF SpoiltInv
  <2> QED BY <1>1, <1>2, <1>3, <2>2 DEF SpoiltInv
<1>4. CASE work' # work
  <2>1. /\ cmd.drop /\ t \in work.objs /\ undropped' = undropped
        /\ work' = DropTable(work, t)
    BY <1>4, DropParts DEF TypeOK
  <2>2. /\ t \in cmd.target /\ t \in Gone[t] /\ t \in Object
        /\ work'.objs = work.objs \ Gone[t]
        /\ work'.spoilt = (work.spoilt \ Gone[t]) \cup Bereft(work, t)
    <3>1. t \in Object /\ t \in Gone[t]
      BY DEF Table, Of, Gone
    <3>2. t \in cmd.target
      BY <1>2, <2>1 DEF SpoiltInv
    <3> QED BY <2>1, <3>1, <3>2, DropParts DEF TypeOK
  <2>3. ASSUME NEW u \in Bereft(work, t)
        PROVE  /\ u \in work'.objs
               /\ u \in Spoils \/ (u \in Table /\ First(u) \in left' /\ cmd.drop)
    <3>1. u \in Table /\ u \in work.objs /\ u # t /\ Needs[u] \cap Gone[t] # {}
      BY <2>3 DEF Bereft
    <3>2. u \notin Gone[t]
      BY <3>1, GoneOthers
    <3>3. ASSUME First(u) \notin left PROVE u \in Spoils
      <4>1. u \in Object /\ Kind[u] = "table" /\ u \in Nat /\ t \in Nat
        BY <2>2, <3>1, RestoreAssumption DEF RestoreAssumption, Table, Of
      <4>2. First(u) \in Records
        BY <4>1, GroupFacts
      <4>3. ~Before(First(t), First(u))
        BY <3>3, <4>2 DEF InOrder
      <4>4. ~(t < u)
        BY <3>1, <4>3, FirstFacts, RecordsEqual DEF Before, ByName
      <4>5. u < t
        BY <3>1, <4>1, <4>4
      <4> QED BY <2>1, <2>2, <3>1, <4>1, <4>5 DEF Spoils
    <3> QED BY <1>2, <2>1, <2>2, <3>1, <3>2, <3>3
  <2>4. \A o \in work.spoilt \ Gone[t] :
          o \in Spoils \cup undropped \/ (o \in Table /\ First(o) \in left' /\ cmd.drop)
    BY <1>2, <2>2 DEF SpoiltInv
  <2>5. ASSUME NEW s \in Of("sequence"), First(s) \notin left', s \notin work'.objs
        PROVE  s \in Spoils
    <3>1. CASE s \notin work.objs
      BY <1>2, <2>5, <3>1 DEF SpoiltInv
    <3>2. CASE s \in Gone[t]
      BY <2>1, <2>2, <3>2 DEF Spoils, Of
    <3> QED BY <2>2, <2>5, <3>1, <3>2
  <2>6. work'.spoilt \subseteq work'.objs
    BY <2>2, <2>3 DEF SpoiltInv
  <2>7. \A o \in work'.spoilt :
          o \in Spoils \cup undropped' \/ (o \in Table /\ First(o) \in left' /\ cmd.drop)
    BY <2>1, <2>2, <2>3, <2>4
  <2>8. \A u \in Table : u \in work'.objs /\ First(u) \in left' => u \in cmd.target
    BY <1>2, <2>2 DEF SpoiltInv
  <2> QED BY <1>1, <2>5, <2>6, <2>7, <2>8 DEF SpoiltInv
<1> QED BY <1>3, <1>4

(***************************************************************************)
(* Reading the record that announces a table.  What was created before is  *)
(* not dropped with it, and what is dropped with it was not yet read.      *)
(***************************************************************************)
LEMMA ProgressTable ==
  ASSUME TypesFirst, TypeOK, Progress, NEW t \in Table, Read(First(t)),
         main' = "create", current' = {t}, cmd' = cmd, sink' = sink, fed' = fed,
         BaseInv', tx' = "aborted" => undropped' # {},
         \/ /\ undropped' = undropped
            /\ work' = IF cmd.drop THEN DropTable(work, t) ELSE work
         \/ undropped' = undropped \cup {t} /\ work' = work
  PROVE  Progress'
<1>1. main = "read" /\ First(t) \in left /\ left' = left \ {First(t)} /\ t \in Object
  BY DEF Read, Table, Of
<1>2. BaseInv /\ InOrder /\ ShapeInv /\ ObjectsInv /\ RowsInv /\ SpoiltInv
  BY <1>1 DEF Progress, GoesOn
<1>3. \A r : r # First(t) => (r \in left' <=> r \in left)
  BY <1>1
<1>4. /\ \A o \in Object \ Of("sequence") :
           First(o) \notin left => Kind[o] \in Early \/ o \in Table
      /\ \A s \in Of("sequence") : Record("setval", s, 0) \in left
      /\ SlicesRead(t) = {}
  BY <1>1, <1>2, BeforeTable
<1>5. ShapeInv'
  BY <1>1, <1>2 DEF ShapeInv, First
<1>6. \A u \in Table : u \in work.objs /\ u # t => u \in work'.objs
  <2> TAKE u \in Table
  <2> HAVE u \in work.objs /\ u # t
  <2>1. u \notin Gone[t]
    BY GoneOthers
  <2>2. u \in DropTable(work, t).objs
    BY <2>1, DropParts DEF TypeOK
  <2> QED BY <2>2
<1>7. ObjectsInv'
  <2>1. Record("header", 0, 0) \notin left' => cmd'.engine = "postgresql"
    BY <1>1, <1>2, <1>3, FirstFacts DEF ObjectsInv
  <2>2. \A s \in Of("sequence") : Record("setval", s, 0) \in left'
    BY <1>1, <1>3, <1>4, FirstFacts
  <2>3. ASSUME NEW o \in Object \ Of("sequence"), First(o) \notin left', o # t
        PROVE  o \in work'.objs
    <3>1. First(o) \notin left
      BY <1>1, <1>3, <2>3, FirstFacts
    <3>2. o \in work.objs
      BY <1>1, <1>2, <3>1 DEF ShapeInv, ObjectsInv
    <3>3. o \notin Gone[t]
      BY <1>4, <2>3, <3>1, GoneOthers
    <3>4. o \in DropTable(work, t).objs
      BY <3>2, <3>3, DropParts DEF TypeOK
    <3> QED BY <3>2, <3>4
  <2> QED BY <2>1, <2>2, <2>3 DEF ObjectsInv
<1>8. RowsInv'
  <2>1. \A u \in Table : SlicesRead(u)' = SlicesRead(u)
    BY <1>1, <1>3, FirstFacts DEF SlicesRead
  <2>2. ASSUME NEW u \in Table, u # t
        PROVE  /\ (work'.rows[u] \ {0}) \cup (IF sink' = {u} THEN fed' ELSE {})
                    = SlicesRead(u)'
               /\ 0 \in work'.rows[u] =>
                    /\ u \in work'.objs
                    /\ First(u) \in left' \/ ~cmd'.drop \/ u \in undropped'
    <3>1. work'.rows[u] = work.rows[u]
      BY <2>2, DropParts DEF TypeOK
    <3>2. First(u) \in left <=> First(u) \in left'
      BY <1>1, <1>3, <2>2, FirstFacts DEF Table, Of
    <3> QED BY <1>2, <1>6, <2>1, <2>2, <3>1, <3>2 DEF RowsInv
  <2>3. /\ (work'.rows[t] \ {0}) \cup (IF sink' = {t} THEN fed' ELSE {}) = SlicesRead(t)'
        /\ 0 \in work'.rows[t] =>
             t \in work'.objs /\ (First(t) \in left' \/ ~cmd'.drop \/ t \in undropped')
    <3>1. /\ (work.rows[t] \ {0}) \cup (IF sink = {t} THEN fed ELSE {}) = {}
          /\ 0 \in work.rows[t] => t \in work.objs
      BY <1>2, <1>4 DEF RowsInv
    <3>2. work' = work \/ (t \in work.objs /\ work'.rows[t] = {})
      BY DropParts DEF TypeOK
    <3>3. 0 \in work'.rows[t] => work' = work
      BY <3>2
    <3>4. 0 \in work'.rows[t] => ~cmd.drop \/ t \in undropped'
      <4>1. CASE undropped' = undropped \cup {t}
        BY <4>1
      <4>2. CASE cmd.drop /\ work' = DropTable(work, t)
        BY <3>1, <3>3, <4>2, DropParts DEF TypeOK
      <4> QED BY <4>1, <4>2
    <3> QED BY <1>4, <2>1, <3>1, <3>2, <3>3, <3>4
  <2> QED BY <2>2, <2>3 DEF RowsInv
<1>9. SpoiltInv'
  BY <1>1, <1>2, SpoiltTable
<1> QED BY <1>2, <1>5, <1>7, <1>8, <1>9, ReadInOrder DEF Progress

\* Creating a table, with the sequences of its defaults.
LEMMA ProgressCreateTable ==
  ASSUME TypeOK, Progress, NEW t \in Table, CreateTable(t)
  PROVE  Progress'
<1>1. /\ main = "create" /\ main' = "read" /\ t \in current /\ current' = {}
      /\ left' = left /\ sink' = sink /\ fed' = fed
      /\ Execute(Create(PreCreated(t), {t}))
  BY DEF CreateTable
<1>2. BaseInv /\ InOrder /\ ShapeInv /\ ObjectsInv /\ RowsInv /\ SpoiltInv
  BY <1>1 DEF Progress, GoesOn
<1>3. /\ BaseInv' /\ work' = Create(PreCreated(t), {t}) /\ tx' = tx /\ cmd' = cmd
      /\ tx # "aborted" /\ undropped' = undropped
  BY <1>1, <1>2, ExecuteBase
<1>4. /\ work'.objs = work.objs \cup Defaults(t) \cup {t}
      /\ work'.rows = work.rows /\ work'.values = work.values
      /\ work'.spoilt = work.spoilt \cup (Defaults(t) \ work.objs)
  <2>1. Defaults(t) \in SUBSET Object /\ {t} \in SUBSET Object
    BY DEF Defaults, Table, Of
  <2>2. PreCreated(t) \in Database
    BY <2>1, CreatePlainType DEF PreCreated, TypeOK
  <2> QED BY <1>3, <2>1, <2>2, CreateParts, CreatePlainParts DEF PreCreated, TypeOK
<1>5. current = {t}
  BY <1>1, <1>2 DEF ShapeInv
<1>6. ShapeInv'
  BY <1>1, <1>2, <1>3 DEF ShapeInv
<1>7. ObjectsInv'
  BY <1>1, <1>2, <1>3, <1>4, <1>5, ObjectsMore
<1>8. RowsInv'
  BY <1>1, <1>2, <1>3, <1>4, RowsSame
<1>9. SpoiltInv'
  <2>1. Defaults(t) \in SUBSET Of("sequence") /\ t \in Object
    BY DEF Defaults, Table, Of
  <2>2. ASSUME NEW s \in Defaults(t) PROVE First(s) \notin left
    <3>1. First(t) \in Records \ left
      BY <1>1, <1>2, <1>5, <2>1, GroupFacts DEF ShapeInv
    <3>2. s \in Object /\ GroupOf(s) = "sequence" /\ GroupOf(t) = "table"
      BY <2>1, <2>2, GroupFacts DEF Of
    <3>3. Before(First(s), First(t))
      BY <3>2, RecordsEqual DEF Before, First, Place
    <3> QED BY <1>2, <3>1, <3>3 DEF InOrder
  <2>3. \A u \in Table : u \in work'.objs => u \in work.objs \/ First(u) \notin left'
    <3>1. Defaults(t) \cap Table = {}
      BY DEF Defaults, Table, Of
    <3>2. First(t) \notin left'
      BY <1>1, <1>2, <1>5 DEF ShapeInv
    <3> QED BY <1>4, <3>1, <3>2
  <2> QED BY <1>1, <1>2, <1>3, <1>4, <2>1, <2>2, <2>3, SpoiltPlain
<1> QED BY <1>1, <1>2, <1>3, <1>6, <1>7, <1>8, <1>9, SameOrder DEF Progress

\* A data record: it joins the COPY of its table, or completes another and opens it.
LEMMA ProgressSlice ==
  ASSUME TypeOK, Progress, NEW t \in Table, NEW n \in 1..Slices[t], Slice(t, n)
  PROVE  Progress'
<1> DEFINE r == Record("table", t, n)
<1>1. /\ main = "read" /\ main' = "read" /\ Read(r) /\ left' = left \ {r}
      /\ current' = current /\ sink' = {t}
      /\ fed' = IF sink = {t} THEN fed \cup {n} ELSE {n}
      /\ Execute(IF sink = {t} THEN work ELSE Copied)
  BY DEF Slice, Read
<1>2. BaseInv /\ InOrder /\ ShapeInv /\ ObjectsInv /\ RowsInv /\ SpoiltInv
  BY <1>1 DEF Progress, GoesOn
<1>3. /\ BaseInv' /\ work' = (IF sink = {t} THEN work ELSE Copied) /\ tx' = tx /\ cmd' = cmd
      /\ tx # "aborted" /\ undropped' = undropped
  BY <1>1, <1>2, ExecuteBase
<1>4. /\ work'.objs = work.objs /\ work'.values = work.values
      /\ work'.spoilt = work.spoilt
      /\ \A u \in Table : 0 \in work'.rows[u] => 0 \in work.rows[u]
  BY <1>2, <1>3, CopiedParts
<1>5. ShapeInv'
  BY <1>1, <1>2, <1>3 DEF ShapeInv
<1>6. \A q : q # r => (q \in left' <=> q \in left)
  BY <1>1
<1>7. n # 0 /\ \A o \in Object : First(o) # r
  BY RestoreAssumption, FirstFacts DEF RestoreAssumption
<1>8. ObjectsInv'
  <2>1. Record("header", 0, 0) # r /\ \A s : Record("setval", s, 0) # r
    BY RecordsEqual
  <2> QED BY <1>1, <1>2, <1>3, <1>4, <1>6, <1>7, <2>1, ObjectsMore
<1>9. RowsInv'
  <2>1. SlicesRead(t)' = SlicesRead(t) \cup {n}
    BY <1>1, RecordsEqual DEF SlicesRead
  <2>2. \A u \in Table : u # t => SlicesRead(u)' = SlicesRead(u)
    BY <1>1, RecordsEqual DEF SlicesRead
  <2>3. \A u \in Table :
          0 \in work'.rows[u] =>
            u \in work'.objs /\ (First(u) \in left' \/ ~cmd'.drop \/ u \in undropped')
    BY <1>2, <1>3, <1>4, <1>6, <1>7 DEF RowsInv, Table, Of
  <2>4. ASSUME NEW u \in Table
        PROVE  (work'.rows[u] \ {0}) \cup (IF sink' = {u} THEN fed' ELSE {}) = SlicesRead(u)'
    <3>1. CASE sink = {t}
      <4>1. (work.rows[u] \ {0}) \cup (IF sink = {u} THEN fed ELSE {}) = SlicesRead(u)
        BY <1>2 DEF RowsInv
      <4> QED BY <1>1, <1>3, <2>1, <2>2, <3>1, <4>1
    <3>2. CASE sink # {t}
      <4>1. work'.rows[u] \ {0} = SlicesRead(u)
        BY <1>2, <1>3, <3>2, CopiedParts
      <4> QED BY <1>1, <2>1, <2>2, <3>2, <4>1
    <3> QED BY <3>1, <3>2
  <2> QED BY <2>3, <2>4 DEF RowsInv
<1> HIDE DEF r
<1>10. SpoiltInv'
  BY <1>1, <1>2, <1>3, <1>4, <1>6, <1>7, SpoiltSame DEF Table, Of
<1> QED BY <1>1, <1>2, <1>3, <1>5, <1>8, <1>9, <1>10, ReadInOrder DEF Progress

\* The end of a table's rows, or of the stream, completes the COPY.
LEMMA ProgressFinish ==
  ASSUME TypeOK, Progress, NEW r \in Records, Read(r), Execute(Copied),
         \/ \E t \in Table : r = Record("table", t, Slices[t] + 1)
         \/ r = Record("trailer", 0, 0),
         sink' = {}, fed' = {}, current' = current, main' \in {"read", "commit"}
  PROVE  Progress'
<1>1. main = "read" /\ left' = left \ {r}
  BY DEF Read
<1>2. BaseInv /\ InOrder /\ ShapeInv /\ ObjectsInv /\ RowsInv /\ SpoiltInv
  BY <1>1 DEF Progress, GoesOn
<1>3. /\ BaseInv' /\ work' = Copied /\ tx' = tx /\ cmd' = cmd
      /\ tx # "aborted" /\ undropped' = undropped
  BY <1>1, <1>2, ExecuteBase
<1>4. /\ work'.objs = work.objs /\ work'.values = work.values
      /\ work'.spoilt = work.spoilt
      /\ \A u \in Table : /\ work'.rows[u] \ {0} = SlicesRead(u)
                          /\ 0 \in work'.rows[u] => 0 \in work.rows[u]
  BY <1>2, <1>3, CopiedParts
<1>5. ShapeInv'
  BY <1>1, <1>2, <1>3 DEF ShapeInv
<1>6. \A q : q # r => (q \in left' <=> q \in left)
  BY <1>1
<1>7. /\ \A o \in Object : First(o) # r
      /\ Record("header", 0, 0) # r /\ \A s : Record("setval", s, 0) # r
      /\ \A t \in Table : \A n \in 1..Slices[t] : Record("table", t, n) # r
  <2>1. CASE r = Record("trailer", 0, 0)
    BY <2>1, RecordsEqual, FirstFacts
  <2>2. ASSUME NEW t \in Table, r = Record("table", t, Slices[t] + 1) PROVE <1>7
    <3>1. Slices[t] \in Nat /\ Slices[t] + 1 # 0
      BY RestoreAssumption DEF RestoreAssumption
    <3>2. \A n \in 1..Slices[t] : n # Slices[t] + 1
      BY <3>1
    <3> QED BY <2>2, <3>1, <3>2, RecordsEqual, FirstFacts
  <2> QED BY <2>1, <2>2
<1>8. ObjectsInv'
  BY <1>1, <1>2, <1>3, <1>4, <1>6, <1>7, ObjectsMore
<1>9. RowsInv'
  <2>1. \A u \in Table : SlicesRead(u)' = SlicesRead(u)
    BY <1>6, <1>7 DEF SlicesRead
  <2>2. \A u \in Table :
          0 \in work'.rows[u] =>
            u \in work'.objs /\ (First(u) \in left' \/ ~cmd'.drop \/ u \in undropped')
    BY <1>2, <1>3, <1>4, <1>6, <1>7 DEF RowsInv, Table, Of
  <2>3. \A u \in Table : sink' # {u}
    OBVIOUS
  <2> QED BY <1>4, <2>1, <2>2, <2>3 DEF RowsInv
<1>10. SpoiltInv'
  BY <1>1, <1>2, <1>3, <1>4, <1>6, <1>7, SpoiltSame DEF Table, Of
<1> QED BY <1>1, <1>2, <1>3, <1>5, <1>8, <1>9, <1>10, ReadInOrder DEF Progress

\* Setting a sequence, which creates it again if it went with a table.
LEMMA ProgressSequence ==
  ASSUME TypeOK, Progress, NEW s \in Of("sequence"), SetSequence(s)
  PROVE  Progress'
<1> DEFINE r == Record("setval", s, 0)
<1>1. /\ main = "read" /\ main' = "read" /\ Read(r) /\ left' = left \ {r}
      /\ current' = current /\ sink' = sink /\ fed' = fed /\ tx' = tx /\ tx # "aborted"
      /\ cmd' = cmd /\ undropped' = undropped /\ work' = SetValue(work, s)
      /\ tx = "auto" => base' = work'
  BY DEF SetSequence, Read
<1>2. BaseInv /\ InOrder /\ ShapeInv /\ ObjectsInv /\ RowsInv /\ SpoiltInv
  BY <1>1 DEF Progress, GoesOn
<1>3. BaseInv' /\ ShapeInv'
  BY <1>1, <1>2 DEF ShapeInv, BaseInv
<1>4. /\ work'.objs = work.objs \cup {s} /\ work'.rows = work.rows
      /\ work'.values = work.values \cup {s}
      /\ work'.spoilt = work.spoilt \cup ({s} \ work.objs)
  BY <1>1, SetValueParts DEF TypeOK
<1>5. /\ \A o \in Object : First(o) # r
      /\ Record("header", 0, 0) # r
      /\ \A p : Record("setval", p, 0) = r => p = s
      /\ \A t, n : Record("table", t, n) # r
  BY RecordsEqual, FirstFacts
<1>6. \A q : q # r => (q \in left' <=> q \in left)
  BY <1>1
<1>9. First(s) \notin left
  <2>1. GroupOf(s) = "sequence"
    BY GroupFacts DEF Of
  <2>2. Before(First(s), r)
    BY <2>1, RecordsEqual DEF Before, First, Place
  <2> QED BY <1>1, <2>2 DEF Read, Earliest
<1> HIDE DEF r
<1>7. ObjectsInv'
  BY <1>1, <1>2, <1>4, <1>5, <1>6, ObjectsMore
<1>8. RowsInv'
  <2>1. \A t \in Table : First(t) \in left => First(t) \in left'
    BY <1>5, <1>6 DEF Table, Of
  <2> QED BY <1>1, <1>2, <1>4, <1>5, <1>6, <2>1, RowsSame
<1>10. SpoiltInv'
  <2>1. {s} \in SUBSET Of("sequence") /\ {s} \subseteq work'.objs /\ s \notin Table
    BY <1>4 DEF Of, Table
  <2>2. \A o \in Object : First(o) \in left => First(o) \in left'
    BY <1>5, <1>6
  <2>3. /\ \A t \in Table : First(t) \in left => First(t) \in left'
        /\ \A p \in Of("sequence") : First(p) \in left => First(p) \in left'
    BY <2>2 DEF Table, Of
  <2>4. \A t \in Table : t \in work'.objs => t \in work.objs
    BY <1>4, <2>1
  <2> QED BY <1>1, <1>2, <1>4, <1>9, <2>1, <2>3, <2>4, SpoiltPlain
<1> QED BY <1>1, <1>2, <1>3, <1>7, <1>8, <1>10, ReadInOrder DEF Progress

\* A commit makes what the session sees what everybody sees.
LEMMA ProgressCommit ==
  ASSUME TypeOK, Progress, Commit
  PROVE  Progress'
<1>1. BaseInv /\ InOrder /\ ShapeInv /\ ObjectsInv /\ RowsInv /\ SpoiltInv /\ main = "commit"
  BY DEF Progress, GoesOn, Commit
<1>2. work' = work
  BY <1>1 DEF Commit, ShapeInv, BaseInv, TypeOK
<1>3. BaseInv' /\ ShapeInv'
  BY <1>1 DEF Commit, BaseInv, ShapeInv
<1>4. ObjectsInv' /\ RowsInv' /\ SpoiltInv'
  BY <1>1, <1>2, ObjectsMore, RowsSame, SpoiltSame DEF Commit
<1> QED BY <1>1, <1>3, <1>4, SameOrder DEF Commit, Progress

\* The start of a session.
LEMMA ProgressBegin ==
  ASSUME Progress, Begin
  PROVE  Progress'
<1>1. BaseInv /\ InOrder /\ ShapeInv /\ ObjectsInv /\ RowsInv /\ SpoiltInv /\ main = "begin"
  BY DEF Progress, GoesOn, Begin
<1>2. BaseInv' /\ ShapeInv'
  BY <1>1 DEF Begin, BeginMode, BaseInv, ShapeInv
<1>3. ObjectsInv' /\ RowsInv' /\ SpoiltInv'
  BY <1>1, ObjectsMore, RowsSame, SpoiltSame DEF Begin
<1> QED BY <1>1, <1>2, <1>3, SameOrder DEF Begin, Progress

\* Every step keeps the invariant.
LEMMA ProgressStep ==
  ASSUME TypesFirst, TypeOK, Progress, [Next]_vars
  PROVE  Progress'
<1>1. CASE Deliver \/ DownloadDone \/ DownloadFails \/ UNCHANGED vars
  BY <1>1, ProgressAside DEF Deliver, DownloadDone, DownloadFails, vars
<1>2. CASE Begin
  BY <1>2, ProgressBegin
<1>3. CASE Header
  <2> DEFINE r == Record("header", 0, 0)
  <2>1. /\ main = "read" /\ main' = "read" /\ Read(r) /\ left' = left \ {r}
        /\ cmd.engine = "postgresql" /\ UNCHANGED <<cmd, current, session>>
    BY <1>3 DEF Header, Read
  <2>2. BaseInv /\ InOrder /\ ShapeInv /\ ObjectsInv /\ RowsInv /\ SpoiltInv
    BY <2>1 DEF Progress, GoesOn
  <2>3. BaseInv' /\ ShapeInv'
    BY <2>1, <2>2 DEF BaseInv, ShapeInv, session
  <2>4. \A q : q # r => (q \in left' <=> q \in left)
    BY <2>1
  <2>5. /\ \A o \in Object : First(o) # r
        /\ \A p : Record("setval", p, 0) # r
        /\ \A t, n : Record("table", t, n) # r
    BY RecordsEqual, FirstFacts
  <2>6. ObjectsInv'
    BY <2>1, <2>2, <2>4, <2>5, ObjectsMore DEF session
  <2>7. RowsInv'
    <3>1. \A t \in Table : First(t) \in left => First(t) \in left'
      BY <2>4, <2>5 DEF Table, Of
    <3> QED BY <2>1, <2>2, <2>4, <2>5, <3>1, RowsSame DEF session
  <2>8. SpoiltInv'
    <3>1. \A o \in Object : First(o) \in left => First(o) \in left'
      BY <2>4, <2>5
    <3> QED BY <2>1, <2>2, <3>1, SpoiltSame DEF session, Table, Of
  <2> HIDE DEF r
  <2> QED BY <2>1, <2>2, <2>3, <2>6, <2>7, <2>8, ReadInOrder DEF Progress
<1>4. ASSUME NEW o \in Object \ Table, CreateObject(o) PROVE Progress'
  BY <1>4, ProgressCreate
<1>5. ASSUME NEW t \in Table, DropExisting(t) PROVE Progress'
  <2>1. /\ main = "read" /\ Read(First(t)) /\ main' = "create" /\ current' = {t}
        /\ sink' = sink /\ fed' = fed
        /\ Execute(IF cmd.drop THEN DropTable(work, t) ELSE work)
    BY <1>5, FirstFacts DEF DropExisting, Read
  <2>2. BaseInv
    BY DEF Progress
  <2>3. /\ BaseInv' /\ cmd' = cmd /\ tx' # "aborted" /\ undropped' = undropped
        /\ work' = IF cmd.drop THEN DropTable(work, t) ELSE work
    BY <2>1, <2>2, ExecuteBase
  <2> QED BY <2>1, <2>3, ProgressTable
<1>6. ASSUME NEW t \in Table, DropFails(t) PROVE Progress'
  <2>1. /\ Read(First(t)) /\ main' = "create" /\ current' = {t} /\ cmd' = cmd
        /\ sink' = sink /\ fed' = fed /\ work' = work /\ base' = base
        /\ undropped' = undropped \cup {t} /\ undropped' # {}
        /\ tx' = "auto" => tx = "auto"
    BY <1>6, FirstFacts DEF DropFails
  <2>2. BaseInv'
    BY <2>1 DEF Progress, BaseInv
  <2> QED BY <2>1, <2>2, ProgressTable
<1>7. ASSUME NEW t \in Table, CreateTable(t) PROVE Progress'
  BY <1>7, ProgressCreateTable
<1>8. ASSUME NEW t \in Table, NEW n \in 1..Slices[t], Slice(t, n) PROVE Progress'
  BY <1>8, ProgressSlice
<1>9. ASSUME NEW t \in Table, LastSlice(t) PROVE Progress'
  <2>1. Record("table", t, Slices[t] + 1) \in Records
    BY <1>9 DEF LastSlice, Read, TypeOK
  <2> QED BY <1>9, <2>1, ProgressFinish DEF LastSlice, Read
<1>10. ASSUME NEW s \in Of("sequence"), SetSequence(s) PROVE Progress'
  BY <1>10, ProgressSequence
<1>11. CASE Trailer
  <2>1. Record("trailer", 0, 0) \in Records
    BY <1>11 DEF Trailer, Read, TypeOK
  <2> QED BY <1>11, <2>1, ProgressFinish DEF Trailer
<1>12. CASE RefuseRecord \/ RefuseTable \/ EndOfStream
  BY <1>12, ProgressFail DEF RefuseRecord, RefuseTable, EndOfStream, GiveUp, Fail, session
<1>13. CASE Commit
  BY <1>13, ProgressCommit
<1>14. CASE Join \/ Release
  BY <1>14, ProgressAside DEF Join, Release
<1>15. CASE Abort
  BY <1>15, ProgressFail DEF Abort, Fail
<1> QED
  BY <1>1, <1>2, <1>3, <1>4, <1>5, <1>6, <1>7, <1>8, <1>9, <1>10, <1>11, <1>12, <1>13,
     <1>14, <1>15
  DEF Next, Session, Download

(***************************************************************************)
(* At first nothing was read, and what the target has is what it had.      *)
(***************************************************************************)
LEMMA ProgressInit == Init => Progress
<1> SUFFICES ASSUME Init PROVE Progress
  OBVIOUS
<1>1. BaseInv /\ InOrder
  BY DEF Init, BaseInv, InOrder
<1>2. ShapeInv
  BY DEF Init, ShapeInv
<1>3. ObjectsInv
  <2>1. Record("header", 0, 0) \in Records
    BY DEF Records
  <2>2. \A s \in Of("sequence") : Record("setval", s, 0) \in Records
    BY DEF Records
  <2> QED BY <2>1, <2>2, GroupFacts DEF Init, ObjectsInv
<1>4. RowsInv
  <2> SUFFICES ASSUME NEW t \in Table
               PROVE  /\ (work.rows[t] \ {0}) \cup (IF sink = {t} THEN fed ELSE {})
                           = SlicesRead(t)
                      /\ 0 \in work.rows[t] => t \in work.objs /\ First(t) \in left
    BY DEF RowsInv
  <2>1. \A n \in 1..Slices[t] : Record("table", t, n) \in Records
    <3> TAKE n \in 1..Slices[t]
    <3>1. n \in 0..Slices[t] + 1
      BY RestoreAssumption DEF RestoreAssumption
    <3>2. Record("table", t, n) \in TableRecords(t)
      BY <3>1 DEF TableRecords
    <3> QED BY <3>2 DEF Records
  <2>2. SlicesRead(t) = {}
    BY <2>1 DEF Init, SlicesRead
  <2>3. First(t) \in left
    BY GroupFacts DEF Init, Table, Of
  <2> QED BY <2>2, <2>3 DEF Init, Existing
<1>5. SpoiltInv
  <2>1. \A s \in Of("sequence") : First(s) \in left
    BY GroupFacts DEF Init, Of
  <2> QED BY <2>1 DEF Init, Existing, SpoiltInv
<1> QED BY <1>1, <1>2, <1>3, <1>4, <1>5 DEF Progress

\* Once all records were read, what was read is everything.
LEMMA ProgressEnd ==
  ASSUME TypeOK, Progress, CommitAtEnd
  PROVE  Complete
<1> SUFFICES ASSUME main = "ok" PROVE Complete
  BY DEF Complete
<1>1. BaseInv /\ ShapeInv /\ ObjectsInv /\ RowsInv /\ SpoiltInv /\ left = {}
  BY DEF Progress, GoesOn, CommitAtEnd
<1>2. current = {} /\ sink = {}
  BY <1>1 DEF ShapeInv
<1>3. cmd.engine = "postgresql" /\ work.objs = Object /\ work.values = Of("sequence")
  BY <1>1, <1>2 DEF ObjectsInv, TypeOK, Database, Of
<1>4. \A t \in Table : SlicesRead(t) = 1..Slices[t] /\ sink # {t}
  BY <1>1, <1>2 DEF SlicesRead
<1>5. \A t \in Table : /\ work.rows[t] \ {0} = 1..Slices[t]
                       /\ 0 \in work.rows[t] => ~cmd.drop \/ t \in undropped
  BY <1>1, <1>4 DEF RowsInv
<1>6. base = work
  BY <1>1 DEF BaseInv, ShapeInv
<1>7. work.spoilt \subseteq Spoils \cup undropped
  BY <1>1 DEF SpoiltInv
<1> QED BY <1>3, <1>5, <1>6, <1>7 DEF Complete

(***************************************************************************)
(* A restore that reports success has restored every object, row and value *)
(* of a sequence, whatever was dropped, failed to be dropped or went with  *)
(* another table on the way, and has spoilt nothing but what Spoils names. *)
(***************************************************************************)
THEOREM RestoreComplete ==
  ASSUME TypesFirst
  PROVE  Spec => []Complete
<1>1. Init => Progress
  BY ProgressInit
<1>2. TypeOK /\ Progress /\ [Next]_vars => Progress'
  BY ProgressStep
<1>3. Init => Atomic
  BY DEF Init, Atomic, InTransaction, CommitAtEnd, AllOrNothing, Existing
<1>4. TypeOK /\ Atomic /\ [Next]_vars => Atomic'
  BY AtomicStep
<1>5. TypeOK /\ Progress /\ Atomic => Complete
  BY ProgressEnd DEF Atomic
<1> QED BY <1>1, <1>2, <1>3, <1>4, <1>5, TypeCorrect, PTL DEF Spec

(***************************************************************************)
(* What a record cannot create again will go before that record is read.   *)
(***************************************************************************)
RemoveInv ==
  GoesOn /\ undropped = {} /\ (cmd.target # {} => cmd.drop) =>
    \A o \in work.objs :
      Kind[o] \notin Repeatable /\ First(o) \in left =>
        cmd.drop /\ \E t \in Table \cap work.objs : First(t) \in left /\ o \in Gone[t]

\* The first of a set of names exists.
LEMMA MinIs ==
  ASSUME NEW S \in SUBSET Nat, S # {}
  PROVE  Min(S) \in S
<1>1. PICK m \in S : \A n \in S : ~ (<<n, m>> \in OpToRel(<, Nat))
  BY NatLessThanWellFounded, WFMin
<1>2. \A n \in S : n \in Nat /\ m \in Nat /\ ~ (n < m)
  BY <1>1 DEF OpToRel
<1>3. \A n \in S : m <= n
  BY <1>2
<1> QED BY <1>3 DEF Min

\* The view that comes next needs none of those that are still to come.
LEMMA NextViewReady ==
  ASSUME Suited, NEW V \in SUBSET {o \in Object : GroupOf(o) = "view"}, V # {}
  PROVE  NextView(V) \in V /\ Needs[NextView(V)] \cap V = {}
<1> DEFINE ready == {v \in V : Needs[v] \cap V = {}}
<1>1. ready # {}
  BY DEF Suited
<1>2. ready \in SUBSET Nat
  BY RestoreAssumption DEF RestoreAssumption
<1>3. Min(ready) \in ready
  BY <1>1, <1>2, MinIs
<1>4. NextView(V) = Min(ready)
  BY <1>1 DEF NextView
<1> QED BY <1>3, <1>4

\* A record of another kind is the one that creates an object.
LEMMA RecordOfObject ==
  ASSUME NEW r \in Records, r.group \notin {"header", "trailer", "setval", "table"}
  PROVE  \E o \in Object \ Table : r = First(o) /\ r.obj = o /\ r.group = GroupOf(o)
<1>1. r # Record("header", 0, 0) /\ r # Record("trailer", 0, 0)
  BY RecordsEqual
<1>2. \A s \in Of("sequence") : r # Record("setval", s, 0)
  BY RecordsEqual
<1>3. \A t \in Table : r \notin TableRecords(t)
  BY RecordsEqual DEF TableRecords
<1>4. \E o \in Object \ Table : r = Record(GroupOf(o), o, 0)
  BY <1>1, <1>2, <1>3 DEF Records
<1> QED BY <1>4, RecordsEqual DEF First

\* In a suitable order, no extension, schema or type needs any other kind.
LEMMA SuitedTypes == Suited => TypesFirst
<1> SUFFICES ASSUME Suited, NEW o \in Object, Kind[o] \in Early, NEW p \in Needs[o]
             PROVE  Kind[p] \in Early
  BY DEF TypesFirst
<1>1. p \in Object
  BY RestoreAssumption DEF RestoreAssumption
<1>2. GroupOf(o) \in Early /\ GroupOf(p) \in Groups
  BY <1>1, GroupFacts
<1>3. Before(First(p), First(o))
  BY <1>2 DEF Suited, Early
<1>4. Place[GroupOf(p)] < Place[GroupOf(o)] \/ GroupOf(p) = GroupOf(o)
  BY <1>3, RecordsEqual DEF Before, First
<1>5. GroupOf(p) \in Early
  BY <1>2, <1>4 DEF Place, Early, Groups
<1> QED BY <1>1, <1>5, GroupFacts

-----------------------------------------------------------------------------
\* A step that neither brings what cannot be created again nor drops a table.
LEMMA RemoveKept ==
  ASSUME RemoveInv, cmd' = cmd, GoesOn' => GoesOn, undropped \subseteq undropped',
         \A o \in work'.objs :
           Kind[o] \notin Repeatable /\ First(o) \in left' =>
             o \in work.objs /\ First(o) \in left,
         work.objs \subseteq work'.objs,
         \A t \in Table : First(t) \in left => First(t) \in left'
  PROVE  RemoveInv'
<1> SUFFICES ASSUME GoesOn, undropped = {}, cmd.target # {} => cmd.drop,
                    NEW o \in work'.objs, Kind[o] \notin Repeatable, First(o) \in left'
             PROVE  /\ cmd.drop
                    /\ \E t \in Table \cap work'.objs : First(t) \in left' /\ o \in Gone[t]
  BY DEF RemoveInv
<1>1. PICK t \in Table \cap work.objs : First(t) \in left /\ o \in Gone[t] /\ cmd.drop
  BY DEF RemoveInv
<1> QED BY <1>1

\* Every step keeps RemoveInv: what is to go goes with its table.
LEMMA RemoveStep ==
  ASSUME Suited, TypeOK, Progress, RemoveInv, [Next]_vars
  PROVE  RemoveInv'
<1> USE DEF session, pipe
<1>0. /\ \A o \in Object : First(o) = Record(GroupOf(o), o, 0)
      /\ \A t \in Table : t \in Object /\ Kind[t] \in Repeatable
      /\ \A s \in Of("sequence") : s \in Object /\ Kind[s] \in Repeatable
  BY DEF First, Table, Of, Repeatable
<1>1. CASE Deliver \/ DownloadDone \/ DownloadFails \/ UNCHANGED vars
  BY <1>1, RemoveKept DEF Deliver, DownloadDone, DownloadFails, vars, GoesOn
<1>2. CASE Begin
  BY <1>2, RemoveKept DEF Begin, GoesOn
<1>3. CASE Header
  <2>1. /\ left' = left \ {Record("header", 0, 0)}
        /\ UNCHANGED <<cmd, main, work, undropped>>
    BY <1>3 DEF Header, Read
  <2>2. \A t \in Table : First(t) \in left => First(t) \in left'
    BY <1>0, <2>1, FirstFacts
  <2> QED BY <2>1, <2>2, RemoveKept DEF GoesOn
<1>4. ASSUME NEW o \in Object \ Table, CreateObject(o) PROVE RemoveInv'
  <2>1. /\ left' = left \ {First(o)} /\ main' = main
        /\ Execute(Create(work, {o}))
    BY <1>4 DEF CreateObject, Read, First
  <2>2. /\ cmd' = cmd /\ undropped' = undropped
        /\ work'.objs = work.objs \cup {o}
    BY <2>1, CreateParts DEF Execute, TypeOK
  <2>3. \A t \in Table : First(t) \in left => First(t) \in left'
    BY <1>0, <2>1, FirstFacts
  <2> QED BY <2>1, <2>2, <2>3, RemoveKept DEF GoesOn
<1>5. ASSUME NEW t \in Table, DropExisting(t) PROVE RemoveInv'
  <2>1. /\ main = "read" /\ left' = left \ {First(t)}
        /\ cmd' = cmd /\ undropped' = undropped
        /\ work' = IF cmd.drop THEN DropTable(work, t) ELSE work
    BY <1>5, FirstFacts DEF DropExisting, Read, Execute
  <2> SUFFICES ASSUME undropped = {}, cmd.target # {} => cmd.drop,
                      NEW o \in work'.objs, Kind[o] \notin Repeatable, First(o) \in left'
               PROVE  /\ cmd.drop
                      /\ \E u \in Table \cap work'.objs : First(u) \in left' /\ o \in Gone[u]
    BY <2>1 DEF RemoveInv
  <2>2. /\ o \in work.objs /\ First(o) \in left
        /\ t \in work.objs /\ cmd.drop => o \notin Gone[t]
    BY <2>1, DropParts DEF TypeOK
  <2>3. PICK u \in Table \cap work.objs : First(u) \in left /\ o \in Gone[u] /\ cmd.drop
    BY <2>1, <2>2 DEF RemoveInv, GoesOn
  <2>4. u # t /\ u \notin Gone[t]
    BY <2>2, <2>3, GoneOthers
  <2>5. u \in work'.objs
    BY <2>1, <2>3, <2>4, DropParts DEF TypeOK
  <2>6. First(u) \in left'
    BY <1>0, <2>1, <2>3, <2>4, FirstFacts
  <2> QED BY <2>3, <2>5, <2>6
<1>6. ASSUME NEW t \in Table, DropFails(t) PROVE RemoveInv'
  <2>1. undropped' # {}
    BY <1>6 DEF DropFails
  <2> QED BY <2>1 DEF RemoveInv
<1>7. ASSUME NEW t \in Table, CreateTable(t) PROVE RemoveInv'
  <2>1. /\ main = "create" /\ main' = "read" /\ left' = left
        /\ cmd' = cmd /\ undropped' = undropped
        /\ work' = Create(PreCreated(t), {t})
    BY <1>7 DEF CreateTable, Execute
  <2>2. Defaults(t) \in SUBSET Of("sequence") /\ Of("sequence") \in SUBSET Object
    BY DEF Defaults, Of
  <2>3. PreCreated(t) \in Database
    BY <2>2, CreatePlainType DEF PreCreated, TypeOK
  <2>4. work'.objs = work.objs \cup Defaults(t) \cup {t}
    BY <1>0, <2>1, <2>2, <2>3, CreateParts, CreatePlainParts DEF PreCreated, TypeOK
  <2>5. \A o \in work'.objs : Kind[o] \notin Repeatable => o \in work.objs
    BY <1>0, <2>2, <2>4
  <2> QED BY <2>1, <2>4, <2>5, RemoveKept DEF GoesOn
<1>8. ASSUME NEW t \in Table, NEW n \in 1..Slices[t] + 1, Read(Record("table", t, n)),
             main' = main, cmd' = cmd, undropped' = undropped,
             work'.objs = work.objs
      PROVE  RemoveInv'
  <2>1. left' = left \ {Record("table", t, n)} /\ n # 0
    BY <1>8, RestoreAssumption DEF Read, RestoreAssumption
  <2>2. \A u \in Table : First(u) \in left => First(u) \in left'
    BY <1>0, <2>1, FirstFacts
  <2> QED BY <1>8, <2>1, <2>2, RemoveKept DEF GoesOn
<1>9. ASSUME main = "read" PROVE Copied.objs = work.objs
  BY <1>9, CopiedParts DEF Progress, GoesOn
<1>10. ASSUME NEW t \in Table, NEW n \in 1..Slices[t], Slice(t, n) PROVE RemoveInv'
  <2>1. n \in 1..Slices[t] + 1
    BY RestoreAssumption DEF RestoreAssumption
  <2>2. /\ Read(Record("table", t, n)) /\ main = "read" /\ main' = main
        /\ cmd' = cmd /\ undropped' = undropped
        /\ work' = IF sink = {t} THEN work ELSE Copied
    BY <1>10 DEF Slice, Read, Execute
  <2> QED BY <1>8, <1>9, <2>1, <2>2
<1>11. ASSUME NEW t \in Table, LastSlice(t) PROVE RemoveInv'
  <2>1. Slices[t] + 1 \in 1..Slices[t] + 1
    BY RestoreAssumption DEF RestoreAssumption
  <2>2. /\ Read(Record("table", t, Slices[t] + 1)) /\ main = "read" /\ main' = main
        /\ cmd' = cmd /\ undropped' = undropped /\ work' = Copied
    BY <1>11 DEF LastSlice, Read, Execute
  <2> QED BY <1>8, <1>9, <2>1, <2>2
<1>12. ASSUME NEW s \in Of("sequence"), SetSequence(s) PROVE RemoveInv'
  <2>1. /\ left' = left \ {Record("setval", s, 0)} /\ main' = main
        /\ cmd' = cmd /\ undropped' = undropped /\ work' = SetValue(work, s)
    BY <1>12 DEF SetSequence, Read
  <2>2. work'.objs = work.objs \cup {s}
    BY <2>1, SetValueParts DEF TypeOK
  <2>3. \A t \in Table : First(t) \in left => First(t) \in left'
    BY <1>0, <2>1, FirstFacts
  <2> QED BY <1>0, <2>1, <2>2, <2>3, RemoveKept DEF GoesOn
<1>13. CASE Trailer
  <2>1. /\ main = "read" /\ left' = left \ {Record("trailer", 0, 0)}
        /\ cmd' = cmd /\ undropped' = undropped /\ work' = Copied
    BY <1>13 DEF Trailer, Read, Execute
  <2>2. \A t \in Table : First(t) \in left => First(t) \in left'
    BY <1>0, <2>1, FirstFacts
  <2> QED BY <1>9, <2>1, <2>2, RemoveKept DEF GoesOn
<1>14. CASE RefuseRecord \/ RefuseTable \/ EndOfStream \/ Abort
  <2>1. main' \in {"failed", "refused", "rollback"}
    BY <1>14 DEF RefuseRecord, RefuseTable, EndOfStream, Abort, GiveUp, Fail
  <2> QED BY <2>1 DEF RemoveInv, GoesOn
<1>15. CASE Commit
  <2>1. work' = work
    BY <1>15 DEF Commit, Progress, GoesOn, ShapeInv, BaseInv, TypeOK
  <2> QED BY <1>15, <2>1, RemoveKept DEF Commit, GoesOn
<1>16. CASE Join \/ Release
  BY <1>16, RemoveKept DEF Join, Release, GoesOn
<1> QED
  BY <1>1, <1>2, <1>3, <1>4, <1>5, <1>6, <1>7, <1>10, <1>11, <1>12, <1>13, <1>14, <1>15,
     <1>16
  DEF Next, Session, Download

-----------------------------------------------------------------------------
\* Whatever comes before a table, and is no sequence, was created.
LEMMA TableNotRefused ==
  ASSUME Suited, TypeOK, Progress, main = "create", NEW t \in current, undropped = {}
  PROVE  tx # "aborted" /\ CanCreate(PreCreated(t), t)
<1>1. InOrder /\ ShapeInv /\ ObjectsInv
  BY DEF Progress, GoesOn
<1>2. t \in Table /\ current = {t} /\ First(t) \notin left /\ tx # "aborted"
  BY <1>1 DEF ShapeInv, TypeOK
<1>3. t \in Object /\ Kind[t] \in Repeatable /\ GroupOf(t) = "table"
  BY <1>2, GroupFacts DEF Table, Of, Repeatable
<1>4. First(t) \in Records \ left
  BY <1>2, <1>3, GroupFacts
<1>5. PreCreated(t).objs = work.objs \cup Defaults(t)
  <2>1. Defaults(t) \in SUBSET Object
    BY DEF Defaults, Of
  <2> QED BY <2>1, CreatePlainParts DEF PreCreated, TypeOK
<1>6. ASSUME NEW p \in Needs[t], p \notin Of("sequence") PROVE p \in work.objs
  <2>1. p \in Object
    BY <1>3, RestoreAssumption DEF RestoreAssumption
  <2>2. Before(First(p), First(t))
    BY <1>3 DEF Suited
  <2>3. First(p) \notin left
    BY <1>1, <1>4, <2>2 DEF InOrder
  <2>4. p # t
    BY <1>3, <2>1, <2>2, RestoreAssumption, RecordsEqual
       DEF Before, First, Place, RestoreAssumption
  <2> QED BY <1>1, <1>2, <1>6, <2>1, <2>3, <2>4 DEF ObjectsInv
<1>7. Needs[t] \subseteq PreCreated(t).objs
  BY <1>5, <1>6 DEF Defaults
<1> QED BY <1>2, <1>3, <1>7 DEF CanCreate

\* So was whatever comes before any other object, and views before their users.
LEMMA ObjectNotRefused ==
  ASSUME Suited, TypeOK, Progress, RemoveInv, main = "read", undropped = {},
         cmd.target # {} => cmd.drop,
         NEW o \in Object \ Table, First(o) \in left, Earliest(First(o))
  PROVE  CanCreate(work, o)
<1>1. InOrder /\ ShapeInv /\ ObjectsInv /\ GoesOn
  BY DEF Progress, GoesOn
<1>2. current = {}
  BY <1>1 DEF ShapeInv
<1>3. \A q \in left : ~Before(q, First(o))
  BY DEF Earliest
<1>4. /\ GroupOf(o) \in Groups \ {"table"}
      /\ First(o).group = GroupOf(o) /\ First(o).obj = o
  BY GroupFacts, RecordsEqual DEF First
<1>5. ASSUME o \in work.objs PROVE Kind[o] \in Repeatable
  <2> SUFFICES ASSUME Kind[o] \notin Repeatable PROVE FALSE
    OBVIOUS
  <2>1. PICK t \in Table \cap work.objs : First(t) \in left /\ o \in Gone[t]
    BY <1>1, <1>5 DEF RemoveInv
  <2>2. Kind[o] \notin Early
    BY <2>1, GoneOthers, SuitedTypes
  <2>3. GroupOf(o) \notin Early \cup {"sequence"}
    BY <2>2, GroupFacts DEF Repeatable, Of
  <2>4. Place["table"] < Place[GroupOf(o)]
    BY <1>4, <2>3 DEF Place, Groups, Early
  <2>5. First(t).group = "table"
    BY <2>1, FirstFacts, RecordsEqual
  <2> QED BY <1>3, <1>4, <2>1, <2>4, <2>5 DEF Before
<1>6. ASSUME NEW p \in Needs[o] PROVE p \in work.objs
  <2>1. p \in Object
    BY RestoreAssumption DEF RestoreAssumption
  <2>2. CASE Before(First(p), First(o))
    <3>1. First(p) \notin left
      BY <1>3, <2>2
    <3>2. CASE p \notin Of("sequence")
      BY <1>1, <1>2, <2>1, <3>1, <3>2 DEF ObjectsInv
    <3>3. CASE p \in Of("sequence")
      <4>1. GroupOf(o) # "sequence" /\ GroupOf(p) = "sequence"
        BY <2>1, <3>3, GroupFacts DEF Suited, Of
      <4>2. Place["sequence"] < Place[GroupOf(o)]
        BY <1>4, <2>2, <4>1, RecordsEqual DEF Before, First
      <4>3. Place["setval"] < Place[GroupOf(o)]
        BY <1>4, <4>1, <4>2 DEF Place, Groups
      <4>4. Record("setval", p, 0) \notin left
        BY <1>3, <1>4, <4>3, RecordsEqual DEF Before
      <4> QED BY <1>1, <3>3, <4>4 DEF ObjectsInv
    <3> QED BY <3>2, <3>3
  <2>3. CASE ~Before(First(p), First(o))
    <3> DEFINE V == {q.obj : q \in {q \in left : q.group = "view"}}
    <3>1. GroupOf(p) = "view" /\ GroupOf(o) = "view"
      BY <2>3 DEF Suited
    <3>2. o = NextView(V)
      BY <1>4, <3>1 DEF Earliest
    <3>3. V \in SUBSET {q \in Object : GroupOf(q) = "view"}
      <4> SUFFICES ASSUME NEW r \in left, r.group = "view"
                   PROVE  r.obj \in Object /\ GroupOf(r.obj) = "view"
        OBVIOUS
      <4>1. r \in Records
        BY DEF TypeOK
      <4> QED BY <4>1, RecordOfObject
    <3>4. o \in V
      BY <1>4, <3>1
    <3> HIDE DEF V
    <3>5. Needs[o] \cap V = {}
      BY <3>2, <3>3, <3>4, NextViewReady
    <3>6. First(p) \notin left
      <4> SUFFICES ASSUME First(p) \in left PROVE FALSE
        OBVIOUS
      <4>1. First(p).group = "view" /\ First(p).obj = p
        BY <3>1, RecordsEqual DEF First
      <4>2. p \in V
        BY <4>1 DEF V
      <4> QED BY <3>5, <4>2
    <3>7. p \notin Of("sequence")
      BY <2>1, <3>1, GroupFacts
    <3> QED BY <1>1, <1>2, <2>1, <3>6, <3>7 DEF ObjectsInv
  <2> QED BY <2>2, <2>3
<1> QED BY <1>5, <1>6 DEF CanCreate

\* A step that refuses has one of the reasons that NothingRefused names.
LEMMA RefusedStep ==
  ASSUME Suited, TypeOK, Progress, RemoveInv, NothingRefused, [Next]_vars
  PROVE  NothingRefused'
<1> USE DEF session, pipe
<1>1. cmd' = cmd /\ undropped \subseteq undropped'
  BY DEF Next, Session, Download, vars, Deliver, DownloadDone, DownloadFails, Begin, Header,
         CreateObject, DropExisting, DropFails, CreateTable, Slice, LastSlice, SetSequence,
         Trailer, RefuseRecord, RefuseTable, EndOfStream, Commit, Join, Release, Abort,
         Execute, GiveUp, Fail
<1>2. main' = "refused" => main = "refused" \/ RefuseRecord \/ RefuseTable
  BY DEF Next, Session, Download, vars, Deliver, DownloadDone, DownloadFails, Begin, Header,
         CreateObject, DropExisting, DropFails, CreateTable, Slice, LastSlice, SetSequence,
         Trailer, EndOfStream, Commit, Join, Release, Abort, GiveUp, Fail
<1>3. CASE main' # "refused"
  BY <1>3 DEF NothingRefused
<1>4. CASE main = "refused"
  BY <1>1, <1>4 DEF NothingRefused
<1>5. CASE RefuseRecord
  <2> SUFFICES ASSUME cmd.engine = "postgresql", cmd.target # {} => cmd.drop, undropped = {}
               PROVE  FALSE
    BY <1>1 DEF NothingRefused
  <2>1. PICK r \in left :
          /\ main = "read" /\ Earliest(r)
          /\ r.group \notin {"header", "trailer", "setval", "table"}
          /\ ~CanCreate(work, r.obj)
    BY <1>5 DEF RefuseRecord
  <2>2. PICK o \in Object \ Table : r = First(o) /\ r.obj = o
    BY <2>1, RecordOfObject DEF TypeOK
  <2> QED BY <2>1, <2>2, ObjectNotRefused
<1>6. CASE RefuseTable
  <2> SUFFICES ASSUME undropped = {} PROVE FALSE
    BY <1>1 DEF NothingRefused
  <2>1. /\ main = "create"
        /\ tx = "aborted" \/ \E t \in current : ~CanCreate(PreCreated(t), t)
    BY <1>6 DEF RefuseTable
  <2>2. current # {}
    BY <2>1 DEF Progress, GoesOn, ShapeInv
  <2> QED BY <2>1, <2>2, TableNotRefused
<1> QED BY <1>2, <1>3, <1>4, <1>5, <1>6

(***************************************************************************)
(* A dump whose order suits its dependencies is restored without refusal,  *)
(* into nothing or, with --drop-existing, into an older state whose        *)
(* unrepeatable objects all hang on a table, unless a DROP failed.         *)
(***************************************************************************)
THEOREM RestoreUnrefused ==
  ASSUME Suited, Removable
  PROVE  Spec => []NothingRefused
<1>1. Init => Progress
  BY ProgressInit
<1>2. TypeOK /\ Progress /\ [Next]_vars => Progress'
  BY ProgressStep, SuitedTypes
<1>3. Init => RemoveInv /\ NothingRefused
  <2> SUFFICES ASSUME Init PROVE RemoveInv
    BY DEF Init, NothingRefused
  <2> SUFFICES ASSUME cmd.target # {} => cmd.drop, NEW o \in work.objs,
                      Kind[o] \notin Repeatable
               PROVE  /\ cmd.drop
                      /\ \E t \in Table \cap work.objs : First(t) \in left /\ o \in Gone[t]
    BY DEF RemoveInv
  <2>1. work.objs = cmd.target /\ cmd.target \in Targets /\ left = Records
    BY DEF Init, Existing
  <2>2. PICK t \in Table \cap work.objs : o \in Gone[t]
    BY <2>1 DEF Removable
  <2>3. First(t) \in left
    BY <2>1, GroupFacts DEF Table, Of
  <2> QED BY <2>1, <2>2, <2>3
<1>4. TypeOK /\ Progress /\ RemoveInv /\ NothingRefused /\ [Next]_vars
        => RemoveInv' /\ NothingRefused'
  BY RemoveStep, RefusedStep
<1> QED BY <1>1, <1>2, <1>3, <1>4, TypeCorrect, PTL DEF Spec


=============================================================================
