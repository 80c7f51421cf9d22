------------------------- MODULE MySqlAdapterProofs -------------------------
(***************************************************************************)
(* Proofs about MySqlAdapter, for any database, slices of any number of    *)
(* rows, and any transactions of the application.                          *)
(***************************************************************************)
EXTENDS MySqlAdapter, SequenceTheorems, FiniteSetTheorems, TLAPS

(***************************************************************************)
(* The stream.  Its records are sound: they name what they carry, and rows *)
(* are those of the dump's moment.  The records of a table come together,  *)
(* each object is created once, by rank, and the trailer is the last.      *)
(***************************************************************************)
Item ==
  [kind : Objects \cup {"header", "slice", "end", "trailer"},
   obj : Nat, n : Nat, version : Nat]

Creates(r) == r.kind \in Objects

Opens(r) == r.kind \in {"table", "slice"}

Continues(r) == r.kind \in {"slice", "end"}

Sound(r) ==
  /\ Creates(r) => r.obj \in Object /\ Kind[r.obj] = r.kind /\ r.n = 0
  /\ r.kind = "slice" =>
       r.obj \in Table /\ r.n \in 1 .. Slices[r.obj] /\ r.version = moment[r.obj]
  /\ r.kind = "end" => r.obj \in Table /\ r.n = Slices[r.obj] + 1

SoundStream(s) == s \in Seq(Item) /\ \A i \in 1 .. Len(s) : Sound(s[i])

Ordered(s) ==
  /\ \A i \in 1 .. Len(s) - 1 :
       /\ Opens(s[i]) <=> Continues(s[i + 1])
       /\ Opens(s[i]) => s[i + 1].obj = s[i].obj /\ s[i + 1].n = s[i].n + 1
       /\ s[i].kind # "trailer"
  /\ s # <<>> => ~ Opens(s[Len(s)])
  /\ \A i, j \in 1 .. Len(s) :
       i < j /\ Creates(s[i]) /\ Creates(s[j]) =>
         s[i].obj # s[j].obj /\ Rank[s[i].kind] <= Rank[s[j].kind]

\* What is in the stream and what is still to come are apart, and in order.
Apart(s, S) ==
  \A i \in 1 .. Len(s) :
    Creates(s[i]) => s[i].obj \notin S /\ \A q \in S : Rank[s[i].kind] <= Rank[Kind[q]]

StreamInv ==
  /\ SoundStream(stream) /\ Ordered(stream) /\ Apart(stream, todo)
  /\ pc \in {"connect", "dump"} => \A i \in 1 .. Len(stream) : stream[i].kind # "trailer"
  /\ pc = "connect" => stream = <<>>

(***************************************************************************)
(* Rows of the first n slices of t, as of the dump's moment; the types and *)
(* what holds of the rows however the restore ends.                        *)
(***************************************************************************)
RowsTo(t, n) == {Row(t, i, b, moment[t]) : i \in 1 .. n, b \in 1 .. Batches}

Created(o, s) == \E i \in 1 .. Len(s) : Creates(s[i]) /\ s[i].obj = o

\* o is still to be restored.
Waiting(o) == o \in todo \/ Created(o, stream)

AllRows == [table : Table, slice : Nat, batch : Nat, version : Nat, rest : Nat]

DomainInv ==
  /\ cmd \in [drop : BOOLEAN, target : Targets]
  /\ pc \in {"connect", "dump", "read", "create", "insert"} \cup Ended
  /\ source \in [Table -> 1 .. MaxVersion] /\ moment \in [Table -> 1 .. MaxVersion]
  /\ todo \subseteq Object /\ objs \subseteq Object /\ undropped \subseteq Object
  /\ rows \in [Table -> SUBSET AllRows]

ShapeInv ==
  \A t \in Table :
    rows[t] \subseteq {OldRow(t)} \/ \E n \in 0 .. Slices[t] : rows[t] = RowsTo(t, n)

KeptInv ==
  ~ cmd.drop =>
    \A t \in cmd.target \cap Table : Waiting(t) /\ t \in objs /\ rows[t] = {OldRow(t)}

(***************************************************************************)
(* What holds until something dies.                                        *)
(***************************************************************************)
StageInv ==
  /\ pc \in {"connect", "dump"} => \A o \in Object : Waiting(o)
  /\ pc = "dump" => stream # <<>>
  /\ pc \in {"read", "create", "insert", "refused"} =>
       stream # <<>> /\ todo = {} /\ stream[Len(stream)].kind = "trailer"
  /\ pc = "ok" => stream = <<>> /\ todo = {}
  /\ pc \in {"create", "refused"} => Creates(Current)
  /\ pc = "insert" => Current.kind = "slice"
  /\ pc = "refused" => ~ CanCreate(Current.obj)

FedInv ==
  IF pc = "insert"
    THEN /\ IsFiniteSet(fed) /\ Cardinality(fed) \in 0 .. Batches
         /\ fed = {Row(Current.obj, Current.n, b, Current.version) : b \in 1 .. Cardinality(fed)}
    ELSE fed = {}

\* What has been restored is there, and comes first by rank.
DoneInv ==
  \A o \in Object :
    ~ Waiting(o) =>
      o \in objs /\ \A q \in Object : Waiting(q) => Rank[Kind[o]] <= Rank[Kind[q]]

\* The stream goes on within the records of t.
Within(t) == stream # <<>> /\ Continues(Current) /\ Current.obj = t

\* The slices of t, of those that were dumped, that are committed.
SlicesDone(t) == IF Within(t) THEN Current.n - 1 ELSE Slices[t]

RowsInv ==
  \A t \in Table :
    IF Waiting(t)
      THEN rows[t] \subseteq {OldRow(t)} /\ (t \notin objs => rows[t] = {}) /\ ~ Within(t)
      ELSE rows[t] = RowsTo(t, SlicesDone(t))

\* On an empty server nothing is there early; what was dropped is not there.
EarlyInv ==
  /\ cmd.target = {} => \A o \in objs : ~ Waiting(o)
  /\ pc \in {"create", "refused"} /\ cmd.drop /\ Current.obj \notin undropped =>
       Current.obj \notin objs

LiveInv ==
  pc # "failed" => StageInv /\ DoneInv /\ RowsInv /\ EarlyInv

IInv == DomainInv /\ StreamInv /\ ShapeInv /\ KeptInv /\ FedInv /\ LiveInv

-----------------------------------------------------------------------------
\* The head of a stream is its first record.
LEMMA HeadIs ==
  ASSUME NEW s \in Seq(Item), s # <<>>
  PROVE  Len(s) \in Nat \ {0} /\ Head(s) = s[1]
  BY EmptySeq

\* A stream stays in order when its head is read.
LEMMA TailOrdered ==
  ASSUME NEW s \in Seq(Item), s # <<>>, Ordered(s)
  PROVE  Ordered(Tail(s))
<1> DEFINE u == Tail(s)
<1>1. Len(s) \in Nat \ {0} /\ u \in Seq(Item) /\ Len(u) = Len(s) - 1
  BY EmptySeq, HeadTailProperties
<1>2. \A i \in 1 .. Len(u) : u[i] = s[i + 1] /\ i + 1 \in 1 .. Len(s)
  BY <1>1, HeadTailProperties
<1> HIDE DEF u
<1>3. ASSUME NEW i \in 1 .. Len(u) - 1
      PROVE  /\ Opens(u[i]) <=> Continues(u[i + 1])
             /\ Opens(u[i]) => u[i + 1].obj = u[i].obj /\ u[i + 1].n = u[i].n + 1
             /\ u[i].kind # "trailer"
  <2>1. i \in 1 .. Len(u) /\ i + 1 \in 1 .. Len(u) /\ i + 1 \in 1 .. Len(s) - 1
    BY <1>1
  <2>2. u[i] = s[i + 1] /\ u[i + 1] = s[(i + 1) + 1]
    BY <1>2, <2>1
  <2> QED BY <2>1, <2>2 DEF Ordered
<1>4. ASSUME u # <<>> PROVE ~ Opens(u[Len(u)])
  <2>1. Len(u) \in 1 .. Len(u) /\ Len(u) + 1 = Len(s)
    BY <1>1, <1>4, EmptySeq
  <2> QED BY <1>2, <2>1 DEF Ordered
<1>5. ASSUME NEW i \in 1 .. Len(u), NEW j \in 1 .. Len(u),
             i < j, Creates(u[i]), Creates(u[j])
      PROVE  u[i].obj # u[j].obj /\ Rank[u[i].kind] <= Rank[u[j].kind]
  <2>1. i + 1 \in 1 .. Len(s) /\ j + 1 \in 1 .. Len(s) /\ i + 1 < j + 1
    BY <1>1, <1>2, <1>5
  <2>2. u[i] = s[i + 1] /\ u[j] = s[j + 1]
    BY <1>2
  <2>3. Creates(s[i + 1]) /\ Creates(s[j + 1])
    BY <1>5, <2>2
  <2>4. /\ s[i + 1].obj # s[j + 1].obj
        /\ Rank[s[i + 1].kind] <= Rank[s[j + 1].kind]
    BY <2>1, <2>3 DEF Ordered
  <2> QED BY <2>2, <2>4
<1> QED BY <1>3, <1>4, <1>5 DEF Ordered, u

\* Its records remain sound, and apart from what is still to be dumped.
LEMMA TailSound ==
  ASSUME NEW s, SoundStream(s), s # <<>>, NEW S, Apart(s, S)
  PROVE  SoundStream(Tail(s)) /\ Apart(Tail(s), S)
<1>1. \A i \in 1 .. Len(Tail(s)) : Tail(s)[i] = s[i + 1] /\ i + 1 \in 1 .. Len(s)
  BY EmptySeq, HeadTailProperties DEF SoundStream
<1>2. Tail(s) \in Seq(Item)
  BY HeadTailProperties DEF SoundStream
<1> QED BY <1>1, <1>2 DEF SoundStream, Apart

\* Only what the head creates is no longer created by the rest.
LEMMA TailCreated ==
  ASSUME NEW s \in Seq(Item), s # <<>>, Ordered(s), NEW o
  PROVE  Created(o, Tail(s)) <=> Created(o, s) /\ ~ (Creates(s[1]) /\ s[1].obj = o)
<1>1. Len(s) \in Nat \ {0} /\ Len(Tail(s)) = Len(s) - 1
  BY EmptySeq, HeadTailProperties
<1>2. \A i \in 1 .. Len(Tail(s)) : Tail(s)[i] = s[i + 1] /\ i + 1 \in 1 .. Len(s) /\ 1 < i + 1
  BY <1>1, HeadTailProperties
<1>3. ASSUME Created(o, Tail(s))
      PROVE  Created(o, s) /\ ~ (Creates(s[1]) /\ s[1].obj = o)
  <2>1. PICK i \in 1 .. Len(Tail(s)) : Creates(Tail(s)[i]) /\ Tail(s)[i].obj = o
    BY <1>3 DEF Created
  <2>2. 1 \in 1 .. Len(s)
    BY <1>1
  <2> QED BY <1>2, <2>1, <2>2 DEF Created, Ordered
<1>4. ASSUME Created(o, s), ~ (Creates(s[1]) /\ s[1].obj = o)
      PROVE  Created(o, Tail(s))
  <2>1. PICK i \in 1 .. Len(s) : Creates(s[i]) /\ s[i].obj = o
    BY <1>4 DEF Created
  <2>2. i - 1 \in 1 .. Len(Tail(s)) /\ (i - 1) + 1 = i
    BY <1>1, <1>4, <2>1
  <2>3. Tail(s)[i - 1] = s[i]
    BY <1>2, <2>2
  <2> QED BY <2>1, <2>2, <2>3 DEF Created
<1> QED BY <1>3, <1>4

\* Streams that do not overlap can be joined.
LEMMA JoinOrdered ==
  ASSUME NEW s \in Seq(Item), NEW u \in Seq(Item), Ordered(s), Ordered(u),
         u # <<>>, ~ Continues(u[1]),
         \A i \in 1 .. Len(s) : s[i].kind # "trailer",
         \A i \in 1 .. Len(s), j \in 1 .. Len(u) :
           Creates(s[i]) /\ Creates(u[j]) =>
             s[i].obj # u[j].obj /\ Rank[s[i].kind] <= Rank[u[j].kind]
  PROVE  Ordered(s \o u)
<1> DEFINE v == s \o u
           m == Len(s)
<1>1. m \in Nat /\ Len(u) \in Nat \ {0} /\ Len(v) = m + Len(u) /\ v \in Seq(Item)
  BY EmptySeq, LenProperties, ConcatProperties
<1>2. /\ \A i \in 1 .. m : v[i] = s[i]
      /\ \A i \in m + 1 .. Len(v) : v[i] = u[i - m] /\ i - m \in 1 .. Len(u)
  BY <1>1, ConcatProperties
<1> HIDE DEF v, m
<1>3. ASSUME NEW i \in 1 .. Len(v) - 1
      PROVE  /\ Opens(v[i]) <=> Continues(v[i + 1])
             /\ Opens(v[i]) => v[i + 1].obj = v[i].obj /\ v[i + 1].n = v[i].n + 1
             /\ v[i].kind # "trailer"
  <2>1. CASE i < m
    <3>1. i \in 1 .. m - 1 /\ i \in 1 .. m /\ i + 1 \in 1 .. m
      BY <1>1, <2>1
    <3>2. v[i] = s[i] /\ v[i + 1] = s[i + 1]
      BY <1>2, <3>1
    <3> QED BY <3>1, <3>2 DEF Ordered, m
  <2>2. CASE i = m
    <3>1. m \in 1 .. m /\ m + 1 \in m + 1 .. Len(v) /\ (m + 1) - m = 1
      BY <1>1, <2>2
    <3>2. v[i] = s[m] /\ v[i + 1] = u[1]
      BY <1>2, <2>2, <3>1
    <3>3. s # <<>>
      BY <1>1, <2>2, EmptySeq DEF m
    <3>4. ~ Opens(s[m]) /\ s[m].kind # "trailer"
      BY <3>1, <3>3 DEF Ordered, m
    <3> QED BY <3>2, <3>4
  <2>3. CASE i > m
    <3>0. i \in Int /\ Len(v) \in Int /\ i <= Len(v) - 1
      BY <1>1
    <3>a. i \in m + 1 .. Len(v) /\ i + 1 \in m + 1 .. Len(v)
      BY <1>1, <2>3, <3>0
    <3>b. i - m \in 1 .. Len(u) - 1
      BY <1>1, <2>3, <3>0
    <3>c. (i + 1) - m = (i - m) + 1
      BY <1>1, <3>0
    <3>1. /\ i \in m + 1 .. Len(v) /\ i + 1 \in m + 1 .. Len(v)
          /\ i - m \in 1 .. Len(u) - 1 /\ (i + 1) - m = (i - m) + 1
      BY <3>a, <3>b, <3>c
    <3>2. v[i] = u[i - m] /\ v[i + 1] = u[(i - m) + 1]
      BY <1>2, <3>1
    <3> QED BY <3>1, <3>2 DEF Ordered
  <2> QED BY <1>1, <2>1, <2>2, <2>3
<1>4. ~ Opens(v[Len(v)])
  <2>1. Len(v) \in m + 1 .. Len(v) /\ Len(v) - m = Len(u)
    BY <1>1
  <2> QED BY <1>2, <2>1 DEF Ordered
<1>5. ASSUME NEW i \in 1 .. Len(v), NEW j \in 1 .. Len(v),
             i < j, Creates(v[i]), Creates(v[j])
      PROVE  v[i].obj # v[j].obj /\ Rank[v[i].kind] <= Rank[v[j].kind]
  <2>1. CASE j <= m
    <3>1. i \in 1 .. m /\ j \in 1 .. m
      BY <1>1, <1>5, <2>1
    <3> QED BY <1>2, <1>5, <3>1 DEF Ordered, m
  <2>2. CASE i <= m /\ j > m
    <3>1. i \in 1 .. m /\ j \in m + 1 .. Len(v)
      BY <1>1, <2>2
    <3> QED BY <1>2, <1>5, <3>1 DEF m
  <2>3. CASE i > m
    <3>1. i \in m + 1 .. Len(v) /\ j \in m + 1 .. Len(v) /\ i - m < j - m
      BY <1>1, <1>5, <2>3
    <3> QED BY <1>2, <1>5, <3>1 DEF Ordered
  <2> QED BY <1>1, <1>5, <2>1, <2>2, <2>3
<1> QED BY <1>3, <1>4, <1>5 DEF Ordered, v

\* The join has the records of both.
LEMMA JoinElements ==
  ASSUME NEW s \in Seq(Item), NEW u \in Seq(Item)
  PROVE  /\ s \o u \in Seq(Item)
         /\ \A i \in 1 .. Len(s \o u) :
              \/ \E j \in 1 .. Len(s) : (s \o u)[i] = s[j]
              \/ \E j \in 1 .. Len(u) : (s \o u)[i] = u[j]
         /\ \A j \in 1 .. Len(s) : \E i \in 1 .. Len(s \o u) : (s \o u)[i] = s[j]
         /\ \A j \in 1 .. Len(u) : \E i \in 1 .. Len(s \o u) : (s \o u)[i] = u[j]
<1> DEFINE v == s \o u
           m == Len(s)
<1>1. m \in Nat /\ Len(u) \in Nat /\ Len(v) = m + Len(u) /\ v \in Seq(Item)
  BY LenProperties, ConcatProperties
<1>2. /\ \A i \in 1 .. m : v[i] = s[i] /\ i \in 1 .. Len(v)
      /\ \A i \in m + 1 .. Len(v) : v[i] = u[i - m] /\ i - m \in 1 .. Len(u)
      /\ \A j \in 1 .. Len(u) : m + j \in 1 .. Len(v) /\ v[m + j] = u[j]
  BY <1>1, ConcatProperties
<1> HIDE DEF v
<1>3. ASSUME NEW i \in 1 .. Len(v)
      PROVE  (\E j \in 1 .. Len(s) : v[i] = s[j]) \/ (\E j \in 1 .. Len(u) : v[i] = u[j])
  <2>1. i \in 1 .. m \/ i \in m + 1 .. Len(v)
    BY <1>1
  <2> QED BY <1>2, <2>1
<1> QED BY <1>1, <1>2, <1>3 DEF v

-----------------------------------------------------------------------------
\* The kinds of objects, in the order of their ranks.
LEMMA Ranks ==
  /\ Rank["table"] = 1 /\ Rank["view"] = 2 /\ Rank["trigger"] = 3
  /\ Rank["procedure"] = 4 /\ Rank["function"] = 5
  /\ \A k \in Objects : Rank[k] \in 1 .. 5 /\ (Rank[k] = 1 => k = "table")
  BY DEF Rank, Objects

\* Tables have a finite number of slices, and every object has a kind.
LEMMA Schema ==
  /\ Table \subseteq Object
  /\ \A o \in Object : o \in Nat \ {0} /\ Kind[o] \in Objects
  /\ \A o \in Object : o \in Table <=> Kind[o] = "table"
  /\ \A t \in Table : Slices[t] \in Nat
  BY SchemaAssumption DEF Table, Of, Objects

\* The records of a table: one that creates it, its slices, an end.
LEMMA TableRecordsAre ==
  ASSUME NEW t \in Table, moment \in [Table -> 1 .. MaxVersion]
  PROVE  LET u == TableRecords(t)
         IN  /\ u \in Seq(Item) /\ Len(u) = Slices[t] + 2
             /\ u[1] = Record("table", t, 0, 0)
             /\ \A i \in 1 .. Slices[t] : u[i + 1] = Record("slice", t, i, moment[t])
             /\ u[Slices[t] + 2] = Record("end", t, Slices[t] + 1, 0)
<1> DEFINE head == <<Record("table", t, 0, 0)>>
           body == [n \in 1 .. Slices[t] |-> Record("slice", t, n, Visible(t))]
           end == <<Record("end", t, Slices[t] + 1, 0)>>
           k == Slices[t]
<1>1. k \in Nat /\ t \in Nat /\ moment[t] \in Nat
  BY Schema, BoundAssumption
<1>2. head \in Seq(Item) /\ Len(head) = 1 /\ head[1] = Record("table", t, 0, 0)
  BY <1>1 DEF Item, Record, Objects
<1>3. end \in Seq(Item) /\ Len(end) = 1 /\ end[1] = Record("end", t, k + 1, 0)
  BY <1>1 DEF Item, Record, Objects
<1>4. /\ body \in Seq(Item) /\ Len(body) = k
      /\ \A n \in 1 .. k : body[n] = Record("slice", t, n, moment[t])
  <2>1. body \in [1 .. k -> Item]
    BY <1>1 DEF Item, Record, Objects, Visible
  <2>2. body \in Seq(Item)
    BY <1>1, <2>1, SeqDef
  <2>3. Len(body) = k
    BY <1>1, <2>1, <2>2, LenProperties
  <2> QED BY <2>2, <2>3 DEF Visible
<1> HIDE DEF head, body, end, k
<1>5. /\ head \o body \in Seq(Item) /\ Len(head \o body) = k + 1
      /\ (head \o body)[1] = head[1]
      /\ \A n \in 1 .. k : (head \o body)[n + 1] = body[n]
  <2>1. /\ head \o body \in Seq(Item) /\ Len(head \o body) = 1 + k
        /\ \A i \in 1 .. 1 + k :
             (head \o body)[i] = IF i <= 1 THEN head[i] ELSE body[i - 1]
    <3>1. Len(head) + Len(body) = 1 + k
      BY <1>1, <1>2, <1>4
    <3>2. /\ head \o body \in Seq(Item) /\ Len(head \o body) = Len(head) + Len(body)
          /\ \A i \in 1 .. Len(head) + Len(body) :
               (head \o body)[i] = IF i <= Len(head) THEN head[i] ELSE body[i - Len(head)]
      BY <1>2, <1>4, ConcatProperties, Zenon
    <3> QED BY <1>2, <3>1, <3>2
  <2>2. 1 \in 1 .. 1 + k /\ 1 + k = k + 1
    BY <1>1
  <2>3. ASSUME NEW n \in 1 .. k PROVE (head \o body)[n + 1] = body[n]
    <3>1. n + 1 \in 1 .. 1 + k /\ ~ (n + 1 <= 1) /\ (n + 1) - 1 = n
      BY <1>1
    <3> QED BY <2>1, <3>1
  <2>4. (head \o body)[1] = head[1]
    BY <2>1, <2>2
  <2> QED BY <2>1, <2>2, <2>3, <2>4
<1> DEFINE front == head \o body
           u == front \o end
<1> HIDE DEF front
<1>6. front \in Seq(Item) /\ Len(front) = k + 1
  BY <1>5 DEF front
<1>7. /\ u \in Seq(Item) /\ Len(u) = k + 2
      /\ \A i \in 1 .. k + 1 : u[i] = front[i]
      /\ u[k + 2] = end[1]
  BY <1>1, <1>3, <1>6, ConcatProperties
<1>8. u = TableRecords(t)
  BY DEF TableRecords, front, head, body, end
<1>9. \A i \in 1 .. k : i + 1 \in 1 .. k + 1
  BY <1>1
<1>10. 1 \in 1 .. k + 1
  BY <1>1
<1> HIDE DEF u
<1> QED BY <1>2, <1>3, <1>4, <1>5, <1>7, <1>8, <1>9, <1>10 DEF front, k

\* They are sound and in order, and create the table alone.
LEMMA TableRecordsOrdered ==
  ASSUME NEW t \in Table, moment \in [Table -> 1 .. MaxVersion]
  PROVE  LET u == TableRecords(t)
         IN  /\ SoundStream(u) /\ Ordered(u) /\ u # <<>>
             /\ ~ Continues(u[1])
             /\ \A i \in 1 .. Len(u) :
                  u[i].kind # "trailer" /\ (Creates(u[i]) => i = 1 /\ u[i].obj = t)
             /\ Creates(u[1]) /\ u[1].obj = t
<1> DEFINE u == TableRecords(t)
           k == Slices[t]
<1>1. k \in Nat /\ t \in Object /\ Kind[t] = "table"
  BY Schema
<1>2. /\ u \in Seq(Item) /\ Len(u) = k + 2
      /\ u[1] = Record("table", t, 0, 0)
      /\ \A i \in 1 .. k : u[i + 1] = Record("slice", t, i, moment[t])
      /\ u[k + 2] = Record("end", t, k + 1, 0)
  BY TableRecordsAre
<1> HIDE DEF u
<1>3. \A i \in 1 .. Len(u) :
        \/ i = 1 /\ u[i] = Record("table", t, 0, 0)
        \/ i \in 2 .. k + 1 /\ u[i] = Record("slice", t, i - 1, moment[t])
        \/ i = k + 2 /\ u[i] = Record("end", t, k + 1, 0)
  <2> TAKE i \in 1 .. Len(u)
  <2>1. i = 1 \/ i \in 2 .. k + 1 \/ i = k + 2
    BY <1>1, <1>2
  <2>2. CASE i \in 2 .. k + 1
    <3>1. i - 1 \in 1 .. k /\ (i - 1) + 1 = i
      BY <1>1, <2>2
    <3>2. u[(i - 1) + 1] = Record("slice", t, i - 1, moment[t])
      BY <1>2, <3>1
    <3> QED BY <2>2, <3>1, <3>2
  <2> QED BY <1>2, <2>1, <2>2
<1>4. /\ \A i \in 1 .. Len(u) : u[i].obj = t /\ u[i].n = i - 1
      /\ \A i \in 1 .. Len(u) :
           u[i].kind = IF i = 1 THEN "table" ELSE IF i = k + 2 THEN "end" ELSE "slice"
      /\ \A i \in 2 .. k + 1 : u[i].version = moment[t]
  <2>1. ASSUME NEW i \in 1 .. Len(u)
        PROVE  /\ u[i].obj = t /\ u[i].n = i - 1
               /\ u[i].kind = IF i = 1 THEN "table" ELSE IF i = k + 2 THEN "end" ELSE "slice"
               /\ i \in 2 .. k + 1 => u[i].version = moment[t]
    <3>1. CASE i = 1 /\ u[i] = Record("table", t, 0, 0)
      BY <1>1, <3>1 DEF Record
    <3>2. CASE i \in 2 .. k + 1 /\ u[i] = Record("slice", t, i - 1, moment[t])
      BY <1>1, <3>2 DEF Record
    <3>3. CASE i = k + 2 /\ u[i] = Record("end", t, k + 1, 0)
      BY <1>1, <3>3 DEF Record
    <3> QED BY <1>3, <3>1, <3>2, <3>3
  <2>2. \A i \in 2 .. k + 1 : i \in 1 .. Len(u)
    BY <1>1, <1>2
  <2> QED BY <2>1, <2>2
<1>5. SoundStream(u)
  <2>1. ASSUME NEW i \in 1 .. Len(u) PROVE Sound(u[i])
    <3>1. CASE i = 1
      BY <1>1, <1>4, <3>1 DEF Sound, Creates, Objects
    <3>2. CASE i = k + 2
      BY <1>1, <1>4, <3>2 DEF Sound, Creates, Objects
    <3>3. CASE i # 1 /\ i # k + 2
      <4>1. i \in 2 .. k + 1 /\ i - 1 \in 1 .. k
        BY <1>1, <1>2, <3>3
      <4> QED BY <1>1, <1>4, <3>3, <4>1 DEF Sound, Creates, Objects
    <3> QED BY <3>1, <3>2, <3>3
  <2> QED BY <1>2, <2>1 DEF SoundStream
<1>6. \A i \in 1 .. Len(u) :
        u[i].kind # "trailer" /\ (Creates(u[i]) => i = 1 /\ u[i].obj = t)
  BY <1>4 DEF Creates, Objects
<1>7. Ordered(u)
  <2>1. ASSUME NEW i \in 1 .. Len(u) - 1
        PROVE  /\ Opens(u[i]) <=> Continues(u[i + 1])
               /\ Opens(u[i]) => u[i + 1].obj = u[i].obj /\ u[i + 1].n = u[i].n + 1
               /\ u[i].kind # "trailer"
    <3>1. i \in 1 .. Len(u) /\ i + 1 \in 1 .. Len(u) /\ i # k + 2 /\ i + 1 # 1
      BY <1>1, <1>2
    <3>2. u[i].kind \in {"table", "slice"} /\ u[i + 1].kind \in {"slice", "end"}
      BY <1>4, <3>1
    <3>a. u[i].obj = t /\ u[i].n = i - 1
      BY <1>1, <1>4, <3>1
    <3>b. u[i + 1].obj = t /\ u[i + 1].n = i
      BY <1>1, <1>4, <3>1
    <3>3. u[i + 1].obj = u[i].obj /\ u[i + 1].n = u[i].n + 1
      BY <1>1, <3>a, <3>b
    <3> QED BY <3>2, <3>3 DEF Opens, Continues
  <2>2. ~ Opens(u[Len(u)])
    BY <1>1, <1>2 DEF Opens, Record
  <2> QED BY <1>6, <2>1, <2>2 DEF Ordered
<1>8. u # <<>> /\ ~ Continues(u[1]) /\ Creates(u[1]) /\ u[1].obj = t
  BY <1>1, <1>2, EmptySeq DEF Continues, Creates, Objects, Record
<1> QED BY <1>5, <1>6, <1>7, <1>8 DEF u

\* A stream of one record that neither opens nor continues a table.
LEMMA SingleOrdered ==
  ASSUME NEW r \in Item, Sound(r), ~ Opens(r), ~ Continues(r)
  PROVE  LET u == <<r>>
         IN  /\ SoundStream(u) /\ Ordered(u) /\ u # <<>> /\ ~ Continues(u[1])
             /\ Len(u) = 1 /\ u[1] = r
  BY DEF SoundStream, Ordered

-----------------------------------------------------------------------------
\* The record at the head is a sound one.
LEMMA CurrentIs ==
  ASSUME SoundStream(stream), stream # <<>>
  PROVE  /\ Len(stream) \in Nat \ {0} /\ 1 \in 1 .. Len(stream)
         /\ Current = stream[1] /\ Current \in Item /\ Sound(Current)
<1>1. Len(stream) \in Nat \ {0} /\ Head(stream) = stream[1]
  BY HeadIs DEF SoundStream
<1>2. 1 \in 1 .. Len(stream)
  BY <1>1
<1> QED BY <1>1, <1>2, ElementOfSeq DEF SoundStream, Current

\* What creates is an object that is still to be restored.
LEMMA CurrentWaits ==
  ASSUME SoundStream(stream), stream # <<>>, Creates(Current)
  PROVE  /\ Waiting(Current.obj) /\ Current.obj \in Object
         /\ Kind[Current.obj] = Current.kind
  BY CurrentIs DEF Waiting, Created, Sound

\* How the head that comes next goes on where the present one stops.
LEMMA NextHead ==
  ASSUME SoundStream(stream), Ordered(stream), stream # <<>>, stream' = Tail(stream)
  PROVE  /\ stream' # <<>> =>
              /\ Opens(Current) <=> Continues(Current')
              /\ Opens(Current) => Current'.obj = Current.obj /\ Current'.n = Current.n + 1
              /\ Current.kind # "trailer"
              /\ Len(stream') \in Nat \ {0} /\ stream'[Len(stream')] = stream[Len(stream)]
         /\ stream' = <<>> => ~ Opens(Current) /\ Current = stream[Len(stream)]
<1>1. /\ Len(stream) \in Nat \ {0} /\ Current = stream[1]
      /\ stream' \in Seq(Item) /\ Len(stream') = Len(stream) - 1
      /\ \A i \in 1 .. Len(stream') : stream'[i] = stream[i + 1]
  BY CurrentIs, HeadTailProperties DEF SoundStream
<1>2. CASE stream' # <<>>
  <2>1. /\ 1 \in 1 .. Len(stream) - 1 /\ 1 \in 1 .. Len(stream')
        /\ Len(stream') \in 1 .. Len(stream') /\ Len(stream') + 1 = Len(stream)
        /\ Len(stream') \in Nat \ {0}
    BY <1>1, <1>2, EmptySeq
  <2>2. Current' = stream[1 + 1]
    BY <1>1, <1>2, <2>1, HeadIs DEF Current
  <2>3. stream'[Len(stream')] = stream[Len(stream)]
    BY <1>1, <2>1
  <2> QED BY <1>1, <1>2, <2>1, <2>2, <2>3 DEF Ordered
<1>3. CASE stream' = <<>>
  <2>1. Len(stream) = 1
    <3>1. Len(stream') = 0
      BY <1>3, EmptySeq
    <3> QED BY <1>1, <3>1
  <2> QED BY <1>1, <1>3, <2>1 DEF Ordered
<1> QED BY <1>2, <1>3

\* Reading the head changes nothing but what it creates.
LEMMA WaitingTail ==
  ASSUME SoundStream(stream), Ordered(stream), stream # <<>>, todo = {},
         stream' = Tail(stream), todo' = todo
  PROVE  \A o : Waiting(o)' <=> Waiting(o) /\ ~ (Creates(Current) /\ Current.obj = o)
<1> TAKE o
<1>1. Created(o, stream)' <=> Created(o, Tail(stream))
  BY DEF Created
<1>2. Created(o, Tail(stream)) <=> Created(o, stream) /\ ~ (Creates(stream[1]) /\ stream[1].obj = o)
  BY TailCreated DEF SoundStream
<1> QED BY <1>1, <1>2, CurrentIs DEF Waiting

\* What waits depends on the stream and on what is still to be dumped.
LEMMA WaitingSame ==
  ASSUME UNCHANGED <<stream, todo>>
  PROVE  \A o : Waiting(o)' <=> Waiting(o)
  BY DEF Waiting, Created

\* The invariant of the stream, when its head is read.
LEMMA StreamTail ==
  ASSUME StreamInv, stream # <<>>, stream' = Tail(stream), UNCHANGED dumping,
         pc' \notin {"connect", "dump"}
  PROVE  StreamInv'
<1>1. Ordered(stream')
  BY TailOrdered DEF StreamInv, SoundStream
<1>2. SoundStream(stream') /\ Apart(stream', todo)
  BY TailSound DEF StreamInv
<1>3. SoundStream(stream)' /\ Ordered(stream)' /\ Apart(stream, todo)'
  BY <1>1, <1>2 DEF dumping, SoundStream, Sound, Ordered, Apart
<1> QED BY <1>3 DEF StreamInv

\* The invariant of the stream depends on these variables alone.
LEMMA StreamSame ==
  ASSUME StreamInv, UNCHANGED <<stream, moment, todo>>, pc' \in {"connect", "dump"} => pc' = pc
  PROVE  StreamInv'
<1>1. SoundStream(stream)' /\ Ordered(stream)' /\ Apart(stream, todo)'
  BY DEF StreamInv, SoundStream, Sound, Ordered, Apart
<1> QED BY <1>1 DEF StreamInv

\* The rows that are committed are whole slices.
LEMMA ShapeOfRows ==
  ASSUME SoundStream(stream), RowsInv
  PROVE  ShapeInv
<1> SUFFICES ASSUME NEW t \in Table, ~ Waiting(t)
             PROVE  \E n \in 0 .. Slices[t] : rows[t] = RowsTo(t, n)
  BY DEF ShapeInv, RowsInv
<1>1. rows[t] = RowsTo(t, SlicesDone(t))
  BY DEF RowsInv
<1>2. Slices[t] \in Nat
  BY Schema
<1>3. SlicesDone(t) \in 0 .. Slices[t]
  <2>1. CASE Within(t)
    <3>1. Current.n \in 1 .. Slices[t] \/ Current.n = Slices[t] + 1
      BY <2>1, CurrentIs DEF Within, Sound, Continues
    <3> QED BY <1>2, <2>1, <3>1 DEF SlicesDone
  <2>2. CASE ~ Within(t)
    BY <1>2, <2>2 DEF SlicesDone
  <2> QED BY <2>1, <2>2
<1> QED BY <1>1, <1>3

-----------------------------------------------------------------------------
(***************************************************************************)
(* The dump.  While it goes on nothing is restored: whatever it does to    *)
(* the stream, all objects are still waiting afterwards.                   *)
(***************************************************************************)
LEMMA DumpKeeps ==
  ASSUME IInv, pc \in {"connect", "dump"}, UNCHANGED <<cmd, restoring>>,
         pc' \in {"connect", "dump", "read"}, StreamInv',
         source' \in [Table -> 1 .. MaxVersion], moment' \in [Table -> 1 .. MaxVersion],
         todo' \subseteq Object, \A o \in Object : Waiting(o)',
         pc' \in {"dump", "read"} => stream' # <<>>,
         pc' = "read" => todo' = {} /\ stream'[Len(stream')].kind = "trailer",
         stream' # <<>> => ~ Continues(Current')
  PROVE  IInv'
<1>1. LiveInv /\ pc \notin Ended
  BY DEF IInv, LiveInv, Ended
<1>2. DomainInv'
  BY DEF IInv, DomainInv, restoring, Ended
<1>3. RowsInv'
  <2>1. \A t \in Table : Waiting(t) /\ Waiting(t)'
    BY <1>1, Schema DEF LiveInv, StageInv, Ended
  <2>2. \A t \in Table : rows[t] \subseteq {OldRow(t)} /\ (t \notin objs => rows[t] = {})
    BY <1>1, <2>1 DEF LiveInv, RowsInv, Ended
  <2>3. \A t \in Table : ~ Within(t)'
    BY DEF Within
  <2> QED BY <2>1, <2>2, <2>3 DEF RowsInv, restoring, OldRow, Row
<1>4. ShapeInv'
  <2>1. SoundStream(stream)'
    BY DEF StreamInv
  <2> QED BY <1>3, <2>1, ShapeOfRows, PTL
<1>5. KeptInv'
  BY Schema DEF IInv, KeptInv, restoring, OldRow, Row
<1>6. FedInv'
  BY DEF IInv, FedInv, restoring
<1>7. StageInv' /\ DoneInv'
  BY DEF StageInv, DoneInv
<1>8. EarlyInv'
  BY <1>1 DEF IInv, DomainInv, LiveInv, StageInv, EarlyInv, restoring, Ended
<1> QED BY <1>2, <1>3, <1>4, <1>5, <1>6, <1>7, <1>8 DEF IInv, LiveInv

\* At first everything is still to be dumped, and the target is as it was.
LEMMA InitHolds == Init => IInv
<1> SUFFICES ASSUME Init PROVE IInv
  OBVIOUS
<1>1. \A o \in Object : Waiting(o)
  BY DEF Init, Waiting
<1>2. DomainInv
  <2>1. \A t \in Table : OldRow(t) \in AllRows
    BY Schema DEF OldRow, Row, Filled, Default, AllRows
  <2>2. rows \in [Table -> SUBSET AllRows]
    BY <2>1 DEF Init
  <2>3. 1 \in 1 .. MaxVersion
    BY BoundAssumption
  <2>4. source \in [Table -> 1 .. MaxVersion] /\ moment \in [Table -> 1 .. MaxVersion]
    BY <2>3 DEF Init
  <2>5. cmd \in [drop : BOOLEAN, target : Targets] /\ objs \subseteq Object
    BY SchemaAssumption DEF Init
  <2> QED BY <2>2, <2>4, <2>5 DEF Init, DomainInv
<1>3. StreamInv
  BY DEF Init, StreamInv, SoundStream, Ordered, Apart
<1>4. \A t \in Table : rows[t] = IF t \in objs THEN {OldRow(t)} ELSE {}
  BY DEF Init
<1>5. ShapeInv /\ KeptInv
  BY <1>1, <1>4, Schema DEF Init, ShapeInv, KeptInv
<1>6. RowsInv
  BY <1>1, <1>4, Schema DEF RowsInv, Within, Init
<1>7. StageInv /\ DoneInv /\ EarlyInv /\ FedInv
  BY <1>1 DEF Init, StageInv, DoneInv, EarlyInv, FedInv
<1> QED BY <1>2, <1>3, <1>5, <1>6, <1>7 DEF IInv, LiveInv

\* While the dump goes on, the stream does not begin within a table.
LEMMA DumpHead ==
  ASSUME IInv, pc \in {"connect", "dump"}, stream # <<>>
  PROVE  ~ Continues(Current)
<1> SUFFICES ASSUME Continues(Current) PROVE FALSE
  OBVIOUS
<1>1. Current.obj \in Table
  BY CurrentIs DEF IInv, StreamInv, Sound, Continues
<1> QED BY <1>1, Schema DEF IInv, LiveInv, StageInv, RowsInv, Within

\* A transaction of the application leaves the moment of the dump alone.
LEMMA TransferKeeps ==
  ASSUME IInv, NEW T \in Transfers, Transfer(T)
  PROVE  IInv'
<1>1. pc \in {"connect", "dump"} /\ pc' = pc
  BY DEF Transfer
<1>2. StreamInv'
  BY StreamSame DEF IInv, Transfer
<1>3. source' \in [Table -> 1 .. MaxVersion]
  <2>1. \A t \in T : source[t] + 1 \in 1 .. MaxVersion /\ t \in Table
    BY SchemaAssumption, BoundAssumption DEF IInv, DomainInv, Transfer
  <2> QED BY <2>1 DEF IInv, DomainInv, Transfer
<1>4. \A o \in Object : Waiting(o)'
  BY <1>1, WaitingSame DEF IInv, LiveInv, StageInv, Transfer
<1>5. stream' # <<>> => ~ Continues(Current')
  BY <1>1, DumpHead DEF Transfer, Current
<1> QED BY <1>1, <1>2, <1>3, <1>4, <1>5, DumpKeeps DEF IInv, DomainInv, LiveInv, StageInv, Transfer

\* The dump's transaction begins: the moment is now, the stream a header.
LEMMA StartDumpKeeps ==
  ASSUME IInv, StartDump
  PROVE  IInv'
<1> DEFINE r == Record("header", 0, 0, 0)
<1>1. r \in Item /\ Sound(r) /\ ~ Opens(r) /\ ~ Continues(r) /\ ~ Creates(r)
  BY DEF Record, Item, Sound, Creates, Opens, Continues, Objects
<1>2. Sound(r)'
  BY DEF Record, Sound, Creates, Objects
<1>3. /\ stream' = <<r>> /\ pc' = "dump" /\ stream = <<>>
      /\ moment' = source /\ source' = source /\ todo' = todo
  BY DEF StartDump, IInv, StreamInv
<1> HIDE DEF r
<1>4. Ordered(<<r>>) /\ <<r>> \in Seq(Item)
  BY <1>1, SingleOrdered
<1>5. Ordered(stream)' /\ SoundStream(stream)'
  BY <1>2, <1>3, <1>4 DEF Ordered, SoundStream
<1>6. r.kind # "trailer"
  BY DEF r, Record
<1>7. StreamInv'
  BY <1>1, <1>3, <1>5, <1>6 DEF StreamInv, Apart
<1>8. \A o \in Object : Waiting(o)'
  BY <1>3 DEF IInv, LiveInv, StageInv, StartDump, Waiting, Created
<1>9. stream' # <<>> /\ ~ Continues(Current')
  BY <1>1, <1>3 DEF Current
<1> QED BY <1>3, <1>7, <1>8, <1>9, DumpKeeps DEF IInv, DomainInv, StartDump

\* What the dump writes next, after what it wrote before.
LEMMA DumpMore ==
  ASSUME IInv, pc = "dump", NEW u, SoundStream(u), Ordered(u), u # <<>>, ~ Continues(u[1]),
         stream' = stream \o u, todo' \subseteq todo, todo \ todo' = {q \in Object : Created(q, u)},
         \A i \in 1 .. Len(u) : Creates(u[i]) =>
           u[i].obj \in todo /\ \A q \in todo : Rank[u[i].kind] <= Rank[Kind[q]],
         UNCHANGED <<cmd, source, moment, restoring>>,
         \/ pc' = "dump" /\ \A i \in 1 .. Len(u) : u[i].kind # "trailer"
         \/ pc' = "read" /\ todo' = {} /\ u[Len(u)].kind = "trailer"
  PROVE  IInv'
<1>1. /\ SoundStream(stream) /\ Ordered(stream) /\ Apart(stream, todo) /\ stream # <<>>
      /\ \A i \in 1 .. Len(stream) : stream[i].kind # "trailer"
  BY DEF IInv, StreamInv, LiveInv, StageInv
<1>2. stream \in Seq(Item) /\ u \in Seq(Item)
  BY <1>1 DEF SoundStream
<1>3. /\ stream' \in Seq(Item)
      /\ \A i \in 1 .. Len(stream') :
           \/ \E j \in 1 .. Len(stream) : stream'[i] = stream[j]
           \/ \E j \in 1 .. Len(u) : stream'[i] = u[j]
      /\ \A j \in 1 .. Len(stream) : \E i \in 1 .. Len(stream') : stream'[i] = stream[j]
      /\ \A j \in 1 .. Len(u) : \E i \in 1 .. Len(stream') : stream'[i] = u[j]
  <2> DEFINE v == stream \o u
  <2>1. /\ v \in Seq(Item)
        /\ \A i \in 1 .. Len(v) :
             \/ \E j \in 1 .. Len(stream) : v[i] = stream[j]
             \/ \E j \in 1 .. Len(u) : v[i] = u[j]
        /\ \A j \in 1 .. Len(stream) : \E i \in 1 .. Len(v) : v[i] = stream[j]
        /\ \A j \in 1 .. Len(u) : \E i \in 1 .. Len(v) : v[i] = u[j]
    BY <1>2, JoinElements, Zenon
  <2>2. stream' = v
    OBVIOUS
  <2> HIDE DEF v
  <2> QED BY <2>1, <2>2
<1>4. Ordered(stream')
  <2>1. \A i \in 1 .. Len(stream), j \in 1 .. Len(u) :
          Creates(stream[i]) /\ Creates(u[j]) =>
            stream[i].obj # u[j].obj /\ Rank[stream[i].kind] <= Rank[u[j].kind]
    <3> TAKE i \in 1 .. Len(stream), j \in 1 .. Len(u)
    <3> HAVE Creates(stream[i]) /\ Creates(u[j])
    <3>1. Kind[u[j].obj] = u[j].kind
      BY DEF SoundStream, Sound
    <3> QED BY <1>1, <3>1 DEF Apart
  <2> QED BY <1>1, <1>2, <2>1, JoinOrdered
<1>5. \A r : Sound(r)' <=> Sound(r)
  BY DEF Sound
<1>6. SoundStream(stream)' /\ Ordered(stream)'
  <2>1. ASSUME NEW i \in 1 .. Len(stream') PROVE Sound(stream'[i])
    <3>1. /\ \A j \in 1 .. Len(stream) : Sound(stream[j])
          /\ \A j \in 1 .. Len(u) : Sound(u[j])
      BY <1>1 DEF SoundStream
    <3>2. \/ \E j \in 1 .. Len(stream) : stream'[i] = stream[j]
          \/ \E j \in 1 .. Len(u) : stream'[i] = u[j]
      BY <1>3
    <3> QED BY <3>1, <3>2, Zenon
  <2>2. stream' \in Seq(Item)
    BY <1>3
  <2>3. SoundStream(stream)'
    BY <1>5, <2>1, <2>2 DEF SoundStream
  <2>4. Ordered(stream)'
    BY <1>4 DEF Ordered, Opens, Continues, Creates
  <2> QED BY <2>3, <2>4
<1>7. Apart(stream, todo)'
  <2>1. ASSUME NEW j \in 1 .. Len(u), Creates(u[j]) PROVE u[j].obj \notin todo'
    <3>1. u[j].obj \in Object
      BY <2>1 DEF SoundStream, Sound
    <3> QED BY <2>1, <3>1 DEF Created
  <2> SUFFICES ASSUME NEW i \in 1 .. Len(stream'), Creates(stream'[i])
               PROVE  /\ stream'[i].obj \notin todo'
                      /\ \A q \in todo' : Rank[stream'[i].kind] <= Rank[Kind[q]]
    BY DEF Apart, Creates
  <2>2. CASE \E j \in 1 .. Len(stream) : stream'[i] = stream[j]
    BY <1>1, <2>2 DEF Apart
  <2>3. CASE \E j \in 1 .. Len(u) : stream'[i] = u[j]
    BY <2>1, <2>3
  <2> QED BY <1>3, <2>2, <2>3
<1>8. pc' = "dump" => \A i \in 1 .. Len(stream') : stream'[i].kind # "trailer"
  BY <1>1, <1>3
<1>9. StreamInv'
  BY <1>6, <1>7, <1>8 DEF StreamInv
<1>10. \A o \in Object : Waiting(o)'
  <2> TAKE o \in Object
  <2>1. o \in todo \/ Created(o, stream)
    BY DEF IInv, LiveInv, StageInv, Waiting
  <2>2. o \in todo' \/ Created(o, stream) \/ Created(o, u)
    BY <2>1
  <2>3. ASSUME NEW i \in 1 .. Len(stream'), Creates(stream'[i]), stream'[i].obj = o
        PROVE  Waiting(o)'
    BY <2>3 DEF Waiting, Created, Creates
  <2>4. CASE Created(o, stream)
    <3>1. PICK j \in 1 .. Len(stream) : Creates(stream[j]) /\ stream[j].obj = o
      BY <2>4 DEF Created
    <3> QED BY <1>3, <2>3, <3>1
  <2>5. CASE Created(o, u)
    <3>1. PICK j \in 1 .. Len(u) : Creates(u[j]) /\ u[j].obj = o
      BY <2>5 DEF Created
    <3> QED BY <1>3, <2>3, <3>1
  <2> QED BY <2>2, <2>4, <2>5 DEF Waiting
<1>11. Len(stream') = Len(stream) + Len(u) /\ Len(stream) \in Nat \ {0} /\ Len(u) \in Nat \ {0}
  BY <1>1, <1>2, ConcatProperties, LenProperties, EmptySeq
<1>12. stream' # <<>> /\ Current' = Current /\ stream'[Len(stream')] = u[Len(u)]
  BY <1>1, <1>2, <1>3, <1>11, ConcatProperties, HeadIs, EmptySeq DEF Current
<1>13. ~ Continues(Current')
  BY <1>1, <1>12, DumpHead
<1> QED BY <1>9, <1>10, <1>12, <1>13, DumpKeeps DEF IInv, DomainInv

\* A table is dumped before anything else, so it comes first by rank.
LEMMA DumpTableKeeps ==
  ASSUME IInv, NEW t \in Table, DumpTable(t)
  PROVE  IInv'
<1> DEFINE u == TableRecords(t)
<1>1. /\ SoundStream(u) /\ Ordered(u) /\ u # <<>>
      /\ ~ Continues(u[1])
      /\ \A i \in 1 .. Len(u) :
           u[i].kind # "trailer" /\ (Creates(u[i]) => i = 1 /\ u[i].obj = t)
      /\ Creates(u[1]) /\ u[1].obj = t
  BY TableRecordsOrdered DEF IInv, DomainInv
<1>2. /\ pc = "dump" /\ pc' = "dump" /\ t \in todo /\ stream' = stream \o u
      /\ todo' = todo \ {t} /\ UNCHANGED <<cmd, source, moment, restoring>>
  BY DEF DumpTable
<1> HIDE DEF u
<1>3. todo \ todo' = {q \in Object : Created(q, u)}
  <2>1. 1 \in 1 .. Len(u)
    <3>1. u \in Seq(Item)
      BY <1>1 DEF SoundStream
    <3>2. Len(u) \in Nat \ {0}
      BY <1>1, <3>1, HeadIs
    <3> QED BY <3>2
  <2>2. \A q : Created(q, u) <=> q = t
    BY <1>1, <2>1 DEF Created
  <2> QED BY <1>2, <2>2, Schema
<1>4. ASSUME NEW i \in 1 .. Len(u), Creates(u[i])
      PROVE  u[i].obj \in todo /\ \A q \in todo : Rank[u[i].kind] <= Rank[Kind[q]]
  <2>1. u[i].obj = t /\ u[i].kind = Kind[t] /\ Kind[t] = "table"
    BY <1>1, <1>4, Schema DEF SoundStream, Sound
  <2>2. \A q \in todo : Rank[Kind[q]] >= 1
    <3> TAKE q \in todo
    <3>1. Kind[q] \in Objects
      BY Schema DEF IInv, DomainInv
    <3> QED BY <3>1, Ranks
  <2>3. Rank[u[i].kind] = 1
    BY <2>1, Ranks
  <2> QED BY <1>2, <2>1, <2>2, <2>3
<1> QED BY <1>1, <1>2, <1>3, <1>4, DumpMore

\* Of the other objects one of the least rank is next.
LEMMA DumpObjectKeeps ==
  ASSUME IInv, NEW o \in Object \ Table, DumpObject(o)
  PROVE  IInv'
<1> DEFINE r == Record(Kind[o], o, 0, 0)
<1>1. r.kind = Kind[o] /\ r.obj = o /\ Kind[o] \in Objects /\ Kind[o] # "table"
  BY Schema DEF Record
<1>2. r \in Item /\ Sound(r) /\ ~ Opens(r) /\ ~ Continues(r) /\ Creates(r)
  BY <1>1, Schema DEF Record, Item, Sound, Creates, Opens, Continues, Objects
<1> HIDE DEF r
<1> DEFINE u == <<r>>
<1>3. /\ SoundStream(u) /\ Ordered(u) /\ u # <<>> /\ ~ Continues(u[1])
      /\ Len(u) = 1 /\ u[1] = r
  BY <1>2, SingleOrdered
<1>4. /\ pc = "dump" /\ pc' = "dump" /\ o \in todo /\ stream' = Append(stream, r)
      /\ \A q \in todo : Rank[Kind[o]] <= Rank[Kind[q]]
      /\ todo' = todo \ {o} /\ UNCHANGED <<cmd, source, moment, restoring>>
  BY DEF DumpObject, r
<1>5. stream' = stream \o u
  BY <1>2, <1>4, AppendIsConcat DEF IInv, StreamInv, SoundStream
<1> HIDE DEF u
<1>6. \A i \in 1 .. Len(u) : u[i] = r
  BY <1>3
<1>7. todo \ todo' = {q \in Object : Created(q, u)}
  <2>1. \A q : Created(q, u) <=> q = o
    BY <1>1, <1>2, <1>3, <1>6 DEF Created
  <2> QED BY <1>4, <2>1
<1> QED BY <1>1, <1>2, <1>3, <1>4, <1>5, <1>6, <1>7, DumpMore DEF Objects

\* The trailer ends the stream.
LEMMA EndDumpKeeps ==
  ASSUME IInv, EndDump
  PROVE  IInv'
<1> DEFINE r == Record("trailer", 0, 0, 0)
<1>1. r \in Item /\ Sound(r) /\ ~ Opens(r) /\ ~ Continues(r) /\ ~ Creates(r) /\ r.kind = "trailer"
  BY DEF Record, Item, Sound, Creates, Opens, Continues, Objects
<1>2. /\ pc = "dump" /\ pc' = "read" /\ stream' = Append(stream, r) /\ todo = {}
      /\ todo' = {} /\ UNCHANGED <<cmd, source, moment, restoring>>
  BY DEF EndDump, dumping
<1> HIDE DEF r
<1> DEFINE u == <<r>>
<1>3. /\ SoundStream(u) /\ Ordered(u) /\ u # <<>> /\ ~ Continues(u[1])
      /\ Len(u) = 1 /\ u[1] = r
  BY <1>1, SingleOrdered
<1>4. stream' = stream \o u
  BY <1>1, <1>2, AppendIsConcat DEF IInv, StreamInv, SoundStream
<1> HIDE DEF u
<1>5. \A i \in 1 .. Len(u) : u[i] = r
  BY <1>3
<1>6. todo \ todo' = {q \in Object : Created(q, u)}
  BY <1>1, <1>2, <1>5 DEF Created
<1> QED BY <1>1, <1>2, <1>3, <1>4, <1>5, <1>6, DumpMore

-----------------------------------------------------------------------------
(***************************************************************************)
(* The restore.                                                            *)
(***************************************************************************)
\* The slices that are done when the head of the stream has been executed.
LEMMA SlicesDoneNext ==
  ASSUME SoundStream(stream), Ordered(stream), stream # <<>>, stream' = Tail(stream),
         NEW t \in Table
  PROVE  SlicesDone(t)' = IF Opens(Current) /\ Current.obj = t THEN Current.n ELSE Slices[t]
<1>1. Current.n \in Nat
  BY CurrentIs DEF Item
<1>2. Within(t)' <=> Opens(Current) /\ Current.obj = t
  BY NextHead DEF Within
<1>3. CASE Within(t)'
  <2>1. Current'.n = Current.n + 1
    BY <1>2, <1>3, NextHead
  <2> QED BY <1>1, <1>2, <1>3, <2>1 DEF SlicesDone
<1>4. CASE ~ Within(t)'
  BY <1>2, <1>4 DEF SlicesDone
<1> QED BY <1>3, <1>4

\* A record is executed and leaves the stream; only tables that are not
\* waiting may get rows.
LEMMA ReadKeeps ==
  ASSUME IInv, pc \in {"read", "create", "insert"}, stream' = Tail(stream),
         UNCHANGED <<cmd, dumping, undropped>>,
         pc' = IF Current.kind = "trailer" THEN "ok" ELSE "read",
         fed' = {}, rows' \in [Table -> SUBSET AllRows],
         IF Creates(Current) THEN CanCreate(Current.obj) /\ objs' = objs \cup {Current.obj}
                             ELSE objs' = objs,
         \A t \in Table : Waiting(t)' => rows'[t] = rows[t],
         \A t \in Table : ~ Waiting(t)' => rows'[t] = RowsTo(t, SlicesDone(t)')
  PROVE  IInv'
<1>1. /\ LiveInv /\ SoundStream(stream) /\ Ordered(stream)
      /\ stream # <<>> /\ todo = {} /\ todo' = {} /\ moment' = moment
      /\ stream[Len(stream)].kind = "trailer"
  BY DEF IInv, LiveInv, StageInv, StreamInv, dumping
<1>2. \A o : Waiting(o)' <=> Waiting(o) /\ ~ (Creates(Current) /\ Current.obj = o)
  BY <1>1, WaitingTail
<1>3. pc' \in {"read", "ok"}
  OBVIOUS
<1>4. StreamInv'
  BY <1>1, <1>3, StreamTail DEF IInv
<1>5. DomainInv'
  BY <1>1, <1>3, CurrentWaits DEF IInv, DomainInv, dumping, Ended
<1>6. StageInv'
  <2>1. /\ stream' # <<>> =>
             Current.kind # "trailer" /\ stream'[Len(stream')] = stream[Len(stream)]
        /\ stream' = <<>> => Current = stream[Len(stream)]
    BY <1>1, NextHead
  <2> QED BY <1>1, <2>1 DEF StageInv
<1>7. DoneInv'
  <2> SUFFICES ASSUME NEW o \in Object, ~ Waiting(o)'
               PROVE  /\ o \in objs'
                      /\ \A q \in Object : Waiting(q)' => Rank[Kind[o]] <= Rank[Kind[q]]
    BY DEF DoneInv
  <2>1. CASE ~ Waiting(o)
    BY <1>1, <1>2, <2>1 DEF LiveInv, DoneInv, Ended
  <2>2. CASE Creates(Current) /\ Current.obj = o
    <3> SUFFICES ASSUME NEW q \in Object, Waiting(q)' PROVE Rank[Kind[o]] <= Rank[Kind[q]]
      BY <2>2
    <3>1. Waiting(q) /\ q # o
      BY <1>2, <2>2
    <3>2. PICK i \in 1 .. Len(stream) : Creates(stream[i]) /\ stream[i].obj = q
      BY <1>1, <3>1 DEF Waiting, Created
    <3>3. Len(stream) \in Nat \ {0} /\ 1 \in 1 .. Len(stream) /\ Current = stream[1]
      BY <1>1, CurrentIs
    <3>4. 1 < i
      BY <2>2, <3>1, <3>2, <3>3
    <3>5. Rank[stream[1].kind] <= Rank[stream[i].kind]
      BY <1>1, <2>2, <3>2, <3>3, <3>4 DEF Ordered
    <3>6. Kind[o] = stream[1].kind /\ Kind[q] = stream[i].kind
      BY <1>1, <2>2, <3>2, <3>3 DEF SoundStream, Sound
    <3> QED BY <3>5, <3>6
  <2> QED BY <1>2, <2>1, <2>2
<1>8. RowsInv'
  <2>1. ASSUME NEW t \in Table, Waiting(t)'
        PROVE  rows'[t] \subseteq {OldRow(t)} /\ (t \notin objs' => rows'[t] = {})
    <3>1. Waiting(t) /\ rows'[t] = rows[t]
      BY <1>2, <2>1
    <3> QED BY <1>1, <3>1 DEF LiveInv, RowsInv
  <2>2. ASSUME NEW t \in Table, Within(t)' PROVE ~ Waiting(t)'
    <3>1. Opens(Current) /\ Current.obj = t
      BY <1>1, <2>2, NextHead DEF Within
    <3>2. CASE Creates(Current)
      BY <1>2, <3>1, <3>2
    <3>3. CASE Continues(Current)
      BY <1>1, <1>2, <3>1, <3>3 DEF LiveInv, RowsInv, Within
    <3> QED BY <3>1, <3>2, <3>3 DEF Opens, Creates, Continues, Objects
  <2>3. ASSUME NEW t \in Table, ~ Waiting(t)'
        PROVE  rows'[t] = RowsTo(t, SlicesDone(t))'
    BY <1>1, <2>3 DEF RowsTo, Row
  <2> QED BY <2>1, <2>2, <2>3 DEF RowsInv, OldRow, Row
<1>9. ShapeInv'
  <2>1. SoundStream(stream)'
    BY <1>4 DEF StreamInv
  <2> QED BY <1>8, <2>1, ShapeOfRows, PTL
<1>10. KeptInv'
  <2> SUFFICES ASSUME ~ cmd.drop, NEW t \in cmd.target \cap Table
               PROVE  Waiting(t)' /\ t \in objs' /\ rows'[t] = {OldRow(t)}
    BY DEF KeptInv, OldRow, Row
  <2>1. Waiting(t) /\ t \in objs /\ rows[t] = {OldRow(t)}
    BY DEF IInv, KeptInv
  <2>2. Kind[t] = "table"
    BY Schema
  <2>3. Waiting(t)'
    BY <1>2, <2>1, <2>2 DEF CanCreate
  <2> QED BY <2>1, <2>3
<1>11. FedInv' /\ EarlyInv'
  BY <1>1, <1>2, <1>3 DEF FedInv, LiveInv, EarlyInv
<1> QED BY <1>4, <1>5, <1>6, <1>7, <1>8, <1>9, <1>10, <1>11 DEF IInv, LiveInv

\* The header, the end of a table, the trailer: nothing is restored.
LEMMA SkipKeeps ==
  ASSUME IInv, pc = "read", stream # <<>>, Current.kind \in {"header", "end", "trailer"},
         stream' = Tail(stream), UNCHANGED <<cmd, dumping, restoring>>,
         pc' = IF Current.kind = "trailer" THEN "ok" ELSE "read"
  PROVE  IInv'
<1>1. /\ SoundStream(stream) /\ Ordered(stream) /\ RowsInv
      /\ fed = {} /\ rows \in [Table -> SUBSET AllRows] /\ todo = {}
  BY DEF IInv, StreamInv, LiveInv, StageInv, FedInv, DomainInv
<1>2. ~ Creates(Current) /\ ~ Opens(Current)
  BY DEF Creates, Opens, Objects
<1>3. \A o : Waiting(o)' <=> Waiting(o)
  BY <1>1, <1>2, WaitingTail DEF dumping
<1>4. ASSUME NEW t \in Table, ~ Waiting(t)'
      PROVE  rows'[t] = RowsTo(t, SlicesDone(t)')
  <2>1. rows[t] = RowsTo(t, SlicesDone(t))
    BY <1>1, <1>3, <1>4 DEF RowsInv
  <2>2. SlicesDone(t)' = Slices[t]
    BY <1>1, <1>2, SlicesDoneNext
  <2>3. CASE Within(t)
    <3>1. Current.n = Slices[t] + 1 /\ Slices[t] \in Nat
      BY <1>1, <2>3, CurrentIs, Schema DEF Within, Continues, Sound
    <3> QED BY <2>1, <2>2, <2>3, <3>1 DEF restoring, SlicesDone
  <2>4. CASE ~ Within(t)
    BY <2>1, <2>2, <2>4 DEF restoring, SlicesDone
  <2> QED BY <2>3, <2>4
<1> QED BY <1>1, <1>2, <1>4, ReadKeeps DEF restoring

\* An object is created that could be: a table is as yet empty.
LEMMA CreateKeeps ==
  ASSUME IInv, Create
  PROVE  IInv'
<1>1. /\ SoundStream(stream) /\ Ordered(stream) /\ RowsInv /\ stream # <<>>
      /\ fed = {} /\ rows \in [Table -> SUBSET AllRows] /\ todo = {}
  BY DEF IInv, StreamInv, LiveInv, StageInv, FedInv, DomainInv, Create, At
<1>2. /\ Creates(Current) /\ ~ Continues(Current) /\ Current.kind # "trailer"
      /\ pc = "create" /\ pc' = "read"
      /\ CanCreate(Current.obj) /\ objs' = objs \cup {Current.obj}
      /\ stream' = Tail(stream) /\ UNCHANGED <<cmd, dumping, rows, fed, undropped>>
  BY DEF Create, At, Goto, Creates, Continues, Objects
<1>3. \A o : Waiting(o)' <=> Waiting(o) /\ Current.obj # o
  BY <1>1, <1>2, WaitingTail DEF dumping
<1>4. ASSUME NEW t \in Table, ~ Waiting(t)'
      PROVE  rows'[t] = RowsTo(t, SlicesDone(t)')
  <2>1. SlicesDone(t)' = IF Opens(Current) /\ Current.obj = t THEN Current.n ELSE Slices[t]
    BY <1>1, <1>2, SlicesDoneNext
  <2>2. CASE Current.obj = t
    <3>1. Waiting(t) /\ Kind[t] = "table" /\ Current.kind = "table" /\ Current.n = 0
      BY <1>1, <1>2, <2>2, CurrentIs, CurrentWaits, Schema DEF Sound
    <3>2. rows[t] = {}
      BY <1>1, <1>2, <2>2, <3>1 DEF RowsInv, CanCreate
    <3>3. RowsTo(t, 0) = {}
      BY DEF RowsTo
    <3> QED BY <1>2, <2>1, <2>2, <3>1, <3>2, <3>3 DEF Opens
  <2>3. CASE Current.obj # t
    BY <1>1, <1>2, <1>3, <1>4, <2>1, <2>3 DEF RowsInv, SlicesDone, Within
  <2> QED BY <2>2, <2>3
<1> QED BY <1>1, <1>2, <1>4, ReadKeeps

\* The rows of a slice that has been inserted whole.
LEMMA FedWhole ==
  ASSUME IInv, At("insert", {"slice"}), SliceDone
  PROVE  LET t == Current.obj
         IN  /\ t \in Table /\ Within(t) /\ ~ Waiting(t)
             /\ Current.n \in 1 .. Slices[t] /\ SlicesDone(t) = Current.n - 1
             /\ rows[t] = RowsTo(t, Current.n - 1)
             /\ rows[t] \cup fed = RowsTo(t, Current.n)
             /\ rows[t] \cup fed \in SUBSET AllRows
<1> DEFINE t == Current.obj
           n == Current.n
<1>1. /\ pc = "insert" /\ stream # <<>> /\ SoundStream(stream) /\ RowsInv
      /\ rows \in [Table -> SUBSET AllRows] /\ moment \in [Table -> 1 .. MaxVersion]
  BY DEF At, IInv, StreamInv, LiveInv, DomainInv
<1>2. /\ t \in Table /\ n \in 1 .. Slices[t] /\ Current.version = moment[t]
      /\ Within(t) /\ Slices[t] \in Nat
  BY <1>1, CurrentIs, Schema DEF At, Sound, Within, Continues
<1>3. ~ Waiting(t) /\ SlicesDone(t) = n - 1 /\ rows[t] = RowsTo(t, n - 1)
  BY <1>1, <1>2 DEF RowsInv, SlicesDone
<1>4. fed = {Row(t, n, b, moment[t]) : b \in 1 .. Batches}
  BY <1>1, <1>2 DEF IInv, FedInv, SliceDone
<1>5. 1 .. n = (1 .. n - 1) \cup {n}
  BY <1>2
<1> HIDE DEF t, n
<1>6. rows[t] \cup fed = RowsTo(t, n)
  BY <1>3, <1>4, <1>5 DEF RowsTo
<1>7. fed \in SUBSET AllRows
  <2>1. t \in Table /\ n \in Nat /\ moment[t] \in Nat
    BY <1>1, <1>2, BoundAssumption
  <2> QED BY <1>4, <2>1, BoundAssumption DEF Row, Filled, Default, AllRows
<1> QED BY <1>1, <1>2, <1>3, <1>6, <1>7 DEF t, n

\* The rows of the slice join those of the slices before it.
LEMMA CommitSliceKeeps ==
  ASSUME IInv, CommitSlice
  PROVE  IInv'
<1> DEFINE c == Current.obj
<1>1. /\ SoundStream(stream) /\ Ordered(stream) /\ RowsInv /\ stream # <<>>
      /\ rows \in [Table -> SUBSET AllRows] /\ todo = {}
  BY DEF IInv, StreamInv, LiveInv, StageInv, DomainInv, CommitSlice, At
<1>2. /\ ~ Creates(Current) /\ Opens(Current) /\ Current.kind # "trailer"
      /\ pc = "insert" /\ pc' = "read" /\ fed' = {}
      /\ stream' = Tail(stream) /\ UNCHANGED <<cmd, dumping, objs, undropped>>
      /\ rows' = [rows EXCEPT ![c] = @ \cup fed]
  BY DEF CommitSlice, At, Goto, Creates, Opens, Objects
<1>3. /\ c \in Table /\ Within(c) /\ ~ Waiting(c)
      /\ rows[c] \cup fed = RowsTo(c, Current.n) /\ rows[c] \cup fed \in SUBSET AllRows
  BY FedWhole DEF CommitSlice
<1>4. \A o : Waiting(o)' <=> Waiting(o)
  BY <1>1, <1>2, WaitingTail DEF dumping
<1> HIDE DEF c
<1>5. /\ rows' \in [Table -> SUBSET AllRows]
      /\ rows'[c] = RowsTo(c, Current.n)
      /\ \A t \in Table : t # c => rows'[t] = rows[t]
  BY <1>1, <1>2, <1>3
<1>6. ASSUME NEW t \in Table, ~ Waiting(t)'
      PROVE  rows'[t] = RowsTo(t, SlicesDone(t)')
  <2>1. SlicesDone(t)' = IF Current.obj = t THEN Current.n ELSE Slices[t]
    BY <1>1, <1>2, SlicesDoneNext
  <2>2. CASE t = c
    BY <1>5, <2>1, <2>2 DEF c
  <2>3. CASE t # c
    BY <1>1, <1>4, <1>5, <1>6, <2>1, <2>3 DEF RowsInv, SlicesDone, Within, c
  <2> QED BY <2>2, <2>3
<1>7. \A t \in Table : Waiting(t)' => rows'[t] = rows[t]
  BY <1>3, <1>4, <1>5
<1> QED BY <1>1, <1>2, <1>5, <1>6, <1>7, ReadKeeps

\* What is restored stays as it is.
LEMMA StandsKeeps ==
  ASSUME IInv, pc \in {"read", "create", "insert"}, pc' \in {"create", "insert", "refused"},
         UNCHANGED <<cmd, dumping, stream, objs, rows>>, undropped' \subseteq Object, FedInv',
         pc' \in {"create", "refused"} => Creates(Current),
         pc' = "insert" => Current.kind = "slice",
         pc' = "refused" => ~ CanCreate(Current.obj),
         pc' \in {"create", "refused"} /\ cmd.drop /\ Current.obj \notin undropped' =>
           Current.obj \notin objs
  PROVE  IInv'
<1>1. /\ Current' = Current /\ moment' = moment /\ source' = source /\ todo' = todo
      /\ stream' = stream /\ LiveInv /\ pc \notin Ended
  BY DEF Current, dumping, IInv, Ended
<1>2. \A o : Waiting(o)' <=> Waiting(o)
  BY <1>1, WaitingSame
<1>3. StreamInv'
  BY <1>1, StreamSame DEF IInv
<1>4. DomainInv'
  BY <1>1 DEF IInv, DomainInv, Ended
<1>5. ShapeInv' /\ KeptInv'
  BY <1>1, <1>2 DEF IInv, ShapeInv, KeptInv, RowsTo, OldRow, Row
<1>6. StageInv'
  BY <1>1 DEF LiveInv, StageInv, CanCreate
<1>7. DoneInv' /\ EarlyInv'
  BY <1>1, <1>2 DEF LiveInv, DoneInv, EarlyInv
<1>8. RowsInv'
  BY <1>1, <1>2 DEF LiveInv, RowsInv, RowsTo, OldRow, Row, SlicesDone, Within
<1> QED BY <1>3, <1>4, <1>5, <1>6, <1>7, <1>8 DEF IInv, LiveInv

\* A DROP that fails leaves the object, which is on record as not dropped.
LEMMA DropFailsKeeps ==
  ASSUME IInv, DropFails
  PROVE  IInv'
<1>1. stream # <<>> /\ Creates(Current) /\ pc = "read" /\ pc' = "create" /\ fed' = {}
  BY DEF DropFails, At, Creates, Goto, IInv, FedInv
<1>2. Current.obj \in Object
  BY <1>1, CurrentWaits DEF IInv, StreamInv
<1> QED BY <1>1, <1>2, StandsKeeps DEF DropFails, IInv, DomainInv, FedInv

\* The server refuses to create what is there or lacks what it needs.
LEMMA RefuseKeeps ==
  ASSUME IInv, Refuse
  PROVE  IInv'
<1>1. Creates(Current) /\ pc = "create" /\ pc' = "refused" /\ fed' = {} /\ LiveInv
  BY DEF Refuse, At, Creates, Goto, IInv, FedInv, restoring
<1> QED BY <1>1, StandsKeeps DEF Refuse, restoring, IInv, DomainInv, FedInv, LiveInv, EarlyInv

\* A slice begins with no rows inserted.
LEMMA StartSliceKeeps ==
  ASSUME IInv, StartSlice
  PROVE  IInv'
<1>1. Current.kind = "slice" /\ pc = "read" /\ pc' = "insert" /\ fed = {} /\ fed' = {}
  BY DEF StartSlice, At, Goto, IInv, FedInv, restoring
<1>2. FedInv'
  <2>1. IsFiniteSet({}) /\ Cardinality({}) = 0
    BY FS_EmptySet
  <2> QED BY <1>1, <2>1, BoundAssumption DEF FedInv
<1> QED BY <1>1, <1>2, StandsKeeps DEF StartSlice, restoring, IInv, DomainInv

\* The next rows of the slice are inserted.
LEMMA InsertKeeps ==
  ASSUME IInv, Insert
  PROVE  IInv'
<1> DEFINE k == Cardinality(fed)
           r == Row(Current.obj, Current.n, k + 1, Current.version)
<1>1. /\ Current.kind = "slice" /\ pc = "insert" /\ pc' = "insert" /\ fed' = fed \cup {r}
      /\ UNCHANGED <<cmd, dumping, stream, objs, rows, undropped>>
  BY DEF Insert, At, Inserted
<1>2. /\ IsFiniteSet(fed) /\ k \in 0 .. Batches /\ k # Batches /\ Batches \in Nat
      /\ fed = {Row(Current.obj, Current.n, b, Current.version) : b \in 1 .. k}
  BY <1>1, BoundAssumption DEF IInv, FedInv, Insert, SliceDone
<1>3. r \notin fed
  <2>1. \A b \in 1 .. k : b # k + 1
    BY <1>2
  <2> QED BY <1>2, <2>1 DEF Row
<1>4. IsFiniteSet(fed') /\ Cardinality(fed') = k + 1
  BY <1>1, <1>2, <1>3, FS_AddElement
<1>5. fed' = {Row(Current.obj, Current.n, b, Current.version) : b \in 1 .. k + 1}
  <2>1. 1 .. k + 1 = (1 .. k) \cup {k + 1}
    BY <1>2
  <2> QED BY <1>1, <1>2, <2>1
<1>6. k + 1 \in 0 .. Batches
  BY <1>2
<1> HIDE DEF k, r
<1>7. FedInv'
  BY <1>1, <1>4, <1>5, <1>6 DEF FedInv, Current, Row
<1> QED BY <1>1, <1>7, StandsKeeps DEF IInv, DomainInv

\* A table that is dropped takes no trigger that was restored with it: the
\* triggers come after all the tables.
LEMMA DropExistingKeeps ==
  ASSUME IInv, DropExisting
  PROVE  IInv'
<1> DEFINE c == Current.obj
<1>1. /\ stream # <<>> /\ Creates(Current) /\ pc = "read" /\ pc' = "create" /\ fed' = {}
      /\ UNCHANGED <<cmd, dumping, stream, undropped>>
      /\ LiveInv /\ pc \notin Ended /\ SoundStream(stream) /\ Current.kind \in Droppable
  BY DEF DropExisting, At, Creates, Goto, IInv, FedInv, Ended, StreamInv, Droppable
<1>2. c \in Object /\ Waiting(c)
  BY <1>1, CurrentWaits
<1>3. CASE ~ cmd.drop
  <2>1. UNCHANGED <<objs, rows>>
    BY <1>3 DEF DropExisting
  <2> QED BY <1>1, <1>3, <2>1, StandsKeeps DEF IInv, DomainInv, FedInv
<1>4. CASE cmd.drop
  <2>1. /\ objs' = objs \ GoneWith(c)
        /\ rows' = [t \in Table |-> IF t = c THEN {} ELSE rows[t]]
    BY <1>1, <1>4 DEF DropExisting
  <2>2. /\ Current' = Current /\ moment' = moment /\ source' = source /\ todo' = todo
        /\ stream' = stream
    BY <1>1 DEF Current, dumping
  <2>3. \A o : Waiting(o)' <=> Waiting(o)
    BY <2>2, WaitingSame
  <2> HIDE DEF c
  <2>4. DomainInv'
    BY <1>1, <2>1, <2>2 DEF IInv, DomainInv, Ended
  <2>5. StreamInv'
    BY <1>1, <2>2, StreamSame DEF IInv
  <2>6. RowsInv'
    <3> SUFFICES ASSUME NEW t \in Table
                 PROVE  IF Waiting(t)
                          THEN rows'[t] \subseteq {OldRow(t)}
                                 /\ (t \notin objs' => rows'[t] = {}) /\ ~ Within(t)
                          ELSE rows'[t] = RowsTo(t, SlicesDone(t))
      BY <2>2, <2>3 DEF RowsInv, RowsTo, OldRow, Row, SlicesDone, Within
    <3>1. CASE t = c
      BY <1>1, <1>2, <2>1, <3>1 DEF LiveInv, RowsInv
    <3>2. CASE t # c
      <4>1. t \notin GoneWith(c)
        BY <3>2, Schema DEF GoneWith, Of
      <4> QED BY <1>1, <2>1, <3>2, <4>1 DEF LiveInv, RowsInv
    <3> QED BY <3>1, <3>2
  <2>7. ShapeInv'
    <3>1. SoundStream(stream)'
      BY <2>5 DEF StreamInv
    <3> QED BY <2>6, <3>1, ShapeOfRows, PTL
  <2>8. StageInv'
    BY <1>1, <2>2 DEF LiveInv, StageInv
  <2>9. DoneInv'
    <3> SUFFICES ASSUME NEW o \in Object, ~ Waiting(o) PROVE o \notin GoneWith(c)
      BY <1>1, <2>1, <2>3 DEF LiveInv, DoneInv
    <3>1. Rank[Kind[o]] <= Rank[Kind[c]]
      BY <1>1, <1>2 DEF LiveInv, DoneInv
    <3>2. SUFFICES ASSUME c \in Table, o \in Of("trigger") PROVE FALSE
      BY <1>2 DEF GoneWith
    <3>3. Kind[c] = "table" /\ Kind[o] = "trigger"
      BY <3>2, Schema DEF Of
    <3> QED BY <3>1, <3>3, Ranks
  <2>10. EarlyInv'
    BY <1>1, <2>1, <2>2, <2>3 DEF LiveInv, EarlyInv, GoneWith, c
  <2>11. FedInv' /\ KeptInv'
    BY <1>1, <1>4 DEF FedInv, KeptInv
  <2> QED BY <2>4, <2>5, <2>6, <2>7, <2>8, <2>9, <2>10, <2>11 DEF IInv, LiveInv
<1> QED BY <1>3, <1>4

\* The restore dies; it may be that the last COMMIT was done all the same.
LEMMA FailKeeps ==
  ASSUME IInv, UNCHANGED <<cmd, dumping, stream, objs, undropped>>, pc' = "failed", fed' = {},
         \/ rows' = rows
         \/ At("insert", {"slice"}) /\ SliceDone /\ rows' = [rows EXCEPT ![Current.obj] = @ \cup fed]
  PROVE  IInv'
<1>1. moment' = moment /\ source' = source /\ todo' = todo /\ stream' = stream
  BY DEF dumping
<1>2. StreamInv'
  BY <1>1, StreamSame DEF IInv
<1>3. \A o : Waiting(o)' <=> Waiting(o)
  BY <1>1, WaitingSame
<1>4. FedInv' /\ LiveInv'
  BY DEF FedInv, LiveInv
<1>5. CASE rows' = rows
  <2>1. DomainInv'
    BY <1>1, <1>5 DEF IInv, DomainInv, Ended
  <2>2. ShapeInv'
    BY <1>1, <1>5 DEF IInv, ShapeInv, RowsTo, OldRow, Row
  <2>3. KeptInv'
    BY <1>3, <1>5 DEF IInv, KeptInv, OldRow, Row
  <2> QED BY <1>2, <1>4, <2>1, <2>2, <2>3 DEF IInv
<1>6. CASE At("insert", {"slice"}) /\ SliceDone /\ rows' = [rows EXCEPT ![Current.obj] = @ \cup fed]
  <2> DEFINE c == Current.obj
  <2>1. /\ c \in Table /\ ~ Waiting(c) /\ Current.n \in 1 .. Slices[c] /\ Slices[c] \in Nat
        /\ rows[c] \cup fed = RowsTo(c, Current.n) /\ rows[c] \cup fed \in SUBSET AllRows
    BY <1>6, FedWhole, Schema
  <2> HIDE DEF c
  <2>2. rows' = [rows EXCEPT ![c] = @ \cup fed]
    BY <1>6 DEF c
  <2>3. /\ rows' \in [Table -> SUBSET AllRows] /\ rows'[c] = RowsTo(c, Current.n)
        /\ \A t \in Table : t # c => rows'[t] = rows[t]
    BY <2>1, <2>2 DEF IInv, DomainInv
  <2>4. DomainInv'
    BY <1>1, <2>3 DEF IInv, DomainInv, Ended
  <2>5. ShapeInv'
    <3> SUFFICES ASSUME NEW t \in Table
                 PROVE  rows'[t] \subseteq {OldRow(t)}
                          \/ \E n \in 0 .. Slices[t] : rows'[t] = RowsTo(t, n)
      BY <1>1 DEF ShapeInv, RowsTo, OldRow, Row
    <3>1. CASE t = c
      BY <2>1, <2>3, <3>1
    <3>2. CASE t # c
      BY <2>3, <3>2 DEF IInv, ShapeInv
    <3> QED BY <3>1, <3>2
  <2>6. KeptInv'
    BY <1>3, <2>1, <2>3 DEF IInv, KeptInv, OldRow, Row
  <2> QED BY <1>2, <1>4, <2>4, <2>5, <2>6 DEF IInv
<1> QED BY <1>5, <1>6

-----------------------------------------------------------------------------
\* Every step keeps the invariant, and stuttering does.
LEMMA NextHolds == IInv /\ [Next]_vars => IInv'
<1> SUFFICES ASSUME IInv, [Next]_vars PROVE IInv'
  OBVIOUS
<1>1. ASSUME NEW T \in Transfers, Transfer(T) PROVE IInv'
  BY <1>1, TransferKeeps
<1>2. CASE StartDump
  BY <1>2, StartDumpKeeps
<1>3. CASE EndDump
  BY <1>3, EndDumpKeeps
<1>4. ASSUME NEW t \in Table, DumpTable(t) PROVE IInv'
  BY <1>4, DumpTableKeeps
<1>5. ASSUME NEW o \in Object \ Table, DumpObject(o) PROVE IInv'
  BY <1>5, DumpObjectKeeps
<1>6. CASE Header
  BY <1>6, SkipKeeps DEF Header, At, dumping, restoring
<1>7. CASE DropExisting
  BY <1>7, DropExistingKeeps
<1>8. CASE DropFails
  BY <1>8, DropFailsKeeps
<1>9. CASE Create
  BY <1>9, CreateKeeps
<1>10. CASE Refuse
  BY <1>10, RefuseKeeps
<1>11. CASE StartSlice
  BY <1>11, StartSliceKeeps
<1>12. CASE Insert
  BY <1>12, InsertKeeps
<1>13. CASE CommitSlice
  BY <1>13, CommitSliceKeeps
<1>14. CASE EndSlices
  BY <1>14, SkipKeeps DEF EndSlices, At, dumping, restoring
<1>15. CASE Trailer
  BY <1>15, SkipKeeps DEF Trailer, At, Goto, dumping, restoring
<1>16. CASE EndOfStream
  <2>1. pc = "read" /\ pc' = "failed" /\ fed' = {}
    BY <1>16 DEF EndOfStream, Goto, IInv, FedInv, restoring
  <2> QED BY <1>16, <2>1, FailKeeps DEF EndOfStream, restoring
<1>17. CASE Abort
  BY <1>17, FailKeeps DEF Abort, Goto, At, IInv, LiveInv, StageInv
<1>18. CASE UNCHANGED vars
  <2>1. /\ Current' = Current /\ moment' = moment /\ source' = source /\ todo' = todo
        /\ stream' = stream /\ UNCHANGED <<cmd, pc, restoring>>
    BY <1>18 DEF vars, dumping, restoring, Current
  <2>2. \A o : Waiting(o)' <=> Waiting(o)
    BY <2>1, WaitingSame
  <2>3. StreamInv' /\ DomainInv'
    BY <2>1, StreamSame DEF restoring, IInv, DomainInv, Ended
  <2>4. ShapeInv' /\ KeptInv' /\ FedInv'
    BY <2>1, <2>2 DEF restoring, IInv, ShapeInv, KeptInv, FedInv, RowsTo, OldRow, Row
  <2>5. LiveInv'
    <3> SUFFICES ASSUME pc # "failed" PROVE StageInv' /\ DoneInv' /\ RowsInv' /\ EarlyInv'
      BY <2>1 DEF LiveInv
    <3>1. StageInv' /\ DoneInv' /\ EarlyInv'
      BY <2>1, <2>2 DEF restoring, IInv, LiveInv, StageInv, DoneInv, EarlyInv, CanCreate
    <3>2. RowsInv'
      BY <2>1, <2>2 DEF restoring, IInv, LiveInv, RowsInv, RowsTo, OldRow, Row, SlicesDone, Within
    <3> QED BY <3>1, <3>2
  <2> QED BY <2>3, <2>4, <2>5 DEF IInv
<1> QED BY <1>1, <1>2, <1>3, <1>4, <1>5, <1>6, <1>7, <1>8, <1>9, <1>10, <1>11, <1>12, <1>13,
           <1>14, <1>15, <1>16, <1>17, <1>18 DEF Next, Dump, Restore

\* The invariant holds of every behaviour.
THEOREM Inductive == Spec => []IInv
  BY InitHolds, NextHolds, PTL DEF Spec

-----------------------------------------------------------------------------
\* The rows of a slice are those of the dumped database in the columns that
\* are dumped, and in a table that is not Stamped in all of them.
LEMMA RowsDumped ==
  ASSUME NEW t \in Table, NEW n \in 0 .. Slices[t]
  PROVE  LET S == RowsOf(t, moment[t])
         IN  /\ Dumped(RowsTo(t, n)) \subseteq Dumped(S)
             /\ n = Slices[t] =>
                  Dumped(RowsTo(t, n)) = Dumped(S) /\ (t \notin Stamped => RowsTo(t, n) = S)
<1> DEFINE v == moment[t]
           R == RowsTo(t, n)
           Plain(i, b) ==
             [table |-> t, slice |-> i, batch |-> b, version |-> v, rest |-> Default]
           Source(i, b) == [Row(t, i, b, v) EXCEPT !.rest = v]
<1>0. R = {Row(t, i, b, v) : i \in 1 .. n, b \in 1 .. Batches}
  BY DEF RowsTo
<1>1. Slices[t] \in Nat /\ 1 .. n \subseteq 1 .. Slices[t]
  BY Schema
<1>2. \A i, b : [Row(t, i, b, v) EXCEPT !.rest = Default] = Plain(i, b)
  BY DEF Row
<1>3. \A i, b : [Source(i, b) EXCEPT !.rest = Default] = Plain(i, b)
  <2>1. \A i, b : Source(i, b) =
          [table |-> t, slice |-> i, batch |-> b, version |-> v, rest |-> v]
    BY DEF Row
  <2> HIDE DEF Source
  <2> QED BY <2>1
<1>4. t \notin Stamped => \A i, b : Source(i, b) = Row(t, i, b, v)
  BY DEF Row, Filled
<1>5. RowsOf(t, v) = {Source(i, b) : i \in 1 .. Slices[t], b \in 1 .. Batches}
  BY DEF RowsOf
<1> HIDE DEF Plain, Source, R, v
<1>6. Dumped(R) = {Plain(i, b) : i \in 1 .. n, b \in 1 .. Batches}
  BY <1>0, <1>2 DEF Dumped
<1>7. Dumped(RowsOf(t, v)) = {Plain(i, b) : i \in 1 .. Slices[t], b \in 1 .. Batches}
  BY <1>3, <1>5 DEF Dumped
<1>8. Dumped(R) \subseteq Dumped(RowsOf(t, v))
  BY <1>1, <1>6, <1>7
<1>9. ASSUME n = Slices[t]
      PROVE  Dumped(R) = Dumped(RowsOf(t, v)) /\ (t \notin Stamped => R = RowsOf(t, v))
  <2>1. Dumped(R) = Dumped(RowsOf(t, v))
    BY <1>6, <1>7, <1>9
  <2>2. ASSUME t \notin Stamped PROVE R = RowsOf(t, v)
    BY <1>0, <1>4, <1>5, <1>9, <2>2
  <2> QED BY <2>1, <2>2
<1> QED BY <1>8, <1>9 DEF R, v

\* Every state is of its types, and no session has rows of two slices in a
\* transaction.
THEOREM TypeCorrect == Spec => []TypeOK
<1>1. IInv => TypeOK
  <2> SUFFICES ASSUME IInv PROVE TypeOK
    OBVIOUS
  <2>1. ASSUME NEW t \in Table
        PROVE  Dumped(rows[t]) \subseteq
                 {OldRow(t)} \cup UNION {Dumped(RowsOf(t, v)) : v \in 1 .. MaxVersion}
    <3>1. ASSUME NEW n \in 0 .. Slices[t], rows[t] = RowsTo(t, n)
          PROVE  Dumped(rows[t]) \subseteq Dumped(RowsOf(t, moment[t]))
      BY <3>1, RowsDumped
    <3>2. moment[t] \in 1 .. MaxVersion
      BY DEF IInv, DomainInv
    <3>3. CASE rows[t] \subseteq {OldRow(t)}
      <4>1. [OldRow(t) EXCEPT !.rest = Default] = OldRow(t)
        BY DEF OldRow, Row, Filled, Default
      <4> QED BY <3>3, <4>1 DEF Dumped
    <3> QED BY <3>1, <3>2, <3>3 DEF IInv, ShapeInv
  <2>2. ASSUME fed # {}
        PROVE  pc = "insert" /\ \A r \in fed : r.table = Current.obj /\ r.slice = Current.n
    BY <2>2 DEF IInv, FedInv, Row
  <2> QED BY <2>1, <2>2 DEF IInv, DomainInv, TypeOK
<1> QED BY <1>1, Inductive, PTL

\* A restore that reports success has restored every object, and all the
\* rows as they were at the moment the dump's transaction began, but for the
\* columns of a Stamped table that are not dumped.
THEOREM MomentCorrect == Spec => []MomentRestored
<1>1. IInv => MomentRestored
  <2> SUFFICES ASSUME IInv, pc = "ok"
               PROVE  /\ objs = Object
                      /\ \A t \in Table : Dumped(rows[t]) = Dumped(RowsOf(t, moment[t]))
                      /\ \A t \in Table \ Stamped : rows[t] = RowsOf(t, moment[t])
    BY DEF MomentRestored
  <2>1. LiveInv /\ stream = <<>> /\ todo = {} /\ objs \subseteq Object
    BY DEF IInv, DomainInv, LiveInv, StageInv
  <2>2. \A o : ~ Waiting(o)
    BY <2>1 DEF Waiting, Created
  <2>3. objs = Object
    BY <2>1, <2>2 DEF LiveInv, DoneInv
  <2>4. \A t \in Table : rows[t] = RowsTo(t, Slices[t])
    BY <2>1, <2>2 DEF LiveInv, RowsInv, SlicesDone, Within
  <2>5. ASSUME NEW t \in Table
        PROVE  /\ Dumped(rows[t]) = Dumped(RowsOf(t, moment[t]))
               /\ t \notin Stamped => rows[t] = RowsOf(t, moment[t])
    <3>1. Slices[t] \in 0 .. Slices[t]
      BY Schema
    <3> QED BY <2>4, <3>1, RowsDumped
  <2> QED BY <2>3, <2>5
<1> QED BY <1>1, Inductive, PTL

\* However a restore ends, of a table others see the first slices, whole.
THEOREM SlicesCorrect == Spec => []SlicesWhole
<1>1. IInv => SlicesWhole
  <2> SUFFICES ASSUME IInv, NEW t \in Table
               PROVE  \E n \in 0 .. Slices[t] :
                        {<<r.slice, r.batch>> : r \in rows[t] \ {OldRow(t)}}
                          = (1 .. n) \X (1 .. Batches)
    BY DEF SlicesWhole
  <2>0. Slices[t] \in Nat
    BY Schema
  <2>1. CASE rows[t] \subseteq {OldRow(t)}
    <3>1. rows[t] \ {OldRow(t)} = {} /\ 1 .. 0 = {} /\ 0 \in 0 .. Slices[t]
      BY <2>0, <2>1
    <3>2. {<<r.slice, r.batch>> : r \in rows[t] \ {OldRow(t)}} = (1 .. 0) \X (1 .. Batches)
      BY <3>1
    <3> QED BY <3>1, <3>2
  <2>2. ASSUME NEW n \in 0 .. Slices[t], rows[t] = RowsTo(t, n)
        PROVE  {<<r.slice, r.batch>> : r \in rows[t] \ {OldRow(t)}}
                 = (1 .. n) \X (1 .. Batches)
    <3>1. OldRow(t) \notin RowsTo(t, n)
      <4>1. 0 \notin 1 .. n
        BY <2>0
      <4>2. OldRow(t).slice = 0
        BY DEF OldRow, Row
      <4>3. \A r \in RowsTo(t, n) : r.slice \in 1 .. n
        BY DEF RowsTo, Row
      <4> QED BY <4>1, <4>2, <4>3
    <3>2. rows[t] \ {OldRow(t)} = RowsTo(t, n)
      BY <2>2, <3>1
    <3>3. \A i, b : Row(t, i, b, moment[t]).slice = i /\ Row(t, i, b, moment[t]).batch = b
      BY DEF Row
    <3>4. {<<r.slice, r.batch>> : r \in RowsTo(t, n)} = (1 .. n) \X (1 .. Batches)
      <4>1. ASSUME NEW r \in RowsTo(t, n)
            PROVE  <<r.slice, r.batch>> \in (1 .. n) \X (1 .. Batches)
        BY DEF RowsTo, Row
      <4>2. ASSUME NEW i \in 1 .. n, NEW b \in 1 .. Batches
            PROVE  \E r \in RowsTo(t, n) : <<i, b>> = <<r.slice, r.batch>>
        <5>1. Row(t, i, b, moment[t]) \in RowsTo(t, n)
          BY DEF RowsTo
        <5> QED BY <3>3, <5>1
      <4> QED BY <4>1, <4>2
    <3> QED BY <3>2, <3>4
  <2> QED BY <2>1, <2>2 DEF IInv, ShapeInv
<1> QED BY <1>1, Inductive, PTL

\* Without --drop-existing the tables of the target are as they were.
THEOREM ExistingCorrect == Spec => []ExistingKept
<1>1. IInv => ExistingKept
  BY DEF IInv, KeptInv, ExistingKept
<1> QED BY <1>1, Inductive, PTL

\* Where there was nothing, or what there was is dropped, only a view is
\* refused, for a view or function that comes later in the dump.
THEOREM RefusedCorrect == Spec => []OnlyViewsRefused
<1>1. IInv => OnlyViewsRefused
  <2> DEFINE c == Current.obj
  <2> SUFFICES ASSUME IInv, pc = "refused", cmd.target = {} \/ cmd.drop, c \notin undropped
               PROVE  /\ Kind[c] = "view"
                      /\ \E q \in Needs[c] \ objs :
                           /\ Kind[q] \in {"view", "function"}
                           /\ \E i \in DOMAIN stream : stream[i].obj = q
    BY DEF OnlyViewsRefused
  <2>1. /\ LiveInv /\ stream # <<>> /\ todo = {} /\ Creates(Current) /\ ~ CanCreate(c)
        /\ SoundStream(stream) /\ Ordered(stream)
    BY DEF IInv, LiveInv, StageInv, StreamInv
  <2>2. c \in Object /\ Waiting(c)
    BY <2>1, CurrentWaits
  <2>3. c \notin objs
    BY <2>1, <2>2 DEF LiveInv, EarlyInv
  <2>4. PICK q \in Needs[c] : q \notin objs
    BY <2>1, <2>3 DEF CanCreate
  <2> HIDE DEF c
  <2>5. q \in Object /\ Waiting(q)
    BY <2>1, <2>2, <2>4, SchemaAssumption DEF LiveInv, DoneInv
  <2>6. PICK i \in 1 .. Len(stream) : Creates(stream[i]) /\ stream[i].obj = q
    BY <2>1, <2>5 DEF Waiting, Created
  <2>7. Rank[Kind[c]] <= Rank[Kind[q]]
    <3>1. Len(stream) \in Nat \ {0} /\ 1 \in 1 .. Len(stream) /\ Current = stream[1]
      BY <2>1, CurrentIs
    <3>2. Kind[c] = stream[1].kind /\ Kind[q] = stream[i].kind
      BY <2>1, <2>6, <3>1 DEF SoundStream, Sound, c
    <3>3. Kind[c] \in Objects
      BY <2>2, Schema
    <3>4. CASE i = 1
      BY <3>2, <3>3, <3>4, Ranks
    <3>5. CASE i # 1
      <4>1. 1 < i
        BY <3>1, <3>5
      <4> QED BY <2>1, <2>6, <3>1, <3>2, <4>1 DEF Ordered
    <3> QED BY <3>4, <3>5
  <2>8. Kind[c] \in {"view", "trigger"}
    BY <2>2, <2>4, SchemaAssumption
  <2>9. Kind[c] = "trigger" => Kind[q] = "table"
    BY <2>2, <2>4, SchemaAssumption, Schema
  <2>10. Kind[c] = "view"
    BY <2>7, <2>8, <2>9, Ranks
  <2>11. Kind[q] \in {"view", "function", "table"}
    BY <2>2, <2>4, <2>10, SchemaAssumption DEF Of, Table
  <2>12. Kind[q] \in {"view", "function"}
    BY <2>7, <2>10, <2>11, Ranks
  <2>13. i \in DOMAIN stream
    BY <2>1, LenProperties DEF SoundStream
  <2> QED BY <2>4, <2>6, <2>10, <2>12, <2>13
<1> QED BY <1>1, Inductive, PTL

=============================================================================
