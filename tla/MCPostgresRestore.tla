------------------------- MODULE MCPostgresRestore -------------------------
(***************************************************************************)
(* PostgresRestore for a small database.  Table 6 owns sequence 4, which   *)
(* the default of table 5 uses too, so that over an older state the DROP   *)
(* of table 6 takes that default again, and the sequence comes back plain. *)
(* Table 5 has a column of type 3 and rows.  View 7 uses view 8, which     *)
(* comes after it by name; 9 is a materialized view over a view, and has   *)
(* an index.                                                               *)
(***************************************************************************)
EXTENDS PostgresRestore

MCKind ==
  <<"extension", "schema", "type", "sequence", "table", "table", "view", "view",
    "matview", "function", "index", "key", "foreign", "check", "trigger">>

MCObject == DOMAIN MCKind

MCNeeds ==
  <<{}, {}, {2}, {2}, {2, 3, 4}, {2, 4}, {2, 8}, {2, 5}, {2, 7}, {2, 8},
    {9}, {5}, {6, 12}, {6}, {5, 10}>>

MCOwned == [t \in {5, 6} |-> IF t = 6 THEN {4} ELSE {}]

MCSlices == [t \in {5, 6} |-> IF t = 5 THEN 2 ELSE 0]

\* Nothing, and an older state of the database, without the type.
Older == {{}, MCObject \ {3, 14}}

\* This database is one of those that the theorems are about.
ASSUME WellOrdered == TypesFirst /\ Suited /\ Removable

=============================================================================
