--------------------------- MODULE MCMySqlAdapter ---------------------------
(***************************************************************************)
(* MySqlAdapter for two tables, of two slices and one, a view that uses    *)
(* one that comes after it by name, a trigger, a procedure, a function.    *)
(* The second table has a column with DEFAULT CURRENT_TIMESTAMP.           *)
(***************************************************************************)
EXTENDS MySqlAdapter

MCKind ==
  <<"table", "table", "view", "view", "trigger", "procedure", "function">>

MCObject == DOMAIN MCKind

MCNeeds == <<{}, {}, {1, 4}, {2}, {2}, {}, {}>>

MCSlices == [t \in {1, 2} |-> IF t = 1 THEN 2 ELSE 1]

\* Transactions over both tables, and over the second one alone.
MCTransfers == {{1, 2}, {2}}

\* Nothing, an older state of the database, and the database itself.
MCTargets == {{}, {2, 4, 5}, MCObject}

=============================================================================
