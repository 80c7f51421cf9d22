---------------------------- MODULE MCRepository ----------------------------
(***************************************************************************)
(* Repository for TLC.  The processes are interchangeable when all of them *)
(* or none may stall; so are the blobs.                                    *)
(***************************************************************************)
EXTENDS Repository, TLC

Symmetry == Permutations(Proc) \cup Permutations(Blob)

=============================================================================
