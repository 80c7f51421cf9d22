---------------------------- MODULE MCAnyBackend ----------------------------
(***************************************************************************)
(* AnyBackend for two hosts: clients 1 and 2 are processes of one machine, *)
(* client 3 runs elsewhere, on Windows.  System calls of client 1 may fail *)
(* and the process id of client 2 is taken again.  At first one object is  *)
(* there, so that a put may replace one or not and a delete finds one or   *)
(* not; with a put first, a listing has two pages.                         *)
(***************************************************************************)
EXTENDS AnyBackend

OneTwoThree == <<"here", "here", "there">>
OneDirEach == [k \in Key |-> k]

FirstThereInit == Init /\ \A k \in Key : obj[k] # Absent <=> k = 1

FirstThere == FirstThereInit /\ [][Next]_vars /\ Fairness

=============================================================================
