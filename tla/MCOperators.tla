---------------------------- MODULE MCOperators ----------------------------
(***************************************************************************)
(* The two operators of a rolling update.                                  *)
(***************************************************************************)
EXTENDS Operators

MCProcesses == {"old", "new"}
=============================================================================
