------------------------------- MODULE MCJobs -------------------------------
(***************************************************************************)
(* Two jobs of any two kinds at once, on every platform.                   *)
(***************************************************************************)
EXTENDS Jobs

CONSTANTS j1, j2

MCKinds == AllKinds
=============================================================================
