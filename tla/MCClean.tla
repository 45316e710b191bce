------------------------------ MODULE MCClean ------------------------------
(***************************************************************************)
(* An instance of Clean for TLC: one threat with all four parts, whose     *)
(* process runs from its file, and one that names a file on another volume *)
(* than the quarantine; two threats in the first run, one in the second.   *)
(***************************************************************************)
EXTENDS Clean

CONSTANTS p1, k1, s1, f1, f2, d1, d2

Full == [process_id |-> p1, run_key_name |-> k1, service_name |-> s1, file_path |-> f1]
OnlyFile == [process_id |-> NONE, run_key_name |-> NONE, service_name |-> NONE, file_path |-> f2]

MCThreats == {Full, OnlyFile}
MCImage == [p \in {p1} |-> f1]
MCMaxSelected == <<2, 1>>
=============================================================================
