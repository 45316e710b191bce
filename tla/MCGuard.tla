------------------------------ MODULE MCGuard ------------------------------
(***************************************************************************)
(* Instances of the guard for TLC: two files a rule matches, one of them   *)
(* by two rules, and one that is both matched and whitelisted.             *)
(***************************************************************************)
EXTENDS GuardSession

CONSTANTS r1, r2, w1

MCPaths == {r1, r2, w1}
MCTwoPaths == {r1, r2}
MCOnePath == {r1}
MCRogue == <<"2345.exe", "popup.exe">>
MCWhite == <<"windows\\system32">>
MCHolds == {<<r1, "2345.exe">>, <<r2, "popup.exe">>, <<r2, "2345.exe">>,
            <<w1, "popup.exe">>, <<w1, "windows\\system32">>}
=============================================================================
