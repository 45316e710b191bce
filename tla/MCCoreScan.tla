---------------------------- MODULE MCCoreScan ----------------------------
(***************************************************************************)
(* Instances of the engine library's scan for TLC: a rogue in a directory  *)
(* of its own, one under a path the whitelist names without a variable,    *)
(* and a file neither a rule nor the whitelist names; and for itself a     *)
(* file in the system directory with the name of a rogue.                  *)
(***************************************************************************)
EXTENDS CoreScan

CONSTANTS sys, rogue, tool, plain

MCPaths == {rogue, tool, plain}
MCSystemPaths == {sys}
MCPatterns == {"%SystemRoot%\\System32\\*", "C:\\Windows\\System32\\*",
               "%ProgramFiles%\\2345*", "C:\\Program Files\\2345*", "D:\\tools\\*"}
MCExpanded == [pattern \in MCPatterns |->
  CASE pattern = "%SystemRoot%\\System32\\*" -> "C:\\Windows\\System32\\*"
    [] pattern = "%ProgramFiles%\\2345*" -> "C:\\Program Files\\2345*"
    [] OTHER -> pattern]
MCFits == {<<"C:\\Program Files\\2345*", rogue>>, <<"D:\\tools\\*", tool>>}
MCSystemFits == {<<"C:\\Windows\\System32\\*", sys>>}
MCFileName == [p \in Paths |->
  CASE p = rogue -> "2345explorer.exe" [] p = plain -> "notes.txt"
    [] OTHER -> "drivergenius.exe"]

Rule(name, patterns, signatures) ==
  [file_names |-> {name}, path_patterns |-> patterns, signatures |-> signatures,
   hashes_sha256 |-> {}]
MCRules == <<Rule("drivergenius.exe", {}, {"DriverGenius"}),
             Rule("2345safe.exe", {"%ProgramFiles%\\2345*"}, {"2345"})>>

Entry(signer_name, paths) == [signer |-> signer_name, hashes_sha256 |-> {}, paths |-> paths]
MCEntries == {Entry("Microsoft Corporation", {"%SystemRoot%\\System32\\*"}),
              Entry("", {"D:\\tools\\*"})}
MCContains == {}
=============================================================================
