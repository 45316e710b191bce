------------------------------- MODULE SigDB -------------------------------
(***************************************************************************)
(* The rule base of lib/core/sigdb.mbt: the rogue rules and the whitelist  *)
(* loaded from JSON, and the verdict on one file.  Texts are opaque: what  *)
(* the code asks of them is whether a pattern fits a path (path_match),    *)
(* what a pattern becomes when environment variables are put in            *)
(* (expand_env), and whether two lower-cased file names are equal.         *)
(***************************************************************************)
EXTENDS Integers, Sequences

CONSTANTS
  Paths,     (* The files that may be scanned.                               *)
  Patterns,  (* Path patterns, as written and expanded.                      *)
  Rules,     (* The sequence db.rules.rules.                                 *)
  Entries,   (* The set of db.whitelist.entries.                             *)
  FileName,  (* [Paths -> name]: the part after the last backslash, in lower *)
             (* case.                                                        *)
  Fits,      (* Pairs <<pattern, path>> for which path_match is true.        *)
  Expanded,  (* [Patterns -> Patterns]: expand_env.                          *)
  Contains   (* Pairs <<signer, text>>: the signer contains the text.        *)

ASSUME SigDBAssumption ==
  /\ Expanded \in [Patterns -> Patterns]
  /\ Fits \subseteq Patterns \X Paths
  /\ FileName \in [Paths -> {FileName[p] : p \in Paths}]
  /\ Rules \in Seq({Rules[i] : i \in DOMAIN Rules})
  /\ \A i \in DOMAIN Rules : Rules[i].path_patterns \subseteq Patterns
  /\ \A e \in Entries : e.paths \subseteq Patterns

(* A signer or a hash that is not known.                                    *)
NoText == ""

path_filename(p) == FileName[p]

path_match(pattern, p) == <<pattern, p>> \in Fits

expand_env(pattern) == Expanded[pattern]

(* A signer, a hash or a path of one entry suffices.  Patterns are taken   *)
(* as they are written.                                                    *)
is_whitelisted(p, signer, sha256) ==
  \E e \in Entries :
    \/ e.signer # NoText /\ signer # NoText /\ signer = e.signer
    \/ sha256 \in e.hashes_sha256
    \/ \E pattern \in e.paths : path_match(pattern, p)

match_rule(rule, p, signer, sha256) ==
  \/ signer # NoText /\ \E sig \in rule.signatures : <<signer, sig>> \in Contains
  \/ \E pattern \in rule.path_patterns : path_match(expand_env(pattern), p)
  \/ path_filename(p) \in rule.file_names
  \/ sha256 \in rule.hashes_sha256

(* The places of the rules that hit; only the first is ever used.          *)
match_rogue_rules(p, signer, sha256) ==
  {i \in DOMAIN Rules : match_rule(Rules[i], p, signer, sha256)}

(* bytes_sha256 and the signer parse_pe finds, for any content of a file.  *)
bytes_sha256(data) == NoText
parse_pe_signer(data) == NoText

(***************************************************************************)
(* A "misleading" file has a header with an e_lfanew that is negative, or  *)
(* so large that adding 24 to it is: it passes the check of the length and *)
(* is used as an index, which ends the program.                            *)
(***************************************************************************)
parse_pe_panics(data) == data = "misleading"
=============================================================================
