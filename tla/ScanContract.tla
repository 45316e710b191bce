---------------------------- MODULE ScanContract ----------------------------
(***************************************************************************)
(* What a scan promises, whichever engine carries it out: it fixes a list  *)
(* of files, judges them one after the other, names each at most once and  *)
(* only if the rules allow it, and concludes when none is left.  Without a *)
(* conclusion it ends for two reasons only: the user ends it, or the next  *)
(* file is one that this engine cannot survive.  After a conclusion there  *)
(* may be another scan.                                                    *)
(***************************************************************************)
EXTENDS Sequences

CONSTANTS
  Paths,    (* The files there may be.                                       *)
  Rogues,   (* Those that may be named.                                      *)
  Interruptible  (* Whether the user can end it.                             *)

VARIABLES
  phase,    (* "ready", "judging", "concluded" or "ended".                   *)
  left,     (* The files still to judge, in order.                           *)
  named,    (* The files named, in order.                                    *)
  fatal     (* The files that end it at the moment, if it comes to them.     *)

vars == <<phase, left, named, fatal>>

Init ==
  /\ phase = "ready"
  /\ left = <<>>
  /\ named = <<>>
  /\ fatal \in SUBSET Paths

List ==
  /\ phase \in {"ready", "concluded"}
  /\ phase' = "judging"
  /\ left' \in Seq(Paths)
  /\ named' = <<>>
  /\ UNCHANGED fatal

Pass ==
  /\ phase = "judging"
  /\ left # <<>>
  /\ left' = Tail(left)
  /\ UNCHANGED <<phase, named, fatal>>

Name ==
  /\ phase = "judging"
  /\ left # <<>>
  /\ Head(left) \in Rogues
  /\ named' = Append(named, Head(left))
  /\ left' = Tail(left)
  /\ UNCHANGED <<phase, fatal>>

Conclude ==
  /\ phase = "judging"
  /\ left = <<>>
  /\ phase' = "concluded"
  /\ UNCHANGED <<left, named, fatal>>

End ==
  /\ phase' = "ended"
  /\ left' = <<>>
  /\ UNCHANGED <<named, fatal>>

Interrupt == Interruptible /\ phase \in {"ready", "judging"} /\ End

Succumb == phase = "judging" /\ left # <<>> /\ Head(left) \in fatal /\ End

(* Other programs change the files. *)
FilesChange ==
  /\ fatal' \in SUBSET Paths
  /\ UNCHANGED <<phase, left, named>>

Next == List \/ Pass \/ Name \/ Conclude \/ Interrupt \/ Succumb \/ FilesChange

Spec == Init /\ [][Next]_vars
=============================================================================
