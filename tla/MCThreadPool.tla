---------------------------- MODULE MCThreadPool ----------------------------
(***************************************************************************)
(* Three tasks, two of them with jobs that can be cancelled and can block  *)
(* for ever, on a pool whose limit is one worker: jobs queue, it is        *)
(* reused, and cancellations meet jobs that are queued, starting, blocked, *)
(* just finished, posted or handled.                                       *)
(***************************************************************************)
EXTENDS ThreadPool

CONSTANTS t1, t2, t3, w1, w2
=============================================================================
