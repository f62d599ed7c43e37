---------------------------- MODULE MCHostChannel ----------------------------
(* Instances of HostChannel for TLC.                                       *)
EXTENDS HostChannel, TLC

CONSTANTS f1, f2, f3, A, B, T

\* Two futures of one task and one of another.
MCTaskOf == (f1 :> A) @@ (f2 :> A) @@ (f3 :> B)
\* One future of a task and one of the timer, which polls with a no-op waker.
MCTimerTaskOf == (f1 :> A) @@ (f2 :> T)
=============================================================================
