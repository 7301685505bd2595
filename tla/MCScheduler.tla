----------------------------- MODULE MCScheduler -----------------------------
(***************************************************************************)
(* Small instances of Scheduler for TLC.  The second provider is the one   *)
(* with the best initial score, so that the order of the vector and the    *)
(* order of the scores differ.                                             *)
(***************************************************************************)
EXTENDS Scheduler, TLC

ScoreOf == [p \in Providers |-> IF p = 2 THEN 0 ELSE 1]

\* Threads are interchangeable; the runs of liveness properties do without.
ThreadSymmetry == Permutations(Threads)
=============================================================================
