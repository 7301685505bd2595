---------------------------- MODULE MCConnections ----------------------------
(***************************************************************************)
(* Instances of Connections for TLC.                                       *)
(***************************************************************************)
EXTENDS Connections, TLC

\* The connections are alike, nothing depends on which one it is.
ConnectionSymmetry == Permutations(Connections)
=============================================================================
