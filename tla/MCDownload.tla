----------------------------- MODULE MCDownload ------------------------------
(***************************************************************************)
(* Small instances of Download for TLC.                                    *)
(***************************************************************************)
EXTENDS Download, TLC

\* Clients are interchangeable.  The jobs are not: AnyJob names one of them.
ClientSymmetry == Permutations(Clients)
=============================================================================
