--------------------------- MODULE MCMirrorSelection ---------------------------
(***************************************************************************)
(* An instance of MirrorSelection for TLC: three mirrors in two countries; *)
(* the list names one of them twice, and one passes only with the relaxed  *)
(* settings.                                                               *)
(***************************************************************************)
EXTENDS MirrorSelection, TLC

CONSTANTS m1, m2, m3, A, B

ListingOf    == <<m3, m1, m2, m1>>
CountryOf    == [m \in Mirrors |-> IF m = m3 THEN B ELSE A]
ScoreOf      == [m \in Mirrors |-> IF m = m2 THEN 2 ELSE 1]
PredefinedOf == <<m2, m2>>
=============================================================================
