--------------------------- MODULE MCLinkMonitor ---------------------------
(***************************************************************************)
(* Instances of LinkMonitor for TLC.                                       *)
(***************************************************************************)
EXTENDS LinkMonitor, TLC

CONSTANTS link, v4, v6

OneFamily   == {v4}
TwoFamilies == {v4, v6}
FamilySymmetry == Permutations(TwoFamilies)
=============================================================================
