----------------------------- MODULE MCSiteList -----------------------------
(* Instance of SiteList for TLC: names are interchangeable, and so are the  *)
(* slots of the actions under way.                                          *)
EXTENDS SiteList, TLC

Symmetry == Permutations(Names) \cup Permutations(Slots)
=============================================================================
