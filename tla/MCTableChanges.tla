--------------------------- MODULE MCTableChanges ---------------------------
(***************************************************************************)
(* TableChanges with interchangeable row images and requests.  No property *)
(* checked with the symmetry is temporal.                                  *)
(***************************************************************************)
EXTENDS TableChanges

CONSTANTS key, a, b, r1, r2

Symmetry == Permutations(Image) \cup Permutations(Request)
=============================================================================
