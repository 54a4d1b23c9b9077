--------------------------- MODULE MCManagedFiles ---------------------------
(***************************************************************************)
(* ManagedFiles for TLC.  ug's values are interchangeable with each other, *)
(* and so are the administrators': no definition singles one out.          *)
(***************************************************************************)
EXTENDS ManagedFiles, TLC

ValueSymmetry == Permutations(UgValues) \cup Permutations(AdminValues)
=============================================================================
