------------------------------ MODULE MCTagMap ------------------------------
(***************************************************************************)
(* Bounded instances of TagMap.  The page-table geometry is 2 x 2 x 2 in   *)
(* the memory run, and Ptr picks two bytes of one page, a byte of another  *)
(* page of the same table, one of another table and the first address      *)
(* without a shadow byte.                                                  *)
(***************************************************************************)
EXTENDS TagMap, TLC

CONSTANTS o1, o2, o3

Symmetric == Permutations({o1, o2, o3} \cap Offset)
=============================================================================
