--------------------------- MODULE MCCatalogSync ---------------------------
(***************************************************************************)
(* Finite instance of CatalogSync for TLC.                                 *)
(***************************************************************************)
EXTENDS CatalogSync, TLC

CONSTANTS k1, k2, k3, norow

Both(v) == [name |-> v, desc |-> v]

\* The second report leaves the name of k1 and both texts of k2 blank, and no
\* longer lists k3.
SecondIsPoorer ==
    <<[k \in Skus |-> Both(1)],
      k1 :> [name |-> 0, desc |-> 2] @@ k2 :> Both(0) @@ k3 :> norow>>

Symmetry == Permutations(Markets) \cup Permutations(Users)
=============================================================================
