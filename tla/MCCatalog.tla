----------------------------- MODULE MCCatalog -----------------------------
(***************************************************************************)
(* Small instances of Catalog.  Workers and texts are interchangeable.     *)
(***************************************************************************)
EXTENDS Catalog, TLC

Only(flag, value) == [f \in Flags |-> IF f = flag THEN value ELSE Null]

MCCreations == {product \in Product : product.flags = [f \in Flags |-> TRUE]}

\* Withdraw, offer again, take off sale, hide; and the first with the last.
MCUpdates ==
    {Only("is_active", FALSE), Only("is_active", TRUE), Only("is_available_for_sale", FALSE),
     Only("is_pos_visible", FALSE),
     [Only("is_active", FALSE) EXCEPT !["is_pos_visible"] = TRUE]}

Symmetry == Permutations(Workers) \union Permutations(Texts)
=============================================================================
