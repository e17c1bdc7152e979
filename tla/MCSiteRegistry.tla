--------------------------- MODULE MCSiteRegistry ---------------------------
(* SiteRegistry on a small instance: the interchangeable parts.            *)
EXTENDS SiteRegistry, TLC

Symmetry == Permutations(Creators) \union Permutations(Apis)

=============================================================================
