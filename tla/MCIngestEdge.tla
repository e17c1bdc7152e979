----------------------------- MODULE MCIngestEdge ---------------------------
(* IngestEdge on small instances: the interchangeable parts.               *)
EXTENDS IngestEdge, TLC

Symmetry ==
    Permutations(Requests) \union Permutations(Apis) \union Permutations(Creators)

=============================================================================
