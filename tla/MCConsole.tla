----------------------------- MODULE MCConsole -----------------------------
(* Two entries sent in up to three POSTs; one site at first and two POSTs  *)
(* for more, listed one by one; two months, two batches, two               *)
(* overlapping polls.                                                       *)
EXTENDS Console

MCSiteOf == [d \in Drafts |-> "s1"]
MCSlugs == {"s1", "s2", "s3"}
MCSeeds == <<"s1">>

=============================================================================
