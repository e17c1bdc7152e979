-------------------------- MODULE MCIngestPipeline --------------------------
(***************************************************************************)
(* IngestPipeline on small instances.  Both instants lie in month 1.       *)
(***************************************************************************)
EXTENDS IngestPipeline, TLC

CONSTANTS p1, p2    \* emission-point codes

P1 == [code |-> p1, at |-> 1]
P2 == [code |-> p2, at |-> 1]

MCLoadsOne == {<<P1>>}
MCLoadsPoison == {<<P1>>, <<P1, P2>>}
MCLoadsEdited == {<<P1>>, <<P2>>}
MCHeavy == {P1, P2}
MCMonthOf == [k \in Sites \X Instants |-> 1]

Symmetry == Permutations(Consumers) \union Permutations(Requests)

=============================================================================
