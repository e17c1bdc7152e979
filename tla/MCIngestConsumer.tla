-------------------------- MODULE MCIngestConsumer --------------------------
(***************************************************************************)
(* IngestConsumer on small instances.  Month 1 is past once the clock has  *)
(* moved; instant 1 lies in it at every site, instant 2 in month 2.        *)
(***************************************************************************)
EXTENDS IngestConsumer, TLC

CONSTANTS p1, p2    \* emission-point codes

P1At1 == [code |-> p1, at |-> 1]
P2At1 == [code |-> p2, at |-> 1]
P2At2 == [code |-> p2, at |-> 2]

\* A batch of one; one that shares its key and spans two months; one that
\* repeats a key; and one whose two large values fall in one month.
One == <<P1At1>>
Spanning == <<P1At1, P2At2>>
Repeated == <<P2At2, P2At2>>
TooMuch == <<P1At1, P2At1>>

MCLoadsOne == {One}
MCLoadsMixed == {Spanning, Repeated, TooMuch}
MCLoadsPoison == {One, TooMuch}
MCHeavy == {P1At1, P2At1}
MCMonthOf == [k \in Sites \X Instants |-> k[2]]

Symmetry == Permutations(Consumers)

=============================================================================
