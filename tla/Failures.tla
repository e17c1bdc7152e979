------------------------------ MODULE Failures ------------------------------
(* The failures a behaviour may contain: which kinds, and how many of them. *)
EXTENDS Naturals

CONSTANTS
    Faults,         \* the kinds of failure this instance lets happen
    MaxFaults       \* bound: how many failures a behaviour contains

ASSUME FailuresAssumption == MaxFaults \in Nat

VARIABLE faults     \* failures so far

\* A failure of the given kind happens in this step.
Fault(kind) ==
    /\ kind \in Faults
    /\ faults < MaxFaults
    /\ faults' = faults + 1

=============================================================================
