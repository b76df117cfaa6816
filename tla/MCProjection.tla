---------------------------- MODULE MCProjection ----------------------------
EXTENDS Projection, TLC
CONSTANTS p1, p2, n1
Symmetry == Permutations(Pump)
SameHolder == [p \in Pump |-> n1]
=============================================================================
