------------------------------ MODULE MCVisits ------------------------------
EXTENDS Visits, TLC

MCSymmetry == Permutations(Conns)
=============================================================================
