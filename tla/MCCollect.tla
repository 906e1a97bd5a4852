------------------------------ MODULE MCCollect ------------------------------
EXTENDS Collect, TLC
Symmetry == Permutations(Keys)
=============================================================================
