---------------------------- MODULE MCFileTable ----------------------------
EXTENDS FileTableHistory, TLC

Symmetry == Permutations(Names)
=============================================================================
