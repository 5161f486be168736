---------------------------- MODULE MCVariantDialog ----------------------------
EXTENDS VariantDialog, TLC
Symmetry == Permutations(Admin) \cup Permutations(Cell)
=============================================================================
