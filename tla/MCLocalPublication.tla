------------------------- MODULE MCLocalPublication -------------------------
EXTENDS LocalPublication, TLC

Symmetry == Permutations(Content) \cup Permutations(Proc)

=============================================================================
