--------------------------- MODULE MCSharedBranch ---------------------------
EXTENDS SharedBranch, TLC

Symmetry == Permutations(Mine) \cup Permutations(Content)

=============================================================================
