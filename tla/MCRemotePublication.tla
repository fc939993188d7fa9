------------------------- MODULE MCRemotePublication -------------------------
EXTENDS RemotePublication, TLC

Symmetry == Permutations(Photo) \cup Permutations(Proc)

=============================================================================
