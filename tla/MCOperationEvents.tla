-------------------------- MODULE MCOperationEvents --------------------------
EXTENDS OperationEvents, TLC

Symmetry == Permutations(Bytes)

=============================================================================
