---------------------------- MODULE MCSpecStore ----------------------------
EXTENDS SpecStore, TLC
SharedSpecs == {<<System, n>> : n \in Names}
Symmetry == Permutations(Requests)
=============================================================================
