---------------------------- MODULE MCSupervisor ----------------------------
EXTENDS Supervisor, TLC

CONSTANTS c1, c2

MCControllers == {c1, c2}

Symmetry == Permutations(MCControllers)
=============================================================================
