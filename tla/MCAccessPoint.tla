--------------------------- MODULE MCAccessPoint ---------------------------
\* The access point for TLC: the clients are interchangeable.
EXTENDS AccessPoint, TLC

Symmetry == Permutations(Macs)
=============================================================================
