----------------------------- MODULE MCRestart ------------------------------
\* Restart on small instances: connections are interchangeable, and so are names.
EXTENDS Restart, TLC

ConnNameSymmetry == Permutations(Conns) \cup Permutations(Names)
=============================================================================
