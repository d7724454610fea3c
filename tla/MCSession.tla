----------------------------- MODULE MCSession ------------------------------
\* Session on small instances: connections are interchangeable.
EXTENDS Session, TLC

ConnSymmetry == Permutations(Conns)
=============================================================================
