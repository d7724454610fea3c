------------------------------ MODULE MCServer ------------------------------
\* Server on small instances: clients are interchangeable.
EXTENDS Server, TLC

ClientSymmetry == Permutations(Clients)
=============================================================================
