-------------------------- MODULE MCOpenStackToken --------------------------
\* Instances of OpenStackToken for TLC: calls are interchangeable.
EXTENDS OpenStackToken, TLC

CallSymmetry == Permutations(Calls)
=============================================================================
