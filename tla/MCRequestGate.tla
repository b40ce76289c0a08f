----------------------------- MODULE MCRequestGate -----------------------------
\* RequestGate for TLC: keys are interchangeable, and so are hosts.
EXTENDS RequestGate, TLC
MCSymmetry == Permutations(Keys) \union Permutations(Hosts)
=============================================================================
