---- MODULE MCDocusignAuth ----
EXTENDS DocusignAuth, TLC
Symmetry == Permutations(Request)
====
