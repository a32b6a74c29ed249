------------------------------ MODULE MCHeaders ------------------------------
(* Four handles, memory for four layers and one header name.                 *)
EXTENDS Headers, TLC
CONSTANTS h1, h2, h3, h4, i1, i2, i3, i4, n1

MCHandles == {h1, h2, h3, h4}
MCImpls == {i1, i2, i3, i4}
OneName == {n1}
MCSymmetry == Permutations(MCHandles) \cup Permutations(MCImpls)
=============================================================================
