---------------------------- MODULE MCCurlSession ----------------------------
(* Small instances of CurlSession: users u1 and u2, reactors r1 and r2.      *)
EXTENDS CurlSession, TLC
CONSTANTS u1, u2, r1, r2

TwoUsers == {u1, u2}
TwoReactors == {r1, r2}
OneReactor == {r1}
ThreadSymmetry == Permutations({u1, u2}) \cup Permutations({r1, r2})
=============================================================================
