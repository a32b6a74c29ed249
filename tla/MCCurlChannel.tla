---------------------------- MODULE MCCurlChannel ----------------------------
(* Two sessions on one channel, with as many reactor threads as sends. The   *)
(* sessions are interchangeable: ids are numbers, handed out in order.       *)
EXTENDS CurlChannel, TLC
CONSTANTS s1, s2

TwoSessions == {s1, s2}
SessionSymmetry == Permutations(TwoSessions)
=============================================================================
