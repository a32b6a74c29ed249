-------------------------- MODULE MCAssignableClock --------------------------
(* Small instances of AssignableClock: a four-bit counter whose limit lies   *)
(* between the counts that sessions can reach and those of an underflow.     *)
EXTENDS AssignableClock
CONSTANTS s1, s2, s3, t1, t2

MCSessions == {s1, s2, s3}
MCThreads == {t1, t2}
OneThread == {t1}
=============================================================================
