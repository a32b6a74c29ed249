--------------------------- MODULE TransferContract ---------------------------
(***************************************************************************)
(* What core/net/curl promises a caller of response::wait(), with no       *)
(* mutex, condition variable or libcurl in sight: a session carries out    *)
(* one transfer, and a caller is told that the response is ready only once *)
(* the transfer is over, after which nothing changes any more.             *)
(***************************************************************************)
CONSTANT Users

VARIABLES
    phase,      \* "configuring", "busy" or "idle"
    told        \* what the last wait() of each user returned

vars == <<phase, told>>

Init ==
    /\ phase = "configuring"
    /\ told = [u \in Users |-> "nothing"]

Begin ==
    /\ phase = "configuring"
    /\ phase' = "busy"
    /\ UNCHANGED told

Finish ==
    /\ phase = "busy"
    /\ phase' = "idle"
    /\ UNCHANGED told

TellReady(u) ==
    /\ phase = "idle"
    /\ told' = [told EXCEPT ![u] = "ready"]
    /\ UNCHANGED phase

TellNotReady(u) ==
    /\ phase # "idle"
    /\ told' = [told EXCEPT ![u] = "not_ready"]
    /\ UNCHANGED phase

Next ==
    \/ Begin \/ Finish
    \/ \E u \in Users : TellReady(u) \/ TellNotReady(u)

Spec == Init /\ [][Next]_vars
=============================================================================
