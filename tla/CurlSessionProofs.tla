-------------------------- MODULE CurlSessionProofs --------------------------
(***************************************************************************)
(* The safety of CurlSession for any number of user and reactor threads.   *)
(* The invariant is built around the mutex: who holds it (Locking), how    *)
(* far the one thread in cleanup_after_transfer() has come (Ending), and   *)
(* which events can be under way before the transfer is over (Starting).   *)
(***************************************************************************)
EXTENDS CurlSession, TLAPS

UserHolds == {"send", "start_get", "reset", "add_handle", "leave"}
ReactorHolds == {"cleanup_url", "cleanup_status", "cleanup_remove", "cleanup_unlock"}

\* A thread owns the mutex exactly at the labels between lock and unlock.
Locking ==
    /\ \A u \in Users : pc[u] \in UserHolds <=> mtx = u
    /\ \A r \in Reactors : pc[r] \in ReactorHolds <=> mtx = r

\* Before idle is stored nothing of the cleanup has happened; afterwards its
\* progress is that of the thread that holds the mutex, or complete.
Ending ==
    /\ state # "idle" =>
          /\ attributes = "none" /\ removes = 0 /\ transfer # "removed"
          /\ \A r \in Reactors : pc[r] \notin ReactorHolds
    /\ \A r \in Reactors :
          /\ pc[r] \in {"cleanup_url", "cleanup_status", "cleanup_remove"} =>
                transfer = "over" /\ removes = 0
          /\ pc[r] = "cleanup_url" => attributes = "none"
          /\ pc[r] = "cleanup_status" => attributes = "url"
          /\ pc[r] = "cleanup_remove" => attributes = "final"
    /\ state = "idle" =>
          \/ /\ attributes = "final" /\ removes = 1 /\ transfer = "removed"
          \/ \E r \in Reactors : pc[r] \in {"cleanup_url", "cleanup_status", "cleanup_remove"}

\* Nothing that leads to a cleanup exists before the transfer is over.
Starting ==
    /\ state = "configuring" => transfer = "none"
    /\ \A u \in Users : pc[u] = "add_handle" => transfer = "none" /\ state # "idle"
                                               /\ state # "configuring"
    /\ transfer = "none" => \A r \in Reactors : pc[r] = "idle"
    /\ transfer \in {"none", "running"} =>
          /\ state # "idle" /\ done_msgs = 0 /\ posted = 0 /\ posts = 0
          /\ \A r \in Reactors : pc[r] \notin {"cleanup", "cleanup_lock"}
    /\ posts <= 1

\* Threads wait only for a transfer that has begun, and are told that it is
\* over only when it is.
Waiting ==
    /\ \A u \in Users : pc[u] \in {"wait_lock", "waiting", "timed_out"} => state # "configuring"
    /\ \A u \in Users : answer[u] \in {"ready", "ready_at_once"} => state = "idle"
    /\ ReadyMeansFinal

IInv == TypeOK /\ Locking /\ Ending /\ Starting /\ Waiting

\* The initial state satisfies the invariant.
LEMMA InitInv == Init => IInv
BY ThreadsAssumption
   DEF Init, IInv, TypeOK, PcOK, Locking, Ending, Starting, Waiting, ReadyMeansFinal, Threads, States,
       Requests, NoRequest, UserLabels, ReactorLabels, UserHolds, ReactorHolds

\* A thread that goes to a label of its own kind keeps the program counters in
\* their type, and moves no other thread.
LEMMA GotoLabel ==
    ASSUME PcOK, NEW t \in Threads, NEW l, Goto(t, l),
           t \in Users => l \in UserLabels,
           t \in Reactors => l \in ReactorLabels
    PROVE  /\ PcOK'
           /\ pc'[t] = l
           /\ \A q \in Threads : q # t => pc'[q] = pc[q]
BY DEF PcOK, Goto, Threads

\* Every step of a user thread keeps the invariant.
LEMMA UserStepInv ==
    ASSUME IInv, NEW u \in Users,
           \/ Configure(u) \/ Enter(u) \/ Reset(u) \/ StartGet(u) \/ SendPrelocked(u)
           \/ AddHandle(u) \/ Leave(u) \/ WaitLoad(u) \/ WaitLocked(u)
           \/ SpuriousWakeup(u) \/ TimeOut(u) \/ WaitTimedOut(u)
    PROVE  IInv'
<1> USE ThreadsAssumption DEF response, libcurl, io_service
<1>0. u \in Threads /\ PcOK
  BY DEF Threads, IInv, TypeOK
<1>1. CASE Configure(u)
  <2> USE <1>0, <1>1 DEF Configure, IInv
  <2>1. TypeOK'
    <3>1. PcOK'
      BY DEF PcOK
    <3> QED BY <3>1, VerbsAssumption DEF TypeOK, Requests
  <2>2. Locking' /\ Ending' /\ Starting' /\ Waiting'
    BY DEF TypeOK, PcOK, Goto, Threads, UserHolds, ReactorHolds, Locking, Ending, Starting,
           Waiting, ReadyMeansFinal
  <2> QED BY <2>1, <2>2
<1>2. CASE Enter(u)
  <2> USE <1>0, <1>2 DEF Enter, IInv
  <2>1. TypeOK'
    <3>1. PcOK'
      BY GotoLabel DEF UserLabels
    <3> QED BY <3>1 DEF TypeOK
  <2>2. Locking' /\ Ending' /\ Starting' /\ Waiting'
    BY DEF TypeOK, PcOK, Goto, Threads, UserHolds, ReactorHolds, Locking, Ending, Starting,
           Waiting, ReadyMeansFinal
  <2> QED BY <2>1, <2>2
<1>3. CASE Reset(u)
  <2> USE <1>0, <1>3 DEF Reset, IInv
  <2>1. TypeOK'
    <3>1. PcOK'
      BY GotoLabel DEF UserLabels
    <3> QED BY <3>1 DEF TypeOK, Requests, NoRequest
  <2>2. Locking' /\ Ending' /\ Starting' /\ Waiting'
    BY DEF TypeOK, PcOK, Goto, Threads, UserHolds, ReactorHolds, Locking, Ending, Starting,
           Waiting, ReadyMeansFinal
  <2> QED BY <2>1, <2>2
<1>4. CASE StartGet(u)
  <2> USE <1>0, <1>4 DEF StartGet, IInv
  <2>1. TypeOK'
    <3>1. PcOK'
      BY GotoLabel DEF UserLabels
    <3> QED BY <3>1 DEF TypeOK, Requests
  <2>2. Locking' /\ Ending' /\ Starting' /\ Waiting'
    BY DEF TypeOK, PcOK, Goto, Threads, UserHolds, ReactorHolds, Locking, Ending, Starting,
           Waiting, ReadyMeansFinal
  <2> QED BY <2>1, <2>2
<1>5. CASE SendPrelocked(u)
  <2> USE <1>0, <1>5 DEF SendPrelocked, MaySend, IInv
  <2>1. TypeOK'
    <3>1. PcOK'
      BY GotoLabel DEF UserLabels, PcOK
    <3> QED BY <3>1 DEF TypeOK, States
  <2>2. Locking' /\ Ending' /\ Starting' /\ Waiting'
    BY DEF TypeOK, PcOK, Goto, Threads, UserHolds, ReactorHolds, Locking, Ending, Starting,
           Waiting, ReadyMeansFinal
  <2> QED BY <2>1, <2>2
<1>6. CASE AddHandle(u)
  <2> USE <1>0, <1>6 DEF AddHandle, IInv
  <2>1. TypeOK'
    <3>1. PcOK'
      BY GotoLabel DEF UserLabels
    <3> QED BY <3>1 DEF TypeOK
  <2>2. Locking' /\ Ending' /\ Starting' /\ Waiting'
    BY DEF TypeOK, PcOK, Goto, Threads, UserHolds, ReactorHolds, Locking, Ending, Starting,
           Waiting, ReadyMeansFinal
  <2> QED BY <2>1, <2>2
<1>7. CASE Leave(u)
  <2> USE <1>0, <1>7 DEF Leave, IInv
  <2>1. TypeOK'
    <3>1. PcOK'
      BY GotoLabel DEF UserLabels
    <3> QED BY <3>1 DEF TypeOK
  <2>2. Locking' /\ Ending' /\ Starting' /\ Waiting'
    BY DEF TypeOK, PcOK, Goto, Threads, UserHolds, ReactorHolds, Locking, Ending, Starting,
           Waiting, ReadyMeansFinal
  <2> QED BY <2>1, <2>2
<1>8. CASE WaitLoad(u)
  <2> USE <1>0, <1>8 DEF WaitLoad, is_busy, IInv
  <2>1. TypeOK'
    <3>1. PcOK'
      BY GotoLabel DEF UserLabels, PcOK
    <3> QED BY <3>1 DEF TypeOK
  <2>2. Locking' /\ Ending' /\ Starting' /\ Waiting'
    BY DEF TypeOK, PcOK, Goto, Threads, UserHolds, ReactorHolds, Locking, Ending, Starting,
           Waiting, ReadyMeansFinal
  <2> QED BY <2>1, <2>2
<1>9. CASE WaitLocked(u)
  <2> USE <1>0, <1>9 DEF WaitLocked, spurious_wakeup_filter, is_busy, IInv
  <2>1. TypeOK'
    <3>1. PcOK'
      BY GotoLabel DEF UserLabels
    <3> QED BY <3>1 DEF TypeOK
  <2>2. Locking' /\ Ending' /\ Starting' /\ Waiting'
    BY DEF TypeOK, PcOK, Goto, Threads, UserHolds, ReactorHolds, Locking, Ending, Starting,
           Waiting, ReadyMeansFinal
  <2> QED BY <2>1, <2>2
<1>10. CASE SpuriousWakeup(u)
  <2> USE <1>0, <1>10 DEF SpuriousWakeup, Move, IInv
  <2>1. TypeOK'
    <3>1. PcOK'
      BY GotoLabel DEF UserLabels
    <3> QED BY <3>1 DEF TypeOK
  <2>2. Locking' /\ Ending' /\ Starting' /\ Waiting'
    BY DEF TypeOK, PcOK, Goto, Threads, UserHolds, ReactorHolds, Locking, Ending, Starting,
           Waiting, ReadyMeansFinal
  <2> QED BY <2>1, <2>2
<1>11. CASE TimeOut(u)
  <2> USE <1>0, <1>11 DEF TimeOut, Move, IInv
  <2>1. TypeOK'
    <3>1. PcOK'
      BY GotoLabel DEF UserLabels
    <3> QED BY <3>1 DEF TypeOK
  <2>2. Locking' /\ Ending' /\ Starting' /\ Waiting'
    BY DEF TypeOK, PcOK, Goto, Threads, UserHolds, ReactorHolds, Locking, Ending, Starting,
           Waiting, ReadyMeansFinal
  <2> QED BY <2>1, <2>2
<1>12. CASE WaitTimedOut(u)
  <2> USE <1>0, <1>12 DEF WaitTimedOut, spurious_wakeup_filter, is_busy, IInv
  <2>1. TypeOK'
    <3>1. PcOK'
      BY GotoLabel DEF UserLabels
    <3> QED BY <3>1 DEF TypeOK
  <2>2. Locking' /\ Ending' /\ Starting' /\ Waiting'
    BY DEF TypeOK, PcOK, Goto, Threads, UserHolds, ReactorHolds, Locking, Ending, Starting,
           Waiting, ReadyMeansFinal
  <2> QED BY <2>1, <2>2
<1> QED BY <1>1, <1>2, <1>3, <1>4, <1>5, <1>6, <1>7, <1>8, <1>9, <1>10, <1>11, <1>12

\* Every step of a reactor thread keeps the invariant.
LEMMA ReactorStepInv ==
    ASSUME IInv, NEW r \in Reactors,
           \/ SocketAction(r) \/ Deliver(r) \/ StoreBytes(r) \/ AppendBytes(r)
           \/ EndTransfer(r) \/ ReturnFromCurl(r) \/ HandleDoneTransfers(r)
           \/ RunPosted(r) \/ CleanupLoad(r) \/ CleanupLock(r) \/ CleanupEffectiveUrl(r)
           \/ CleanupStatusCode(r) \/ CleanupRemoveHandle(r) \/ CleanupUnlock(r)
           \/ NotifyAll(r)
    PROVE  IInv'
<1> USE ThreadsAssumption DEF response, libcurl, io_service
<1>0. r \in Threads /\ PcOK
  BY DEF Threads, IInv, TypeOK
<1>1. CASE SocketAction(r)
  <2> USE <1>0, <1>1 DEF SocketAction, Move, IInv
  <2>1. TypeOK'
    <3>1. PcOK'
      BY GotoLabel DEF ReactorLabels
    <3> QED BY <3>1 DEF TypeOK
  <2>2. Locking' /\ Ending' /\ Starting' /\ Waiting'
    BY DEF TypeOK, PcOK, Goto, Threads, UserHolds, ReactorHolds, Locking, Ending, Starting,
           Waiting, ReadyMeansFinal
  <2> QED BY <2>1, <2>2
<1>2. CASE Deliver(r)
  <2> USE <1>0, <1>2 DEF Deliver, Move, IInv
  <2>1. TypeOK'
    <3>1. PcOK'
      BY GotoLabel DEF ReactorLabels
    <3> QED BY <3>1 DEF TypeOK
  <2>2. Locking' /\ Ending' /\ Starting' /\ Waiting'
    BY DEF TypeOK, PcOK, Goto, Threads, UserHolds, ReactorHolds, Locking, Ending, Starting,
           Waiting, ReadyMeansFinal
  <2> QED BY <2>1, <2>2
<1>3. CASE StoreBytes(r)
  <2> USE <1>0, <1>3 DEF StoreBytes, MayAccept, IInv
  <2>1. TypeOK'
    <3>1. PcOK'
      BY GotoLabel DEF ReactorLabels
    <3> QED BY <3>1 DEF TypeOK, States
  <2>2. Locking' /\ Ending' /\ Starting' /\ Waiting'
    BY DEF TypeOK, PcOK, Goto, Threads, UserHolds, ReactorHolds, Locking, Ending, Starting,
           Waiting, ReadyMeansFinal
  <2> QED BY <2>1, <2>2
<1>4. CASE AppendBytes(r)
  <2> USE <1>0, <1>4 DEF AppendBytes, IInv
  <2>1. TypeOK'
    <3>1. PcOK'
      BY GotoLabel DEF ReactorLabels
    <3> QED BY <3>1 DEF TypeOK
  <2>2. Locking' /\ Ending' /\ Starting' /\ Waiting'
    BY DEF TypeOK, PcOK, Goto, Threads, UserHolds, ReactorHolds, Locking, Ending, Starting,
           Waiting, ReadyMeansFinal
  <2> QED BY <2>1, <2>2
<1>5. CASE EndTransfer(r)
  <2> USE <1>0, <1>5 DEF EndTransfer, OnPollRemove, IInv
  <2>1. TypeOK'
    <3>1. PcOK'
      BY GotoLabel DEF ReactorLabels
    <3> QED BY <3>1 DEF TypeOK
  <2>2. Locking' /\ Ending' /\ Starting' /\ Waiting'
    BY DEF TypeOK, PcOK, Goto, Threads, UserHolds, ReactorHolds, Locking, Ending, Starting,
           Waiting, ReadyMeansFinal
  <2> QED BY <2>1, <2>2
<1>6. CASE ReturnFromCurl(r)
  <2> USE <1>0, <1>6 DEF ReturnFromCurl, Move, IInv
  <2>1. TypeOK'
    <3>1. PcOK'
      BY GotoLabel DEF ReactorLabels
    <3> QED BY <3>1 DEF TypeOK
  <2>2. Locking' /\ Ending' /\ Starting' /\ Waiting'
    BY DEF TypeOK, PcOK, Goto, Threads, UserHolds, ReactorHolds, Locking, Ending, Starting,
           Waiting, ReadyMeansFinal
  <2> QED BY <2>1, <2>2
<1>7. CASE HandleDoneTransfers(r)
  <2> USE <1>0, <1>7 DEF HandleDoneTransfers, IInv
  <2>1. TypeOK'
    <3>1. PcOK'
      BY GotoLabel DEF ReactorLabels
    <3> QED BY <3>1 DEF TypeOK
  <2>2. Locking' /\ Ending' /\ Starting' /\ Waiting'
    BY DEF TypeOK, PcOK, Goto, Threads, UserHolds, ReactorHolds, Locking, Ending, Starting,
           Waiting, ReadyMeansFinal
  <2> QED BY <2>1, <2>2
<1>8. CASE RunPosted(r)
  <2> USE <1>0, <1>8 DEF RunPosted, IInv
  <2>1. TypeOK'
    <3>1. PcOK'
      BY GotoLabel DEF ReactorLabels
    <3> QED BY <3>1 DEF TypeOK
  <2>2. Locking' /\ Ending' /\ Starting' /\ Waiting'
    BY DEF TypeOK, PcOK, Goto, Threads, UserHolds, ReactorHolds, Locking, Ending, Starting,
           Waiting, ReadyMeansFinal
  <2> QED BY <2>1, <2>2
<1>9. CASE CleanupLoad(r)
  <2> USE <1>0, <1>9 DEF CleanupLoad, Move, IInv
  <2>1. TypeOK'
    <3>1. PcOK'
      BY GotoLabel DEF ReactorLabels
    <3> QED BY <3>1 DEF TypeOK
  <2>2. Locking' /\ Ending' /\ Starting' /\ Waiting'
    BY DEF TypeOK, PcOK, Goto, Threads, UserHolds, ReactorHolds, Locking, Ending, Starting,
           Waiting, ReadyMeansFinal
  <2> QED BY <2>1, <2>2
<1>10. CASE CleanupLock(r)
  <2> USE <1>0, <1>10 DEF CleanupLock, StillBusy, IInv
  <2>1. TypeOK'
    <3>1. PcOK'
      BY GotoLabel DEF ReactorLabels
    <3> QED BY <3>1 DEF TypeOK, States
  <2>2. Locking' /\ Ending' /\ Starting' /\ Waiting'
    BY DEF TypeOK, PcOK, Goto, Threads, UserHolds, ReactorHolds, Locking, Ending, Starting,
           Waiting, ReadyMeansFinal
  <2> QED BY <2>1, <2>2
<1>11. CASE CleanupEffectiveUrl(r)
  <2> USE <1>0, <1>11 DEF CleanupEffectiveUrl, IInv
  <2>1. TypeOK'
    <3>1. PcOK'
      BY GotoLabel DEF ReactorLabels
    <3> QED BY <3>1 DEF TypeOK
  <2>2. Locking' /\ Ending' /\ Starting' /\ Waiting'
    BY DEF TypeOK, PcOK, Goto, Threads, UserHolds, ReactorHolds, Locking, Ending, Starting,
           Waiting, ReadyMeansFinal
  <2> QED BY <2>1, <2>2
<1>12. CASE CleanupStatusCode(r)
  <2> USE <1>0, <1>12 DEF CleanupStatusCode, IInv
  <2>1. TypeOK'
    <3>1. PcOK'
      BY GotoLabel DEF ReactorLabels
    <3> QED BY <3>1 DEF TypeOK
  <2>2. Locking' /\ Ending' /\ Starting' /\ Waiting'
    BY DEF TypeOK, PcOK, Goto, Threads, UserHolds, ReactorHolds, Locking, Ending, Starting,
           Waiting, ReadyMeansFinal
  <2> QED BY <2>1, <2>2
<1>13. CASE CleanupRemoveHandle(r)
  <2> USE <1>0, <1>13 DEF CleanupRemoveHandle, OnPollRemove, IInv
  <2>1. TypeOK'
    <3>1. PcOK'
      BY GotoLabel DEF ReactorLabels
    <3> QED BY <3>1 DEF TypeOK
  <2>2. Locking' /\ Ending' /\ Starting' /\ Waiting'
    BY DEF TypeOK, PcOK, Goto, Threads, UserHolds, ReactorHolds, Locking, Ending, Starting,
           Waiting, ReadyMeansFinal
  <2> QED BY <2>1, <2>2
<1>14. CASE CleanupUnlock(r)
  <2> USE <1>0, <1>14 DEF CleanupUnlock, IInv
  <2>1. TypeOK'
    <3>1. PcOK'
      BY GotoLabel DEF ReactorLabels
    <3> QED BY <3>1 DEF TypeOK
  <2>2. Locking' /\ Ending' /\ Starting' /\ Waiting'
    BY DEF TypeOK, PcOK, Goto, Threads, UserHolds, ReactorHolds, Locking, Ending, Starting,
           Waiting, ReadyMeansFinal
  <2> QED BY <2>1, <2>2
<1>15. CASE NotifyAll(r)
  <2> USE <1>0, <1>15 DEF NotifyAll, IInv
  <2>1. TypeOK'
    <3>1. PcOK'
      BY DEF PcOK, Threads, UserLabels, ReactorLabels
    <3> QED BY <3>1 DEF TypeOK
  <2>2. Locking' /\ Ending' /\ Starting' /\ Waiting'
    BY DEF TypeOK, PcOK, Goto, Threads, UserHolds, ReactorHolds, Locking, Ending, Starting,
           Waiting, ReadyMeansFinal
  <2> QED BY <2>1, <2>2
<1> QED BY <1>1, <1>2, <1>3, <1>4, <1>5, <1>6, <1>7, <1>8, <1>9, <1>10, <1>11, <1>12, <1>13, <1>14, <1>15

\* The invariant holds in every reachable state.
LEMMA Invariance == Spec => []IInv
<1>1. IInv /\ [Next]_vars => IInv'
  <2> SUFFICES ASSUME IInv, [Next]_vars PROVE IInv'
    OBVIOUS
  <2>1. CASE UNCHANGED vars
    BY <2>1 DEF vars, response, libcurl, io_service, IInv, TypeOK, PcOK, Locking, Ending, Starting,
                Waiting, ReadyMeansFinal
  <2>2. CASE DeleteChannel
    BY <2>2 DEF DeleteChannel, response, libcurl, io_service, IInv, TypeOK, PcOK, Locking, Ending,
                Starting, Waiting, ReadyMeansFinal
  <2> QED BY <2>1, <2>2, UserStepInv, ReactorStepInv DEF Next, UserProceeds, ReactorProceeds
<1> QED BY <1>1, InitInv, PTL DEF Spec

\* Type correctness: in particular a user thread is never at a label of
\* cleanup_after_transfer(), and no counter goes below zero.
THEOREM SessionTypeOK == Spec => []TypeOK
<1>1. IInv => TypeOK
  BY DEF IInv
<1> QED BY <1>1, Invariance, PTL

\* Two reactors may reach cleanup_after_transfer() for the same transfer, one
\* with a CURLMSG_DONE and one with the posted lambda: the handle is removed
\* from the multi handle once, and not before the transfer is over.
THEOREM CleanupHappensOnce == Spec => []HandleRemovedOnce
<1>1. IInv => HandleRemovedOnce
  <2> SUFFICES ASSUME IInv PROVE HandleRemovedOnce
    OBVIOUS
  <2>1. removes <= 1
    BY DEF IInv, TypeOK, Ending
  <2>2. \A r \in Reactors : pc[r] = "cleanup_remove" => transfer = "over"
    BY DEF IInv, Ending
  <2>3. ASSUME state = "idle", mtx = NoThread PROVE removes = 1
    BY <2>3, ThreadsAssumption DEF IInv, Locking, Ending, ReactorHolds
  <2> QED BY <2>1, <2>2, <2>3 DEF HandleRemovedOnce
<1> QED BY <1>1, Invariance, PTL

\* Whoever learns under the mutex that the response is ready finds its status
\* code and effective URL written, for any number of threads.
THEOREM ReadyIsFinal == Spec => []ReadyMeansFinal
<1>1. IInv => ReadyMeansFinal
  BY DEF IInv, Waiting
<1> QED BY <1>1, Invariance, PTL

\* curl_multi_remove_handle calls back into on_socket_update while the mutex
\* is held; that never posts another cleanup.
THEOREM CleanupIsPostedOnce == Spec => []NoRepost
<1>1. IInv => NoRepost
  BY DEF IInv, Starting, NoRepost
<1> QED BY <1>1, Invariance, PTL

\* The atomic session state never goes back, neither by late data nor by a
\* reset(), against what session.h says of the latter.
THEOREM StateAdvances == Spec => StateOnlyAdvances
<1>1. IInv /\ [Next]_vars => [Rank[state'] >= Rank[state]]_vars
  <2> SUFFICES ASSUME IInv, Next PROVE Rank[state'] >= Rank[state]
    OBVIOUS
  <2>1. state \in States
    BY DEF IInv, TypeOK
  <2>2. \/ state' = state
        \/ state' = "idle"
        \/ state = "configuring" /\ state' = "requesting"
        \/ state \in {"requesting", "waiting_for_response"} /\ state' = "accepting_response"
    BY DEF Next, DeleteChannel, UserProceeds, ReactorProceeds, Configure, Enter, Reset, StartGet, SendPrelocked,
           MaySend, AddHandle, Leave, WaitLoad, WaitLocked, SpuriousWakeup, TimeOut, WaitTimedOut,
           Move, SocketAction, Deliver, StoreBytes, MayAccept, AppendBytes, EndTransfer,
           ReturnFromCurl, HandleDoneTransfers, RunPosted, CleanupLoad, CleanupLock,
           CleanupEffectiveUrl, CleanupStatusCode, CleanupRemoveHandle, CleanupUnlock, NotifyAll
  <2> QED BY <2>1, <2>2 DEF States, Rank
<1> QED BY <1>1, Invariance, PTL DEF StateOnlyAdvances, Spec

\* The session, with its mutex, condition variable and two ways of ending a
\* transfer, implements what response::wait() promises its callers.
THEOREM SessionImplementsContract == Spec => ImplementsContract
<1>1. Init => Contract!Init
  BY DEF Init, Contract!Init, is_busy
<1>2. IInv /\ [Next]_vars => [Contract!Next]_Contract!vars
  <2> SUFFICES ASSUME IInv, [Next]_vars PROVE [Contract!Next]_Contract!vars
    OBVIOUS
  <2>0. state \in States /\ answer \in [Users -> {"none", "premature", "ready_at_once", "ready", "timed_out"}]
    BY DEF IInv, TypeOK
  <2>1. CASE UNCHANGED <<state, answer>>
    BY <2>1 DEF Contract!vars, is_busy
  <2>2. ASSUME NEW u \in Users, SendPrelocked(u) PROVE Contract!Begin \/ UNCHANGED <<state, answer>>
    BY <2>2 DEF SendPrelocked, MaySend, Contract!Begin, is_busy
  <2>3. ASSUME NEW r \in Reactors, StoreBytes(r) PROVE UNCHANGED Contract!vars
    BY <2>3 DEF StoreBytes, MayAccept, Contract!vars, is_busy
  <2>4. ASSUME NEW r \in Reactors, CleanupLock(r) PROVE Contract!Finish \/ UNCHANGED <<state, answer>>
    <3>1. StillBusy => is_busy
      BY <2>4 DEF CleanupLock, StillBusy, is_busy, IInv, Starting
    <3> QED BY <2>4, <3>1 DEF CleanupLock, StillBusy, Contract!Finish, is_busy
  <2>5. ASSUME NEW u \in Users, WaitLoad(u) \/ WaitLocked(u) \/ WaitTimedOut(u)
        PROVE  Contract!TellReady(u) \/ Contract!TellNotReady(u) \/ UNCHANGED <<state, answer>>
    BY <2>0, <2>5 DEF WaitLoad, WaitLocked, WaitTimedOut, spurious_wakeup_filter, is_busy, IInv,
                      Waiting, Contract!TellReady, Contract!TellNotReady
  <2> QED BY <2>1, <2>2, <2>3, <2>4, <2>5
         DEF Next, vars, DeleteChannel, UserProceeds, ReactorProceeds, Configure, Enter, Reset, StartGet, AddHandle,
             Leave, SpuriousWakeup, TimeOut, Move, SocketAction, Deliver, AppendBytes, EndTransfer,
             ReturnFromCurl, HandleDoneTransfers, RunPosted, CleanupLoad, CleanupEffectiveUrl,
             CleanupStatusCode, CleanupRemoveHandle, CleanupUnlock, NotifyAll, Contract!Next
<1> QED BY <1>1, <1>2, Invariance, PTL DEF Spec, ImplementsContract, Contract!Spec

\* Once a wait() has returned true, no reactor is handed data any more, and the
\* body grows only by pieces that were in hand: for any number of reactors.
THEOREM NoNewData == Spec => NoNewDataWhenReady
<1> USE DEF Move, response, libcurl, io_service
<1>1. IInv /\ [Next]_vars =>
         [(\E u \in Users : answer[u] \in {"ready", "ready_at_once"}) =>
            /\ \A r \in Reactors : pc'[r] = "store_bytes" => pc[r] = "store_bytes"
            /\ body' # body => \E r \in Reactors : pc[r] = "append" /\ pc'[r] # "append"]_vars
  <2> SUFFICES ASSUME IInv, Next, NEW u \in Users, answer[u] \in {"ready", "ready_at_once"}
               PROVE  /\ \A r \in Reactors : pc'[r] = "store_bytes" => pc[r] = "store_bytes"
                      /\ body' # body => \E r \in Reactors : pc[r] = "append" /\ pc'[r] # "append"
    OBVIOUS
  <2>0. /\ PcOK /\ Users \cap Reactors = {}
        /\ Reactors \subseteq Threads /\ Users \subseteq Threads
    BY ThreadsAssumption DEF IInv, TypeOK, Threads
  <2>1. state = "idle"
    BY DEF IInv, Waiting
  <2>2. \A r \in Reactors : ~Deliver(r) /\ ~EndTransfer(r)
    BY <2>1 DEF Deliver, EndTransfer, IInv, Starting
  <2>3. CASE DeleteChannel
    BY <2>3 DEF DeleteChannel
  <2>4. ASSUME NEW v \in Users,
               \/ Configure(v) \/ Enter(v) \/ WaitLoad(v) \/ SpuriousWakeup(v) \/ TimeOut(v)
               \/ UserProceeds(v)
        PROVE  body' = body /\ \A r \in Reactors : pc'[r] = pc[r]
    BY <2>0, <2>4 DEF UserProceeds, Configure, Enter, Reset, StartGet, SendPrelocked, AddHandle,
           Leave, WaitLoad, WaitLocked, SpuriousWakeup, TimeOut, WaitTimedOut, Goto, PcOK
  <2>5. ASSUME NEW q \in Reactors, AppendBytes(q)
        PROVE  /\ \A r \in Reactors : pc'[r] = "store_bytes" => pc[r] = "store_bytes"
               /\ pc[q] = "append" /\ pc'[q] # "append"
    BY <2>0, <2>5 DEF AppendBytes, Goto, PcOK
  <2>6. ASSUME NEW q \in Reactors, ReactorProceeds(q), ~AppendBytes(q)
        PROVE  /\ body' = body
               /\ \A r \in Reactors : pc'[r] = "store_bytes" => pc[r] = "store_bytes"
    BY <2>0, <2>6 DEF ReactorProceeds, SocketAction, StoreBytes, ReturnFromCurl,
           HandleDoneTransfers, RunPosted, CleanupLoad, CleanupLock, CleanupEffectiveUrl,
           CleanupStatusCode, CleanupRemoveHandle, CleanupUnlock, NotifyAll, Goto, PcOK
  <2> QED BY <2>2, <2>3, <2>4, <2>5, <2>6 DEF Next
<1> QED BY <1>1, Invariance, PTL DEF Spec, NoNewDataWhenReady
=============================================================================
