----------------------------- MODULE CurlSession -----------------------------
(***************************************************************************)
(* core/net/curl/session.cpp: one session, shared by user threads and by   *)
(* the reactor threads of its channel.                                     *)
(*                                                                         *)
(* User threads configure and send a request and wait for the response;    *)
(* reactor threads run asio handlers: they let libcurl work, which calls   *)
(* back to store data or to report the end of the transfer, and end the    *)
(* session's transfer in cleanup_after_transfer(), which is reached by two *)
(* routes (a CURLMSG_DONE and a CURL_POLL_REMOVE callback).                *)
(*                                                                         *)
(* Every store to the atomic `state' and every point at which a thread     *)
(* takes or leaves `mtx' is a step of its own, because wait() and          *)
(* cleanup_after_transfer() also look at `state' without the mutex.        *)
(* libcurl itself is external: its calls are atomic except where they call *)
(* back, and calls of different threads interleave freely, since the code  *)
(* does not serialize them.                                                *)
(***************************************************************************)
EXTENDS Integers, FiniteSets

CONSTANTS
    Users,      \* threads that use the session
    Reactors,   \* threads in io_service.run(); channel::open() adds one per send
    NoThread,   \* the owner of a free mutex
    Verbs,      \* verbs that users set: "get" (known), "bogus" (unknown or none)
    MayTimeOut, \* whether the time-out of wait() can expire
    MaxChunks   \* bound: pieces of body that libcurl delivers

ASSUME ThreadsAssumption ==
    /\ Users \cap Reactors = {}
    /\ NoThread \notin Users \cup Reactors
ASSUME BoundAssumption == MaxChunks \in Nat
ASSUME VerbsAssumption == Verbs \subseteq {"get", "bogus"}

VARIABLES
    state,      \* std::atomic<session_state>
    mtx,        \* owner of session::impl_t::mtx
    request,    \* current_request: its url and verb
    attributes, \* effective_url and status_code of current_response
    body,       \* pieces appended to received_bytes
    transfer,   \* libcurl: the easy handle in the multi handle
    done_msgs,  \* libcurl: CURLMSG_DONE messages to be read
    posted,     \* cleanup lambdas in the io_service queue
    posts,      \* how many lambdas were ever posted
    removes,    \* how often curl_multi_remove_handle was called
    pc,         \* where each thread is
    answer,     \* what the last wait() of each user returned
    process,    \* "up", or "dead" after a null or dangling pointer was followed
    channel     \* what impl->channel points to: "live" or "deleted"

response == <<attributes, body>>
libcurl == <<transfer, done_msgs, removes>>
io_service == <<posted, posts>>
vars == <<state, mtx, request, response, libcurl, io_service, pc, answer, process, channel>>

Threads == Users \cup Reactors
States == {"configuring", "requesting", "waiting_for_response",
           "accepting_response", "idle"}
NoRequest == [url |-> "null", verb |-> "null"]

Init ==
    /\ state = "configuring"
    /\ mtx = NoThread
    /\ request = NoRequest
    /\ attributes = "none"
    /\ body = 0
    /\ transfer = "none" /\ done_msgs = 0
    /\ posted = 0 /\ posts = 0 /\ removes = 0
    /\ pc = [t \in Threads |-> "idle"]
    /\ answer = [u \in Users |-> "none"]
    /\ process = "up"
    /\ channel = "live"

is_busy == state \notin {"idle", "configuring"}

Goto(t, label) == pc' = [pc EXCEPT ![t] = label]

\* A step in which only the thread itself moves on.
Move(t, label) ==
    /\ Goto(t, label)
    /\ UNCHANGED <<state, mtx, request, response, libcurl, io_service, answer, process, channel>>
-----------------------------------------------------------------------------
\* User threads: configuring and sending

\* request::set_url or set_verb on the handle of get_current_request(); both
\* ignore a null or empty string.
Configure(u) ==
    /\ pc[u] = "idle"
    /\ \/ request' = [request EXCEPT !.url = "set"]
       \/ \E v \in Verbs : request' = [request EXCEPT !.verb = v]
    /\ UNCHANGED <<state, mtx, response, libcurl, io_service, pc, answer, process, channel>>

\* send(), start_get() and reset() all begin with lock_guard.
Enter(u) ==
    /\ pc[u] = "idle" /\ mtx = NoThread
    /\ mtx' = u
    /\ \E op \in {"send", "start_get", "reset"} : Goto(u, op)
    /\ UNCHANGED <<state, request, response, libcurl, io_service, answer, process, channel>>

\* reset_prelocked(): a new request, or the old one emptied. The state is left
\* as it is.
Reset(u) ==
    /\ pc[u] = "reset"
    /\ request' = NoRequest
    /\ Goto(u, "leave")
    /\ UNCHANGED <<state, mtx, response, libcurl, io_service, answer, process, channel>>

\* start_get(): reset_prelocked(), then url and verb, then send_prelocked(). A
\* null or empty url leaves the one that was reset.
StartGet(u) ==
    /\ pc[u] = "start_get"
    /\ \E url \in {"null", "set"} : request' = [url |-> url, verb |-> "get"]
    /\ Goto(u, "send")
    /\ UNCHANGED <<state, mtx, response, libcurl, io_service, answer, process, channel>>

\* Faulty variant: a finished session may be sent again.
SendsWhenNotBusy == channel = "live" /\ ~is_busy /\ request.url # "null"

\* The three state_errors of send_prelocked() are not met. "Session is detached
\* from channel." is for a null pointer, but nothing makes it null: ~channel()
\* does so only if is_open(), which is never true (BackrefsAreBroken of
\* CurlChannel is refuted). The pointer dangles instead.
MaySend == channel = "live" /\ state = "configuring" /\ request.url # "null"

\* send_prelocked(): a state_error if the session is not configuring, has no url,
\* or finds a null where a deleted channel was; if it finds something else there
\* that is followed, as is a null http_method for a verb nobody knows.
SendPrelocked(u) ==
    /\ pc[u] = "send"
    /\ \/ /\ ~MaySend
          /\ Goto(u, "leave")
          /\ UNCHANGED <<state, process>>
       \/ /\ MaySend /\ request.verb = "get"
          /\ state' = "requesting"
          /\ Goto(u, "add_handle")
          /\ UNCHANGED process
       \/ /\ channel = "deleted" \/ (MaySend /\ request.verb # "get")
          /\ process' = "dead"
          /\ UNCHANGED <<state, pc>>
    /\ UNCHANGED <<mtx, request, response, libcurl, io_service, answer, channel>>

\* curl_multi_add_handle: libcurl arms its timer and the reactors can begin.
AddHandle(u) ==
    /\ pc[u] = "add_handle"
    /\ transfer' = "running"
    /\ Goto(u, "leave")
    /\ UNCHANGED <<state, mtx, request, response, done_msgs, removes, io_service, answer, process, channel>>

Leave(u) ==
    /\ pc[u] = "leave"
    /\ mtx' = NoThread
    /\ Goto(u, "idle")
    /\ UNCHANGED <<state, request, response, libcurl, io_service, answer, process, channel>>

\* ~channel(), which leaves the session with its pointer. Only between transfers:
\* what comes of a channel that is deleted while its reactors are at work is in
\* CurlChannel.
DeleteChannel ==
    /\ channel = "live"
    /\ transfer \in {"none", "removed"} /\ posted = 0
    /\ \A u \in Users : pc[u] # "add_handle"
    /\ \A r \in Reactors : pc[r] = "idle"
    /\ channel' = "deleted"
    /\ UNCHANGED <<state, mtx, request, response, libcurl, io_service, pc, answer, process>>
-----------------------------------------------------------------------------
\* User threads: wait()

\* The switch on state.load(), without the mutex.
WaitLoad(u) ==
    /\ pc[u] = "idle"
    /\ \/ /\ state = "configuring"
          /\ answer' = [answer EXCEPT ![u] = "premature"]
          /\ UNCHANGED pc
       \/ /\ state = "idle"
          /\ answer' = [answer EXCEPT ![u] = "ready_at_once"]
          /\ UNCHANGED pc
       \/ /\ is_busy
          /\ Goto(u, "wait_lock")
          /\ UNCHANGED answer
    /\ UNCHANGED <<state, mtx, request, response, libcurl, io_service, process, channel>>

\* Faulty variant: any wake-up counts.
FilterForgotten == TRUE

\* truly_done
spurious_wakeup_filter == ~is_busy

\* unique_lock and wait_for: the filter is tried with the mutex held; the
\* mutex is given up as the thread begins to wait on state_signal.
WaitLocked(u) ==
    /\ pc[u] = "wait_lock" /\ mtx = NoThread
    /\ \/ /\ spurious_wakeup_filter
          /\ answer' = [answer EXCEPT ![u] = "ready"]
          /\ Goto(u, "idle")
       \/ /\ ~spurious_wakeup_filter
          /\ Goto(u, "waiting")
          /\ UNCHANGED answer
    /\ UNCHANGED <<state, mtx, request, response, libcurl, io_service, process, channel>>

SpuriousWakeup(u) ==
    /\ pc[u] = "waiting"
    /\ Move(u, "wait_lock")

TimeOut(u) ==
    /\ MayTimeOut
    /\ pc[u] = "waiting"
    /\ Move(u, "timed_out")

\* After a time-out wait_for takes the mutex and returns what the filter says.
WaitTimedOut(u) ==
    /\ pc[u] = "timed_out" /\ mtx = NoThread
    /\ answer' = [answer EXCEPT ![u] =
                     IF spurious_wakeup_filter THEN "ready" ELSE "timed_out"]
    /\ Goto(u, "idle")
    /\ UNCHANGED <<state, mtx, request, response, libcurl, io_service, process, channel>>
-----------------------------------------------------------------------------
\* Reactor threads: socket events, timers and posted lambdas

\* on_socket_event and on_timeout call curl_multi_socket_action.
SocketAction(r) ==
    /\ pc[r] = "idle" /\ transfer = "running"
    /\ Move(r, "in_curl")

\* Pieces of body that are stored or about to be.
Delivered == body + Cardinality({q \in Reactors : pc[q] \in {"store_bytes", "append"}})

\* libcurl calls on_receive_data.
Deliver(r) ==
    /\ pc[r] = "in_curl" /\ transfer = "running" /\ Delivered < MaxChunks
    /\ Move(r, "store_bytes")

\* Faulty variant: data makes any session an accepting one.
AcceptsAlways == TRUE

\* The first data moves the session on; later data leaves it alone.
MayAccept == state \in {"requesting", "waiting_for_response"}

\* store_bytes(), the block under the session's mutex ...
StoreBytes(r) ==
    /\ pc[r] = "store_bytes" /\ mtx = NoThread
    /\ state' = IF MayAccept THEN "accepting_response" ELSE state
    /\ Goto(r, "append")
    /\ UNCHANGED <<mtx, request, response, libcurl, io_service, answer, process, channel>>

\* ... and received_bytes.append, after it.
AppendBytes(r) ==
    /\ pc[r] = "append"
    /\ body' = body + 1
    /\ Goto(r, "in_curl")
    /\ UNCHANGED <<state, mtx, request, attributes, libcurl, io_service, answer, process, channel>>

\* Faulty variants: the callback posts whatever the state, or never.
OnPollRemoveAlways == posted' = posted + 1 /\ posts' = posts + 1
OnPollRemoveNever == UNCHANGED io_service

\* on_socket_update with CURL_POLL_REMOVE: the cleanup is posted, not called.
OnPollRemove ==
    LET n == IF state # "idle" THEN 1 ELSE 0
    IN  posted' = posted + n /\ posts' = posts + n

\* libcurl ends the transfer. A CURLMSG_DONE is common but not guaranteed, and
\* the CURL_POLL_REMOVE callback may come now or only with the removal of the
\* handle; one of the two comes.
EndTransfer(r) ==
    /\ pc[r] = "in_curl" /\ transfer = "running"
    /\ transfer' = "over"
    /\ \/ done_msgs' = 1 /\ UNCHANGED io_service
       \/ done_msgs' \in {0, 1} /\ OnPollRemove
    /\ Goto(r, "handle_done")
    /\ UNCHANGED <<state, mtx, request, response, removes, answer, process, channel>>

ReturnFromCurl(r) ==
    /\ pc[r] = "in_curl"
    /\ Move(r, "handle_done")

\* handle_done_transfers(): a CURLMSG_DONE of this session is read once.
HandleDoneTransfers(r) ==
    /\ pc[r] = "handle_done"
    /\ Goto(r, IF done_msgs > 0 THEN "cleanup" ELSE "idle")
    /\ done_msgs' = 0
    /\ UNCHANGED <<state, mtx, request, response, transfer, removes, io_service, answer, process, channel>>

\* Faulty variant: a posted lambda runs more than once.
RunPostedAgain(r) ==
    /\ pc[r] = "idle" /\ posts > 0
    /\ posted' = posted - 1
    /\ Goto(r, "cleanup")
    /\ UNCHANGED <<state, mtx, request, response, libcurl, posts, answer, process, channel>>

\* io_service runs the lambda that on_socket_update posted.
RunPosted(r) ==
    /\ pc[r] = "idle" /\ posted > 0
    /\ posted' = posted - 1
    /\ Goto(r, "cleanup")
    /\ UNCHANGED <<state, mtx, request, response, libcurl, posts, answer, process, channel>>
-----------------------------------------------------------------------------
\* Reactor threads: cleanup_after_transfer()

CleanupLoad(r) ==
    /\ pc[r] = "cleanup"
    /\ Move(r, IF state = "idle" THEN "idle" ELSE "cleanup_lock")

\* Faulty variant: the state is not looked at again under the mutex.
NoSecondLook == TRUE

\* The test of the state under the mutex.
StillBusy == state # "idle"

\* The state is tested again under the mutex, and is idle from then on.
CleanupLock(r) ==
    /\ pc[r] = "cleanup_lock" /\ mtx = NoThread
    /\ \/ /\ StillBusy
          /\ mtx' = r
          /\ state' = "idle"
          /\ Goto(r, "cleanup_url")
       \/ /\ ~StillBusy
          /\ Goto(r, "notify")
          /\ UNCHANGED <<state, mtx>>
    /\ UNCHANGED <<request, response, libcurl, io_service, answer, process, channel>>

\* Faulty variant: the mutex is given up before the attributes are complete.
CleanupUnlockedEarly(r) ==
    /\ pc[r] = "cleanup_url"
    /\ attributes' = "url"
    /\ mtx' = NoThread
    /\ Goto(r, "cleanup_status")
    /\ UNCHANGED <<state, request, body, libcurl, io_service, answer, process, channel>>

\* effective_url and status_code are written one after the other.
CleanupEffectiveUrl(r) ==
    /\ pc[r] = "cleanup_url"
    /\ attributes' = "url"
    /\ Goto(r, "cleanup_status")
    /\ UNCHANGED <<state, mtx, request, body, libcurl, io_service, answer, process, channel>>

CleanupStatusCode(r) ==
    /\ pc[r] = "cleanup_status"
    /\ attributes' = "final"
    /\ Goto(r, "cleanup_remove")
    /\ UNCHANGED <<state, mtx, request, body, libcurl, io_service, answer, process, channel>>

\* curl_multi_remove_handle: libcurl forgets the message and calls back with
\* CURL_POLL_REMOVE, on this thread, which holds the mutex.
CleanupRemoveHandle(r) ==
    /\ pc[r] = "cleanup_remove"
    /\ removes' = removes + 1
    /\ transfer' = "removed" /\ done_msgs' = 0
    /\ OnPollRemove
    /\ Goto(r, "cleanup_unlock")
    /\ UNCHANGED <<state, mtx, request, response, answer, process, channel>>

CleanupUnlock(r) ==
    /\ pc[r] = "cleanup_unlock"
    /\ mtx' = NoThread
    /\ Goto(r, "notify")
    /\ UNCHANGED <<state, request, response, libcurl, io_service, answer, process, channel>>

\* Faulty variant: nobody is notified.
NotifyNobody(r) ==
    /\ pc[r] = "notify"
    /\ Move(r, "idle")

\* state_signal.notify_all()
NotifyAll(r) ==
    /\ pc[r] = "notify"
    /\ pc' = [t \in Threads |-> IF t = r THEN "idle"
                                ELSE IF pc[t] = "waiting" THEN "wait_lock"
                                ELSE pc[t]]
    /\ UNCHANGED <<state, mtx, request, response, libcurl, io_service, answer, process, channel>>
-----------------------------------------------------------------------------
\* The steps that a thread takes of its own accord once it is in a call.
UserProceeds(u) ==
    \/ Reset(u) \/ StartGet(u) \/ SendPrelocked(u) \/ AddHandle(u) \/ Leave(u)
    \/ WaitLocked(u) \/ WaitTimedOut(u)

ReactorProceeds(r) ==
    \/ SocketAction(r) \/ StoreBytes(r) \/ AppendBytes(r) \/ ReturnFromCurl(r)
    \/ HandleDoneTransfers(r) \/ RunPosted(r)
    \/ CleanupLoad(r) \/ CleanupLock(r) \/ CleanupEffectiveUrl(r)
    \/ CleanupStatusCode(r) \/ CleanupRemoveHandle(r) \/ CleanupUnlock(r)
    \/ NotifyAll(r)

Next ==
    /\ process = "up"
    /\ \/ DeleteChannel
       \/ \E u \in Users :
             \/ Configure(u) \/ Enter(u) \/ WaitLoad(u)
             \/ SpuriousWakeup(u) \/ TimeOut(u) \/ UserProceeds(u)
       \/ \E r \in Reactors :
             Deliver(r) \/ EndTransfer(r) \/ ReactorProceeds(r)

Spec == Init /\ [][Next]_vars

\* Threads that can run do run, and a mutex for which a thread waits again and
\* again is obtained. That libcurl ends the transfer is an assumption about
\* libcurl and the peer, not something the code sees to: its low-speed time-out
\* (DO_TIMEOUT) is not compiled in, so a peer that stays silent keeps a
\* transfer going.
Fairness ==
    /\ \A u \in Users : SF_vars(process = "up" /\ UserProceeds(u))
    /\ \A r \in Reactors : SF_vars(process = "up" /\ ReactorProceeds(r))
    /\ SF_vars(process = "up" /\ \E r \in Reactors : EndTransfer(r))

FairSpec == Spec /\ Fairness
-----------------------------------------------------------------------------
Requests == [url : {"null", "set"}, verb : {"null", "get", "bogus"}]
UserLabels == {"idle", "send", "start_get", "reset", "add_handle", "leave",
               "wait_lock", "waiting", "timed_out"}
ReactorLabels == {"idle", "in_curl", "store_bytes", "append", "handle_done",
                  "cleanup", "cleanup_lock", "cleanup_url", "cleanup_status",
                  "cleanup_remove", "cleanup_unlock", "notify"}

PcOK ==
    /\ pc \in [Threads -> UserLabels \cup ReactorLabels]
    /\ \A u \in Users : pc[u] \in UserLabels
    /\ \A r \in Reactors : pc[r] \in ReactorLabels

TypeOK ==
    /\ state \in States
    /\ mtx \in Threads \cup {NoThread}
    /\ request \in Requests
    /\ attributes \in {"none", "url", "final"}
    /\ body \in Nat
    /\ transfer \in {"none", "running", "over", "removed"}
    /\ done_msgs \in {0, 1}
    /\ posted \in Nat /\ posts \in Nat /\ removes \in Nat
    /\ PcOK
    /\ answer \in [Users -> {"none", "premature", "ready_at_once", "ready", "timed_out"}]
    /\ process \in {"up", "dead"}
    /\ channel \in {"live", "deleted"}

\* However the CURLMSG_DONE and CURL_POLL_REMOVE routes into
\* cleanup_after_transfer() interleave on different reactors, the easy handle
\* is taken out of the multi handle once, after its transfer is over, and an
\* idle session whose mutex is free has done so.
HandleRemovedOnce ==
    /\ removes <= 1
    /\ \A r \in Reactors : pc[r] = "cleanup_remove" => transfer = "over"
    /\ state = "idle" /\ mtx = NoThread => removes = 1

\* A wait() that went through the mutex and returned true finds effective URL
\* and status code in place: cleanup_after_transfer() keeps the mutex from the
\* store of idle until both are written.
ReadyMeansFinal == \A u \in Users : answer[u] = "ready" => attributes = "final"

\* The callback that curl_multi_remove_handle makes while the mutex is held
\* never schedules another cleanup ("we would have an infinite recursion",
\* comment in on_socket_update): a session posts at most one.
NoRepost == posts <= 1

Rank == [configuring |-> 0, requesting |-> 1, waiting_for_response |-> 2,
         accepting_response |-> 3, idle |-> 4]

\* The atomic state only moves forward: data that arrives late never turns an
\* idle session back into an accepting one, nobody's send restarts a session,
\* and neither does reset(), although session.h says that it "Moves state from
\* idle to configuring" (ResetReconfigures, below, which TLC refutes). So a
\* session object serves one transfer.
StateOnlyAdvances == [][Rank[state'] >= Rank[state]]_vars

\* Once some wait() has returned true, libcurl hands no more data to any
\* reactor, and the body grows only by what a reactor had in hand by then:
\* store_bytes() appends after it has left the mutex, so that much may still
\* come (WaitMeansFinal, below, is refuted).
NoNewDataWhenReady ==
    [][(\E u \in Users : answer[u] \in {"ready", "ready_at_once"}) =>
          /\ \A r \in Reactors : pc'[r] = "store_bytes" => pc[r] = "store_bytes"
          /\ body' # body => \E r \in Reactors : pc[r] = "append" /\ pc'[r] # "append"]_vars

\* The session implements the contract of response::wait(): callers are told
\* that the response is ready only after the end of the transfer, and never
\* again that it is not.
Contract == INSTANCE TransferContract WITH
    phase <- IF is_busy THEN "busy" ELSE state,
    told <- [u \in Users |->
               CASE answer[u] = "none" -> "nothing"
                 [] answer[u] \in {"ready", "ready_at_once"} -> "ready"
                 [] OTHER -> "not_ready"]
ImplementsContract == Contract!Spec

\* Every request that is sent ends with an idle session, whichever of the two
\* routes reports the end of the transfer.
EveryTransferEnds == state = "requesting" ~> state = "idle"

\* No wake-up is lost: a thread that waits for the response goes on even if
\* its time-out never expires, unless another one makes the process crash.
EveryWaiterReturns == \A u \in Users : pc[u] = "waiting" ~> pc[u] = "idle" \/ process = "dead"

-----------------------------------------------------------------------------
\* What comments, documents and tests say and the code does not keep

\* A reactor has a piece of the body in hand that is not in received_bytes.
BodyIsPending == \E r \in Reactors : pc[r] \in {"store_bytes", "append"}

\* "When this method returns, we are guaranteed that ... the final attributes of
\* its current request and response, such as a status code, effective URL,
\* headers, and response body--are available for inspection." (response.h,
\* wait). The claim is about the attributes and about the body; this states the
\* least of it, that at least one of the two is complete, so that a behaviour
\* that violates it shows a wait() that returned true too early for both:
\* without the mutex it sees idle before the attributes are written, and a
\* second reactor has left the mutex in store_bytes() but not appended yet.
WaitMeansFinal ==
    \A u \in Users : answer[u] \in {"ready", "ready_at_once"} =>
        attributes = "final" \/ ~BodyIsPending

\* "Start a new request/response interaction. Moves state from idle to
\* configuring." (session.h, reset)
ResetReconfigures ==
    [][\A u \in Users : Reset(u) /\ state = "idle" => state' = "configuring"]_vars
=============================================================================
