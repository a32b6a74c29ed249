----------------------------- MODULE CurlChannel -----------------------------
(***************************************************************************)
(* core/net/curl/channel.cpp and libcurl_callbacks.cpp: a channel, the     *)
(* sessions that are attached to it, its reactor threads, and the asio     *)
(* handlers and lambdas that point into session objects.                   *)
(*                                                                         *)
(* The life of a single transfer is that of CurlSession and is taken in    *)
(* one step here; this module is about what several sessions share: the    *)
(* list of sessions, the multi handle, the event queue, and the pointer    *)
(* that libcurl hands back with every update of a socket. That pointer is  *)
(* set to the session object but read as a pointer to an int, so the first *)
(* field of the session, its id, is what later updates overwrite.          *)
(*                                                                         *)
(* Touching a deleted object is undefined; the model records it in `freed' *)
(* and goes no further.                                                    *)
(***************************************************************************)
EXTENDS Integers

CONSTANTS
    Sessions,       \* session objects
    MaxReactors,    \* bound: threads that open() may start
    PollStates      \* socket states that libcurl asks for

ASSUME ReactorsAssumption == MaxReactors \in Nat
ASSUME PollAssumption == PollStates \subseteq 1 .. 3

CURL_POLL_NONE == 0
CURL_POLL_IN == 1
CURL_POLL_OUT == 2
CURL_POLL_INOUT == 3

VARIABLES
    life,           \* session objects: "unborn", "live" or "deleted"
    state,          \* session_state; "busy" stands for the three busy ones
    id,             \* session::impl_t::id
    socket_state,   \* session::impl_t::curl_socket_state
    next_id,        \* get_next_session_id()
    sessions,       \* channel::impl_t::sessions: pairs of a key and a session
    backref,        \* sessions whose channel pointer is not null
    channel,        \* "live" or "deleted"
    joinable,       \* service_runner.get_id() is not the inert id
    threads,        \* reactor threads that were started
    job,            \* what each reactor thread is doing in libcurl
    handlers,       \* asio handlers that wait for a socket
    posted,         \* sessions whose cleanup lambda is in the queue
    socket_map,     \* sessions whose asio socket exists
    easy,           \* libcurl: where a session's handle is
    want,           \* libcurl: the socket state last asked for
    assigned,       \* libcurl: sockets with a pointer from curl_multi_assign
    freed           \* "no", or what was touched after it was deleted

object == <<life, state, id, socket_state, next_id>>
list == <<sessions, backref, channel, joinable, threads>>
queue == <<job, handlers, posted>>
libcurl == <<socket_map, easy, want, assigned>>
vars == <<object, list, queue, libcurl, freed>>

Reactors == 1 .. MaxReactors
Fields == {"id", "curl_socket_state"}

\* What a reactor thread does: nothing, a time-out, or a socket event with the
\* pointer it was bound to and the value it found there.
NoJob == << >>
Timer == <<"timer">>
Event(s, field, start) == <<"event", s, field, start>>

Init ==
    /\ life = [s \in Sessions |-> "unborn"]
    /\ state = [s \in Sessions |-> "configuring"]
    /\ id = [s \in Sessions |-> 0]
    /\ socket_state = [s \in Sessions |-> CURL_POLL_NONE]
    /\ next_id = 0
    /\ sessions = {}
    /\ backref = {}
    /\ channel = "live" /\ joinable = FALSE /\ threads = 0
    /\ job = [r \in Reactors |-> NoJob]
    /\ handlers = {} /\ posted = {}
    /\ socket_map = {}
    /\ easy = [s \in Sessions |-> "new"]
    /\ want = [s \in Sessions |-> CURL_POLL_NONE]
    /\ assigned = {}
    /\ freed = "no"

InCurl == {r \in Reactors : job[r] # NoJob}
Sending == {s \in Sessions : state[s] = "busy" /\ easy[s] = "new"}
-----------------------------------------------------------------------------
\* Users: sessions and the channel

\* attach() and detach() work with the id of the session.
Attach(key, s) == {e \in sessions : e[1] # key} \cup {<<key, s>>}
Detach(key) == {e \in sessions : e[1] # key}

\* session(channel &): a new id, then attach().
NewSession(s) ==
    /\ channel = "live" /\ life[s] = "unborn"
    /\ life' = [life EXCEPT ![s] = "live"]
    /\ id' = [id EXCEPT ![s] = next_id]
    /\ next_id' = next_id + 1
    /\ sessions' = Attach(next_id, s)
    /\ backref' = backref \cup {s}
    /\ UNCHANGED <<state, socket_state, channel, joinable, threads, queue, libcurl, freed>>

\* service_runner is detached as soon as it is started.
Open ==
    IF joinable
    THEN UNCHANGED <<joinable, threads>>
    ELSE threads' = threads + 1 /\ joinable' = FALSE

\* send_prelocked(): open() and the store of the busy state ...
BeginSend(s) ==
    /\ life[s] = "live" /\ state[s] = "configuring" /\ s \in backref
    /\ channel = "live"
    /\ threads < MaxReactors
    /\ Open
    /\ state' = [state EXCEPT ![s] = "busy"]
    /\ UNCHANGED <<life, id, socket_state, next_id, sessions, backref, channel, queue, libcurl, freed>>

\* ... and the return from curl_multi_add_handle.
EndSend(s) ==
    /\ s \in Sending
    /\ easy' = [easy EXCEPT ![s] = "in"]
    /\ UNCHANGED <<object, list, queue, socket_map, want, assigned, freed>>

\* on_close_socket: with the last use of a connection libcurl may close it,
\* and the asio socket is deleted, whether or not handlers refer to it.
OnCloseSocket(S) == socket_map' \in {socket_map, socket_map \ S}

\* ~session(): detach() with the id the object has now, whose list entry is
\* erased; then curl_easy_cleanup takes the handle away from libcurl, which
\* calls back with CURL_POLL_REMOVE if the session's socket is in use.
DeleteSession(s) ==
    /\ life[s] = "live" /\ s \notin Sending
    /\ life' = [life EXCEPT ![s] = "deleted"]
    /\ IF s \in backref /\ channel = "deleted"
       THEN freed' = "channel" /\ UNCHANGED sessions
       ELSE /\ sessions' = IF s \in backref THEN Detach(id[s]) ELSE sessions
            /\ UNCHANGED freed
    /\ posted' = IF s \in assigned /\ state[s] = "busy" THEN posted \cup {s} ELSE posted
    /\ OnCloseSocket({s})
    /\ easy' = [easy EXCEPT ![s] = "out"]
    /\ want' = [want EXCEPT ![s] = CURL_POLL_NONE]
    /\ assigned' = assigned \ {s}
    /\ UNCHANGED <<state, id, socket_state, next_id, backref, channel, joinable, threads, job, handlers>>

is_open == joinable

\* ~channel(): the event loop is stopped but not joined; the sessions are cut
\* off if the channel is open.
DeleteChannel ==
    /\ channel = "live" /\ Sending = {}
    /\ channel' = "deleted"
    /\ IF is_open
       THEN backref' = {} /\ sessions' = {}
       ELSE UNCHANGED <<backref, sessions>>
    /\ freed' = IF InCurl # {} THEN "channel" ELSE freed
    /\ socket_map' = {}
    /\ easy' = [s \in Sessions |-> "out"]
    /\ want' = [s \in Sessions |-> CURL_POLL_NONE]
    /\ assigned' = {}
    /\ UNCHANGED <<object, joinable, threads, queue>>
-----------------------------------------------------------------------------
\* Reactor threads

\* io_service.run() has something for an idle reactor only while not stopped.
Free(r) == channel = "live" /\ r <= threads /\ job[r] = NoJob

Deref(s, field) == IF field = "id" THEN id[s] ELSE socket_state[s]

\* on_timeout()
OnTimeout(r) ==
    /\ Free(r) /\ \E s \in Sessions : easy[s] \notin {"new", "out"}
    /\ job' = [job EXCEPT ![r] = Timer]
    /\ UNCHANGED <<object, list, handlers, posted, libcurl, freed>>

\* on_open_socket: libcurl, called by reactor r, connects.
OnOpenSocket(r, s) ==
    /\ r \in InCurl /\ easy[s] = "in" /\ s \notin socket_map
    /\ socket_map' = socket_map \cup {s}
    /\ UNCHANGED <<object, list, queue, easy, want, assigned, freed>>

\* on_socket_event(), up to the call of curl_multi_socket_action. It is also
\* what asio calls for a handler that was aborted because its socket is gone:
\* the bound function takes no error code.
OnSocketEvent(r, h) ==
    /\ Free(r) /\ h \in handlers
    /\ handlers' = handlers \ {h}
    /\ IF life[h.s] = "deleted" \/ h.s \notin socket_map
       THEN /\ freed' = IF life[h.s] = "deleted" THEN "session" ELSE "socket"
            /\ UNCHANGED job
       ELSE /\ job' = [job EXCEPT ![r] = Event(h.s, h.field, Deref(h.s, h.field))]
            /\ UNCHANGED freed
    /\ UNCHANGED <<object, list, posted, libcurl>>

\* queue_callback_when_socket_is_ready()
Queued(s, field, desired) ==
    {[s |-> s, field |-> field, dir |-> d] :
        d \in CASE desired = CURL_POLL_IN -> {"read"}
                [] desired = CURL_POLL_OUT -> {"write"}
                [] desired = CURL_POLL_INOUT -> {"read", "write"}
                [] OTHER -> {}}

\* *socket_state = value, through whichever field the pointer points to.
Store(s, field, value) ==
    IF field = "id"
    THEN id' = [id EXCEPT ![s] = value] /\ UNCHANGED socket_state
    ELSE socket_state' = [socket_state EXCEPT ![s] = value] /\ UNCHANGED id

\* add_socket(): the pointer that later updates see is the session's own.
AddSocket(s, desired) ==
    /\ Store(s, "curl_socket_state", desired)
    /\ handlers' = handlers \cup Queued(s, "curl_socket_state", desired)
    /\ assigned' = assigned \cup {s}

\* change_socket_state() with the pointer that came back from libcurl.
ChangeAssigned(s, desired) ==
    /\ Store(s, "id", desired)
    /\ handlers' = handlers \cup Queued(s, "id", desired)
    /\ UNCHANGED assigned

\* libcurl, called by reactor r, wants another state of the session's socket.
\* (A socket that is not in socket_map is libcurl's own and is ignored.)
OnSocketUpdate(r, s, desired) ==
    /\ r \in InCurl /\ easy[s] = "in" /\ s \in socket_map /\ desired # want[s]
    /\ want' = [want EXCEPT ![s] = desired]
    /\ IF s \in assigned THEN ChangeAssigned(s, desired) ELSE AddSocket(s, desired)
    /\ UNCHANGED <<life, state, next_id, list, job, posted, socket_map, easy, freed>>

\* Faulty variant: the state is set to CURL_SOCKET_BAD.
RemoveSocketBad(s) == Store(s, "curl_socket_state", -1)

\* remove_socket(), through the pointer that came back from libcurl.
RemoveSocket(s) == Store(s, "id", CURL_POLL_NONE)

\* Faulty variant: the end of the transfer is left to handle_done_transfers().
PostNothing(s) == UNCHANGED posted

\* io_service.post
PostCleanup(s) == posted' = posted \cup {s}

\* The transfer ends with a message, a CURL_POLL_REMOVE or both; the callback
\* posts the cleanup and clears the socket state.
EndTransfer(r, s) ==
    /\ r \in InCurl /\ easy[s] = "in"
    /\ \/ /\ easy' = [easy EXCEPT ![s] = "done"]
          /\ UNCHANGED <<posted, id, socket_state, assigned, want>>
       \/ /\ s \in assigned
          /\ easy' \in {[easy EXCEPT ![s] = "done"], [easy EXCEPT ![s] = "over"]}
          /\ PostCleanup(s)
          /\ RemoveSocket(s)
          /\ assigned' = assigned \ {s}
          /\ want' = [want EXCEPT ![s] = CURL_POLL_NONE]
    /\ UNCHANGED <<life, state, next_id, list, job, handlers, socket_map, freed>>

\* cleanup_after_transfer() of the sessions in S.
Cleanup(S) ==
    /\ state' = [s \in Sessions |-> IF s \in S THEN "idle" ELSE state[s]]
    /\ easy' = [s \in Sessions |-> IF s \in S THEN "out" ELSE easy[s]]
    /\ want' = [s \in Sessions |-> IF s \in S THEN CURL_POLL_NONE ELSE want[s]]
    /\ assigned' = assigned \ S
    /\ OnCloseSocket(S)

\* Faulty variant: a read or write that did not satisfy libcurl is the last.
NeverRequeue(r) == {}

\* The second half of on_socket_event(): if libcurl left the socket state as
\* it was, the socket is watched again.
Requeue(r) ==
    IF job[r] # Timer /\ Deref(job[r][2], job[r][3]) = job[r][4]
    THEN Queued(job[r][2], job[r][3], job[r][4])
    ELSE {}

\* libcurl returns; handle_done_transfers() ends what is done.
ReturnFromCurl(r) ==
    /\ r \in InCurl
    /\ job' = [job EXCEPT ![r] = NoJob]
    /\ IF job[r] # Timer /\ life[job[r][2]] = "deleted"
       THEN freed' = "session" /\ UNCHANGED <<state, handlers, libcurl>>
       ELSE /\ handlers' = handlers \cup Requeue(r)
            /\ Cleanup({s \in Sessions : easy[s] = "done"})
            /\ UNCHANGED freed
    /\ UNCHANGED <<life, id, socket_state, next_id, list, posted>>

\* The lambda that on_socket_update posted.
RunPosted(r, s) ==
    /\ Free(r) /\ s \in posted
    /\ posted' = posted \ {s}
    /\ IF life[s] = "deleted"
       THEN freed' = "session" /\ UNCHANGED <<state, libcurl>>
       ELSE Cleanup({s}) /\ UNCHANGED freed
    /\ UNCHANGED <<life, id, socket_state, next_id, list, job, handlers>>

Next ==
    /\ freed = "no"
    /\ \/ DeleteChannel
       \/ \E s \in Sessions :
             NewSession(s) \/ BeginSend(s) \/ EndSend(s) \/ DeleteSession(s)
       \/ \E r \in Reactors :
             \/ OnTimeout(r) \/ ReturnFromCurl(r)
             \/ \E h \in handlers : OnSocketEvent(r, h)
             \/ \E s \in Sessions :
                   \/ OnOpenSocket(r, s) \/ EndTransfer(r, s) \/ RunPosted(r, s)
                   \/ \E desired \in PollStates : OnSocketUpdate(r, s, desired)

Spec == Init /\ [][Next]_vars
-----------------------------------------------------------------------------
TypeOK ==
    /\ life \in [Sessions -> {"unborn", "live", "deleted"}]
    /\ state \in [Sessions -> {"configuring", "busy", "idle"}]
    /\ id \in [Sessions -> Nat] /\ socket_state \in [Sessions -> 0 .. 3]
    /\ next_id \in Nat
    /\ sessions \subseteq Nat \X Sessions
    /\ backref \subseteq Sessions /\ posted \subseteq Sessions /\ assigned \subseteq Sessions
    /\ channel \in {"live", "deleted"} /\ joinable \in BOOLEAN
    /\ threads \in 0 .. MaxReactors
    /\ \A h \in handlers : h.s \in Sessions /\ h.field \in Fields /\ h.dir \in {"read", "write"}
    /\ socket_map \subseteq Sessions
    /\ easy \in [Sessions -> {"new", "out", "in", "done", "over"}]
    /\ want \in [Sessions -> 0 .. 3]
    /\ freed \in {"no", "session", "socket", "channel"}

\* The directions in which libcurl waits for the socket of s.
Awaited(s) ==
    (IF want[s] \in {CURL_POLL_IN, CURL_POLL_INOUT} THEN {"read"} ELSE {})
    \cup (IF want[s] \in {CURL_POLL_OUT, CURL_POLL_INOUT} THEN {"write"} ELSE {})

\* asio is edge-triggered ("we only get one shot at noticing a state
\* transition"): whenever no reactor is in libcurl, a socket on which libcurl
\* wants to read or write is being watched, in that direction, although
\* updates write to one field of the session and handlers may compare another.
NoStall ==
    \A s \in Sessions :
        easy[s] = "in" /\ InCurl = {} /\ freed = "no" =>
            \A d \in Awaited(s) : \E h \in handlers : h.s = s /\ h.dir = d

\* An unfinished transfer never falls out of the event loop: its handle is in
\* libcurl, or its end is on the way (a message or a posted lambda).
NothingLost ==
    \A s \in Sessions :
        life[s] = "live" /\ state[s] = "busy" /\ channel = "live" =>
            s \in Sending \/ easy[s] \in {"in", "done"} \/ s \in posted

-----------------------------------------------------------------------------
\* What comments, documents and tests say and the code does not keep

\* "A channel ... opens automatically the first time a consumer needs it to
\* do real work, and remains open from then on." (channel.h, is_open)
RemainsOpen ==
    channel = "live" /\ (\E s \in Sessions : state[s] # "configuring") => is_open

\* "uint32_t id; // +<final" (session-impl.h)
IdIsFinal == [][\A s \in Sessions : life[s] = "live" => id'[s] = id[s]]_vars

\* "an equivalent session handle can still be found in the channel's list of
\* sessions until it finalizes" (session.h)
LiveSessionsAreListed ==
    channel = "live" =>
        \A s \in Sessions : life[s] = "live" => \E e \in sessions : e[2] = s

\* "if we get here, then nobody can possibly have a pointer or reference to
\* the object" (session.cpp, ~impl_t)
NobodyPointsToDeleted ==
    \A s \in Sessions : life[s] = "deleted" =>
        s \notin posted /\ \A h \in handlers : h.s # s

\* "The unusual case is that a channel is dying before we do. In that case,
\* its destructor will have broken our backref" (session.cpp, ~impl_t)
BackrefsAreBroken == channel = "deleted" => \A s \in backref : life[s] # "live"

\* "Channels are thread-safe; instances can be shared safely on multiple
\* threads" (channel.h): the multi handle, which libcurl forbids to share, is
\* used by one thread at a time.
OneThreadInMulti ==
    (Sending # {} => InCurl = {}) /\ \A q, r \in InCurl : q = r
=============================================================================
