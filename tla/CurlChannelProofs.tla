-------------------------- MODULE CurlChannelProofs --------------------------
(***************************************************************************)
(* Channels, for any number of sessions and reactor threads: no transfer   *)
(* falls out of the event loop and no socket is left unwatched.            *)
(*                                                                         *)
(* The second is about the one shot that asio gives: a handler that fires  *)
(* is gone, and while its reactor is in libcurl nothing may watch the      *)
(* socket. What watches it then is the reactor itself, which queues the    *)
(* handler again when libcurl left the value behind the handler's pointer  *)
(* alone. The inductive invariant says so, and relates the two fields that *)
(* such pointers point to with the socket state that libcurl asked for.    *)
(***************************************************************************)
EXTENDS CurlChannel, TLAPS

\* The directions in which queue_callback_when_socket_is_ready() watches.
Dirs(desired) ==
    (IF desired \in {CURL_POLL_IN, CURL_POLL_INOUT} THEN {"read"} ELSE {})
    \cup (IF desired \in {CURL_POLL_OUT, CURL_POLL_INOUT} THEN {"write"} ELSE {})

\* The reactors that are in libcurl because of an event on the socket of s.
IsOn(j, s) == j # NoJob /\ j # Timer /\ j[2] = s
JobsOn(s) == {r \in Reactors : IsOn(job[r], s)}

Jobs == {NoJob, Timer} \cup {Event(s, f, v) : s \in Sessions, f \in Fields, v \in Nat}
JobOK == job \in [Reactors -> Jobs]

\* There is one handler in the queue for each direction.
LEMMA QueuedHandlers ==
    ASSUME NEW s, NEW f, NEW v
    PROVE  /\ \A h \in Queued(s, f, v) : h.s = s /\ h.field = f /\ h.dir \in Dirs(v)
           /\ \A d \in Dirs(v) : \E h \in Queued(s, f, v) : h.s = s /\ h.field = f /\ h.dir = d
           /\ Dirs(v) \subseteq {"read", "write"}
<1>1. Queued(s, f, v) = {[s |-> s, field |-> f, dir |-> d] : d \in Dirs(v)}
  <2> DEFINE D == CASE v = CURL_POLL_IN -> {"read"}
                    [] v = CURL_POLL_OUT -> {"write"}
                    [] v = CURL_POLL_INOUT -> {"read", "write"}
                    [] OTHER -> {}
  <2>1. D = Dirs(v)
    BY DEF Dirs, CURL_POLL_IN, CURL_POLL_OUT, CURL_POLL_INOUT
  <2>2. Queued(s, f, v) = {[s |-> s, field |-> f, dir |-> d] : d \in D}
    BY DEF Queued
  <2> QED BY <2>1, <2>2
<1>2. Dirs(v) \subseteq {"read", "write"}
  BY DEF Dirs
<1>3. ASSUME NEW h \in Queued(s, f, v) PROVE h.s = s /\ h.field = f /\ h.dir \in Dirs(v)
  <2>1. PICK d \in Dirs(v) : h = [s |-> s, field |-> f, dir |-> d]
    BY <1>1
  <2> QED BY <2>1
<1>4. ASSUME NEW d \in Dirs(v)
      PROVE  \E h \in Queued(s, f, v) : h.s = s /\ h.field = f /\ h.dir = d
  <2> DEFINE h == [s |-> s, field |-> f, dir |-> d]
  <2>1. h \in Queued(s, f, v) /\ h.s = s /\ h.field = f /\ h.dir = d
    BY <1>1
  <2> QED BY <2>1
<1> QED BY <1>2, <1>3, <1>4

\* The jobs of reactors are told apart, and give back what they are made of.
LEMMA EventParts ==
    /\ Timer # NoJob
    /\ \A s, f, v : /\ Event(s, f, v) # NoJob /\ Event(s, f, v) # Timer
                    /\ Event(s, f, v)[2] = s /\ Event(s, f, v)[3] = f /\ Event(s, f, v)[4] = v
<1>1. Timer # NoJob
  BY DEF Timer, NoJob
<1>2. ASSUME NEW s, NEW f, NEW v
      PROVE  /\ Event(s, f, v) # NoJob /\ Event(s, f, v) # Timer
             /\ Event(s, f, v)[2] = s /\ Event(s, f, v)[3] = f /\ Event(s, f, v)[4] = v
  <2>1. Event(s, f, v)[1] = "event"
    BY DEF Event
  <2>2. Event(s, f, v) # Timer
    <3>1. Timer[1] = "timer"
      BY DEF Timer
    <3> QED BY <2>1, <3>1
  <2> QED BY <2>2 DEF Event, NoJob
<1> QED BY <1>1, <1>2
-----------------------------------------------------------------------------
\* Types

\* The value that a pointer finds is a number.
LEMMA DerefType ==
    ASSUME TypeOK, NEW s \in Sessions, NEW f
    PROVE  Deref(s, f) \in Nat
BY DEF TypeOK, Deref

\* A pointer stores a socket state in one of the two fields.
LEMMA StoreType ==
    ASSUME TypeOK, NEW s \in Sessions, NEW f, NEW v \in 0 .. 3, Store(s, f, v)
    PROVE  id' \in [Sessions -> Nat] /\ socket_state' \in [Sessions -> 0 .. 3]
BY DEF TypeOK, Store

\* What cleanup_after_transfer() leaves behind.
LEMMA CleanupType ==
    ASSUME TypeOK, NEW S \in SUBSET Sessions, Cleanup(S)
    PROVE  /\ state' \in [Sessions -> {"configuring", "busy", "idle"}]
           /\ easy' \in [Sessions -> {"new", "out", "in", "done", "over"}]
           /\ want' \in [Sessions -> 0 .. 3]
           /\ assigned' \subseteq Sessions /\ socket_map' \subseteq Sessions
<1>1. socket_map' \subseteq Sessions
  BY DEF TypeOK, Cleanup, OnCloseSocket
<1> QED BY <1>1 DEF TypeOK, Cleanup, CURL_POLL_NONE

\* Every step keeps the types, those of the reactors' jobs included.
LEMMA StepKeepsTypes == TypeOK /\ JobOK /\ [Next]_vars => TypeOK' /\ JobOK'
<1> SUFFICES ASSUME TypeOK, JobOK, [Next]_vars PROVE TypeOK' /\ JobOK'
  OBVIOUS
<1>0. NoJob \in Jobs /\ Timer \in Jobs
  BY DEF Jobs
<1> USE DEF object, list, queue, libcurl
<1>1. ASSUME NEW s \in Sessions, NewSession(s) PROVE TypeOK' /\ JobOK'
  <2>1. sessions' \subseteq Nat \X Sessions
    BY <1>1 DEF TypeOK, NewSession, Attach
  <2> QED BY <1>1, <2>1 DEF TypeOK, JobOK, NewSession
<1>2. ASSUME NEW s \in Sessions, BeginSend(s) PROVE TypeOK' /\ JobOK'
  <2>1. threads' \in 0 .. MaxReactors /\ joinable' \in BOOLEAN
    <3>1. joinable \in BOOLEAN /\ threads \in 0 .. MaxReactors /\ threads < MaxReactors
      BY <1>2 DEF TypeOK, BeginSend
    <3>2. CASE joinable
      <4>1. joinable' = joinable /\ threads' = threads
        BY <1>2, <3>2 DEF BeginSend, Open
      <4> QED BY <3>1, <4>1
    <3>3. CASE ~joinable
      <4>1. joinable' = FALSE /\ threads' = threads + 1
        BY <1>2, <3>3 DEF BeginSend, Open
      <4>2. threads' \in 0 .. MaxReactors
        BY <3>1, <4>1, ReactorsAssumption
      <4> QED BY <4>1, <4>2
    <3> QED BY <3>2, <3>3
  <2> QED BY <1>2, <2>1 DEF TypeOK, JobOK, BeginSend
<1>3. ASSUME NEW s \in Sessions, EndSend(s) PROVE TypeOK' /\ JobOK'
  BY <1>3 DEF TypeOK, JobOK, EndSend
<1>4. ASSUME NEW s \in Sessions, DeleteSession(s) PROVE TypeOK' /\ JobOK'
  <2>1. sessions' \subseteq Nat \X Sessions
    BY <1>4 DEF TypeOK, DeleteSession, Detach
  <2>2. socket_map' \subseteq Sessions
    BY <1>4 DEF TypeOK, DeleteSession, OnCloseSocket
  <2>3. posted' \subseteq Sessions /\ freed' \in {"no", "session", "socket", "channel"}
    BY <1>4 DEF TypeOK, DeleteSession
  <2> QED BY <1>4, <2>1, <2>2, <2>3 DEF TypeOK, JobOK, DeleteSession, CURL_POLL_NONE
<1>5. CASE DeleteChannel
  BY <1>5 DEF TypeOK, JobOK, DeleteChannel, CURL_POLL_NONE
<1>6. ASSUME NEW r \in Reactors, OnTimeout(r) PROVE TypeOK' /\ JobOK'
  BY <1>0, <1>6 DEF TypeOK, JobOK, OnTimeout
<1>7. ASSUME NEW r \in Reactors, NEW s \in Sessions, OnOpenSocket(r, s) PROVE TypeOK' /\ JobOK'
  BY <1>7 DEF TypeOK, JobOK, OnOpenSocket
<1>8. ASSUME NEW r \in Reactors, NEW h \in handlers, OnSocketEvent(r, h) PROVE TypeOK' /\ JobOK'
  <2>1. Event(h.s, h.field, Deref(h.s, h.field)) \in Jobs
    <3>1. h.s \in Sessions /\ h.field \in Fields /\ Deref(h.s, h.field) \in Nat
      BY DerefType DEF TypeOK
    <3> QED BY <3>1 DEF Jobs
  <2>2. JobOK'
    BY <1>8, <2>1 DEF JobOK, OnSocketEvent
  <2> QED BY <1>8, <2>2 DEF TypeOK, OnSocketEvent
<1>9. ASSUME NEW r \in Reactors, NEW s \in Sessions, NEW desired \in PollStates,
             OnSocketUpdate(r, s, desired)
      PROVE  TypeOK' /\ JobOK'
  <2>0. desired \in 0 .. 3
    BY PollAssumption
  <2>1. id' \in [Sessions -> Nat] /\ socket_state' \in [Sessions -> 0 .. 3]
    BY <1>9, <2>0, StoreType DEF OnSocketUpdate, ChangeAssigned, AddSocket
  <2>2. /\ assigned' \subseteq Sessions
        /\ \A h \in handlers' : h.s \in Sessions /\ h.field \in Fields /\ h.dir \in {"read", "write"}
    BY <1>9, QueuedHandlers DEF TypeOK, OnSocketUpdate, ChangeAssigned, AddSocket, Fields
  <2> QED BY <1>9, <2>0, <2>1, <2>2 DEF TypeOK, JobOK, OnSocketUpdate
<1>10. ASSUME NEW r \in Reactors, NEW s \in Sessions, EndTransfer(r, s) PROVE TypeOK' /\ JobOK'
  <2>1. id' \in [Sessions -> Nat] /\ socket_state' \in [Sessions -> 0 .. 3]
    <3>1. CASE UNCHANGED <<id, socket_state>>
      BY <3>1 DEF TypeOK
    <3>2. CASE RemoveSocket(s)
      BY <3>2, StoreType DEF RemoveSocket, CURL_POLL_NONE
    <3> QED BY <1>10, <3>1, <3>2 DEF EndTransfer
  <2>2. /\ easy' \in [Sessions -> {"new", "out", "in", "done", "over"}]
        /\ want' \in [Sessions -> 0 .. 3]
        /\ posted' \subseteq Sessions /\ assigned' \subseteq Sessions
    BY <1>10 DEF TypeOK, EndTransfer, PostCleanup, CURL_POLL_NONE
  <2> QED BY <1>10, <2>1, <2>2 DEF TypeOK, JobOK, EndTransfer
<1>11. ASSUME NEW r \in Reactors, ReturnFromCurl(r) PROVE TypeOK' /\ JobOK'
  <2>1. JobOK'
    BY <1>0, <1>11 DEF JobOK, ReturnFromCurl
  <2>2. CASE freed' = "session" /\ UNCHANGED <<state, handlers, libcurl>>
    BY <1>11, <2>1, <2>2 DEF TypeOK, ReturnFromCurl
  <2>3. CASE /\ handlers' = handlers \cup Requeue(r)
             /\ Cleanup({s \in Sessions : easy[s] = "done"})
             /\ UNCHANGED freed
    <3>1. ASSUME NEW h \in Requeue(r)
          PROVE  h.s \in Sessions /\ h.field \in Fields /\ h.dir \in {"read", "write"}
      <4>1. job[r] # NoJob /\ job[r] # Timer /\ h \in Queued(job[r][2], job[r][3], job[r][4])
        BY <1>11, <3>1 DEF ReturnFromCurl, InCurl, Requeue
      <4>2. job[r][2] \in Sessions /\ job[r][3] \in Fields
        BY <4>1, EventParts DEF JobOK, Jobs
      <4> QED BY <4>1, <4>2, QueuedHandlers
    <3>2. \A h \in handlers' : h.s \in Sessions /\ h.field \in Fields /\ h.dir \in {"read", "write"}
      BY <2>3, <3>1 DEF TypeOK
    <3> QED BY <1>11, <2>1, <2>3, <3>2, CleanupType DEF TypeOK, ReturnFromCurl
  <2> QED BY <1>11, <2>2, <2>3 DEF ReturnFromCurl
<1>12. ASSUME NEW r \in Reactors, NEW s \in Sessions, RunPosted(r, s) PROVE TypeOK' /\ JobOK'
  <2>1. CASE freed' = "session" /\ UNCHANGED <<state, libcurl>>
    BY <1>12, <2>1 DEF TypeOK, JobOK, RunPosted
  <2>2. CASE Cleanup({s}) /\ UNCHANGED freed
    BY <1>12, <2>2, CleanupType DEF TypeOK, JobOK, RunPosted
  <2> QED BY <1>12, <2>1, <2>2 DEF RunPosted
<1>13. CASE UNCHANGED vars
  BY <1>13 DEF TypeOK, JobOK, vars
<1> QED BY <1>1, <1>2, <1>3, <1>4, <1>5, <1>6, <1>7, <1>8, <1>9, <1>10, <1>11, <1>12, <1>13 DEF Next

LEMMA TypesHold == Spec => [](TypeOK /\ JobOK)
<1>1. Init => TypeOK /\ JobOK
  <2> SUFFICES ASSUME Init PROVE TypeOK /\ JobOK
    OBVIOUS
  <2>1. JobOK
    BY DEF Init, JobOK, Jobs
  <2>2. threads \in 0 .. MaxReactors /\ next_id \in Nat
    BY ReactorsAssumption DEF Init
  <2>3. joinable \in BOOLEAN
    BY DEF Init
  <2>4. id \in [Sessions -> Nat] /\ socket_state \in [Sessions -> 0 .. 3] /\ want \in [Sessions -> 0 .. 3]
    BY DEF Init, CURL_POLL_NONE
  <2> QED BY <2>1, <2>2, <2>3, <2>4 DEF Init, TypeOK
<1> QED BY <1>1, StepKeepsTypes, PTL DEF Spec

\* Type correctness of the channel; in particular whatever is stored through
\* the pointer that came back from libcurl is a socket state.
THEOREM ChannelTypeOK == Spec => []TypeOK
BY TypesHold, PTL
-----------------------------------------------------------------------------
\* The way of a transfer

\* Where a session can be on its way: a session that is being configured is not
\* in libcurl, and one that is busy is on its way in, there, or on its way out.
OnItsWay(s) ==
    /\ life[s] = "unborn" => easy[s] # "in" /\ state[s] # "busy"
    /\ channel = "live" /\ life[s] # "deleted" /\ state[s] = "configuring" => easy[s] = "new"
    /\ life[s] = "live" /\ state[s] = "busy" /\ channel = "live" =>
          easy[s] \in {"new", "in", "done"} \/ s \in posted

\* A session to which nothing happens, but that its cleanup may be posted.
LEMMA OnItsWayFrame ==
    ASSUME NEW s, OnItsWay(s), life'[s] = life[s], state'[s] = state[s], easy'[s] = easy[s],
           s \in posted => s \in posted', channel' = channel
    PROVE  OnItsWay(s)'
BY DEF OnItsWay

\* cleanup_after_transfer() ends the way of a session and leaves others alone.
LEMMA CleanupOnItsWay ==
    ASSUME TypeOK, NEW S \in SUBSET Sessions, NEW s \in Sessions, OnItsWay(s), Cleanup(S),
           life' = life, channel' = channel, s \in posted => s \in posted' \/ s \in S
    PROVE  OnItsWay(s)'
<1>1. CASE s \in S
  <2>1. state'[s] = "idle" /\ easy'[s] = "out"
    BY <1>1 DEF Cleanup
  <2> QED BY <2>1 DEF OnItsWay
<1>2. CASE s \notin S
  <2>1. state'[s] = state[s] /\ easy'[s] = easy[s]
    BY <1>2 DEF Cleanup
  <2> QED BY <1>2, <2>1, OnItsWayFrame
<1> QED BY <1>1, <1>2

\* Every step keeps all sessions on their way.
LEMMA StepKeepsOnItsWay ==
    ASSUME TypeOK, \A s \in Sessions : OnItsWay(s), [Next]_vars, NEW t \in Sessions
    PROVE  OnItsWay(t)'
<1>0. OnItsWay(t)
  OBVIOUS
<1> USE DEF object, list, queue, libcurl
<1>1. ASSUME NEW s \in Sessions, NewSession(s) PROVE OnItsWay(t)'
  BY <1>0, <1>1 DEF TypeOK, NewSession, OnItsWay
<1>2. ASSUME NEW s \in Sessions, BeginSend(s) PROVE OnItsWay(t)'
  BY <1>0, <1>2 DEF TypeOK, BeginSend, OnItsWay
<1>3. ASSUME NEW s \in Sessions, EndSend(s) PROVE OnItsWay(t)'
  BY <1>0, <1>3 DEF TypeOK, EndSend, Sending, OnItsWay
<1>4. ASSUME NEW s \in Sessions, DeleteSession(s) PROVE OnItsWay(t)'
  <2>1. CASE t = s
    BY <1>4, <2>1 DEF TypeOK, DeleteSession, OnItsWay
  <2>2. CASE t # s
    <3>1. /\ life'[t] = life[t] /\ state'[t] = state[t] /\ easy'[t] = easy[t]
          /\ t \in posted => t \in posted'
          /\ channel' = channel
      BY <1>4, <2>2 DEF TypeOK, DeleteSession
    <3> QED BY <1>0, <3>1, OnItsWayFrame
  <2> QED BY <2>1, <2>2
<1>5. CASE DeleteChannel
  BY <1>0, <1>5 DEF DeleteChannel, OnItsWay
<1>6. CASE UNCHANGED <<life, state, easy, posted, channel>>
  BY <1>0, <1>6, OnItsWayFrame
<1>7. ASSUME NEW r \in Reactors, NEW s \in Sessions, EndTransfer(r, s) PROVE OnItsWay(t)'
  <2>1. CASE t = s
    <3>1. /\ life'[t] = life[t] /\ state'[t] = state[t] /\ channel' = channel /\ easy[t] = "in"
      BY <1>7, <2>1 DEF EndTransfer
    <3>2. easy'[t] = "done" \/ (easy'[t] = "over" /\ t \in posted')
      BY <1>7, <2>1 DEF TypeOK, EndTransfer, PostCleanup
    <3> QED BY <1>0, <3>1, <3>2 DEF OnItsWay
  <2>2. CASE t # s
    <3>1. /\ life'[t] = life[t] /\ state'[t] = state[t] /\ easy'[t] = easy[t]
          /\ t \in posted => t \in posted'
          /\ channel' = channel
      BY <1>7, <2>2 DEF TypeOK, EndTransfer, PostCleanup
    <3> QED BY <1>0, <3>1, OnItsWayFrame
  <2> QED BY <2>1, <2>2
<1>8. ASSUME NEW r \in Reactors, ReturnFromCurl(r) PROVE OnItsWay(t)'
  <2>1. CASE UNCHANGED <<state, handlers, libcurl>>
    BY <1>8, <1>6, <2>1 DEF ReturnFromCurl
  <2>2. CASE Cleanup({s \in Sessions : easy[s] = "done"})
    BY <1>0, <1>8, <2>2, CleanupOnItsWay DEF ReturnFromCurl
  <2> QED BY <1>8, <2>1, <2>2 DEF ReturnFromCurl
<1>9. ASSUME NEW r \in Reactors, NEW s \in Sessions, RunPosted(r, s) PROVE OnItsWay(t)'
  <2>1. CASE life[s] = "deleted"
    <3>1. CASE t = s
      BY <1>9, <2>1, <3>1 DEF RunPosted, OnItsWay
    <3>2. CASE t # s
      BY <1>0, <1>9, <2>1, <3>2, OnItsWayFrame DEF RunPosted
    <3> QED BY <3>1, <3>2
  <2>2. CASE Cleanup({s})
    BY <1>0, <1>9, <2>2, CleanupOnItsWay DEF RunPosted
  <2> QED BY <1>9, <2>1, <2>2 DEF RunPosted
<1> QED BY <1>1, <1>2, <1>3, <1>4, <1>5, <1>6, <1>7, <1>8, <1>9
       DEF Next, vars, OnTimeout, OnSocketEvent, OnOpenSocket, OnSocketUpdate

\* The invariant holds of every history of a channel.
LEMMA SessionsAreOnTheirWay == Spec => [](\A s \in Sessions : OnItsWay(s))
<1>1. Init => \A s \in Sessions : OnItsWay(s)
  BY DEF Init, OnItsWay
<1>2. TypeOK /\ (\A s \in Sessions : OnItsWay(s)) /\ [Next]_vars => (\A s \in Sessions : OnItsWay(s))'
  BY StepKeepsOnItsWay
<1> QED BY <1>1, <1>2, TypesHold, PTL DEF Spec

\* However sends, events, time-outs, posted lambdas and the ends of sessions
\* and channels interleave on any number of reactor threads, an unfinished
\* transfer never falls out of the event loop: it is in libcurl, or a message
\* or a posted lambda will end it.
THEOREM ChannelNothingLost == Spec => []NothingLost
<1>1. (\A s \in Sessions : OnItsWay(s)) => NothingLost
  BY DEF OnItsWay, NothingLost, Sending
<1> QED BY <1>1, SessionsAreOnTheirWay, PTL
-----------------------------------------------------------------------------
\* The watch on a socket

\* A pointer to the field f of s is bound to a handler, or used by a reactor.
PointsTo(s, f) ==
    \/ \E h \in handlers : h.s = s /\ h.field = f
    \/ \E r \in JobsOn(s) : job[r][3] = f

\* A handler waits in direction d, or a reactor will queue one on its return.
Watched(s, d) ==
    \/ \E h \in handlers : h.s = s /\ h.dir = d
    \/ \E r \in JobsOn(s) : Deref(s, job[r][3]) = job[r][4] /\ d \in Dirs(job[r][4])

\* The inductive invariant of one session. Before add_socket() nothing waits
\* for its socket. A pointer to curl_socket_state was bound to by add_socket(),
\* which stored there what it queued handlers for; one to the id was bound to
\* by a later update, and the latest of those left in the id what libcurl wants.
WatchOK(s) ==
    /\ easy[s] = "new" => s \notin assigned
    /\ easy[s] \in {"new", "in"} /\ s \notin assigned =>
          want[s] = CURL_POLL_NONE /\ JobsOn(s) = {} /\ \A h \in handlers : h.s # s
    /\ easy[s] = "in" =>
          \A h \in handlers : h.s = s /\ h.field = "curl_socket_state" => h.dir \in Dirs(socket_state[s])
    /\ easy[s] = "in" /\ PointsTo(s, "id") => want[s] = id[s]
    /\ freed = "no" /\ easy[s] = "in" => \A d \in Dirs(want[s]) : Watched(s, d)

\* A session that is not, or no longer, libcurl's concern.
LEMMA WatchOut ==
    ASSUME NEW s, easy'[s] \notin {"new", "in"}
    PROVE  WatchOK(s)'
BY DEF WatchOK

\* What a step keeps of the session t when it is about another one.
Untouched(t) ==
    /\ easy'[t] = easy[t] /\ want'[t] = want[t] /\ (t \in assigned' <=> t \in assigned)
    /\ id'[t] = id[t] /\ socket_state'[t] = socket_state[t]
    /\ \A h : h.s = t => (h \in handlers' <=> h \in handlers)
    /\ \A r \in Reactors : job'[r] = job[r] \/ (~IsOn(job[r], t) /\ ~IsOn(job'[r], t))
    /\ freed' = "no" => freed = "no"

LEMMA WatchFrame ==
    ASSUME NEW t, WatchOK(t), Untouched(t)
    PROVE  WatchOK(t)'
<1>1. JobsOn(t)' = JobsOn(t) /\ \A r \in JobsOn(t) : job'[r] = job[r]
  BY DEF JobsOn, Untouched
<1>2. \A f : Deref(t, f)' = Deref(t, f)
  BY DEF Deref, Untouched
<1>3. \A f : PointsTo(t, f)' => PointsTo(t, f)
  BY <1>1 DEF PointsTo, Untouched
<1>4. \A d : Watched(t, d) => Watched(t, d)'
  BY <1>1, <1>2 DEF Watched, Untouched
<1> QED BY <1>1, <1>3, <1>4 DEF WatchOK, Untouched

\* A step that ends in undefined behaviour takes handlers and jobs away.
LEMMA WatchAbandoned ==
    ASSUME NEW t, WatchOK(t), freed' # "no",
           easy'[t] = easy[t], want'[t] = want[t], assigned' = assigned,
           id'[t] = id[t], socket_state'[t] = socket_state[t], handlers' \subseteq handlers,
           \A r \in Reactors : IsOn(job'[r], t) => job'[r] = job[r]
    PROVE  WatchOK(t)'
<1>1. JobsOn(t)' \subseteq JobsOn(t) /\ \A r \in JobsOn(t)' : job'[r] = job[r]
  BY DEF JobsOn
<1>2. \A f : PointsTo(t, f)' => PointsTo(t, f)
  BY <1>1 DEF PointsTo
<1> QED BY <1>1, <1>2 DEF WatchOK

\* A session enters libcurl: nothing is wanted and nothing waits.
LEMMA EndSendWatch ==
    ASSUME TypeOK, NEW s \in Sessions, WatchOK(s), EndSend(s)
    PROVE  WatchOK(s)'
<1>1. /\ easy[s] = "new" /\ easy'[s] = "in"
      /\ want' = want /\ handlers' = handlers /\ job' = job /\ assigned' = assigned
  BY DEF TypeOK, EndSend, Sending, queue
<1>2. s \notin assigned /\ want[s] = CURL_POLL_NONE /\ JobsOn(s) = {} /\ \A h \in handlers : h.s # s
  BY <1>1 DEF WatchOK
<1>3. JobsOn(s)' = {}
  BY <1>1, <1>2 DEF JobsOn
<1>4. ~PointsTo(s, "id")'
  BY <1>1, <1>2, <1>3 DEF PointsTo
<1>5. Dirs(want'[s]) = {}
  BY <1>1, <1>2 DEF Dirs, CURL_POLL_NONE, CURL_POLL_IN, CURL_POLL_OUT, CURL_POLL_INOUT
<1> QED BY <1>1, <1>2, <1>3, <1>4, <1>5 DEF WatchOK

\* A handler fires: from now on its reactor watches, because what the pointer
\* finds includes the direction if libcurl still waits for it.
LEMMA OnSocketEventWatch ==
    ASSUME TypeOK, JobOK, NEW r \in Reactors, NEW h \in handlers, WatchOK(h.s),
           OnSocketEvent(r, h), freed' = freed
    PROVE  WatchOK(h.s)'
<1> DEFINE t == h.s
           v == Deref(t, h.field)
<1>0. h.field \in Fields
  BY DEF TypeOK
<1>1. /\ UNCHANGED <<easy, want, assigned, id, socket_state>> /\ handlers' = handlers \ {h}
      /\ job[r] = NoJob
  BY DEF OnSocketEvent, Free, object, libcurl
<1>2. CASE freed # "no"
  <2>1. \A f : PointsTo(t, f)' => PointsTo(t, f)
    <3>1. job'[r] = job[r] \/ job'[r] = Event(t, h.field, v)
      BY DEF OnSocketEvent, JobOK
    <3>2. \A q \in Reactors : q # r => job'[q] = job[q]
      BY DEF OnSocketEvent, JobOK
    <3> QED BY <1>1, <3>1, <3>2, EventParts DEF PointsTo, JobsOn, IsOn
  <2> QED BY <1>1, <1>2, <2>1 DEF WatchOK
<1>3. CASE freed = "no"
  <2>1. job' = [job EXCEPT ![r] = Event(t, h.field, v)]
    BY <1>3 DEF OnSocketEvent
  <2>2. /\ job'[r] = Event(t, h.field, v) /\ \A q \in Reactors : q # r => job'[q] = job[q]
        /\ IsOn(job'[r], t) /\ job'[r][3] = h.field /\ job'[r][4] = v
    BY <2>1, EventParts DEF JobOK, IsOn
  <2>3. r \in JobsOn(t)' /\ r \notin JobsOn(t) /\ \A q \in Reactors : q # r => (q \in JobsOn(t)' <=> q \in JobsOn(t))
    BY <1>1, <2>2 DEF JobsOn, IsOn
  <2>4. \A f : PointsTo(t, f)' => PointsTo(t, f)
    BY <1>1, <2>2, <2>3 DEF PointsTo, JobsOn
  <2>5. ASSUME easy[t] = "in", NEW d \in Dirs(want[t]) PROVE Watched(t, d)'
    <3>1. Watched(t, d)
      BY <1>3, <2>5 DEF WatchOK
    <3>2. \A f : Deref(t, f)' = Deref(t, f)
      BY <1>1 DEF Deref
    <3>3. ASSUME NEW q \in JobsOn(t), Deref(t, job[q][3]) = job[q][4], d \in Dirs(job[q][4])
          PROVE  Watched(t, d)'
      BY <2>2, <2>3, <3>2, <3>3 DEF Watched, JobsOn
    <3>4. ASSUME NEW g \in handlers, g.s = t, g.dir = d, g # h PROVE Watched(t, d)'
      BY <1>1, <3>4 DEF Watched
    <3>5. ASSUME h.dir = d PROVE Watched(t, d)'
      <4>1. CASE h.field = "id"
        <5>1. want[t] = id[t]
          BY <2>5, <4>1 DEF WatchOK, PointsTo
        <5> QED BY <2>2, <2>3, <2>5, <3>2, <4>1, <5>1 DEF Watched, Deref
      <4>2. CASE h.field = "curl_socket_state"
        <5>1. d \in Dirs(socket_state[t])
          BY <2>5, <3>5, <4>2 DEF WatchOK
        <5> QED BY <2>2, <2>3, <3>2, <4>2, <5>1 DEF Watched, Deref
      <4> QED BY <1>0, <4>1, <4>2 DEF Fields
    <3> QED BY <3>1, <3>3, <3>4, <3>5 DEF Watched
  <2>6. ~(easy[t] \in {"new", "in"} /\ t \notin assigned)
    BY DEF WatchOK
  <2> QED BY <1>1, <2>4, <2>5, <2>6 DEF WatchOK
<1> QED BY <1>2, <1>3

\* libcurl asks for another socket state: all its directions are queued.
LEMMA OnSocketUpdateWatch ==
    ASSUME TypeOK, JobOK, NEW r \in Reactors, NEW s \in Sessions, NEW desired \in PollStates,
           WatchOK(s), OnSocketUpdate(r, s, desired)
    PROVE  WatchOK(s)'
<1>1. /\ easy[s] = "in" /\ easy' = easy /\ job' = job /\ want'[s] = desired /\ s \in assigned'
      /\ JobsOn(s)' = JobsOn(s)
  BY DEF TypeOK, OnSocketUpdate, AddSocket, ChangeAssigned, JobsOn
<1>2. PICK f \in Fields : handlers' = handlers \cup Queued(s, f, desired)
  BY DEF OnSocketUpdate, AddSocket, ChangeAssigned, Fields
<1>3. \A d \in Dirs(desired) : Watched(s, d)'
  BY <1>2, QueuedHandlers DEF Watched
<1>4. CASE s \in assigned
  <2>1. /\ id'[s] = desired /\ socket_state' = socket_state
        /\ handlers' = handlers \cup Queued(s, "id", desired)
    BY <1>4 DEF TypeOK, OnSocketUpdate, ChangeAssigned, Store
  <2>2. \A h \in handlers' : h.s = s /\ h.field = "curl_socket_state" => h.dir \in Dirs(socket_state'[s])
    BY <1>1, <2>1, QueuedHandlers DEF WatchOK
  <2> QED BY <1>1, <1>3, <2>1, <2>2 DEF WatchOK
<1>5. CASE s \notin assigned
  <2>1. /\ socket_state'[s] = desired
        /\ handlers' = handlers \cup Queued(s, "curl_socket_state", desired)
    BY <1>5 DEF TypeOK, OnSocketUpdate, AddSocket, Store
  <2>2. JobsOn(s) = {} /\ \A h \in handlers : h.s # s
    BY <1>1, <1>5 DEF WatchOK
  <2>3. \A h \in handlers' : h.s = s => h.field = "curl_socket_state" /\ h.dir \in Dirs(socket_state'[s])
    BY <2>1, <2>2, QueuedHandlers
  <2>4. ~PointsTo(s, "id")'
    BY <1>1, <2>2, <2>3 DEF PointsTo
  <2> QED BY <1>1, <1>3, <2>3, <2>4 DEF WatchOK
<1> QED BY <1>4, <1>5

\* A reactor comes back from libcurl: a watch that was its own becomes that of
\* the handler it queues.
LEMMA ReturnFromCurlWatch ==
    ASSUME TypeOK, JobOK, NEW r \in Reactors, NEW t \in Sessions, WatchOK(t),
           IsOn(job[r], t), easy[t] # "done", job' = [job EXCEPT ![r] = NoJob],
           handlers' = handlers \cup Requeue(r), freed' = freed,
           UNCHANGED <<id, socket_state>>,
           easy'[t] = easy[t], want'[t] = want[t], t \in assigned' <=> t \in assigned
    PROVE  WatchOK(t)'
<1>1. job'[r] = NoJob /\ \A q \in Reactors : q # r => job'[q] = job[q]
  BY DEF JobOK
<1>2. r \in JobsOn(t) /\ JobsOn(t)' = JobsOn(t) \ {r} /\ \A q \in JobsOn(t)' : job'[q] = job[q]
  BY <1>1 DEF JobsOn, IsOn
<1>3. \A f : Deref(t, f)' = Deref(t, f)
  BY DEF Deref
<1>4. \A h \in Requeue(r) :
          /\ h.s = t /\ h.field = job[r][3]
          /\ Deref(t, job[r][3]) = job[r][4] /\ h.dir \in Dirs(job[r][4])
  BY QueuedHandlers DEF Requeue, IsOn
<1>5. \A f : PointsTo(t, f)' => PointsTo(t, f)
  BY <1>2, <1>4 DEF PointsTo
<1>6. ASSUME NEW d, Watched(t, d) PROVE Watched(t, d)'
  <2>1. ASSUME Deref(t, job[r][3]) = job[r][4], d \in Dirs(job[r][4]) PROVE Watched(t, d)'
    <3>1. Requeue(r) = Queued(t, job[r][3], job[r][4])
      BY <2>1 DEF Requeue, IsOn
    <3> QED BY <2>1, <3>1, QueuedHandlers DEF Watched
  <2>2. ASSUME NEW q \in JobsOn(t), q # r, Deref(t, job[q][3]) = job[q][4], d \in Dirs(job[q][4])
        PROVE  Watched(t, d)'
    BY <1>2, <1>3, <2>2 DEF Watched
  <2>3. ASSUME NEW h \in handlers, h.s = t, h.dir = d PROVE Watched(t, d)'
    BY <2>3 DEF Watched
  <2> QED BY <1>6, <2>1, <2>2, <2>3 DEF Watched
<1>7. ~(easy[t] \in {"new", "in"} /\ t \notin assigned)
  BY <1>2 DEF WatchOK
<1>8. easy[t] = "in" =>
         \A h \in handlers' : h.s = t /\ h.field = "curl_socket_state" => h.dir \in Dirs(socket_state'[t])
  BY <1>4 DEF WatchOK, Deref
<1> QED BY <1>5, <1>6, <1>7, <1>8 DEF WatchOK

\* Every step keeps the watch on every socket.
LEMMA StepKeepsWatch ==
    ASSUME TypeOK, JobOK, [Next]_vars, NEW t \in Sessions, OnItsWay(t), WatchOK(t)
    PROVE  WatchOK(t)'
<1> USE DEF object, list, queue, libcurl
<1>1. ASSUME NEW s \in Sessions, NewSession(s) PROVE WatchOK(t)'
  <2>1. CASE t = s
    <3>1. /\ easy[t] # "in"
          /\ UNCHANGED <<easy, want, assigned, handlers, job>>
      BY <1>1, <2>1 DEF NewSession, OnItsWay
    <3>2. JobsOn(t)' = JobsOn(t)
      BY <3>1 DEF JobsOn
    <3> QED BY <3>1, <3>2 DEF WatchOK
  <2>2. CASE t # s
    BY <1>1, <2>2, WatchFrame DEF TypeOK, NewSession, Untouched
  <2> QED BY <2>1, <2>2
<1>2. ASSUME NEW s \in Sessions, EndSend(s) PROVE WatchOK(t)'
  <2>1. CASE t = s
    BY <1>2, <2>1, EndSendWatch
  <2>2. CASE t # s
    BY <1>2, <2>2, WatchFrame DEF TypeOK, EndSend, Untouched
  <2> QED BY <2>1, <2>2
<1>3. ASSUME NEW s \in Sessions, DeleteSession(s), freed = "no" PROVE WatchOK(t)'
  <2>1. CASE t = s
    BY <1>3, <2>1, WatchOut DEF TypeOK, DeleteSession
  <2>2. CASE t # s
    BY <1>3, <2>2, WatchFrame DEF TypeOK, DeleteSession, Untouched
  <2> QED BY <2>1, <2>2
<1>4. CASE DeleteChannel
  BY <1>4, WatchOut DEF DeleteChannel
<1>5. CASE UNCHANGED <<id, socket_state, easy, want, assigned, handlers, job, freed>>
  BY <1>5, WatchFrame DEF Untouched
<1>6. ASSUME NEW r \in Reactors, OnTimeout(r) PROVE WatchOK(t)'
  <2>1. job[r] = NoJob /\ job'[r] = Timer /\ \A q \in Reactors : q # r => job'[q] = job[q]
    BY <1>6 DEF OnTimeout, Free, JobOK
  <2>2. \A q \in Reactors : job'[q] = job[q] \/ (~IsOn(job[q], t) /\ ~IsOn(job'[q], t))
    BY <2>1 DEF IsOn
  <2> QED BY <1>6, <2>2, WatchFrame DEF OnTimeout, Untouched
<1>7. ASSUME NEW r \in Reactors, NEW h \in handlers, OnSocketEvent(r, h), freed = "no" PROVE WatchOK(t)'
  <2>1. /\ UNCHANGED <<id, socket_state, easy, want, assigned>> /\ handlers' = handlers \ {h}
        /\ job[r] = NoJob
    BY <1>7 DEF OnSocketEvent, Free
  <2>2. CASE freed' # freed
    <3>1. job' = job /\ freed' # "no"
      BY <1>7, <2>2 DEF OnSocketEvent
    <3> QED BY <2>1, <3>1, WatchAbandoned
  <2>3. CASE freed' = freed /\ t = h.s
    BY <1>7, <2>3, OnSocketEventWatch
  <2>4. CASE freed' = freed /\ t # h.s
    <3>1. job' = job \/ job' = [job EXCEPT ![r] = Event(h.s, h.field, Deref(h.s, h.field))]
      BY <1>7 DEF OnSocketEvent
    <3>2. \A q \in Reactors : job'[q] = job[q] \/ (~IsOn(job[q], t) /\ ~IsOn(job'[q], t))
      BY <2>1, <2>4, <3>1, EventParts DEF JobOK, IsOn
    <3> QED BY <2>1, <2>4, <3>2, WatchFrame DEF Untouched
  <2> QED BY <2>2, <2>3, <2>4
<1>8. ASSUME NEW r \in Reactors, NEW s \in Sessions, NEW desired \in PollStates,
             OnSocketUpdate(r, s, desired)
      PROVE  WatchOK(t)'
  <2>1. CASE t = s
    BY <1>8, <2>1, OnSocketUpdateWatch
  <2>2. CASE t # s
    <3>1. /\ UNCHANGED <<easy, job, freed>> /\ want'[t] = want[t] /\ (t \in assigned' <=> t \in assigned)
          /\ id'[t] = id[t] /\ socket_state'[t] = socket_state[t]
      BY <1>8, <2>2 DEF TypeOK, OnSocketUpdate, AddSocket, ChangeAssigned, Store
    <3>2. \A h : h.s = t => (h \in handlers' <=> h \in handlers)
      BY <1>8, <2>2, QueuedHandlers DEF OnSocketUpdate, AddSocket, ChangeAssigned
    <3> QED BY <3>1, <3>2, WatchFrame DEF Untouched
  <2> QED BY <2>1, <2>2
<1>9. ASSUME NEW r \in Reactors, NEW s \in Sessions, EndTransfer(r, s) PROVE WatchOK(t)'
  <2>1. CASE t = s
    <3>1. easy'[t] \in {"done", "over"}
      BY <1>9, <2>1 DEF TypeOK, EndTransfer
    <3> QED BY <3>1, WatchOut
  <2>2. CASE t # s
    <3>1. /\ UNCHANGED <<handlers, job, freed>> /\ easy'[t] = easy[t] /\ want'[t] = want[t]
          /\ (t \in assigned' <=> t \in assigned)
          /\ id'[t] = id[t] /\ socket_state'[t] = socket_state[t]
      BY <1>9, <2>2 DEF TypeOK, EndTransfer, RemoveSocket, Store
    <3> QED BY <3>1, WatchFrame DEF Untouched
  <2> QED BY <2>1, <2>2
<1>10. ASSUME NEW r \in Reactors, ReturnFromCurl(r) PROVE WatchOK(t)'
  <2>1. /\ UNCHANGED <<id, socket_state>> /\ job' = [job EXCEPT ![r] = NoJob]
        /\ job'[r] = NoJob /\ \A q \in Reactors : q # r => job'[q] = job[q]
    BY <1>10 DEF ReturnFromCurl, JobOK
  <2>2. CASE freed' = "session" /\ UNCHANGED <<state, handlers, libcurl>>
    <3>1. \A q \in Reactors : IsOn(job'[q], t) => job'[q] = job[q]
      BY <2>1 DEF IsOn
    <3> QED BY <2>1, <2>2, <3>1, WatchAbandoned
  <2>3. CASE /\ handlers' = handlers \cup Requeue(r)
             /\ Cleanup({s \in Sessions : easy[s] = "done"})
             /\ UNCHANGED freed
    <3>1. CASE easy[t] = "done"
      BY <2>3, <3>1, WatchOut DEF Cleanup
    <3>2. CASE easy[t] # "done"
      <4>1. easy'[t] = easy[t] /\ want'[t] = want[t] /\ (t \in assigned' <=> t \in assigned)
        BY <2>3, <3>2 DEF Cleanup
      <4>2. CASE IsOn(job[r], t)
        BY <2>1, <2>3, <3>2, <4>1, <4>2, ReturnFromCurlWatch
      <4>3. CASE ~IsOn(job[r], t)
        <5>1. \A h \in Requeue(r) : h.s # t
          BY <1>10, <4>3, QueuedHandlers DEF Requeue, IsOn, ReturnFromCurl, InCurl
        <5>2. \A q \in Reactors : job'[q] = job[q] \/ (~IsOn(job[q], t) /\ ~IsOn(job'[q], t))
          BY <2>1, <4>3 DEF IsOn
        <5> QED BY <2>1, <2>3, <4>1, <5>1, <5>2, WatchFrame DEF Untouched
      <4> QED BY <4>2, <4>3
    <3> QED BY <3>1, <3>2
  <2> QED BY <1>10, <2>2, <2>3 DEF ReturnFromCurl
<1>11. ASSUME NEW r \in Reactors, NEW s \in Sessions, RunPosted(r, s) PROVE WatchOK(t)'
  <2>1. CASE freed' = "session" /\ UNCHANGED <<state, libcurl>>
    BY <1>11, <2>1, WatchAbandoned DEF RunPosted
  <2>2. CASE Cleanup({s}) /\ UNCHANGED freed
    <3>1. CASE t = s
      BY <2>2, <3>1, WatchOut DEF Cleanup
    <3>2. CASE t # s
      BY <1>11, <2>2, <3>2, WatchFrame DEF RunPosted, Cleanup, Untouched
    <3> QED BY <3>1, <3>2
  <2> QED BY <1>11, <2>1, <2>2 DEF RunPosted
<1> QED BY <1>1, <1>2, <1>3, <1>4, <1>5, <1>6, <1>7, <1>8, <1>9, <1>10, <1>11
       DEF Next, vars, BeginSend, OnOpenSocket

\* asio gives one shot at every readiness of a socket, updates of the socket
\* state overwrite the id of the session, and handlers compare with one field
\* or the other; yet whenever all reactors, however many, are back from
\* libcurl, every socket that libcurl waits for is watched in that direction.
THEOREM ChannelNoStall == Spec => []NoStall
<1> DEFINE WatchInv == \A s \in Sessions : WatchOK(s)
           WayInv == \A s \in Sessions : OnItsWay(s)
<1>1. Init => WatchInv
  <2> SUFFICES ASSUME Init, NEW s \in Sessions PROVE WatchOK(s)
    OBVIOUS
  <2>1. JobsOn(s) = {}
    BY DEF Init, JobsOn, IsOn
  <2> QED BY <2>1 DEF Init, WatchOK
<1>2. TypeOK /\ JobOK /\ WayInv /\ WatchInv /\ [Next]_vars => WatchInv'
  BY StepKeepsWatch
<1>3. WatchInv => NoStall
  <2> SUFFICES ASSUME WatchInv, NEW s \in Sessions, easy[s] = "in", InCurl = {}, freed = "no",
                      NEW d \in Awaited(s)
               PROVE  \E h \in handlers : h.s = s /\ h.dir = d
    BY DEF NoStall
  <2>1. d \in Dirs(want[s])
    BY DEF Awaited, Dirs
  <2>2. Watched(s, d)
    BY <2>1 DEF WatchOK
  <2>3. JobsOn(s) = {}
    BY DEF JobsOn, IsOn, InCurl
  <2> QED BY <2>2, <2>3 DEF Watched
<1> QED
  <2> HIDE DEF WatchInv, WayInv
  <2>1. Spec => []WayInv
    BY SessionsAreOnTheirWay DEF WayInv
  <2> QED BY <1>1, <1>2, <1>3, <2>1, TypesHold, PTL DEF Spec
=============================================================================
