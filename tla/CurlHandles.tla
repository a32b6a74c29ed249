----------------------------- MODULE CurlHandles -----------------------------
(***************************************************************************)
(* core/net/curl: how long sessions, requests and responses live.          *)
(*                                                                         *)
(* Users hold request and response handles, which count references to an   *)
(* object behind them; a session holds one reference to its current        *)
(* request and one to its response.  Objects point back to their session   *)
(* with plain pointers.  Counting is atomic, so an operation on handles is *)
(* one step here; what happens within a transfer is in CurlSession and     *)
(* CurlChannel.  An operation that would follow a bad pointer, or free     *)
(* memory twice, sets fault, and nothing happens after it.                 *)
(***************************************************************************)
EXTENDS Integers, FiniteSets

CONSTANTS
    Sessions, Requests, Responses,   \* objects that can be made
    Handles,                         \* variables of type request or response
    Strings,                         \* pieces of memory for urls and verbs
    Cap,                             \* max_stored_response_size
    Chunks,                          \* how many bytes may arrive at once
    Nobody

ASSUME CapAssumption == Cap \in Nat \ {0}
ASSUME ChunksAssumption == Chunks \subseteq Nat \ {0}
ASSUME NobodyAssumption == Nobody \notin Sessions \cup Requests \cup Responses \cup Strings
ASSUME KindsAssumption ==
    Requests \cap Responses = {} /\ "standard" \notin Strings /\ Nobody # "standard"
ASSUME FiniteAssumption == IsFiniteSet(Sessions) /\ IsFiniteSet(Handles)

VARIABLES
    session,     \* [Sessions -> their life, state and current objects]
    request,     \* [Requests -> their life, ref_count, back pointer and strings]
    response,    \* [Responses -> their life, ref_count, back pointer and body]
    handle,      \* [Handles -> the object that the handle points to]
    heap,        \* the strings that are allocated
    fault

vars == <<session, request, response, handle, heap, fault>>

Lives == {"unborn", "live", "deleted"}
NoSession == [life |-> "unborn", state |-> "configuring", visible |-> FALSE,
              current_request |-> Nobody, current_response |-> Nobody]
NoRequest == [life |-> "unborn", ref_count |-> 0, session |-> Nobody, url |-> Nobody,
              verb |-> Nobody, copied |-> FALSE]
NoResponse == [life |-> "unborn", ref_count |-> 0, session |-> Nobody, session_owned_by_me |-> FALSE,
               effective_url |-> FALSE, received_bytes |-> 0]

Init ==
    /\ session = [s \in Sessions |-> NoSession]
    /\ request = [q \in Requests |-> NoRequest]
    /\ response = [p \in Responses |-> NoResponse]
    /\ handle = [h \in Handles |-> Nobody]
    /\ heap = {}
    /\ fault = "none"

\* Objects that are not made yet, and objects that are alive.
Fresh(objects) == {o \in DOMAIN objects : objects[o].life = "unborn"}
Live(objects) == {o \in DOMAIN objects : objects[o].life = "live"}

NewRequest(s) == [NoRequest EXCEPT !.life = "live", !.ref_count = 1, !.session = s]
NewResponse(s) == [NoResponse EXCEPT !.life = "live", !.ref_count = 1, !.session = s]
AddRef(o) == [o EXCEPT !.ref_count = @ + 1]
-----------------------------------------------------------------------------
\* release_ref() and the destructors

\* Faulty variant: the object is deleted while one reference is left.
ReleasedEarly(o) ==
    IF o.ref_count <= 2 THEN [o EXCEPT !.ref_count = 0, !.life = "deleted"]
    ELSE [o EXCEPT !.ref_count = @ - 1]

Released(o) ==
    IF o.ref_count = 1 THEN [o EXCEPT !.ref_count = 0, !.life = "deleted"]
    ELSE [o EXCEPT !.ref_count = @ - 1]

\* What ~impl_t of a request frees when its reference is released.
FreedWith(q) == IF Released(q).life = "deleted" THEN {q.url, q.verb} \cap Strings ELSE {}
FreesTwice(freed) == ~(freed \subseteq heap)

\* The destructor of a response deletes a session that it owns, which would come
\* back to it; and frees the effective url, which belongs to libcurl.
ResponseFault(p) ==
    CASE Released(p).life # "deleted" -> "none"
      [] Released(p).life = "deleted" /\ p.session_owned_by_me /\ p.session # Nobody -> "recursion"
      [] Released(p).life = "deleted" /\ p.effective_url -> "double_free"
      [] OTHER -> "none"
-----------------------------------------------------------------------------
\* Sessions

Construct(s, visible, q, p) ==
    /\ s \in Fresh(session) /\ q \in Fresh(request) /\ p \in Fresh(response)
    /\ session' = [session EXCEPT ![s] = [NoSession EXCEPT !.life = "live", !.visible = visible,
            !.state = IF visible THEN "configuring" ELSE "busy",
            !.current_request = q, !.current_response = p]]

NewSession ==
    \E s \in Sessions, q \in Requests, p \in Responses :
        /\ Construct(s, TRUE, q, p)
        /\ request' = [request EXCEPT ![q] = NewRequest(s)]
        /\ response' = [response EXCEPT ![p] = NewResponse(s)]
        /\ UNCHANGED <<handle, heap, fault>>

\* request::start_get(): a session nobody sees, owned by the response, which the
\* session holds a reference to as well. (For a null or empty url it throws, and
\* leaves a session behind that nobody can reach.)
StartGetInvisible(h) ==
    \E s \in Sessions, q \in Requests, p \in Responses, url \in Strings \ heap :
        /\ handle[h] = Nobody
        /\ Construct(s, FALSE, q, p)
        /\ request' = [request EXCEPT ![q] = [NewRequest(s) EXCEPT !.url = url, !.verb = "standard"]]
        /\ response' = [response EXCEPT ![p] = [AddRef(NewResponse(s)) EXCEPT !.session_owned_by_me = TRUE]]
        /\ heap' = heap \cup {url}
        /\ handle' = [handle EXCEPT ![h] = p]
        /\ UNCHANGED fault

\* Faulty variant: the response keeps its pointer.
BackrefKept(p) == p

\* The destructor of a session breaks the link from its current objects.
BackrefBroken(o) == [o EXCEPT !.session = Nobody]

\* ~session(). The easy handle, with libcurl's strings, goes last.
DeleteSession(s) ==
    LET q == session[s].current_request
        p == session[s].current_response
        freed == FreedWith(request[q])
        lost == BackrefBroken(response[p])
    IN  /\ s \in Live(session) /\ session[s].visible
        /\ session' = [session EXCEPT ![s].life = "deleted"]
        /\ request' = [request EXCEPT ![q] = Released([@ EXCEPT !.session = Nobody])]
        /\ response' = [response EXCEPT ![p] = Released(lost)]
        /\ heap' = heap \ freed
        /\ fault' = IF FreesTwice(freed) THEN "double_free" ELSE ResponseFault(lost)
        /\ UNCHANGED handle

\* reset_prelocked(): what becomes of the current request q, which r follows
\* unless the session is still being configured.
MayReset(s, r) == IF session[s].state = "configuring" THEN r = session[s].current_request ELSE r \in Fresh(request)
FreedByReset(s, q) == IF session[s].state = "configuring" THEN {q.url, q.verb} \cap Strings ELSE FreedWith(q)

\* Faulty variant: the url is freed, but the request keeps the pointer.
ResetVerbOnly(s, r) ==
    IF session[s].state = "configuring" THEN [request EXCEPT ![r].verb = Nobody]
    ELSE [request EXCEPT ![session[s].current_request] = Released(@), ![r] = NewRequest(s)]

ResetRequest(s, r) ==
    IF session[s].state = "configuring" THEN [request EXCEPT ![r].url = Nobody, ![r].verb = Nobody]
    ELSE [request EXCEPT ![session[s].current_request] = Released(@), ![r] = NewRequest(s)]

reset(s, h) ==
    \E r \in Requests :
        LET freed == FreedByReset(s, request[session[s].current_request])
        IN  /\ s \in Live(session) /\ session[s].visible /\ handle[h] = Nobody /\ MayReset(s, r)
            /\ request' = [ResetRequest(s, r) EXCEPT ![r] = AddRef(@)]
            /\ session' = [session EXCEPT ![s].current_request = r]
            /\ heap' = heap \ freed
            /\ fault' = IF FreesTwice(freed) THEN "double_free" ELSE "none"
            /\ handle' = [handle EXCEPT ![h] = r]
            /\ UNCHANGED response

\* start_get(): resets, configures and sends. Sending throws if the session is
\* not being configured, if url is null or empty, which set_url() ignores, or if
\* it finds a null where its channel was (CurlSession has the other outcome);
\* what is then the current request stays.
start_get(s, h) ==
    \E r \in Requests, url \in Strings \cup {Nobody}, detached \in BOOLEAN :
        LET freed == FreedByReset(s, request[session[s].current_request])
            sent == session[s].state = "configuring" /\ url # Nobody /\ ~detached
            p == session[s].current_response
        IN  /\ s \in Live(session) /\ session[s].visible /\ handle[h] = Nobody /\ MayReset(s, r)
            /\ url \notin heap \ freed
            /\ request' = [ResetRequest(s, r) EXCEPT ![r].url = url, ![r].verb = "standard"]
            /\ session' = [session EXCEPT ![s].current_request = r, ![s].state = IF sent THEN "busy" ELSE @]
            /\ heap' = (heap \ freed) \cup ({url} \cap Strings)
            /\ fault' = IF FreesTwice(freed) THEN "double_free" ELSE "none"
            /\ handle' = [handle EXCEPT ![h] = IF sent THEN p ELSE Nobody]
            /\ response' = [response EXCEPT ![p] = IF sent THEN AddRef(@) ELSE @]

\* send(): a state_error, which changes nothing, unless configuring, with a url
\* and a channel; a request without a verb, or with one that a user made up,
\* has no http_method, and a null pointer is followed.
send(s, h) ==
    LET q == request[session[s].current_request]
        p == session[s].current_response
    IN  /\ s \in Live(session) /\ session[s].visible /\ handle[h] = Nobody
        /\ session[s].state = "configuring" /\ q.url # Nobody
        /\ \/ /\ q.verb # "standard"
              /\ fault' = "null"
              /\ UNCHANGED <<session, response, handle>>
           \/ /\ q.verb # Nobody
              /\ session' = [session EXCEPT ![s].state = "busy"]
              /\ response' = [response EXCEPT ![p] = AddRef(@)]
              /\ handle' = [handle EXCEPT ![h] = p]
              /\ UNCHANGED fault
        /\ UNCHANGED <<request, heap>>
-----------------------------------------------------------------------------
\* Handles

get_current_request(s, h) ==
    /\ s \in Live(session) /\ session[s].visible /\ handle[h] = Nobody
    /\ request' = [request EXCEPT ![session[s].current_request] = AddRef(@)]
    /\ handle' = [handle EXCEPT ![h] = session[s].current_request]
    /\ UNCHANGED <<session, response, heap, fault>>

get_current_response(s, h) ==
    /\ s \in Live(session) /\ session[s].visible /\ handle[h] = Nobody
    /\ response' = [response EXCEPT ![session[s].current_response] = AddRef(@)]
    /\ handle' = [handle EXCEPT ![h] = session[s].current_response]
    /\ UNCHANGED <<session, request, heap, fault>>

\* session::get(): sends nothing, and returns a response of its own.
get(s, h) ==
    \E p \in Fresh(response) :
        /\ s \in Live(session) /\ session[s].visible /\ handle[h] = Nobody
        /\ response' = [response EXCEPT ![p] = NewResponse(s)]
        /\ handle' = [handle EXCEPT ![h] = p]
        /\ UNCHANGED <<session, request, heap, fault>>

\* The copy of a request is a new object without url and verb, that begins with
\* two references; only one of them is a handle's.
CopyRequest(g, h) ==
    \E r \in Fresh(request) :
        /\ handle[g] \in Requests /\ handle[h] = Nobody
        /\ request' = [request EXCEPT ![r] = [AddRef(NewRequest(request[handle[g]].session)) EXCEPT !.copied = TRUE]]
        /\ handle' = [handle EXCEPT ![h] = r]
        /\ UNCHANGED <<session, response, heap, fault>>

CopyResponse(g, h) ==
    /\ handle[g] \in Responses /\ handle[h] = Nobody
    /\ response' = [response EXCEPT ![handle[g]] = AddRef(@)]
    /\ handle' = [handle EXCEPT ![h] = handle[g]]
    /\ UNCHANGED <<session, request, heap, fault>>

MoveHandle(g, h) ==
    /\ handle[g] # Nobody /\ handle[h] = Nobody
    /\ handle' = [handle EXCEPT ![h] = handle[g], ![g] = Nobody]
    /\ UNCHANGED <<session, request, response, heap, fault>>

DestroyRequest(h) ==
    LET freed == FreedWith(request[handle[h]])
    IN  /\ handle[h] \in Requests
        /\ request' = [request EXCEPT ![handle[h]] = Released(@)]
        /\ heap' = heap \ freed
        /\ fault' = IF FreesTwice(freed) THEN "double_free" ELSE "none"
        /\ handle' = [handle EXCEPT ![h] = Nobody]
        /\ UNCHANGED <<session, response>>

DestroyResponse(h) ==
    /\ handle[h] \in Responses
    /\ response' = [response EXCEPT ![handle[h]] = Released(@)]
    /\ fault' = ResponseFault(response[handle[h]])
    /\ handle' = [handle EXCEPT ![h] = Nobody]
    /\ UNCHANGED <<session, request, heap>>

\* set_url() and set_verb() of a handle do not free the string before.
SetUrl(h) ==
    \E x \in Strings \ heap :
        /\ handle[h] \in Requests
        /\ request' = [request EXCEPT ![handle[h]].url = x]
        /\ heap' = heap \cup {x}
        /\ UNCHANGED <<session, response, handle, fault>>

SetVerb(h) ==
    \E x \in Strings \ heap :
        /\ handle[h] \in Requests
        /\ request' = [request EXCEPT ![handle[h]].verb = x]
        /\ heap' = heap \cup {x}
        /\ UNCHANGED <<session, response, handle, fault>>

\* wait(), get_session() and get_channel() follow the pointer to the session.
FollowSession(h) ==
    LET s == IF handle[h] \in Requests THEN request[handle[h]].session ELSE response[handle[h]].session
    IN  /\ handle[h] # Nobody
        /\ \/ s = Nobody /\ fault' = "null"
           \/ s # Nobody /\ session[s].life = "deleted" /\ fault' = "dangling"
        /\ UNCHANGED <<session, request, response, handle, heap>>
-----------------------------------------------------------------------------
\* Transfers

\* Faulty variant: no room is kept for the terminating zero.
StoredWithoutZero(size, byte_count) == IF size + byte_count > Cap THEN Cap - size ELSE byte_count

\* store_bytes(): how many of the bytes are stored.
Stored(size, byte_count) ==
    LET new_size == size + byte_count + 1
    IN  CASE size >= Cap -> 0
          [] size < Cap /\ new_size > Cap -> byte_count - (new_size - Cap)
          [] OTHER -> byte_count

store_bytes(s, byte_count) ==
    LET p == session[s].current_response
    IN  /\ s \in Live(session) /\ session[s].state = "busy"
        /\ response' = [response EXCEPT ![p].received_bytes = @ + Stored(@, byte_count)]
        /\ UNCHANGED <<session, request, handle, heap, fault>>

\* cleanup_after_transfer(): the effective url is libcurl's string, not a copy.
cleanup_after_transfer(s) ==
    /\ s \in Live(session) /\ session[s].state = "busy"
    /\ session' = [session EXCEPT ![s].state = "idle"]
    /\ response' = [response EXCEPT ![session[s].current_response].effective_url = TRUE]
    /\ UNCHANGED <<request, handle, heap, fault>>
-----------------------------------------------------------------------------
Next ==
    /\ fault = "none"
    /\ \/ NewSession
       \/ \E s \in Sessions : DeleteSession(s) \/ cleanup_after_transfer(s)
       \/ \E s \in Sessions, n \in Chunks : store_bytes(s, n)
       \/ \E s \in Sessions, h \in Handles :
             reset(s, h) \/ start_get(s, h) \/ send(s, h) \/ get(s, h)
               \/ get_current_request(s, h) \/ get_current_response(s, h)
       \/ \E g, h \in Handles : CopyRequest(g, h) \/ CopyResponse(g, h) \/ MoveHandle(g, h)
       \/ \E h \in Handles :
             StartGetInvisible(h) \/ DestroyRequest(h) \/ DestroyResponse(h)
               \/ SetUrl(h) \/ SetVerb(h) \/ FollowSession(h)

Spec == Init /\ [][Next]_vars
-----------------------------------------------------------------------------
TypeOK ==
    /\ session \in [Sessions -> [life : Lives, state : {"configuring", "busy", "idle"}, visible : BOOLEAN,
            current_request : Requests \cup {Nobody}, current_response : Responses \cup {Nobody}]]
    /\ request \in [Requests -> [life : Lives, ref_count : Nat, session : Sessions \cup {Nobody},
            url : Strings \cup {Nobody}, verb : Strings \cup {Nobody, "standard"}, copied : BOOLEAN]]
    /\ response \in [Responses -> [life : Lives, ref_count : Nat, session : Sessions \cup {Nobody},
            session_owned_by_me : BOOLEAN, effective_url : BOOLEAN, received_bytes : 0 .. Cap - 1]]
    /\ handle \in [Handles -> Requests \cup Responses \cup {Nobody}]
    /\ heap \subseteq Strings
    /\ fault \in {"none", "null", "dangling", "double_free", "recursion"}

HandlesTo(o) == Cardinality({h \in Handles : handle[h] = o})
SessionsWith(o) == Cardinality({s \in Live(session) :
    session[s].current_request = o \/ session[s].current_response = o})

\* Through copies, moves, resets and the end of sessions, the count of every
\* response, and of every request that was not copied, is the number of handles
\* and live sessions that hold it, and it lives exactly as long as there is one.
\* The copy of a request is counted once more, for a reference that nobody holds
\* (request.cpp:41-43): its count never comes down to zero and it is never
\* deleted (CopiesAreDeleted, below, is refuted).
RefCountIsExact ==
    /\ \A q \in Requests : request[q].ref_count =
          HandlesTo(q) + SessionsWith(q) + (IF request[q].copied THEN 1 ELSE 0)
    /\ \A p \in Responses : response[p].ref_count = HandlesTo(p) + SessionsWith(p)
    /\ \A q \in Requests : request[q].life = "live" <=> request[q].ref_count > 0
    /\ \A p \in Responses : response[p].life = "live" <=> response[p].ref_count > 0
    /\ \A q \in Requests : request[q].copied => request[q].life = "live"

\* The current objects of a session point back to it, and to nothing once it is
\* gone; a response that owns its session never deletes it while it is one of
\* them.
CurrentsPointBack ==
    /\ \A s \in Live(session) : request[session[s].current_request].session = s
                                  /\ response[session[s].current_response].session = s
    /\ \A s \in Sessions : session[s].life = "deleted" =>
          request[session[s].current_request].session # s /\ response[session[s].current_response].session # s
    /\ fault # "recursion"

\* No two requests own the same string, and none owns one that was freed.
StringsHaveOneOwner ==
    \A q \in Live(request) :
        LET own == {request[q].url, request[q].verb} \cap Strings
        IN  /\ own \subseteq heap /\ (own # {} => request[q].url # request[q].verb)
            /\ \A r \in Live(request) \ {q} : own \cap {request[r].url, request[r].verb} = {}

\* Refuted: "nobody can possibly have a pointer or reference to the object ...
\* because all access to session objects goes through ref-counted smart
\* pointers" (session.cpp:45). Requests before a reset, copies of requests and
\* responses of get() still point to a deleted session.
NobodyPointsToDeleted ==
    /\ \A q \in Live(request) : request[q].session # Nobody => session[request[q].session].life # "deleted"
    /\ \A p \in Live(response) : response[p].session # Nobody => session[response[p].session].life # "deleted"

\* Refuted: an invisible session ends with the last handle to its response
\* ("temporary, throwaway session", request.h:59); it holds that response itself.
InvisibleSessionsEnd ==
    \A s \in Live(session) : ~session[s].visible => HandlesTo(session[s].current_response) > 0

\* Refuted: what a response frees is its own ("free(effective_url)",
\* response-impl-inline.h:48); libcurl frees the same string.
NothingIsFreedTwice == fault # "double_free"

\* Refuted: a request ends with the last handle or session that holds it, which
\* is what release_ref() is for; a copy of one does not.
CopiesAreDeleted ==
    \A q \in Live(request) : HandlesTo(q) + SessionsWith(q) > 0

\* Refuted: every string is owned ("char * url; // own", request-impl.h:24);
\* set_url() and set_verb() forget the one before.
StringsAreOwned == heap = UNION {{request[q].url, request[q].verb} \cap Strings : q \in Live(request)}

=============================================================================
