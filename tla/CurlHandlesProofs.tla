-------------------------- MODULE CurlHandlesProofs --------------------------
(***************************************************************************)
(* Sessions, requests and responses, however many there are of each and of *)
(* the handles: reference counts are exact, the current objects of a       *)
(* session point back to it, and no string has two owners.                 *)
(*                                                                         *)
(* None of these is inductive without the others. A count only stays a     *)
(* natural number because whoever releases a reference was counted; the    *)
(* count of a new object is right because nothing holds an object that is  *)
(* not made yet; and the pointers back from the current objects show that  *)
(* two sessions never share one.                                           *)
(***************************************************************************)
EXTENDS CurlHandles, FiniteSetTheorems, TLAPS

SessionRecord ==
    [life : Lives, state : {"configuring", "busy", "idle"}, visible : BOOLEAN,
     current_request : Requests \cup {Nobody}, current_response : Responses \cup {Nobody}]
RequestRecord ==
    [life : Lives, ref_count : Nat, session : Sessions \cup {Nobody},
     url : Strings \cup {Nobody}, verb : Strings \cup {Nobody, "standard"}, copied : BOOLEAN]
ResponseRecord ==
    [life : Lives, ref_count : Nat, session : Sessions \cup {Nobody},
     session_owned_by_me : BOOLEAN, effective_url : BOOLEAN, received_bytes : 0 .. Cap - 1]
Objects == Requests \cup Responses

\* The handles to an object, and the sessions that it is current in.
Owners(o) == {h \in Handles : handle[h] = o}
Holders(o) == {s \in Live(session) : session[s].current_request = o \/ session[s].current_response = o}

\* The memory that a request frees.
Own(q) == {request[q].url, request[q].verb} \cap Strings

RequestCounted(q) ==
    /\ request[q].ref_count = HandlesTo(q) + SessionsWith(q) + (IF request[q].copied THEN 1 ELSE 0)
    /\ request[q].life = "live" <=> request[q].ref_count > 0
ResponseCounted(p) ==
    /\ response[p].ref_count = HandlesTo(p) + SessionsWith(p)
    /\ response[p].life = "live" <=> response[p].ref_count > 0
Counted == (\A q \in Requests : RequestCounted(q)) /\ (\A p \in Responses : ResponseCounted(p))

\* A session that was made has current objects, which were made with it or
\* after it and point back to it as long as it lives, but not afterwards.
SessionLinked(s) ==
    /\ session[s].life # "unborn" =>
          /\ session[s].current_request \in Requests /\ session[s].current_response \in Responses
          /\ request[session[s].current_request].life # "unborn"
          /\ response[session[s].current_response].life # "unborn"
    /\ session[s].life = "live" =>
          /\ request[session[s].current_request].session = s
          /\ response[session[s].current_response].session = s
    /\ session[s].life = "deleted" =>
          /\ request[session[s].current_request].session # s
          /\ response[session[s].current_response].session # s

\* A response that owns a session is the current one of a session that lives.
OwnerIsCurrent(p) ==
    response[p].session_owned_by_me /\ response[p].session # Nobody =>
        /\ session[response[p].session].life = "live"
        /\ session[response[p].session].current_response = p

Linked == (\A s \in Sessions : SessionLinked(s)) /\ (\A p \in Responses : OwnerIsCurrent(p))

HandlesInv == TypeOK /\ Counted /\ Linked /\ StringsHaveOneOwner /\ fault # "recursion"
-----------------------------------------------------------------------------
\* Records

LEMMA TypesByRecord ==
    TypeOK <=> /\ session \in [Sessions -> SessionRecord]
               /\ request \in [Requests -> RequestRecord]
               /\ response \in [Responses -> ResponseRecord]
               /\ handle \in [Handles -> Objects \cup {Nobody}]
               /\ heap \subseteq Strings
               /\ fault \in {"none", "null", "dangling", "double_free", "recursion"}
BY DEF TypeOK, SessionRecord, RequestRecord, ResponseRecord, Objects

\* release_ref() of a request takes one from its count and deletes it at zero.
LEMMA ReleasedRequest ==
    ASSUME NEW o \in RequestRecord, o.ref_count > 0
    PROVE  /\ Released(o) \in RequestRecord
           /\ Released(o).ref_count = o.ref_count - 1
           /\ Released(o).life = IF o.ref_count = 1 THEN "deleted" ELSE o.life
           /\ Released(o).session = o.session /\ Released(o).copied = o.copied
           /\ Released(o).url = o.url /\ Released(o).verb = o.verb
<1>1. CASE o.ref_count = 1
  <2>1. Released(o) = [o EXCEPT !.ref_count = 0, !.life = "deleted"]
    BY <1>1 DEF Released
  <2>2. Released(o) \in RequestRecord
    <3> DEFINE u == [o EXCEPT !.ref_count = 0]
    <3>1. u \in RequestRecord
      BY DEF RequestRecord
    <3>2. [u EXCEPT !.life = "deleted"] \in RequestRecord
      BY <3>1 DEF RequestRecord, Lives
    <3> QED BY <2>1, <3>2
  <2> QED BY <1>1, <2>1, <2>2 DEF RequestRecord
<1>2. CASE o.ref_count # 1
  <2>1. Released(o) = [o EXCEPT !.ref_count = o.ref_count - 1]
    BY <1>2 DEF Released
  <2>2. o.ref_count - 1 \in Nat
    BY DEF RequestRecord
  <2>3. Released(o) \in RequestRecord
    BY <2>1, <2>2 DEF RequestRecord
  <2> QED BY <1>2, <2>1, <2>3 DEF RequestRecord
<1> QED BY <1>1, <1>2

LEMMA ReleasedResponse ==
    ASSUME NEW o \in ResponseRecord, o.ref_count > 0
    PROVE  /\ Released(o) \in ResponseRecord
           /\ Released(o).ref_count = o.ref_count - 1
           /\ Released(o).life = IF o.ref_count = 1 THEN "deleted" ELSE o.life
           /\ Released(o).session = o.session
           /\ Released(o).session_owned_by_me = o.session_owned_by_me
<1>1. CASE o.ref_count = 1
  <2>1. Released(o) = [o EXCEPT !.ref_count = 0, !.life = "deleted"]
    BY <1>1 DEF Released
  <2>2. Released(o) \in ResponseRecord
    <3> DEFINE u == [o EXCEPT !.ref_count = 0]
    <3>1. u \in ResponseRecord
      BY DEF ResponseRecord
    <3>2. [u EXCEPT !.life = "deleted"] \in ResponseRecord
      BY <3>1 DEF ResponseRecord, Lives
    <3> QED BY <2>1, <3>2
  <2> QED BY <1>1, <2>1, <2>2 DEF ResponseRecord
<1>2. CASE o.ref_count # 1
  <2>1. Released(o) = [o EXCEPT !.ref_count = o.ref_count - 1]
    BY <1>2 DEF Released
  <2>2. o.ref_count - 1 \in Nat
    BY DEF ResponseRecord
  <2>3. Released(o) \in ResponseRecord
    BY <2>1, <2>2 DEF ResponseRecord
  <2> QED BY <1>2, <2>1, <2>3 DEF ResponseRecord
<1> QED BY <1>1, <1>2

\* A reference that is added changes the count only.
LEMMA AddRefRequest ==
    ASSUME NEW o \in RequestRecord
    PROVE  /\ AddRef(o) \in RequestRecord
           /\ AddRef(o).ref_count = o.ref_count + 1
           /\ AddRef(o).life = o.life /\ AddRef(o).session = o.session
           /\ AddRef(o).copied = o.copied /\ AddRef(o).url = o.url /\ AddRef(o).verb = o.verb
BY DEF AddRef, RequestRecord

LEMMA AddRefResponse ==
    ASSUME NEW o \in ResponseRecord
    PROVE  /\ AddRef(o) \in ResponseRecord
           /\ AddRef(o).ref_count = o.ref_count + 1
           /\ AddRef(o).life = o.life /\ AddRef(o).session = o.session
           /\ AddRef(o).session_owned_by_me = o.session_owned_by_me
BY DEF AddRef, ResponseRecord

\* New objects have one reference.
LEMMA NewObjects ==
    ASSUME NEW s \in Sessions \cup {Nobody}
    PROVE  /\ NewRequest(s) \in RequestRecord
           /\ NewRequest(s).ref_count = 1 /\ NewRequest(s).life = "live"
           /\ NewRequest(s).session = s /\ NewRequest(s).copied = FALSE
           /\ NewRequest(s).url = Nobody /\ NewRequest(s).verb = Nobody
           /\ NewResponse(s) \in ResponseRecord
           /\ NewResponse(s).ref_count = 1 /\ NewResponse(s).life = "live"
           /\ NewResponse(s).session = s /\ NewResponse(s).session_owned_by_me = FALSE
<1>1. Cap - 1 \in Nat /\ 0 \in 0 .. Cap - 1
  BY CapAssumption
<1> QED BY <1>1 DEF NewRequest, NewResponse, NoRequest, NoResponse, RequestRecord, ResponseRecord, Lives
-----------------------------------------------------------------------------
\* Counting

LEMMA CountsAreNumbers ==
    ASSUME TypeOK, NEW o
    PROVE  /\ IsFiniteSet(Owners(o)) /\ HandlesTo(o) = Cardinality(Owners(o)) /\ HandlesTo(o) \in Nat
           /\ IsFiniteSet(Holders(o)) /\ SessionsWith(o) = Cardinality(Holders(o)) /\ SessionsWith(o) \in Nat
           /\ HandlesTo(o) = 0 <=> Owners(o) = {}
           /\ SessionsWith(o) = 0 <=> Holders(o) = {}
<1>1. Owners(o) \subseteq Handles /\ Holders(o) \subseteq Sessions
  BY DEF Owners, Holders, Live, TypeOK
<1>2. IsFiniteSet(Owners(o)) /\ IsFiniteSet(Holders(o))
  BY <1>1, FiniteAssumption, FS_Subset
<1>3. HandlesTo(o) = Cardinality(Owners(o)) /\ SessionsWith(o) = Cardinality(Holders(o))
  BY DEF HandlesTo, Owners, SessionsWith, Holders
<1> QED BY <1>2, <1>3, FS_CardinalityType, FS_EmptySet

LEMMA OneMore ==
    ASSUME NEW A, IsFiniteSet(A), NEW x, x \notin A, NEW B, B = A \cup {x}
    PROVE  Cardinality(B) = Cardinality(A) + 1
BY FS_AddElement

LEMMA OneLess ==
    ASSUME NEW A, IsFiniteSet(A), NEW x \in A, NEW B, B = A \ {x}
    PROVE  Cardinality(B) = Cardinality(A) - 1
BY FS_RemoveElement

\* A handle is pointed to an object.
LEMMA HandleGiven ==
    ASSUME TypeOK, NEW h \in Handles, NEW o \in Objects, handle[h] = Nobody,
           handle' = [handle EXCEPT ![h] = o]
    PROVE  \A x \in Objects : HandlesTo(x)' = IF x = o THEN HandlesTo(x) + 1 ELSE HandlesTo(x)
<1> SUFFICES ASSUME NEW x \in Objects
             PROVE  HandlesTo(x)' = IF x = o THEN HandlesTo(x) + 1 ELSE HandlesTo(x)
  OBVIOUS
<1>1. HandlesTo(x)' = Cardinality(Owners(x)')
  BY DEF HandlesTo, Owners
<1>2. CASE x = o
  <2>1. h \notin Owners(x) /\ Owners(x)' = Owners(x) \cup {h}
    BY <1>2, NobodyAssumption DEF Owners, TypeOK, Objects
  <2> QED BY <1>1, <1>2, <2>1, CountsAreNumbers, OneMore
<1>3. CASE x # o
  <2>1. Owners(x)' = Owners(x)
    BY <1>3, NobodyAssumption DEF Owners, TypeOK, Objects
  <2> QED BY <1>1, <1>3, <2>1, CountsAreNumbers
<1> QED BY <1>2, <1>3

\* A handle is destroyed.
LEMMA HandleTaken ==
    ASSUME TypeOK, NEW h \in Handles, handle[h] \in Objects,
           handle' = [handle EXCEPT ![h] = Nobody]
    PROVE  \A x \in Objects : HandlesTo(x)' = IF x = handle[h] THEN HandlesTo(x) - 1 ELSE HandlesTo(x)
<1> SUFFICES ASSUME NEW x \in Objects
             PROVE  HandlesTo(x)' = IF x = handle[h] THEN HandlesTo(x) - 1 ELSE HandlesTo(x)
  OBVIOUS
<1>1. HandlesTo(x)' = Cardinality(Owners(x)')
  BY DEF HandlesTo, Owners
<1>2. CASE x = handle[h]
  <2>1. h \in Owners(x) /\ Owners(x)' = Owners(x) \ {h}
    BY <1>2, NobodyAssumption DEF Owners, TypeOK, Objects
  <2> QED BY <1>1, <1>2, <2>1, CountsAreNumbers, OneLess
<1>3. CASE x # handle[h]
  <2>1. Owners(x)' = Owners(x)
    BY <1>3, NobodyAssumption DEF Owners, TypeOK, Objects
  <2> QED BY <1>1, <1>3, <2>1, CountsAreNumbers
<1> QED BY <1>2, <1>3

\* A handle is moved into another one.
LEMMA HandleMoved ==
    ASSUME TypeOK, NEW g \in Handles, NEW h \in Handles, handle[g] # Nobody, handle[h] = Nobody,
           handle' = [handle EXCEPT ![h] = handle[g], ![g] = Nobody]
    PROVE  \A x \in Objects : HandlesTo(x)' = HandlesTo(x)
<1> SUFFICES ASSUME NEW x \in Objects PROVE HandlesTo(x)' = HandlesTo(x)
  OBVIOUS
<1>1. HandlesTo(x)' = Cardinality(Owners(x)')
  BY DEF HandlesTo, Owners
<1>2. CASE x = handle[g]
  <2> DEFINE B == Owners(x) \ {g}
  <2>1. g \in Owners(x) /\ h \notin B /\ Owners(x)' = B \cup {h}
    BY <1>2, NobodyAssumption DEF Owners, TypeOK, Objects
  <2>2. IsFiniteSet(B) /\ Cardinality(B) = HandlesTo(x) - 1
    BY <2>1, CountsAreNumbers, OneLess, FS_Subset
  <2>3. HandlesTo(x)' = Cardinality(B) + 1
    BY <1>1, <2>1, <2>2, OneMore
  <2> QED BY <2>2, <2>3, CountsAreNumbers
<1>3. CASE x # handle[g]
  <2>1. Owners(x)' = Owners(x)
    BY <1>3, NobodyAssumption DEF Owners, TypeOK, Objects
  <2> QED BY <1>1, <2>1, CountsAreNumbers
<1> QED BY <1>2, <1>3

\* Which sessions live, and their current objects, stay as they are.
SameHolders ==
    /\ DOMAIN session' = DOMAIN session
    /\ \A s \in Sessions :
          /\ session'[s].life = session[s].life
          /\ session'[s].current_request = session[s].current_request
          /\ session'[s].current_response = session[s].current_response

LEMMA HoldersSame ==
    ASSUME TypeOK, SameHolders
    PROVE  \A x : SessionsWith(x)' = SessionsWith(x)
<1> SUFFICES ASSUME NEW x PROVE SessionsWith(x)' = SessionsWith(x)
  OBVIOUS
<1>1. Holders(x)' = Holders(x)
  BY DEF Holders, Live, SameHolders, TypeOK
<1> QED BY <1>1 DEF SessionsWith, Holders

\* All sessions but s stay as they are.
OthersStay(s) ==
    /\ DOMAIN session' = Sessions
    /\ \A t \in Sessions \ {s} : session'[t] = session[t]

\* A session begins to hold its current objects ...
LEMMA HoldersMore ==
    ASSUME TypeOK, NEW s \in Sessions, NEW q \in Requests, NEW p \in Responses,
           session[s].life # "live", OthersStay(s), session'[s].life = "live",
           session'[s].current_request = q, session'[s].current_response = p
    PROVE  \A x \in Objects : SessionsWith(x)' = IF x \in {q, p} THEN SessionsWith(x) + 1 ELSE SessionsWith(x)
<1> SUFFICES ASSUME NEW x \in Objects
             PROVE  SessionsWith(x)' = IF x \in {q, p} THEN SessionsWith(x) + 1 ELSE SessionsWith(x)
  OBVIOUS
<1>1. SessionsWith(x)' = Cardinality(Holders(x)')
  BY DEF SessionsWith, Holders
<1>2. CASE x \in {q, p}
  <2>1. s \notin Holders(x) /\ Holders(x)' = Holders(x) \cup {s}
    BY <1>2 DEF Holders, Live, TypeOK, OthersStay
  <2> QED BY <1>1, <1>2, <2>1, CountsAreNumbers, OneMore
<1>3. CASE x \notin {q, p}
  <2>1. s \in Holders(x)' <=> s \in Holders(x)
    BY <1>3 DEF Holders, Live, TypeOK, OthersStay
  <2>2. \A t \in Sessions \ {s} : t \in Holders(x)' <=> t \in Holders(x)
    BY DEF Holders, Live, TypeOK, OthersStay
  <2>3. Holders(x)' \subseteq Sessions /\ Holders(x) \subseteq Sessions
    BY DEF Holders, Live, TypeOK, OthersStay
  <2>4. Holders(x)' = Holders(x)
    BY <2>1, <2>2, <2>3
  <2> QED BY <1>1, <1>3, <2>4, CountsAreNumbers
<1> QED BY <1>2, <1>3

\* ... and ceases to.
LEMMA HoldersLess ==
    ASSUME TypeOK, NEW s \in Sessions, NEW q \in Requests, NEW p \in Responses,
           session[s].life = "live", session[s].current_request = q, session[s].current_response = p,
           OthersStay(s), session'[s].life # "live"
    PROVE  \A x \in Objects : SessionsWith(x)' = IF x \in {q, p} THEN SessionsWith(x) - 1 ELSE SessionsWith(x)
<1> SUFFICES ASSUME NEW x \in Objects
             PROVE  SessionsWith(x)' = IF x \in {q, p} THEN SessionsWith(x) - 1 ELSE SessionsWith(x)
  OBVIOUS
<1>1. SessionsWith(x)' = Cardinality(Holders(x)')
  BY DEF SessionsWith, Holders
<1>2. CASE x \in {q, p}
  <2>1. s \in Holders(x) /\ Holders(x)' = Holders(x) \ {s}
    BY <1>2 DEF Holders, Live, TypeOK, OthersStay
  <2> QED BY <1>1, <1>2, <2>1, CountsAreNumbers, OneLess
<1>3. CASE x \notin {q, p}
  <2>1. Holders(x)' = Holders(x)
    BY <1>3 DEF Holders, Live, TypeOK, OthersStay
  <2> QED BY <1>1, <1>3, <2>1, CountsAreNumbers
<1> QED BY <1>2, <1>3

\* A session lets go of its current request q and takes r.
LEMMA HoldersSwap ==
    ASSUME TypeOK, NEW s \in Sessions, NEW q \in Requests, NEW r \in Requests, r # q,
           session[s].life = "live", session[s].current_request = q, session[s].current_response \in Responses,
           OthersStay(s), session'[s].life = "live", session'[s].current_request = r,
           session'[s].current_response = session[s].current_response
    PROVE  \A x \in Objects :
               SessionsWith(x)' = SessionsWith(x) + (IF x = r THEN 1 ELSE IF x = q THEN -1 ELSE 0)
<1> SUFFICES ASSUME NEW x \in Objects
             PROVE  SessionsWith(x)' = SessionsWith(x) + (IF x = r THEN 1 ELSE IF x = q THEN -1 ELSE 0)
  OBVIOUS
<1>0. SessionsWith(x)' = Cardinality(Holders(x)') /\ session[s].current_response \notin Requests
  BY KindsAssumption DEF SessionsWith, Holders
<1>1. CASE x = r
  <2>1. s \notin Holders(x) /\ Holders(x)' = Holders(x) \cup {s}
    BY <1>0, <1>1 DEF Holders, Live, TypeOK, OthersStay
  <2> QED BY <1>0, <1>1, <2>1, CountsAreNumbers, OneMore
<1>2. CASE x = q
  <2>1. s \in Holders(x) /\ Holders(x)' = Holders(x) \ {s}
    BY <1>0, <1>2 DEF Holders, Live, TypeOK, OthersStay
  <2> QED BY <1>0, <1>2, <2>1, CountsAreNumbers, OneLess
<1>3. CASE x # r /\ x # q
  <2>1. Holders(x)' = Holders(x)
    BY <1>3 DEF Holders, Live, TypeOK, OthersStay
  <2> QED BY <1>0, <1>3, <2>1, CountsAreNumbers
<1> QED BY <1>1, <1>2, <1>3

\* What a handle points to, and the current objects of a session that lives,
\* are alive; and nothing holds what is not made yet.
LEMMA WhatIsHeld ==
    ASSUME HandlesInv
    PROVE  /\ \A h \in Handles : handle[h] \in Requests =>
                  request[handle[h]].life = "live" /\ request[handle[h]].ref_count > 0
           /\ \A h \in Handles : handle[h] \in Responses =>
                  response[handle[h]].life = "live" /\ response[handle[h]].ref_count > 0
           /\ \A s \in Live(session) :
                  /\ s \in Sessions
                  /\ session[s].current_request \in Requests /\ session[s].current_response \in Responses
                  /\ request[session[s].current_request].life = "live"
                  /\ request[session[s].current_request].ref_count > 0
                  /\ response[session[s].current_response].life = "live"
                  /\ response[session[s].current_response].ref_count > 0
           /\ \A q \in Fresh(request) :
                  /\ q \in Requests /\ HandlesTo(q) = 0 /\ SessionsWith(q) = 0 /\ request[q].copied = FALSE
           /\ \A p \in Fresh(response) : p \in Responses /\ HandlesTo(p) = 0 /\ SessionsWith(p) = 0
<1>0. TypeOK /\ Counted
  BY DEF HandlesInv
<1>1. /\ request \in [Requests -> RequestRecord] /\ response \in [Responses -> ResponseRecord]
      /\ session \in [Sessions -> SessionRecord]
  BY <1>0, TypesByRecord
<1>2. \A o : HandlesTo(o) \in Nat /\ SessionsWith(o) \in Nat
  BY <1>0, CountsAreNumbers
<1>3. \A h \in Handles : HandlesTo(handle[h]) > 0
  <2> SUFFICES ASSUME NEW h \in Handles PROVE HandlesTo(handle[h]) > 0
    OBVIOUS
  <2>1. h \in Owners(handle[h])
    BY DEF Owners
  <2> QED BY <1>0, <1>2, <2>1, CountsAreNumbers
<1>4. ASSUME NEW s \in Live(session)
      PROVE  /\ s \in Sessions
             /\ session[s].current_request \in Requests /\ SessionsWith(session[s].current_request) > 0
             /\ session[s].current_response \in Responses /\ SessionsWith(session[s].current_response) > 0
  <2>1. s \in Sessions /\ session[s].life = "live"
    BY <1>1 DEF Live
  <2>2. s \in Holders(session[s].current_request) /\ s \in Holders(session[s].current_response)
    BY DEF Holders
  <2>3. session[s].current_request \in Requests /\ session[s].current_response \in Responses
    BY <2>1 DEF HandlesInv, Linked, SessionLinked
  <2> QED BY <1>0, <1>2, <2>1, <2>2, <2>3, CountsAreNumbers
<1>5. ASSUME NEW q \in Requests
      PROVE  /\ HandlesTo(q) > 0 \/ SessionsWith(q) > 0 => request[q].life = "live" /\ request[q].ref_count > 0
             /\ request[q].life = "unborn" => HandlesTo(q) = 0 /\ SessionsWith(q) = 0 /\ request[q].copied = FALSE
  <2>1. RequestCounted(q) /\ request[q].ref_count \in Nat /\ request[q].copied \in BOOLEAN
    BY <1>0, <1>1 DEF Counted, RequestRecord
  <2>2. HandlesTo(q) \in Nat /\ SessionsWith(q) \in Nat
    BY <1>2
  <2> HIDE DEF HandlesTo, SessionsWith
  <2>3. CASE request[q].copied
    BY <2>1, <2>2, <2>3 DEF RequestCounted
  <2>4. CASE ~request[q].copied
    <3>1. request[q].copied = FALSE
      BY <2>1, <2>4
    <3>2. request[q].ref_count = HandlesTo(q) + SessionsWith(q)
      BY <2>1, <2>2, <2>4 DEF RequestCounted
    <3> QED BY <2>1, <2>2, <3>1, <3>2 DEF RequestCounted
  <2> QED BY <2>3, <2>4
<1>6. ASSUME NEW p \in Responses
      PROVE  /\ HandlesTo(p) > 0 \/ SessionsWith(p) > 0 => response[p].life = "live" /\ response[p].ref_count > 0
             /\ response[p].life = "unborn" => HandlesTo(p) = 0 /\ SessionsWith(p) = 0
  <2>1. ResponseCounted(p) /\ HandlesTo(p) \in Nat /\ SessionsWith(p) \in Nat
    BY <1>0, <1>2 DEF Counted
  <2> QED BY <2>1 DEF ResponseCounted
<1>7. \A q \in Fresh(request) : q \in Requests /\ request[q].life = "unborn"
  BY <1>1 DEF Fresh
<1>8. \A p \in Fresh(response) : p \in Responses /\ response[p].life = "unborn"
  BY <1>1 DEF Fresh
<1> QED BY <1>3, <1>4, <1>5, <1>6, <1>7, <1>8
-----------------------------------------------------------------------------
\* What a step leaves alone

\* The types after a step, part by part.
LEMMA TypesNext ==
    ASSUME session' \in [Sessions -> SessionRecord], request' \in [Requests -> RequestRecord],
           response' \in [Responses -> ResponseRecord], handle' \in [Handles -> Objects \cup {Nobody}],
           heap' \subseteq Strings, fault' \in {"none", "null", "dangling", "double_free", "recursion"}
    PROVE  TypeOK'
BY DEF TypeOK, SessionRecord, RequestRecord, ResponseRecord, Objects

\* A request gains or loses the references of as many handles and sessions.
LEMMA RequestCountStep ==
    ASSUME TypeOK, NEW q \in Requests, RequestCounted(q), NEW a \in Int, NEW b \in Int,
           HandlesTo(q)' = HandlesTo(q) + a, SessionsWith(q)' = SessionsWith(q) + b,
           request'[q].ref_count = request[q].ref_count + a + b,
           request'[q].copied = request[q].copied,
           request'[q].life = "live" <=> request'[q].ref_count > 0
    PROVE  RequestCounted(q)'
<1> DEFINE n == IF request[q].copied THEN 1 ELSE 0
<1>1. n \in Int /\ (IF request'[q].copied THEN 1 ELSE 0) = n
  OBVIOUS
<1>2. HandlesTo(q) \in Int /\ SessionsWith(q) \in Int
  BY CountsAreNumbers
<1>3. request[q].ref_count = HandlesTo(q) + SessionsWith(q) + n
  BY DEF RequestCounted
<1> HIDE DEF n
<1>4. request'[q].ref_count = HandlesTo(q)' + SessionsWith(q)' + n
  BY <1>1, <1>2, <1>3
<1> QED BY <1>1, <1>4 DEF RequestCounted

LEMMA ResponseCountStep ==
    ASSUME TypeOK, NEW p \in Responses, ResponseCounted(p), NEW a \in Int, NEW b \in Int,
           HandlesTo(p)' = HandlesTo(p) + a, SessionsWith(p)' = SessionsWith(p) + b,
           response'[p].ref_count = response[p].ref_count + a + b,
           response'[p].life = "live" <=> response'[p].ref_count > 0
    PROVE  ResponseCounted(p)'
<1>1. HandlesTo(p) \in Int /\ SessionsWith(p) \in Int
  BY CountsAreNumbers
<1>2. response'[p].ref_count = HandlesTo(p)' + SessionsWith(p)'
  BY <1>1 DEF ResponseCounted
<1> QED BY <1>2 DEF ResponseCounted

\* An object whose references stay as they are.
LEMMA RequestCountFrame ==
    ASSUME NEW q \in Requests, RequestCounted(q),
           HandlesTo(q)' = HandlesTo(q), SessionsWith(q)' = SessionsWith(q),
           request'[q].ref_count = request[q].ref_count, request'[q].life = request[q].life,
           request'[q].copied = request[q].copied
    PROVE  RequestCounted(q)'
BY DEF RequestCounted

LEMMA ResponseCountFrame ==
    ASSUME NEW p \in Responses, ResponseCounted(p),
           HandlesTo(p)' = HandlesTo(p), SessionsWith(p)' = SessionsWith(p),
           response'[p].ref_count = response[p].ref_count, response'[p].life = response[p].life
    PROVE  ResponseCounted(p)'
BY DEF ResponseCounted

LEMMA HandlesSame ==
    ASSUME handle' = handle
    PROVE  \A x : HandlesTo(x)' = HandlesTo(x)
BY DEF HandlesTo

\* All sessions keep their current objects; only objects that were not made
\* yet get another session to point to.
RequestLinkStays(q) ==
    \/ /\ request'[q].session = request[q].session
       /\ request[q].life # "unborn" => request'[q].life # "unborn"
    \/ request[q].life = "unborn" /\ request'[q].life # "unborn"
ResponseLinkStays(p) ==
    \/ /\ response'[p].session = response[p].session
       /\ response'[p].session_owned_by_me = response[p].session_owned_by_me
       /\ response[p].life # "unborn" => response'[p].life # "unborn"
    \/ response[p].life = "unborn" /\ response'[p].life # "unborn" /\ ~response'[p].session_owned_by_me

LEMMA LinksFrame ==
    ASSUME TypeOK, Linked, SameHolders,
           \A q \in Requests : RequestLinkStays(q), \A p \in Responses : ResponseLinkStays(p)
    PROVE  Linked'
<1>1. ASSUME NEW s \in Sessions PROVE SessionLinked(s)'
  <2>1. SessionLinked(s)
    BY DEF Linked
  <2>2. /\ session'[s].life = session[s].life
        /\ session'[s].current_request = session[s].current_request
        /\ session'[s].current_response = session[s].current_response
    BY DEF SameHolders
  <2>3. CASE session[s].life = "unborn"
    BY <2>2, <2>3 DEF SessionLinked
  <2>4. CASE session[s].life # "unborn"
    <3> DEFINE q == session[s].current_request
               p == session[s].current_response
    <3>1. q \in Requests /\ p \in Responses /\ request[q].life # "unborn" /\ response[p].life # "unborn"
      BY <2>1, <2>4 DEF SessionLinked
    <3>2. request'[q].session = request[q].session /\ request'[q].life # "unborn"
      BY <3>1 DEF RequestLinkStays
    <3>3. response'[p].session = response[p].session /\ response'[p].life # "unborn"
      BY <3>1 DEF ResponseLinkStays
    <3> QED BY <2>1, <2>2, <3>1, <3>2, <3>3 DEF SessionLinked
  <2> QED BY <2>3, <2>4
<1>2. ASSUME NEW p \in Responses PROVE OwnerIsCurrent(p)'
  <2>1. OwnerIsCurrent(p) /\ ResponseLinkStays(p) /\ response[p].session \in Sessions \cup {Nobody}
    BY DEF Linked, TypeOK
  <2> QED BY <2>1 DEF OwnerIsCurrent, ResponseLinkStays, SameHolders
<1> QED BY <1>1, <1>2 DEF Linked

\* A live request keeps its strings, in memory, or has none.
StringsStay(q) ==
    request'[q].life = "live" =>
        \/ /\ request[q].life = "live" /\ request'[q].url = request[q].url
           /\ request'[q].verb = request[q].verb /\ Own(q) \subseteq heap'
        \/ request'[q].url = Nobody /\ request'[q].verb = Nobody

\* What the invariant says of one request, and of two.
LEMMA StringsByRequest ==
    ASSUME TypeOK, StringsHaveOneOwner, NEW q \in Requests, request[q].life = "live"
    PROVE  /\ Own(q) \subseteq heap /\ (Own(q) # {} => request[q].url # request[q].verb)
           /\ \A r \in Requests : r # q /\ request[r].life = "live" => Own(q) \cap Own(r) = {}
BY DEF TypeOK, StringsHaveOneOwner, Live, Own

LEMMA StringsNext ==
    ASSUME DOMAIN request' = Requests,
           \A q \in Requests : request'[q].life = "live" =>
              /\ Own(q)' \subseteq heap' /\ (Own(q)' # {} => request'[q].url # request'[q].verb)
              /\ \A r \in Requests : r # q /\ request'[r].life = "live" => Own(q)' \cap Own(r)' = {}
    PROVE  StringsHaveOneOwner'
BY DEF StringsHaveOneOwner, Live, Own

LEMMA StringsKept ==
    ASSUME TypeOK, StringsHaveOneOwner, NEW r \in Requests, StringsStay(r), request'[r].life = "live"
    PROVE  /\ Own(r)' \subseteq heap' /\ (Own(r)' # {} => request'[r].url # request'[r].verb)
           /\ Own(r)' = {} \/ (Own(r)' = Own(r) /\ request[r].life = "live")
<1>1. CASE request'[r].url = Nobody /\ request'[r].verb = Nobody
  <2>1. Own(r)' = {}
    BY <1>1, NobodyAssumption DEF Own
  <2> QED BY <2>1
<1>2. CASE /\ request[r].life = "live" /\ request'[r].url = request[r].url
           /\ request'[r].verb = request[r].verb /\ Own(r) \subseteq heap'
  <2>1. Own(r)' = Own(r)
    BY <1>2 DEF Own
  <2> QED BY <1>2, <2>1, StringsByRequest
<1> QED BY <1>1, <1>2 DEF StringsStay

\* Of the requests, only q gets strings that it did not have ...
LEMMA StringsStep ==
    ASSUME TypeOK, StringsHaveOneOwner, DOMAIN request' = Requests, NEW q \in Requests,
           \A r \in Requests \ {q} : StringsStay(r),
           request'[q].life = "live" => Own(q)' \subseteq heap' /\ (Own(q)' # {} => request'[q].url # request'[q].verb),
           \A r \in Requests \ {q} : request[r].life = "live" /\ request'[r].life = "live" => Own(q)' \cap Own(r) = {}
    PROVE  StringsHaveOneOwner'
<1>1. ASSUME NEW r \in Requests, request'[r].life = "live", NEW t \in Requests, t # r, request'[t].life = "live"
      PROVE  Own(r)' \cap Own(t)' = {}
  <2>1. CASE r = q
    BY <1>1, <2>1, StringsKept
  <2>2. CASE t = q
    BY <1>1, <2>2, StringsKept
  <2>3. CASE r # q /\ t # q
    BY <1>1, <2>3, StringsKept, StringsByRequest
  <2> QED BY <2>1, <2>2, <2>3
<1>2. ASSUME NEW r \in Requests, request'[r].life = "live"
      PROVE  Own(r)' \subseteq heap' /\ (Own(r)' # {} => request'[r].url # request'[r].verb)
  BY <1>2, StringsKept
<1> QED BY <1>1, <1>2, StringsNext

\* ... or none does.
LEMMA StringsFrame ==
    ASSUME TypeOK, StringsHaveOneOwner, DOMAIN request' = Requests, \A r \in Requests : StringsStay(r)
    PROVE  StringsHaveOneOwner'
<1>1. ASSUME NEW r \in Requests, request'[r].life = "live", NEW t \in Requests, t # r, request'[t].life = "live"
      PROVE  Own(r)' \cap Own(t)' = {}
  BY <1>1, StringsKept, StringsByRequest
<1> QED BY <1>1, StringsKept, StringsNext
-----------------------------------------------------------------------------
\* Steps on handles

\* get_current_request()
LEMMA GetCurrentRequestKeeps ==
    ASSUME HandlesInv, NEW s \in Sessions, NEW h \in Handles, get_current_request(s, h)
    PROVE  HandlesInv'
<1>1. TypeOK /\ Counted /\ Linked /\ StringsHaveOneOwner /\ fault # "recursion"
  BY DEF HandlesInv
<1>2. PICK q : q = session[s].current_request
  OBVIOUS
<1>3. /\ s \in Live(session) /\ handle[h] = Nobody
      /\ request' = [request EXCEPT ![q] = AddRef(request[q])] /\ handle' = [handle EXCEPT ![h] = q]
      /\ session' = session /\ response' = response /\ heap' = heap /\ fault' = fault
  BY <1>2 DEF get_current_request
<1>4. /\ session \in [Sessions -> SessionRecord] /\ request \in [Requests -> RequestRecord]
      /\ response \in [Responses -> ResponseRecord] /\ handle \in [Handles -> Objects \cup {Nobody}]
  BY <1>1, TypesByRecord
<1>5. q \in Requests /\ q \in Objects /\ request[q].life = "live" /\ request[q].ref_count > 0
  BY <1>2, <1>3, WhatIsHeld DEF Objects
<1>6. /\ request' \in [Requests -> RequestRecord]
      /\ request'[q].ref_count = request[q].ref_count + 1 /\ request'[q].life = "live"
      /\ request'[q].session = request[q].session /\ request'[q].copied = request[q].copied
      /\ request'[q].url = request[q].url /\ request'[q].verb = request[q].verb
      /\ \A r \in Requests \ {q} : request'[r] = request[r]
  BY <1>3, <1>4, <1>5, AddRefRequest
<1>7. TypeOK'
  <2>1. handle' \in [Handles -> Objects \cup {Nobody}]
    BY <1>3, <1>4, <1>5
  <2> QED BY <1>1, <1>3, <1>4, <1>6, <2>1, TypesNext DEF TypeOK
<1>8. SameHolders
  BY <1>3 DEF SameHolders
<1>9. Counted'
  <2>1. /\ \A x : SessionsWith(x)' = SessionsWith(x)
        /\ \A x \in Objects : HandlesTo(x)' = IF x = q THEN HandlesTo(x) + 1 ELSE HandlesTo(x)
    BY <1>1, <1>3, <1>5, <1>8, HoldersSame, HandleGiven
  <2>2. RequestCounted(q)'
    <3>1. /\ request'[q].ref_count = request[q].ref_count + 1 + 0 /\ request'[q].ref_count > 0
          /\ SessionsWith(q)' = SessionsWith(q) + 0 /\ HandlesTo(q)' = HandlesTo(q) + 1
      BY <1>1, <1>4, <1>5, <1>6, <2>1, CountsAreNumbers DEF RequestRecord
    <3> QED BY <1>1, <1>5, <1>6, <3>1, RequestCountStep DEF Counted
  <2>3. \A r \in Requests \ {q} : RequestCounted(r)'
    BY <1>1, <1>6, <2>1, RequestCountFrame DEF Counted, Objects
  <2>4. \A p \in Responses : ResponseCounted(p)'
    <3>1. \A p \in Responses : p \in Objects /\ p # q
      BY <1>5, KindsAssumption DEF Objects
    <3> QED BY <1>1, <1>3, <2>1, <3>1, ResponseCountFrame DEF Counted
  <2> QED BY <2>2, <2>3, <2>4 DEF Counted
<1>10. Linked'
  <2>1. \A r \in Requests : RequestLinkStays(r)
    BY <1>5, <1>6 DEF RequestLinkStays
  <2>2. \A p \in Responses : ResponseLinkStays(p)
    BY <1>3 DEF ResponseLinkStays
  <2> QED BY <1>1, <1>8, <2>1, <2>2, LinksFrame
<1>11. StringsHaveOneOwner'
  <2>1. \A r \in Requests : StringsStay(r)
    BY <1>1, <1>3, <1>5, <1>6, StringsByRequest DEF StringsStay
  <2> QED BY <1>1, <1>6, <2>1, StringsFrame
<1> QED BY <1>1, <1>3, <1>7, <1>9, <1>10, <1>11 DEF HandlesInv

\* The requests after a step that leaves them and their strings alone.
LEMMA RequestsUntouched ==
    ASSUME TypeOK, Counted, StringsHaveOneOwner, request' = request, heap' = heap,
           \A r \in Requests : HandlesTo(r)' = HandlesTo(r) /\ SessionsWith(r)' = SessionsWith(r)
    PROVE  /\ \A r \in Requests : RequestCounted(r)'
           /\ \A r \in Requests : RequestLinkStays(r)
           /\ StringsHaveOneOwner'
<1>1. \A r \in Requests : RequestCounted(r)'
  BY RequestCountFrame DEF Counted
<1>2. \A r \in Requests : RequestLinkStays(r)
  BY DEF RequestLinkStays
<1>3. StringsHaveOneOwner'
  BY DEF StringsHaveOneOwner, Live
<1> QED BY <1>1, <1>2, <1>3

\* Another handle points to the response p.
LEMMA ResponseShared ==
    ASSUME HandlesInv, NEW p \in Responses, response[p].life = "live", response[p].ref_count > 0,
           NEW h \in Handles, handle[h] = Nobody, handle' = [handle EXCEPT ![h] = p],
           response' = [response EXCEPT ![p] = AddRef(response[p])],
           session' \in [Sessions -> SessionRecord], SameHolders,
           request' = request, heap' = heap, fault' = fault
    PROVE  HandlesInv'
<1>1. TypeOK /\ Counted /\ Linked /\ StringsHaveOneOwner /\ fault # "recursion"
  BY DEF HandlesInv
<1>2. /\ request \in [Requests -> RequestRecord] /\ response \in [Responses -> ResponseRecord]
      /\ handle \in [Handles -> Objects \cup {Nobody}] /\ p \in Objects
  BY <1>1, TypesByRecord DEF Objects
<1>3. /\ response' \in [Responses -> ResponseRecord]
      /\ response'[p].ref_count = response[p].ref_count + 1 /\ response'[p].life = "live"
      /\ response'[p].session = response[p].session
      /\ response'[p].session_owned_by_me = response[p].session_owned_by_me
      /\ \A r \in Responses \ {p} : response'[r] = response[r]
  BY <1>2, AddRefResponse
<1>4. TypeOK'
  <2>1. handle' \in [Handles -> Objects \cup {Nobody}]
    BY <1>2
  <2> QED BY <1>1, <1>2, <1>3, <2>1, TypesNext DEF TypeOK
<1>5. /\ \A x : SessionsWith(x)' = SessionsWith(x)
      /\ \A x \in Objects : HandlesTo(x)' = IF x = p THEN HandlesTo(x) + 1 ELSE HandlesTo(x)
  BY <1>1, <1>2, HoldersSame, HandleGiven
<1>6. \A r \in Requests : HandlesTo(r)' = HandlesTo(r) /\ SessionsWith(r)' = SessionsWith(r)
  BY <1>5, KindsAssumption DEF Objects
<1>7. Counted'
  <2>1. ResponseCounted(p)'
    <3>1. /\ response'[p].ref_count = response[p].ref_count + 1 + 0 /\ response'[p].ref_count > 0
          /\ SessionsWith(p)' = SessionsWith(p) + 0 /\ HandlesTo(p)' = HandlesTo(p) + 1
      BY <1>1, <1>2, <1>3, <1>5, CountsAreNumbers DEF ResponseRecord
    <3> QED BY <1>1, <1>3, <3>1, ResponseCountStep DEF Counted
  <2>2. \A r \in Responses \ {p} : ResponseCounted(r)'
    BY <1>1, <1>3, <1>5, ResponseCountFrame DEF Counted, Objects
  <2> QED BY <1>1, <1>6, <2>1, <2>2, RequestsUntouched DEF Counted
<1>8. Linked'
  <2>1. \A r \in Responses : ResponseLinkStays(r)
    BY <1>3 DEF ResponseLinkStays
  <2> QED BY <1>1, <1>6, <2>1, RequestsUntouched, LinksFrame
<1> QED BY <1>1, <1>4, <1>6, <1>7, <1>8, RequestsUntouched DEF HandlesInv

\* get_current_response()
LEMMA GetCurrentResponseKeeps ==
    ASSUME HandlesInv, NEW s \in Sessions, NEW h \in Handles, get_current_response(s, h)
    PROVE  HandlesInv'
<1>0. PICK p : p = session[s].current_response
  OBVIOUS
<1>1. /\ s \in Live(session) /\ handle[h] = Nobody
      /\ response' = [response EXCEPT ![p] = AddRef(response[p])] /\ handle' = [handle EXCEPT ![h] = p]
      /\ session' = session /\ request' = request /\ heap' = heap /\ fault' = fault
  BY <1>0 DEF get_current_response
<1>2. p \in Responses /\ response[p].life = "live" /\ response[p].ref_count > 0
  BY <1>0, <1>1, WhatIsHeld
<1>3. session' \in [Sessions -> SessionRecord] /\ SameHolders
  BY <1>1, TypesByRecord DEF HandlesInv, SameHolders
<1> QED BY <1>1, <1>2, <1>3, ResponseShared

\* The copy of a response handle shares the object.
LEMMA CopyResponseKeeps ==
    ASSUME HandlesInv, NEW g \in Handles, NEW h \in Handles, CopyResponse(g, h)
    PROVE  HandlesInv'
<1>0. PICK p : p = handle[g]
  OBVIOUS
<1>1. /\ p \in Responses /\ handle[h] = Nobody
      /\ response' = [response EXCEPT ![p] = AddRef(response[p])] /\ handle' = [handle EXCEPT ![h] = p]
      /\ session' = session /\ request' = request /\ heap' = heap /\ fault' = fault
  BY <1>0 DEF CopyResponse
<1>2. response[p].life = "live" /\ response[p].ref_count > 0
  BY <1>0, <1>1, WhatIsHeld
<1>3. session' \in [Sessions -> SessionRecord] /\ SameHolders
  BY <1>1, TypesByRecord DEF HandlesInv, SameHolders
<1> QED BY <1>1, <1>2, <1>3, ResponseShared

\* A step that only meets a bad pointer.
LEMMA FaultKeeps ==
    ASSUME HandlesInv, fault' \in {"null", "dangling"},
           UNCHANGED <<session, request, response, handle, heap>>
    PROVE  HandlesInv'
<1>1. TypeOK /\ Counted /\ Linked /\ StringsHaveOneOwner
  BY DEF HandlesInv
<1>2. TypeOK'
  BY <1>1 DEF TypeOK
<1>3. Counted'
  <2>1. \A x : HandlesTo(x)' = HandlesTo(x) /\ SessionsWith(x)' = SessionsWith(x)
    BY DEF HandlesTo, SessionsWith, Live
  <2> QED BY <1>1, <2>1 DEF Counted, RequestCounted, ResponseCounted
<1>4. Linked'
  BY <1>1 DEF Linked, SessionLinked, OwnerIsCurrent
<1>5. StringsHaveOneOwner'
  BY <1>1 DEF StringsHaveOneOwner, Live
<1> QED BY <1>2, <1>3, <1>4, <1>5 DEF HandlesInv

\* send()
LEMMA SendKeeps ==
    ASSUME HandlesInv, NEW s \in Sessions, NEW h \in Handles, send(s, h)
    PROVE  HandlesInv'
<1>0. PICK p : p = session[s].current_response
  OBVIOUS
<1>1. /\ s \in Live(session) /\ handle[h] = Nobody /\ request' = request /\ heap' = heap
  BY DEF send
<1>2. p \in Responses /\ response[p].life = "live" /\ response[p].ref_count > 0
  BY <1>0, <1>1, WhatIsHeld
<1>3. CASE fault' = "null" /\ UNCHANGED <<session, response, handle>>
  BY <1>1, <1>3, FaultKeeps
<1>4. CASE /\ session' = [session EXCEPT ![s].state = "busy"]
           /\ response' = [response EXCEPT ![p] = AddRef(response[p])]
           /\ handle' = [handle EXCEPT ![h] = p]
           /\ fault' = fault
  <2>1. session \in [Sessions -> SessionRecord]
    BY TypesByRecord DEF HandlesInv
  <2>2. session' \in [Sessions -> SessionRecord] /\ SameHolders
    BY <1>4, <2>1 DEF SessionRecord, SameHolders
  <2> QED BY <1>1, <1>2, <1>4, <2>2, ResponseShared
<1> QED BY <1>0, <1>3, <1>4 DEF send

\* session::get()
LEMMA GetKeeps ==
    ASSUME HandlesInv, NEW s \in Sessions, NEW h \in Handles, get(s, h)
    PROVE  HandlesInv'
<1>1. TypeOK /\ Counted /\ Linked /\ StringsHaveOneOwner /\ fault # "recursion"
  BY DEF HandlesInv
<1>2. PICK p \in Fresh(response) :
         /\ handle[h] = Nobody
         /\ response' = [response EXCEPT ![p] = NewResponse(s)] /\ handle' = [handle EXCEPT ![h] = p]
         /\ session' = session /\ request' = request /\ heap' = heap /\ fault' = fault
  BY DEF get
<1>3. /\ session \in [Sessions -> SessionRecord] /\ request \in [Requests -> RequestRecord]
      /\ response \in [Responses -> ResponseRecord] /\ handle \in [Handles -> Objects \cup {Nobody}]
  BY <1>1, TypesByRecord
<1>4. p \in Responses /\ p \in Objects /\ response[p].life = "unborn" /\ HandlesTo(p) = 0 /\ SessionsWith(p) = 0
  BY WhatIsHeld DEF Objects, Fresh
<1>5. /\ response' \in [Responses -> ResponseRecord]
      /\ response'[p].ref_count = 1 /\ response'[p].life = "live"
      /\ response'[p].session_owned_by_me = FALSE
      /\ \A r \in Responses \ {p} : response'[r] = response[r]
  BY <1>2, <1>3, <1>4, NewObjects
<1>6. TypeOK'
  <2>1. handle' \in [Handles -> Objects \cup {Nobody}]
    BY <1>2, <1>3, <1>4
  <2> QED BY <1>1, <1>2, <1>3, <1>5, <2>1, TypesNext DEF TypeOK
<1>7. SameHolders
  BY <1>2 DEF SameHolders
<1>8. /\ \A x : SessionsWith(x)' = SessionsWith(x)
      /\ \A x \in Objects : HandlesTo(x)' = IF x = p THEN HandlesTo(x) + 1 ELSE HandlesTo(x)
  BY <1>1, <1>2, <1>4, <1>7, HoldersSame, HandleGiven
<1>9. \A r \in Requests : HandlesTo(r)' = HandlesTo(r) /\ SessionsWith(r)' = SessionsWith(r)
  BY <1>4, <1>8, KindsAssumption DEF Objects
<1>10. Counted'
  <2>1. ResponseCounted(p)'
    BY <1>4, <1>5, <1>8 DEF ResponseCounted
  <2>2. \A r \in Responses \ {p} : ResponseCounted(r)'
    BY <1>1, <1>5, <1>8, ResponseCountFrame DEF Counted, Objects
  <2> QED BY <1>1, <1>2, <1>9, <2>1, <2>2, RequestsUntouched DEF Counted
<1>11. Linked'
  <2>1. \A r \in Responses : ResponseLinkStays(r)
    BY <1>4, <1>5 DEF ResponseLinkStays
  <2> QED BY <1>1, <1>2, <1>7, <1>9, <2>1, RequestsUntouched, LinksFrame
<1> QED BY <1>1, <1>2, <1>6, <1>9, <1>10, <1>11, RequestsUntouched DEF HandlesInv

\* The responses after a step that leaves them alone.
LEMMA ResponsesUntouched ==
    ASSUME Counted, response' = response,
           \A p \in Responses : HandlesTo(p)' = HandlesTo(p) /\ SessionsWith(p)' = SessionsWith(p)
    PROVE  /\ \A p \in Responses : ResponseCounted(p)'
           /\ \A p \in Responses : ResponseLinkStays(p)
<1>1. \A p \in Responses : ResponseCounted(p)'
  BY ResponseCountFrame DEF Counted
<1>2. \A p \in Responses : ResponseLinkStays(p)
  BY DEF ResponseLinkStays
<1> QED BY <1>1, <1>2

\* The copy of a request: the reference that no handle has is the copy's own.
LEMMA CopyRequestKeeps ==
    ASSUME HandlesInv, NEW g \in Handles, NEW h \in Handles, CopyRequest(g, h)
    PROVE  HandlesInv'
<1>1. TypeOK /\ Counted /\ Linked /\ StringsHaveOneOwner /\ fault # "recursion"
  BY DEF HandlesInv
<1>2. PICK q \in Fresh(request) :
         /\ handle[g] \in Requests /\ handle[h] = Nobody
         /\ request' = [request EXCEPT ![q] = [AddRef(NewRequest(request[handle[g]].session)) EXCEPT !.copied = TRUE]]
         /\ handle' = [handle EXCEPT ![h] = q]
         /\ session' = session /\ response' = response /\ heap' = heap /\ fault' = fault
  BY DEF CopyRequest
<1>3. /\ session \in [Sessions -> SessionRecord] /\ request \in [Requests -> RequestRecord]
      /\ response \in [Responses -> ResponseRecord] /\ handle \in [Handles -> Objects \cup {Nobody}]
  BY <1>1, TypesByRecord
<1>4. q \in Requests /\ q \in Objects /\ request[q].life = "unborn" /\ HandlesTo(q) = 0 /\ SessionsWith(q) = 0
  BY WhatIsHeld DEF Objects, Fresh
<1>5. PICK s : s = request[handle[g]].session
  OBVIOUS
<1>6. s \in Sessions \cup {Nobody}
  BY <1>2, <1>3, <1>5 DEF RequestRecord
<1>7. PICK o : o = AddRef(NewRequest(s))
  OBVIOUS
<1>8. /\ o \in RequestRecord /\ o.ref_count = 2 /\ o.life = "live" /\ o.url = Nobody /\ o.verb = Nobody
  <2>1. PICK u : u = NewRequest(s)
    OBVIOUS
  <2>2. u \in RequestRecord /\ u.ref_count = 1 /\ u.life = "live" /\ u.url = Nobody /\ u.verb = Nobody
    BY <1>6, <2>1, NewObjects
  <2> QED BY <1>7, <2>1, <2>2, AddRefRequest
<1>9. /\ request' \in [Requests -> RequestRecord]
      /\ request'[q].ref_count = 2 /\ request'[q].life = "live" /\ request'[q].copied = TRUE
      /\ request'[q].url = Nobody /\ request'[q].verb = Nobody
      /\ \A r \in Requests \ {q} : request'[r] = request[r]
  <2>1. request' = [request EXCEPT ![q] = [o EXCEPT !.copied = TRUE]]
    BY <1>2, <1>5, <1>7
  <2>2. [o EXCEPT !.copied = TRUE] \in RequestRecord
    BY <1>8 DEF RequestRecord
  <2> QED BY <1>3, <1>4, <1>8, <2>1, <2>2 DEF RequestRecord
<1>10. TypeOK'
  <2>1. handle' \in [Handles -> Objects \cup {Nobody}]
    BY <1>2, <1>3, <1>4
  <2> QED BY <1>1, <1>2, <1>3, <1>9, <2>1, TypesNext DEF TypeOK
<1>11. SameHolders
  BY <1>2 DEF SameHolders
<1>12. /\ \A x : SessionsWith(x)' = SessionsWith(x)
       /\ \A x \in Objects : HandlesTo(x)' = IF x = q THEN HandlesTo(x) + 1 ELSE HandlesTo(x)
  BY <1>1, <1>2, <1>4, <1>11, HoldersSame, HandleGiven
<1>13. \A p \in Responses : HandlesTo(p)' = HandlesTo(p) /\ SessionsWith(p)' = SessionsWith(p)
  BY <1>4, <1>12, KindsAssumption DEF Objects
<1>14. Counted'
  <2>1. RequestCounted(q)'
    BY <1>4, <1>9, <1>12 DEF RequestCounted
  <2>2. \A r \in Requests \ {q} : RequestCounted(r)'
    BY <1>1, <1>9, <1>12, RequestCountFrame DEF Counted, Objects
  <2> QED BY <1>1, <1>2, <1>13, <2>1, <2>2, ResponsesUntouched DEF Counted
<1>15. Linked'
  <2>1. \A r \in Requests : RequestLinkStays(r)
    BY <1>4, <1>9 DEF RequestLinkStays
  <2> QED BY <1>1, <1>2, <1>11, <1>13, <2>1, ResponsesUntouched, LinksFrame
<1>16. StringsHaveOneOwner'
  <2>1. \A r \in Requests : StringsStay(r)
    BY <1>1, <1>2, <1>9, StringsByRequest DEF StringsStay
  <2> QED BY <1>1, <1>9, <2>1, StringsFrame
<1> QED BY <1>1, <1>2, <1>10, <1>14, <1>15, <1>16 DEF HandlesInv

\* The move of a handle.
LEMMA MoveHandleKeeps ==
    ASSUME HandlesInv, NEW g \in Handles, NEW h \in Handles, MoveHandle(g, h)
    PROVE  HandlesInv'
<1>1. TypeOK /\ Counted /\ Linked /\ StringsHaveOneOwner /\ fault # "recursion"
  BY DEF HandlesInv
<1>2. /\ handle[g] # Nobody /\ handle[h] = Nobody
      /\ handle' = [handle EXCEPT ![h] = handle[g], ![g] = Nobody]
      /\ session' = session /\ request' = request /\ response' = response /\ heap' = heap /\ fault' = fault
  BY DEF MoveHandle
<1>3. TypeOK'
  <2>1. handle' \in [Handles -> Objects \cup {Nobody}]
    BY <1>1, <1>2, TypesByRecord
  <2> QED BY <1>1, <1>2, <2>1, TypesByRecord, TypesNext
<1>4. SameHolders
  BY <1>2 DEF SameHolders
<1>5. /\ \A r \in Requests : HandlesTo(r)' = HandlesTo(r) /\ SessionsWith(r)' = SessionsWith(r)
      /\ \A p \in Responses : HandlesTo(p)' = HandlesTo(p) /\ SessionsWith(p)' = SessionsWith(p)
  BY <1>1, <1>2, <1>4, HandleMoved, HoldersSame DEF Objects
<1>6. Counted'
  BY <1>1, <1>2, <1>5, RequestsUntouched, ResponsesUntouched DEF Counted
<1>7. Linked'
  BY <1>1, <1>2, <1>4, <1>5, RequestsUntouched, ResponsesUntouched, LinksFrame
<1> QED BY <1>1, <1>2, <1>3, <1>5, <1>6, <1>7, RequestsUntouched DEF HandlesInv

\* Memory that the request q frees is nobody else's.
LEMMA FreedAlone ==
    ASSUME HandlesInv, NEW q \in Requests, request[q].life = "live", request[q].ref_count > 0
    PROVE  /\ FreedWith(request[q]) \subseteq Own(q)
           /\ request[q].ref_count # 1 => FreedWith(request[q]) = {} /\ Own(q) \subseteq heap
           /\ \A r \in Requests : r # q /\ request[r].life = "live" => Own(r) \subseteq heap \ Own(q)
<1>1. TypeOK /\ StringsHaveOneOwner /\ request[q] \in RequestRecord
  BY TypesByRecord DEF HandlesInv
<1>2. FreedWith(request[q]) \subseteq Own(q)
  BY DEF FreedWith, Own
<1>3. request[q].ref_count # 1 => FreedWith(request[q]) = {} /\ Own(q) \subseteq heap
  BY <1>1, ReleasedRequest, StringsByRequest DEF FreedWith
<1>4. \A r \in Requests : r # q /\ request[r].life = "live" => Own(r) \subseteq heap \ Own(q)
  BY <1>1, StringsByRequest
<1> QED BY <1>2, <1>3, <1>4

\* A request handle is destroyed, and its object with the last reference.
LEMMA DestroyRequestKeeps ==
    ASSUME HandlesInv, NEW h \in Handles, DestroyRequest(h)
    PROVE  HandlesInv'
<1>0. PICK q : q = handle[h]
  OBVIOUS
<1>1. TypeOK /\ Counted /\ Linked /\ StringsHaveOneOwner /\ fault # "recursion"
  BY DEF HandlesInv
<1>2. /\ q \in Requests
      /\ request' = [request EXCEPT ![q] = Released(request[q])] /\ heap' = heap \ FreedWith(request[q])
      /\ fault' \in {"none", "double_free"} /\ handle' = [handle EXCEPT ![h] = Nobody]
      /\ session' = session /\ response' = response
  BY <1>0 DEF DestroyRequest
<1>3. /\ session \in [Sessions -> SessionRecord] /\ request \in [Requests -> RequestRecord]
      /\ response \in [Responses -> ResponseRecord] /\ handle \in [Handles -> Objects \cup {Nobody}]
  BY <1>1, TypesByRecord
<1>4. q \in Objects /\ request[q].life = "live" /\ request[q].ref_count > 0
  BY <1>0, <1>2, WhatIsHeld DEF Objects
<1>5. /\ request' \in [Requests -> RequestRecord]
      /\ request'[q].ref_count = request[q].ref_count - 1
      /\ request'[q].life = (IF request[q].ref_count = 1 THEN "deleted" ELSE "live")
      /\ request'[q].session = request[q].session /\ request'[q].copied = request[q].copied
      /\ request'[q].url = request[q].url /\ request'[q].verb = request[q].verb
      /\ \A r \in Requests \ {q} : request'[r] = request[r]
  BY <1>2, <1>3, <1>4, ReleasedRequest
<1>6. TypeOK'
  <2>1. handle' \in [Handles -> Objects \cup {Nobody}] /\ heap' \subseteq Strings
    BY <1>1, <1>2, <1>3 DEF TypeOK
  <2> QED BY <1>2, <1>3, <1>5, <2>1, TypesNext
<1>7. SameHolders
  BY <1>2 DEF SameHolders
<1>8. /\ \A x : SessionsWith(x)' = SessionsWith(x)
      /\ \A x \in Objects : HandlesTo(x)' = IF x = q THEN HandlesTo(x) - 1 ELSE HandlesTo(x)
  BY <1>0, <1>1, <1>2, <1>4, <1>7, HoldersSame, HandleTaken
<1>9. \A p \in Responses : HandlesTo(p)' = HandlesTo(p) /\ SessionsWith(p)' = SessionsWith(p)
  BY <1>2, <1>8, KindsAssumption DEF Objects
<1>10. Counted'
  <2>1. RequestCounted(q)'
    <3>1. /\ request'[q].ref_count = request[q].ref_count + -1 + 0
          /\ SessionsWith(q)' = SessionsWith(q) + 0 /\ HandlesTo(q)' = HandlesTo(q) + -1
          /\ request'[q].life = "live" <=> request'[q].ref_count > 0
      BY <1>1, <1>2, <1>3, <1>4, <1>5, <1>8, CountsAreNumbers DEF RequestRecord
    <3> QED BY <1>1, <1>2, <1>5, <3>1, RequestCountStep DEF Counted
  <2>2. \A r \in Requests \ {q} : RequestCounted(r)'
    BY <1>1, <1>5, <1>8, RequestCountFrame DEF Counted, Objects
  <2> QED BY <1>1, <1>2, <1>9, <2>1, <2>2, ResponsesUntouched DEF Counted
<1>11. Linked'
  <2>1. \A r \in Requests : RequestLinkStays(r)
    BY <1>4, <1>5 DEF RequestLinkStays
  <2> QED BY <1>1, <1>2, <1>7, <1>9, <2>1, ResponsesUntouched, LinksFrame
<1>12. StringsHaveOneOwner'
  <2>1. ASSUME NEW r \in Requests PROVE StringsStay(r)
    <3>1. CASE r # q
      BY <1>2, <1>4, <1>5, <3>1, FreedAlone DEF StringsStay
    <3>2. CASE r = q /\ request[q].ref_count # 1
      <4>1. Own(q) \subseteq heap'
        BY <1>2, <1>4, <3>2, FreedAlone
      <4> QED BY <1>4, <1>5, <3>2, <4>1 DEF StringsStay
    <3>3. CASE r = q /\ request[q].ref_count = 1
      BY <1>5, <3>3 DEF StringsStay
    <3> QED BY <3>1, <3>2, <3>3
  <2> QED BY <1>1, <1>5, <2>1, StringsFrame
<1> QED BY <1>2, <1>6, <1>10, <1>11, <1>12 DEF HandlesInv

\* A response handle is destroyed. A response that owns a session has another
\* reference, that of the session, and does not come to delete it.
LEMMA DestroyResponseKeeps ==
    ASSUME HandlesInv, NEW h \in Handles, DestroyResponse(h)
    PROVE  HandlesInv'
<1>0. PICK p : p = handle[h]
  OBVIOUS
<1>1. TypeOK /\ Counted /\ Linked /\ StringsHaveOneOwner /\ fault # "recursion"
  BY DEF HandlesInv
<1>2. /\ p \in Responses
      /\ response' = [response EXCEPT ![p] = Released(response[p])]
      /\ fault' = ResponseFault(response[p]) /\ handle' = [handle EXCEPT ![h] = Nobody]
      /\ session' = session /\ request' = request /\ heap' = heap
  BY <1>0 DEF DestroyResponse
<1>3. /\ session \in [Sessions -> SessionRecord] /\ request \in [Requests -> RequestRecord]
      /\ response \in [Responses -> ResponseRecord] /\ handle \in [Handles -> Objects \cup {Nobody}]
  BY <1>1, TypesByRecord
<1>4. p \in Objects /\ response[p].life = "live" /\ response[p].ref_count > 0
  BY <1>0, <1>2, WhatIsHeld DEF Objects
<1>5. /\ response' \in [Responses -> ResponseRecord]
      /\ response'[p].ref_count = response[p].ref_count - 1
      /\ response'[p].life = (IF response[p].ref_count = 1 THEN "deleted" ELSE "live")
      /\ response'[p].session = response[p].session
      /\ response'[p].session_owned_by_me = response[p].session_owned_by_me
      /\ \A r \in Responses \ {p} : response'[r] = response[r]
  BY <1>2, <1>3, <1>4, ReleasedResponse
<1>6. fault' \in {"none", "double_free"}
  <2>1. ASSUME response[p].session_owned_by_me, response[p].session # Nobody
        PROVE  Released(response[p]).life # "deleted"
    <3>1. PICK s : s = response[p].session
      OBVIOUS
    <3>2. s \in Sessions /\ s \in Holders(p)
      BY <1>1, <1>2, <1>3, <2>1, <3>1 DEF Linked, OwnerIsCurrent, Holders, Live, ResponseRecord
    <3>3. h \in Owners(p)
      BY <1>0 DEF Owners
    <3>4. /\ HandlesTo(p) \in Nat /\ SessionsWith(p) \in Nat /\ HandlesTo(p) # 0 /\ SessionsWith(p) # 0
          /\ response[p].ref_count = HandlesTo(p) + SessionsWith(p)
      BY <1>1, <1>2, <3>2, <3>3, CountsAreNumbers DEF Counted, ResponseCounted
    <3>5. response[p].ref_count # 1
      BY <3>4
    <3> QED BY <1>2, <1>3, <1>4, <3>5, ReleasedResponse
  <2>2. CASE Released(response[p]).life # "deleted"
    BY <1>2, <2>2 DEF ResponseFault
  <2>3. CASE Released(response[p]).life = "deleted"
    BY <1>2, <2>1, <2>3 DEF ResponseFault
  <2> QED BY <2>2, <2>3
<1>7. TypeOK'
  <2>1. handle' \in [Handles -> Objects \cup {Nobody}] /\ heap' \subseteq Strings
    BY <1>1, <1>2, <1>3 DEF TypeOK
  <2> QED BY <1>2, <1>3, <1>5, <1>6, <2>1, TypesNext
<1>8. SameHolders
  BY <1>2 DEF SameHolders
<1>9. /\ \A x : SessionsWith(x)' = SessionsWith(x)
      /\ \A x \in Objects : HandlesTo(x)' = IF x = p THEN HandlesTo(x) - 1 ELSE HandlesTo(x)
  BY <1>0, <1>1, <1>2, <1>4, <1>8, HoldersSame, HandleTaken
<1>10. \A r \in Requests : HandlesTo(r)' = HandlesTo(r) /\ SessionsWith(r)' = SessionsWith(r)
  BY <1>2, <1>9, KindsAssumption DEF Objects
<1>11. Counted'
  <2>1. ResponseCounted(p)'
    <3>1. /\ response'[p].ref_count = response[p].ref_count + -1 + 0
          /\ SessionsWith(p)' = SessionsWith(p) + 0 /\ HandlesTo(p)' = HandlesTo(p) + -1
          /\ response'[p].life = "live" <=> response'[p].ref_count > 0
      BY <1>1, <1>2, <1>3, <1>4, <1>5, <1>9, CountsAreNumbers DEF ResponseRecord
    <3> QED BY <1>1, <1>2, <3>1, ResponseCountStep DEF Counted
  <2>2. \A r \in Responses \ {p} : ResponseCounted(r)'
    BY <1>1, <1>5, <1>9, ResponseCountFrame DEF Counted, Objects
  <2> QED BY <1>1, <1>2, <1>10, <2>1, <2>2, RequestsUntouched DEF Counted
<1>12. Linked'
  <2>1. \A r \in Responses : ResponseLinkStays(r)
    BY <1>4, <1>5 DEF ResponseLinkStays
  <2> QED BY <1>1, <1>2, <1>8, <1>10, <2>1, RequestsUntouched, LinksFrame
<1> QED BY <1>1, <1>2, <1>6, <1>7, <1>10, <1>11, <1>12, RequestsUntouched DEF HandlesInv

\* A request gets a new string, as its url or as its verb.
LEMMA StringGiven ==
    ASSUME HandlesInv, NEW q \in Requests, request[q].life = "live", NEW x \in Strings, x \notin heap,
           heap' = heap \cup {x},
           request' \in {[request EXCEPT ![q].url = x], [request EXCEPT ![q].verb = x]},
           session' = session, response' = response, handle' = handle, fault' = fault
    PROVE  HandlesInv'
<1>1. TypeOK /\ Counted /\ Linked /\ StringsHaveOneOwner /\ fault # "recursion"
  BY DEF HandlesInv
<1>2. /\ session \in [Sessions -> SessionRecord] /\ request \in [Requests -> RequestRecord]
      /\ response \in [Responses -> ResponseRecord] /\ handle \in [Handles -> Objects \cup {Nobody}]
  BY <1>1, TypesByRecord
<1>3. /\ request' \in [Requests -> RequestRecord]
      /\ request'[q].ref_count = request[q].ref_count /\ request'[q].life = request[q].life
      /\ request'[q].session = request[q].session /\ request'[q].copied = request[q].copied
      /\ \/ request'[q].url = x /\ request'[q].verb = request[q].verb
         \/ request'[q].verb = x /\ request'[q].url = request[q].url
      /\ \A r \in Requests \ {q} : request'[r] = request[r]
  <2>1. CASE request' = [request EXCEPT ![q].url = x]
    BY <1>2, <2>1 DEF RequestRecord
  <2>2. CASE request' = [request EXCEPT ![q].verb = x]
    BY <1>2, <2>2 DEF RequestRecord
  <2> QED BY <2>1, <2>2
<1>4. TypeOK'
  BY <1>1, <1>2, <1>3, TypesNext DEF TypeOK
<1>5. SameHolders
  BY DEF SameHolders
<1>6. \A o : HandlesTo(o)' = HandlesTo(o) /\ SessionsWith(o)' = SessionsWith(o)
  BY <1>1, <1>5, HandlesSame, HoldersSame
<1>7. Counted'
  <2>1. \A r \in Requests : RequestCounted(r)'
    BY <1>1, <1>3, <1>6, RequestCountFrame DEF Counted
  <2> QED BY <1>1, <1>6, <2>1, ResponsesUntouched DEF Counted
<1>8. Linked'
  <2>1. \A r \in Requests : RequestLinkStays(r)
    BY <1>3 DEF RequestLinkStays
  <2> QED BY <1>1, <1>5, <1>6, <2>1, ResponsesUntouched, LinksFrame
<1>9. StringsHaveOneOwner'
  <2>1. \A r \in Requests \ {q} : StringsStay(r)
    BY <1>1, <1>3, StringsByRequest DEF StringsStay
  <2>2. Own(q)' \subseteq Own(q) \cup {x}
    BY <1>3 DEF Own
  <2>3. Own(q) \subseteq heap
    BY <1>1, StringsByRequest
  <2>4. Own(q)' \subseteq heap' /\ request'[q].url # request'[q].verb
    <3>1. request[q].url # x /\ request[q].verb # x
      BY <2>3 DEF Own
    <3> QED BY <1>3, <2>2, <2>3, <3>1
  <2>5. \A r \in Requests \ {q} : request[r].life = "live" => Own(q)' \cap Own(r) = {}
    BY <1>1, <2>2, StringsByRequest
  <2> QED BY <1>1, <1>3, <2>1, <2>4, <2>5, StringsStep
<1> QED BY <1>1, <1>4, <1>7, <1>8, <1>9 DEF HandlesInv

\* set_url() and set_verb()
LEMMA SetStringKeeps ==
    ASSUME HandlesInv, NEW h \in Handles, SetUrl(h) \/ SetVerb(h)
    PROVE  HandlesInv'
<1>1. PICK q : q = handle[h]
  OBVIOUS
<1>2. PICK x \in Strings \ heap :
         /\ q \in Requests /\ heap' = heap \cup {x}
         /\ request' \in {[request EXCEPT ![q].url = x], [request EXCEPT ![q].verb = x]}
         /\ session' = session /\ response' = response /\ handle' = handle /\ fault' = fault
  <2>1. CASE SetUrl(h)
    BY <1>1, <2>1 DEF SetUrl
  <2>2. CASE SetVerb(h)
    BY <1>1, <2>2 DEF SetVerb
  <2> QED BY <2>1, <2>2
<1>3. request[q].life = "live"
  BY <1>1, <1>2, WhatIsHeld
<1> QED BY <1>2, <1>3, StringGiven

\* wait(), get_session() and get_channel()
LEMMA FollowSessionKeeps ==
    ASSUME HandlesInv, NEW h \in Handles, FollowSession(h)
    PROVE  HandlesInv'
BY FaultKeeps DEF FollowSession

\* A transfer writes to the response p.
LEMMA ResponseWritten ==
    ASSUME HandlesInv, NEW p \in Responses, response' \in [Responses -> ResponseRecord],
           response'[p].ref_count = response[p].ref_count, response'[p].life = response[p].life,
           response'[p].session = response[p].session,
           response'[p].session_owned_by_me = response[p].session_owned_by_me,
           \A r \in Responses \ {p} : response'[r] = response[r],
           session' \in [Sessions -> SessionRecord], SameHolders,
           request' = request, handle' = handle, heap' = heap, fault' = fault
    PROVE  HandlesInv'
<1>1. TypeOK /\ Counted /\ Linked /\ StringsHaveOneOwner /\ fault # "recursion"
  BY DEF HandlesInv
<1>2. TypeOK'
  BY <1>1, TypesByRecord, TypesNext
<1>3. \A o : HandlesTo(o)' = HandlesTo(o) /\ SessionsWith(o)' = SessionsWith(o)
  BY <1>1, HandlesSame, HoldersSame
<1>4. \A r \in Responses : ResponseCounted(r)'
  BY <1>1, <1>3, ResponseCountFrame DEF Counted
<1>5. \A r \in Responses : ResponseLinkStays(r)
  BY DEF ResponseLinkStays
<1>6. Counted' /\ Linked' /\ StringsHaveOneOwner'
  BY <1>1, <1>3, <1>4, <1>5, RequestsUntouched, LinksFrame DEF Counted
<1> QED BY <1>1, <1>2, <1>6 DEF HandlesInv

\* What is stored of a chunk leaves room for the terminating zero.
LEMMA StoredFits ==
    ASSUME NEW size \in 0 .. Cap - 1, NEW n \in Nat
    PROVE  size + Stored(size, n) \in 0 .. Cap - 1
<1>1. Cap \in Nat /\ size \in Nat /\ size < Cap
  BY CapAssumption
<1>2. CASE size + n + 1 > Cap
  <2>1. Stored(size, n) = n - (size + n + 1 - Cap)
    BY <1>1, <1>2 DEF Stored
  <2> QED BY <1>1, <1>2, <2>1
<1>3. CASE ~(size + n + 1 > Cap)
  <2>1. Stored(size, n) = n
    BY <1>1, <1>3 DEF Stored
  <2> QED BY <1>1, <1>3, <2>1
<1> QED BY <1>2, <1>3

LEMMA StoreBytesKeeps ==
    ASSUME HandlesInv, NEW s \in Sessions, NEW n \in Chunks, store_bytes(s, n)
    PROVE  HandlesInv'
<1>0. PICK p : p = session[s].current_response
  OBVIOUS
<1>1. /\ s \in Live(session)
      /\ response' = [response EXCEPT ![p].received_bytes = @ + Stored(@, n)]
      /\ session' = session /\ request' = request /\ handle' = handle /\ heap' = heap /\ fault' = fault
  BY <1>0 DEF store_bytes
<1>2. p \in Responses
  BY <1>0, <1>1, WhatIsHeld
<1>3. session \in [Sessions -> SessionRecord] /\ response \in [Responses -> ResponseRecord]
  BY TypesByRecord DEF HandlesInv
<1>4. response[p].received_bytes + Stored(response[p].received_bytes, n) \in 0 .. Cap - 1
  <2>1. response[p].received_bytes \in 0 .. Cap - 1 /\ n \in Nat
    BY <1>2, <1>3, ChunksAssumption DEF ResponseRecord
  <2> QED BY <2>1, StoredFits
<1>5. PICK m : m = response[p].received_bytes + Stored(response[p].received_bytes, n)
  OBVIOUS
<1>6. response' = [response EXCEPT ![p].received_bytes = m]
  BY <1>1, <1>2, <1>3, <1>5
<1>7. /\ response' \in [Responses -> ResponseRecord]
      /\ response'[p].ref_count = response[p].ref_count /\ response'[p].life = response[p].life
      /\ response'[p].session = response[p].session
      /\ response'[p].session_owned_by_me = response[p].session_owned_by_me
      /\ \A r \in Responses \ {p} : response'[r] = response[r]
  BY <1>2, <1>3, <1>4, <1>5, <1>6 DEF ResponseRecord
<1>8. session' \in [Sessions -> SessionRecord] /\ SameHolders
  BY <1>1, <1>3 DEF SameHolders
<1> QED BY <1>1, <1>2, <1>7, <1>8, ResponseWritten

LEMMA CleanupKeeps ==
    ASSUME HandlesInv, NEW s \in Sessions, cleanup_after_transfer(s)
    PROVE  HandlesInv'
<1>0. PICK p : p = session[s].current_response
  OBVIOUS
<1>1. /\ s \in Live(session)
      /\ session' = [session EXCEPT ![s].state = "idle"]
      /\ response' = [response EXCEPT ![p].effective_url = TRUE]
      /\ request' = request /\ handle' = handle /\ heap' = heap /\ fault' = fault
  BY <1>0 DEF cleanup_after_transfer
<1>2. p \in Responses
  BY <1>0, <1>1, WhatIsHeld
<1>3. session \in [Sessions -> SessionRecord] /\ response \in [Responses -> ResponseRecord]
  BY TypesByRecord DEF HandlesInv
<1>4. /\ response' \in [Responses -> ResponseRecord]
      /\ response'[p].ref_count = response[p].ref_count /\ response'[p].life = response[p].life
      /\ response'[p].session = response[p].session
      /\ response'[p].session_owned_by_me = response[p].session_owned_by_me
      /\ \A r \in Responses \ {p} : response'[r] = response[r]
  BY <1>1, <1>2, <1>3 DEF ResponseRecord
<1>5. session' \in [Sessions -> SessionRecord] /\ SameHolders
  BY <1>1, <1>3 DEF SessionRecord, SameHolders
<1> QED BY <1>1, <1>2, <1>4, <1>5, ResponseWritten
-----------------------------------------------------------------------------
\* Steps on sessions

\* A session is made with its current objects; handles may point to its response.
LEMMA Constructed ==
    ASSUME HandlesInv, NEW s \in Sessions, NEW q \in Requests, NEW p \in Responses,
           \E v \in BOOLEAN : Construct(s, v, q, p),
           request' \in [Requests -> RequestRecord], request'[q].ref_count = 1, request'[q].life = "live",
           request'[q].session = s, request'[q].copied = FALSE,
           \A r \in Requests \ {q} : request'[r] = request[r],
           response' \in [Responses -> ResponseRecord],
           response'[p].ref_count = HandlesTo(p)' + 1, response'[p].ref_count > 0,
           response'[p].life = "live", response'[p].session = s,
           \A r \in Responses \ {p} : response'[r] = response[r],
           \A x \in Objects \ {p} : HandlesTo(x)' = HandlesTo(x)
    PROVE  session' \in [Sessions -> SessionRecord] /\ Counted' /\ Linked'
<1>1. TypeOK /\ Counted /\ Linked
  BY DEF HandlesInv
<1>2. /\ session \in [Sessions -> SessionRecord]
      /\ request \in [Requests -> RequestRecord] /\ response \in [Responses -> ResponseRecord]
  BY <1>1, TypesByRecord
<1>3. /\ session[s].life = "unborn" /\ request[q].life = "unborn" /\ response[p].life = "unborn"
      /\ HandlesTo(q) = 0 /\ SessionsWith(q) = 0 /\ HandlesTo(p) = 0 /\ SessionsWith(p) = 0
  BY WhatIsHeld DEF Construct, Fresh
<1>4. PICK v \in BOOLEAN : Construct(s, v, q, p)
  OBVIOUS
<1>5. PICK o : o = [NoSession EXCEPT !.life = "live", !.visible = v,
                       !.state = IF v THEN "configuring" ELSE "busy",
                       !.current_request = q, !.current_response = p]
  OBVIOUS
<1>6. o.life = "live" /\ o.current_request = q /\ o.current_response = p /\ o \in SessionRecord
  BY <1>5 DEF NoSession, SessionRecord, Lives
<1>7. session' = [session EXCEPT ![s] = o]
  BY <1>5, <1>4 DEF Construct
<1>8. /\ session' \in [Sessions -> SessionRecord] /\ OthersStay(s)
      /\ session'[s].life = "live" /\ session'[s].current_request = q /\ session'[s].current_response = p
  BY <1>2, <1>6, <1>7 DEF OthersStay
<1>9. \A x \in Objects : SessionsWith(x)' = IF x \in {q, p} THEN SessionsWith(x) + 1 ELSE SessionsWith(x)
  BY <1>1, <1>3, <1>8, HoldersMore
<1>10. q # p /\ q \in Objects /\ p \in Objects
  BY KindsAssumption DEF Objects
<1>11. Counted'
  <2>1. RequestCounted(q)'
    BY <1>3, <1>9, <1>10 DEF RequestCounted
  <2>2. \A r \in Requests \ {q} : RequestCounted(r)'
    <3>1. \A r \in Requests \ {q} : r \in Objects /\ r # p
      BY KindsAssumption DEF Objects
    <3> QED BY <1>1, <1>9, <3>1, RequestCountFrame DEF Counted
  <2>3. ResponseCounted(p)'
    BY <1>3, <1>9, <1>10 DEF ResponseCounted
  <2>4. \A r \in Responses \ {p} : ResponseCounted(r)'
    <3>1. \A r \in Responses \ {p} : r \in Objects /\ r # q
      BY KindsAssumption DEF Objects
    <3> QED BY <1>1, <1>9, <3>1, ResponseCountFrame DEF Counted
  <2> QED BY <2>1, <2>2, <2>3, <2>4 DEF Counted
<1>12. Linked'
  <2>1. SessionLinked(s)'
    BY <1>8 DEF SessionLinked
  <2>2. ASSUME NEW t \in Sessions \ {s} PROVE SessionLinked(t)'
    <3>1. SessionLinked(t) /\ session'[t] = session[t]
      BY <1>1, <1>8 DEF Linked, OthersStay
    <3>2. CASE session[t].life = "unborn"
      BY <3>1, <3>2 DEF SessionLinked
    <3>3. CASE session[t].life # "unborn"
      BY <1>3, <3>1, <3>3 DEF SessionLinked
    <3> QED BY <3>2, <3>3
  <2>3. OwnerIsCurrent(p)'
    BY <1>8 DEF OwnerIsCurrent
  <2>4. ASSUME NEW r \in Responses \ {p} PROVE OwnerIsCurrent(r)'
    <3>1. OwnerIsCurrent(r) /\ response'[r] = response[r] /\ response[r].session \in Sessions \cup {Nobody}
      BY <1>1, <1>2 DEF Linked, ResponseRecord
    <3> QED BY <1>3, <1>8, <3>1 DEF OwnerIsCurrent, OthersStay
  <2> QED BY <2>1, <2>2, <2>3, <2>4 DEF Linked
<1> QED BY <1>8, <1>11, <1>12

LEMMA NewSessionKeeps ==
    ASSUME HandlesInv, NewSession
    PROVE  HandlesInv'
<1>1. TypeOK /\ StringsHaveOneOwner /\ fault # "recursion"
  BY DEF HandlesInv
<1>2. PICK s \in Sessions, q \in Requests, p \in Responses :
         /\ Construct(s, TRUE, q, p)
         /\ request' = [request EXCEPT ![q] = NewRequest(s)]
         /\ response' = [response EXCEPT ![p] = NewResponse(s)]
         /\ handle' = handle /\ heap' = heap /\ fault' = fault
  BY DEF NewSession
<1>3. /\ request \in [Requests -> RequestRecord] /\ response \in [Responses -> ResponseRecord]
      /\ handle \in [Handles -> Objects \cup {Nobody}]
  BY <1>1, TypesByRecord
<1>4. /\ request' \in [Requests -> RequestRecord]
      /\ request'[q].ref_count = 1 /\ request'[q].life = "live"
      /\ request'[q].session = s /\ request'[q].copied = FALSE
      /\ request'[q].url = Nobody /\ request'[q].verb = Nobody
      /\ \A r \in Requests \ {q} : request'[r] = request[r]
  BY <1>2, <1>3, NewObjects
<1>5. /\ response' \in [Responses -> ResponseRecord]
      /\ response'[p].ref_count = 1 /\ response'[p].life = "live" /\ response'[p].session = s
      /\ \A r \in Responses \ {p} : response'[r] = response[r]
  BY <1>2, <1>3, NewObjects
<1>6. HandlesTo(p)' = 0 /\ \A x \in Objects : HandlesTo(x)' = HandlesTo(x)
  BY <1>2, HandlesSame, WhatIsHeld DEF Construct
<1>7. session' \in [Sessions -> SessionRecord] /\ Counted' /\ Linked'
  <2>1. \E v \in BOOLEAN : Construct(s, v, q, p)
    BY <1>2
  <2>2. response'[p].ref_count = HandlesTo(p)' + 1 /\ response'[p].ref_count > 0
    BY <1>5, <1>6
  <2> QED BY <1>4, <1>5, <1>6, <2>1, <2>2, Constructed
<1>8. TypeOK'
  BY <1>1, <1>2, <1>3, <1>4, <1>5, <1>7, TypesNext DEF TypeOK
<1>9. StringsHaveOneOwner'
  <2>1. \A r \in Requests : StringsStay(r)
    BY <1>1, <1>2, <1>4, StringsByRequest DEF StringsStay
  <2> QED BY <1>1, <1>4, <2>1, StringsFrame
<1> QED BY <1>1, <1>2, <1>7, <1>8, <1>9 DEF HandlesInv

\* request::start_get()
LEMMA StartGetInvisibleKeeps ==
    ASSUME HandlesInv, NEW h \in Handles, StartGetInvisible(h)
    PROVE  HandlesInv'
<1>1. TypeOK /\ StringsHaveOneOwner /\ fault # "recursion"
  BY DEF HandlesInv
<1>2. PICK s \in Sessions, q \in Requests, p \in Responses, url \in Strings \ heap :
         /\ handle[h] = Nobody
         /\ Construct(s, FALSE, q, p)
         /\ request' = [request EXCEPT ![q] = [NewRequest(s) EXCEPT !.url = url, !.verb = "standard"]]
         /\ response' = [response EXCEPT ![p] = [AddRef(NewResponse(s)) EXCEPT !.session_owned_by_me = TRUE]]
         /\ heap' = heap \cup {url} /\ handle' = [handle EXCEPT ![h] = p] /\ fault' = fault
  BY DEF StartGetInvisible
<1>3. /\ request \in [Requests -> RequestRecord] /\ response \in [Responses -> ResponseRecord]
      /\ handle \in [Handles -> Objects \cup {Nobody}] /\ p \in Objects
  BY <1>1, TypesByRecord DEF Objects
<1>4. /\ request' \in [Requests -> RequestRecord]
      /\ request'[q].ref_count = 1 /\ request'[q].life = "live"
      /\ request'[q].session = s /\ request'[q].copied = FALSE
      /\ request'[q].url = url /\ request'[q].verb = "standard"
      /\ \A r \in Requests \ {q} : request'[r] = request[r]
  <2>1. PICK u : u = NewRequest(s)
    OBVIOUS
  <2>2. u \in RequestRecord /\ u.ref_count = 1 /\ u.life = "live" /\ u.session = s /\ u.copied = FALSE
    BY <2>1, NewObjects
  <2>3. PICK w : w = [u EXCEPT !.url = url]
    OBVIOUS
  <2>4. w \in RequestRecord /\ w.ref_count = 1 /\ w.life = "live" /\ w.session = s /\ w.copied = FALSE /\ w.url = url
    BY <2>2, <2>3 DEF RequestRecord
  <2>5. PICK o : o = [w EXCEPT !.verb = "standard"]
    OBVIOUS
  <2>6. /\ o \in RequestRecord /\ o.ref_count = 1 /\ o.life = "live" /\ o.session = s /\ o.copied = FALSE
        /\ o.url = url /\ o.verb = "standard"
    BY <2>4, <2>5 DEF RequestRecord
  <2>7. request' = [request EXCEPT ![q] = o]
    BY <1>2, <2>1, <2>3, <2>5
  <2> QED BY <1>3, <2>6, <2>7
<1>5. /\ response' \in [Responses -> ResponseRecord]
      /\ response'[p].ref_count = 2 /\ response'[p].life = "live" /\ response'[p].session = s
      /\ \A r \in Responses \ {p} : response'[r] = response[r]
  <2>1. PICK u : u = NewResponse(s)
    OBVIOUS
  <2>2. u \in ResponseRecord /\ u.ref_count = 1 /\ u.life = "live" /\ u.session = s
    BY <2>1, NewObjects
  <2>3. PICK w : w = AddRef(u)
    OBVIOUS
  <2>4. w \in ResponseRecord /\ w.ref_count = 2 /\ w.life = "live" /\ w.session = s
    BY <2>2, <2>3, AddRefResponse
  <2>5. response' = [response EXCEPT ![p] = [w EXCEPT !.session_owned_by_me = TRUE]]
    BY <1>2, <2>1, <2>3
  <2> QED BY <1>3, <2>4, <2>5 DEF ResponseRecord
<1>6. HandlesTo(p)' = 1 /\ \A x \in Objects \ {p} : HandlesTo(x)' = HandlesTo(x)
  <2>1. HandlesTo(p) = 0
    BY <1>2, WhatIsHeld DEF Construct
  <2>2. \A x \in Objects : HandlesTo(x)' = IF x = p THEN HandlesTo(x) + 1 ELSE HandlesTo(x)
    BY <1>1, <1>2, <1>3, HandleGiven
  <2> QED BY <1>3, <2>1, <2>2
<1>7. session' \in [Sessions -> SessionRecord] /\ Counted' /\ Linked'
  <2>1. \E v \in BOOLEAN : Construct(s, v, q, p)
    BY <1>2
  <2>2. response'[p].ref_count = HandlesTo(p)' + 1 /\ response'[p].ref_count > 0
    BY <1>5, <1>6
  <2> QED BY <1>4, <1>5, <1>6, <2>1, <2>2, Constructed
<1>8. TypeOK'
  <2>1. handle' \in [Handles -> Objects \cup {Nobody}] /\ heap' \subseteq Strings
    BY <1>1, <1>2, <1>3 DEF TypeOK
  <2> QED BY <1>1, <1>2, <1>4, <1>5, <1>7, <2>1, TypesNext DEF TypeOK
<1>9. StringsHaveOneOwner'
  <2>1. \A r \in Requests \ {q} : StringsStay(r)
    BY <1>1, <1>2, <1>4, StringsByRequest DEF StringsStay
  <2>2. Own(q)' = {url} /\ request'[q].url # request'[q].verb
    BY <1>4, KindsAssumption DEF Own
  <2>3. \A r \in Requests \ {q} : request[r].life = "live" => Own(q)' \cap Own(r) = {}
    BY <1>1, <1>2, <2>2, StringsByRequest
  <2> QED BY <1>1, <1>2, <1>4, <2>1, <2>2, <2>3, StringsStep
<1> QED BY <1>1, <1>2, <1>7, <1>8, <1>9 DEF HandlesInv

\* ~session(): the current objects lose a reference and their way back. Two
\* sessions would not both be pointed back to, so no other session has them.
LEMMA DeleteSessionKeeps ==
    ASSUME HandlesInv, NEW s \in Sessions, DeleteSession(s)
    PROVE  HandlesInv'
<1>0. PICK q, p : q = session[s].current_request /\ p = session[s].current_response
  OBVIOUS
<1>1. TypeOK /\ Counted /\ Linked /\ StringsHaveOneOwner /\ fault # "recursion"
  BY DEF HandlesInv
<1>2. /\ s \in Live(session)
      /\ session' = [session EXCEPT ![s].life = "deleted"]
      /\ request' = [request EXCEPT ![q] = Released([request[q] EXCEPT !.session = Nobody])]
      /\ response' = [response EXCEPT ![p] = Released(BackrefBroken(response[p]))]
      /\ heap' = heap \ FreedWith(request[q]) /\ handle' = handle
      /\ fault' \in {"double_free", ResponseFault(BackrefBroken(response[p]))}
  BY <1>0 DEF DeleteSession
<1>3. /\ session \in [Sessions -> SessionRecord] /\ request \in [Requests -> RequestRecord]
      /\ response \in [Responses -> ResponseRecord] /\ handle \in [Handles -> Objects \cup {Nobody}]
  BY <1>1, TypesByRecord
<1>4. /\ q \in Requests /\ p \in Responses /\ session[s].life = "live"
      /\ request[q].life = "live" /\ request[q].ref_count > 0
      /\ response[p].life = "live" /\ response[p].ref_count > 0
  BY <1>0, <1>2, WhatIsHeld DEF Live
<1>5. /\ request' \in [Requests -> RequestRecord]
      /\ request'[q].ref_count = request[q].ref_count - 1
      /\ request'[q].life = (IF request[q].ref_count = 1 THEN "deleted" ELSE "live")
      /\ request'[q].session = Nobody /\ request'[q].copied = request[q].copied
      /\ request'[q].url = request[q].url /\ request'[q].verb = request[q].verb
      /\ \A r \in Requests \ {q} : request'[r] = request[r]
  <2>1. PICK u : u = [request[q] EXCEPT !.session = Nobody]
    OBVIOUS
  <2>2. /\ u \in RequestRecord /\ u.ref_count = request[q].ref_count /\ u.life = "live"
        /\ u.session = Nobody /\ u.copied = request[q].copied
        /\ u.url = request[q].url /\ u.verb = request[q].verb
    BY <1>3, <1>4, <2>1 DEF RequestRecord
  <2>3. request' = [request EXCEPT ![q] = Released(u)]
    BY <1>2, <2>1
  <2> QED BY <1>3, <1>4, <2>2, <2>3, ReleasedRequest
<1>6. PICK u : u = BackrefBroken(response[p])
  OBVIOUS
<1>7. u \in ResponseRecord /\ u.ref_count = response[p].ref_count /\ u.life = "live" /\ u.session = Nobody
  BY <1>3, <1>4, <1>6 DEF ResponseRecord, BackrefBroken
<1>8. /\ response' \in [Responses -> ResponseRecord]
      /\ response'[p].ref_count = response[p].ref_count - 1
      /\ response'[p].life = (IF response[p].ref_count = 1 THEN "deleted" ELSE "live")
      /\ response'[p].session = Nobody
      /\ \A r \in Responses \ {p} : response'[r] = response[r]
  BY <1>2, <1>3, <1>4, <1>6, <1>7, ReleasedResponse
<1>9. fault' \in {"none", "double_free"}
  <2>1. ResponseFault(u) \in {"none", "double_free"}
    BY <1>7 DEF ResponseFault
  <2> QED BY <1>2, <1>6, <2>1
<1>10. /\ session' \in [Sessions -> SessionRecord] /\ OthersStay(s) /\ session'[s].life = "deleted"
       /\ session'[s].current_request = q /\ session'[s].current_response = p
  BY <1>0, <1>2, <1>3 DEF SessionRecord, Lives, OthersStay
<1>11. TypeOK'
  BY <1>1, <1>2, <1>3, <1>5, <1>8, <1>9, <1>10, TypesNext DEF TypeOK
<1>12. Counted'
  <2>1. /\ \A x : HandlesTo(x)' = HandlesTo(x)
        /\ \A x \in Objects : SessionsWith(x)' = IF x \in {q, p} THEN SessionsWith(x) - 1 ELSE SessionsWith(x)
    BY <1>0, <1>1, <1>2, <1>4, <1>10, HandlesSame, HoldersLess
  <2>2. RequestCounted(q)'
    <3>1. /\ request'[q].ref_count = request[q].ref_count + 0 + -1
          /\ SessionsWith(q)' = SessionsWith(q) + -1 /\ HandlesTo(q)' = HandlesTo(q) + 0
          /\ request'[q].life = "live" <=> request'[q].ref_count > 0
      BY <1>1, <1>3, <1>4, <1>5, <2>1, CountsAreNumbers DEF RequestRecord, Objects
    <3> QED BY <1>1, <1>4, <1>5, <3>1, RequestCountStep DEF Counted
  <2>3. ResponseCounted(p)'
    <3>1. /\ response'[p].ref_count = response[p].ref_count + 0 + -1
          /\ SessionsWith(p)' = SessionsWith(p) + -1 /\ HandlesTo(p)' = HandlesTo(p) + 0
          /\ response'[p].life = "live" <=> response'[p].ref_count > 0
      BY <1>1, <1>3, <1>4, <1>8, <2>1, CountsAreNumbers DEF ResponseRecord, Objects
    <3> QED BY <1>1, <1>4, <3>1, ResponseCountStep DEF Counted
  <2>4. \A r \in Requests \ {q} : RequestCounted(r)'
    <3>1. \A r \in Requests \ {q} : r \in Objects /\ r \notin {q, p}
      BY <1>4, KindsAssumption DEF Objects
    <3> QED BY <1>1, <1>5, <2>1, <3>1, RequestCountFrame DEF Counted
  <2>5. \A r \in Responses \ {p} : ResponseCounted(r)'
    <3>1. \A r \in Responses \ {p} : r \in Objects /\ r \notin {q, p}
      BY <1>4, KindsAssumption DEF Objects
    <3> QED BY <1>1, <1>8, <2>1, <3>1, ResponseCountFrame DEF Counted
  <2> QED BY <2>2, <2>3, <2>4, <2>5 DEF Counted
<1>13. Linked'
  <2>1. SessionLinked(s)'
    BY <1>4, <1>5, <1>8, <1>10, NobodyAssumption DEF SessionLinked
  <2>2. ASSUME NEW t \in Sessions \ {s} PROVE SessionLinked(t)'
    <3>1. SessionLinked(t) /\ session'[t] = session[t] /\ SessionLinked(s)
      BY <1>1, <1>10 DEF Linked, OthersStay
    <3>2. CASE session[t].life = "unborn"
      BY <3>1, <3>2 DEF SessionLinked
    <3>3. CASE session[t].life = "live"
      <4>1. session[t].current_request # q /\ session[t].current_response # p
        BY <1>0, <1>4, <3>1, <3>3 DEF SessionLinked
      <4> QED BY <1>5, <1>8, <3>1, <3>3, <4>1 DEF SessionLinked
    <3>4. CASE session[t].life = "deleted"
      BY <1>5, <1>8, <3>1, <3>4, NobodyAssumption DEF SessionLinked
    <3> QED BY <1>3, <3>2, <3>3, <3>4 DEF SessionRecord, Lives
  <2>3. OwnerIsCurrent(p)'
    BY <1>8 DEF OwnerIsCurrent
  <2>4. ASSUME NEW r \in Responses \ {p} PROVE OwnerIsCurrent(r)'
    <3>1. OwnerIsCurrent(r) /\ response'[r] = response[r] /\ response[r].session \in Sessions \cup {Nobody}
      BY <1>1, <1>3, <1>8 DEF Linked, ResponseRecord
    <3> QED BY <1>0, <1>10, <3>1 DEF OwnerIsCurrent, OthersStay
  <2> QED BY <2>1, <2>2, <2>3, <2>4 DEF Linked
<1>14. StringsHaveOneOwner'
  <2>1. ASSUME NEW r \in Requests PROVE StringsStay(r)
    <3>1. CASE r # q
      BY <1>2, <1>4, <1>5, <3>1, FreedAlone DEF StringsStay
    <3>2. CASE r = q /\ request[q].ref_count # 1
      <4>1. Own(q) \subseteq heap'
        BY <1>2, <1>4, <3>2, FreedAlone
      <4> QED BY <1>4, <1>5, <3>2, <4>1 DEF StringsStay
    <3>3. CASE r = q /\ request[q].ref_count = 1
      BY <1>5, <3>3 DEF StringsStay
    <3> QED BY <3>1, <3>2, <3>3
  <2> QED BY <1>1, <1>5, <2>1, StringsFrame
<1> QED BY <1>9, <1>11, <1>12, <1>13, <1>14 DEF HandlesInv

\* The session s takes the new request r for its current one, which was q.
LEMMA Replaced ==
    ASSUME HandlesInv, NEW s \in Sessions, session[s].life = "live",
           NEW q \in Requests, q = session[s].current_request,
           NEW r \in Requests, request[r].life = "unborn",
           session' \in [Sessions -> SessionRecord], OthersStay(s), session'[s].life = "live",
           session'[s].current_request = r, session'[s].current_response = session[s].current_response,
           request' \in [Requests -> RequestRecord], request'[q] = Released(request[q]),
           request'[r].life = "live", request'[r].session = s, ~request'[r].copied,
           request'[r].ref_count = HandlesTo(r)' + 1, request'[r].ref_count > 0,
           \A t \in Requests \ {q, r} : request'[t] = request[t],
           \A x \in Objects \ {r} : HandlesTo(x)' = HandlesTo(x), response' = response
    PROVE  Counted' /\ Linked'
<1>1. TypeOK /\ Counted /\ Linked
  BY DEF HandlesInv
<1>2. request \in [Requests -> RequestRecord] /\ response \in [Responses -> ResponseRecord]
  BY <1>1, TypesByRecord
<1>3. /\ session[s].current_response \in Responses /\ request[q].life = "live" /\ request[q].ref_count > 0
      /\ SessionsWith(r) = 0 /\ r # q
  <2>1. s \in Live(session) /\ r \in Fresh(request)
    BY <1>1, <1>2 DEF Live, Fresh, TypeOK
  <2> QED BY <2>1, WhatIsHeld
<1>4. /\ request'[q].ref_count = request[q].ref_count - 1 /\ request'[q].copied = request[q].copied
      /\ request'[q].life = (IF request[q].ref_count = 1 THEN "deleted" ELSE "live")
      /\ request'[q].session = request[q].session
  BY <1>2, <1>3, ReleasedRequest
<1>5. \A x \in Objects :
          SessionsWith(x)' = SessionsWith(x) + (IF x = r THEN 1 ELSE IF x = q THEN -1 ELSE 0)
  BY <1>1, <1>3, HoldersSwap
<1>6. \A x \in Objects \ {q, r} : SessionsWith(x)' = SessionsWith(x)
  BY <1>1, <1>5, CountsAreNumbers
<1>7. Counted'
  <2>1. RequestCounted(q)'
    <3>1. /\ request'[q].ref_count = request[q].ref_count + 0 + -1
          /\ SessionsWith(q)' = SessionsWith(q) + -1 /\ HandlesTo(q)' = HandlesTo(q) + 0
          /\ request'[q].life = "live" <=> request'[q].ref_count > 0
      BY <1>1, <1>2, <1>3, <1>4, <1>5, CountsAreNumbers DEF RequestRecord, Objects
    <3> QED BY <1>1, <1>4, <3>1, RequestCountStep DEF Counted
  <2>2. RequestCounted(r)'
    <3>1. SessionsWith(r)' = 1
      BY <1>3, <1>5 DEF Objects
    <3>2. HandlesTo(r)' \in Int
      <4>1. IsFiniteSet({h \in Handles : handle'[h] = r})
        BY FiniteAssumption, FS_Subset
      <4> QED BY <4>1, FS_CardinalityType DEF HandlesTo
    <3> QED BY <3>1, <3>2 DEF RequestCounted
  <2>3. \A t \in Requests \ {q, r} : RequestCounted(t)'
    BY <1>1, <1>6, RequestCountFrame DEF Counted, Objects
  <2>4. \A p \in Responses : HandlesTo(p)' = HandlesTo(p) /\ SessionsWith(p)' = SessionsWith(p)
    <3>1. \A p \in Responses : p \in Objects /\ p # q /\ p # r
      BY KindsAssumption DEF Objects
    <3> QED BY <1>6, <3>1
  <2> QED BY <1>1, <2>1, <2>2, <2>3, <2>4, ResponsesUntouched DEF Counted
<1>8. Linked'
  <2>1. SessionLinked(s)'
    <3>1. SessionLinked(s)
      BY <1>1 DEF Linked
    <3> QED BY <3>1 DEF SessionLinked
  <2>2. ASSUME NEW t \in Sessions \ {s} PROVE SessionLinked(t)'
    <3>1. SessionLinked(t) /\ session'[t] = session[t]
      BY <1>1 DEF Linked, OthersStay
    <3>2. CASE session[t].life = "unborn"
      BY <3>1, <3>2 DEF SessionLinked
    <3>3. CASE session[t].life # "unborn"
      <4>1. PICK u : u = session[t].current_request
        OBVIOUS
      <4>2. u \in Requests /\ u # r /\ request[u].life # "unborn"
        BY <3>1, <3>3, <4>1 DEF SessionLinked
      <4>3. request'[u].session = request[u].session /\ request'[u].life # "unborn"
        <5>1. CASE u = q
          BY <1>4, <5>1
        <5>2. CASE u # q
          BY <4>2, <5>2
        <5> QED BY <5>1, <5>2
      <4> QED BY <3>1, <3>3, <4>1, <4>2, <4>3 DEF SessionLinked
    <3> QED BY <3>2, <3>3
  <2>3. ASSUME NEW p \in Responses PROVE OwnerIsCurrent(p)'
    <3>1. OwnerIsCurrent(p) /\ response[p].session \in Sessions \cup {Nobody}
      BY <1>1, <1>2 DEF Linked, ResponseRecord
    <3> QED BY <3>1 DEF OwnerIsCurrent, OthersStay
  <2> QED BY <2>1, <2>2, <2>3 DEF Linked
<1> QED BY <1>7, <1>8

\* What reset_prelocked() leaves of the requests when s is not being configured ...
LEMMA ResetToNew ==
    ASSUME HandlesInv, NEW s \in Sessions, s \in Live(session), session[s].state # "configuring",
           NEW q, q = session[s].current_request, NEW r \in Requests, MayReset(s, r),
           NEW m, m = ResetRequest(s, r)
    PROVE  /\ q \in Requests /\ request[r].life = "unborn" /\ q # r
           /\ request[q].life = "live" /\ request[q].ref_count > 0
           /\ FreedByReset(s, request[q]) = FreedWith(request[q])
           /\ m \in [Requests -> RequestRecord] /\ m[q] = Released(request[q])
           /\ m[r].ref_count = 1 /\ m[r].life = "live" /\ m[r].session = s /\ ~m[r].copied
           /\ m[r].url = Nobody /\ m[r].verb = Nobody
           /\ \A t \in Requests \ {q, r} : m[t] = request[t]
<1>1. request \in [Requests -> RequestRecord]
  BY TypesByRecord DEF HandlesInv
<1>2. q \in Requests /\ request[q].life = "live" /\ request[q].ref_count > 0
  BY WhatIsHeld
<1>3. request[r].life = "unborn" /\ FreedByReset(s, request[q]) = FreedWith(request[q])
  BY DEF MayReset, Fresh, FreedByReset
<1>4. m = [request EXCEPT ![q] = Released(request[q]), ![r] = NewRequest(s)]
  BY <1>1, <1>2 DEF ResetRequest
<1>5. PICK u : u = NewRequest(s)
  OBVIOUS
<1>6. /\ u \in RequestRecord /\ u.ref_count = 1 /\ u.life = "live" /\ u.session = s /\ ~u.copied
      /\ u.url = Nobody /\ u.verb = Nobody
  BY <1>5, NewObjects
<1>7. Released(request[q]) \in RequestRecord /\ q # r
  BY <1>1, <1>2, <1>3, ReleasedRequest
<1>8. /\ m \in [Requests -> RequestRecord] /\ m[q] = Released(request[q]) /\ m[r] = u
      /\ \A t \in Requests \ {q, r} : m[t] = request[t]
  BY <1>1, <1>2, <1>4, <1>5, <1>6, <1>7
<1> QED BY <1>2, <1>3, <1>6, <1>7, <1>8

\* ... and when it is.
LEMMA ResetSame ==
    ASSUME HandlesInv, NEW s \in Sessions, s \in Live(session), session[s].state = "configuring",
           NEW q, q = session[s].current_request, NEW r \in Requests, MayReset(s, r),
           NEW m, m = ResetRequest(s, r)
    PROVE  /\ q = r /\ q \in Requests /\ request[q].life = "live" /\ request[q].ref_count > 0
           /\ FreedByReset(s, request[q]) = Own(q)
           /\ m \in [Requests -> RequestRecord]
           /\ m[q].ref_count = request[q].ref_count /\ m[q].life = "live"
           /\ m[q].session = request[q].session /\ m[q].copied = request[q].copied
           /\ m[q].url = Nobody /\ m[q].verb = Nobody
           /\ \A t \in Requests \ {q} : m[t] = request[t]
<1>1. request \in [Requests -> RequestRecord]
  BY TypesByRecord DEF HandlesInv
<1>2. q \in Requests /\ request[q].life = "live" /\ request[q].ref_count > 0
  BY WhatIsHeld
<1>3. q = r /\ FreedByReset(s, request[q]) = Own(q)
  BY DEF MayReset, FreedByReset, Own
<1>4. m = [request EXCEPT ![q].url = Nobody, ![q].verb = Nobody]
  BY <1>3 DEF ResetRequest
<1>5. PICK u : u = [request EXCEPT ![q].url = Nobody]
  OBVIOUS
<1>6. /\ u \in [Requests -> RequestRecord]
      /\ u[q].ref_count = request[q].ref_count /\ u[q].life = "live"
      /\ u[q].session = request[q].session /\ u[q].copied = request[q].copied /\ u[q].url = Nobody
      /\ \A t \in Requests \ {q} : u[t] = request[t]
  BY <1>1, <1>2, <1>5 DEF RequestRecord
<1>7. m = [u EXCEPT ![q].verb = Nobody]
  BY <1>4, <1>5
<1> QED BY <1>2, <1>3, <1>6, <1>7 DEF RequestRecord

\* reset()
LEMMA ResetKeeps ==
    ASSUME HandlesInv, NEW s \in Sessions, NEW h \in Handles, reset(s, h)
    PROVE  HandlesInv'
<1>0. PICK q : q = session[s].current_request
  OBVIOUS
<1>1. TypeOK /\ Counted /\ Linked /\ StringsHaveOneOwner /\ fault # "recursion"
  BY DEF HandlesInv
<1>2. PICK r \in Requests :
         /\ s \in Live(session) /\ handle[h] = Nobody /\ MayReset(s, r)
         /\ request' = [ResetRequest(s, r) EXCEPT ![r] = AddRef(@)]
         /\ session' = [session EXCEPT ![s].current_request = r]
         /\ heap' = heap \ FreedByReset(s, request[q]) /\ fault' \in {"none", "double_free"}
         /\ handle' = [handle EXCEPT ![h] = r] /\ response' = response
  BY <1>0 DEF reset
<1>3. PICK m : m = ResetRequest(s, r)
  OBVIOUS
<1>4. /\ session \in [Sessions -> SessionRecord] /\ request \in [Requests -> RequestRecord]
      /\ response \in [Responses -> ResponseRecord] /\ handle \in [Handles -> Objects \cup {Nobody}]
      /\ r \in Objects
  BY <1>1, TypesByRecord DEF Objects
<1>5. session[s].life = "live"
  BY <1>2 DEF Live
<1>6. /\ session' \in [Sessions -> SessionRecord] /\ OthersStay(s) /\ session'[s].life = "live"
      /\ session'[s].current_request = r /\ session'[s].current_response = session[s].current_response
  BY <1>2, <1>4, <1>5 DEF SessionRecord, OthersStay
<1>7. \A x \in Objects : HandlesTo(x)' = IF x = r THEN HandlesTo(x) + 1 ELSE HandlesTo(x)
  BY <1>1, <1>2, <1>4, HandleGiven
<1>8. heap' \subseteq Strings /\ handle' \in [Handles -> Objects \cup {Nobody}]
  BY <1>1, <1>2, <1>4 DEF TypeOK
<1>9. ASSUME m \in [Requests -> RequestRecord]
      PROVE  /\ request' \in [Requests -> RequestRecord]
             /\ request'[r].ref_count = m[r].ref_count + 1 /\ request'[r].life = m[r].life
             /\ request'[r].session = m[r].session /\ request'[r].copied = m[r].copied
             /\ request'[r].url = m[r].url /\ request'[r].verb = m[r].verb
             /\ \A t \in Requests \ {r} : request'[t] = m[t]
  <2>1. request' = [m EXCEPT ![r] = AddRef(m[r])]
    BY <1>2, <1>3, <1>9
  <2> QED BY <1>9, <2>1, AddRefRequest
<1>10. CASE session[s].state # "configuring"
  <2>1. /\ q \in Requests /\ request[r].life = "unborn" /\ q # r
        /\ request[q].life = "live" /\ request[q].ref_count > 0
        /\ FreedByReset(s, request[q]) = FreedWith(request[q])
        /\ m \in [Requests -> RequestRecord] /\ m[q] = Released(request[q])
        /\ m[r].ref_count = 1 /\ m[r].life = "live" /\ m[r].session = s /\ ~m[r].copied
        /\ m[r].url = Nobody /\ m[r].verb = Nobody
        /\ \A t \in Requests \ {q, r} : m[t] = request[t]
    BY <1>0, <1>2, <1>3, <1>10, ResetToNew
  <2>2. /\ request' \in [Requests -> RequestRecord] /\ request'[q] = Released(request[q])
        /\ request'[r].ref_count = 2 /\ request'[r].life = "live"
        /\ request'[r].session = s /\ ~request'[r].copied
        /\ request'[r].url = Nobody /\ request'[r].verb = Nobody
        /\ \A t \in Requests \ {q, r} : request'[t] = request[t]
    BY <1>9, <2>1
  <2>3. HandlesTo(r)' = 1
    <3>1. HandlesTo(r) = 0
      BY <1>4, <2>1, WhatIsHeld DEF Fresh
    <3> QED BY <1>4, <1>7, <3>1
  <2>4. Counted' /\ Linked'
    <3>1. request'[r].ref_count = HandlesTo(r)' + 1 /\ request'[r].ref_count > 0
      BY <2>2, <2>3
    <3>2. \A x \in Objects \ {r} : HandlesTo(x)' = HandlesTo(x)
      BY <1>7
    <3> QED BY <1>0, <1>2, <1>5, <1>6, <2>1, <2>2, <3>1, <3>2, Replaced
  <2>5. StringsHaveOneOwner'
    <3>1. /\ request'[q].life = (IF request[q].ref_count = 1 THEN "deleted" ELSE "live")
          /\ request'[q].url = request[q].url /\ request'[q].verb = request[q].verb
      BY <1>4, <2>1, <2>2, ReleasedRequest
    <3>2. ASSUME NEW t \in Requests PROVE StringsStay(t)
      <4>1. CASE t = r
        BY <2>2, <4>1 DEF StringsStay
      <4>2. CASE t \notin {q, r}
        BY <1>2, <2>1, <2>2, <4>2, FreedAlone DEF StringsStay
      <4>3. CASE t = q /\ request[q].ref_count # 1
        <5>1. FreedWith(request[q]) = {} /\ Own(q) \subseteq heap
          BY <2>1, <4>3, FreedAlone
        <5>2. heap' = heap \ FreedWith(request[q])
          BY <1>2, <2>1
        <5> QED BY <2>1, <3>1, <4>3, <5>1, <5>2 DEF StringsStay
      <4>4. CASE t = q /\ request[q].ref_count = 1
        BY <3>1, <4>4 DEF StringsStay
      <4> QED BY <4>1, <4>2, <4>3, <4>4
    <3> QED BY <1>1, <2>2, <3>2, StringsFrame
  <2>6. TypeOK'
    BY <1>2, <1>4, <1>6, <1>8, <2>2, TypesNext
  <2> QED BY <1>2, <2>4, <2>5, <2>6 DEF HandlesInv
<1>11. CASE session[s].state = "configuring"
  <2>1. /\ q = r /\ q \in Requests /\ request[q].life = "live" /\ request[q].ref_count > 0
        /\ FreedByReset(s, request[q]) = Own(q)
        /\ m \in [Requests -> RequestRecord]
        /\ m[q].ref_count = request[q].ref_count /\ m[q].life = "live"
        /\ m[q].session = request[q].session /\ m[q].copied = request[q].copied
        /\ m[q].url = Nobody /\ m[q].verb = Nobody
        /\ \A t \in Requests \ {q} : m[t] = request[t]
    BY <1>0, <1>2, <1>3, <1>11, ResetSame
  <2>2. /\ request' \in [Requests -> RequestRecord]
        /\ request'[q].ref_count = request[q].ref_count + 1 /\ request'[q].life = "live"
        /\ request'[q].session = request[q].session /\ request'[q].copied = request[q].copied
        /\ request'[q].url = Nobody /\ request'[q].verb = Nobody
        /\ \A t \in Requests \ {q} : request'[t] = request[t]
    BY <1>9, <2>1
  <2>3. SameHolders
    BY <1>0, <1>4, <1>5, <1>6, <2>1 DEF SameHolders, OthersStay
  <2>4. \A x : SessionsWith(x)' = SessionsWith(x)
    BY <1>1, <2>3, HoldersSame
  <2>5. \A p \in Responses : HandlesTo(p)' = HandlesTo(p) /\ SessionsWith(p)' = SessionsWith(p)
    <3>1. \A p \in Responses : p \in Objects /\ p # r
      BY KindsAssumption DEF Objects
    <3> QED BY <1>7, <2>4, <3>1
  <2>6. Counted'
    <3>1. RequestCounted(q)'
      <4>1. /\ request'[q].ref_count = request[q].ref_count + 1 + 0 /\ request'[q].ref_count > 0
            /\ SessionsWith(q)' = SessionsWith(q) + 0 /\ HandlesTo(q)' = HandlesTo(q) + 1
        BY <1>1, <1>4, <1>7, <2>1, <2>2, <2>4, CountsAreNumbers DEF RequestRecord
      <4> QED BY <1>1, <2>1, <2>2, <4>1, RequestCountStep DEF Counted
    <3>2. \A t \in Requests \ {q} : RequestCounted(t)'
      BY <1>1, <1>7, <2>1, <2>2, <2>4, RequestCountFrame DEF Counted, Objects
    <3> QED BY <1>1, <1>2, <2>5, <3>1, <3>2, ResponsesUntouched DEF Counted
  <2>7. Linked'
    <3>1. \A t \in Requests : RequestLinkStays(t)
      BY <2>1, <2>2 DEF RequestLinkStays
    <3> QED BY <1>1, <1>2, <2>3, <2>5, <3>1, ResponsesUntouched, LinksFrame
  <2>8. StringsHaveOneOwner'
    <3>1. \A t \in Requests : StringsStay(t)
      BY <1>2, <2>1, <2>2, FreedAlone DEF StringsStay
    <3> QED BY <1>1, <2>2, <3>1, StringsFrame
  <2>9. TypeOK'
    BY <1>2, <1>4, <1>6, <1>8, <2>2, TypesNext
  <2> QED BY <1>2, <2>6, <2>7, <2>8, <2>9 DEF HandlesInv
<1> QED BY <1>10, <1>11

\* The request o with a url and the verb of an http method.
WithUrl(o, url) == [[o EXCEPT !.url = url] EXCEPT !.verb = "standard"]

LEMMA Configured ==
    ASSUME NEW o \in RequestRecord, NEW url \in Strings \cup {Nobody}
    PROVE  /\ WithUrl(o, url) \in RequestRecord
           /\ WithUrl(o, url).ref_count = o.ref_count /\ WithUrl(o, url).life = o.life
           /\ WithUrl(o, url).session = o.session /\ WithUrl(o, url).copied = o.copied
           /\ WithUrl(o, url).url = url /\ WithUrl(o, url).verb = "standard"
<1>1. PICK u : u = [o EXCEPT !.url = url]
  OBVIOUS
<1>2. /\ u \in RequestRecord /\ u.url = url /\ u.ref_count = o.ref_count /\ u.life = o.life
      /\ u.session = o.session /\ u.copied = o.copied
  BY <1>1 DEF RequestRecord
<1>3. PICK w : w = [u EXCEPT !.verb = "standard"]
  OBVIOUS
<1>4. w \in RequestRecord
  BY <1>2, <1>3 DEF RequestRecord
<1>5. /\ w.url = url /\ w.verb = "standard" /\ w.ref_count = o.ref_count /\ w.life = o.life
      /\ w.session = o.session /\ w.copied = o.copied
  BY <1>2, <1>3 DEF RequestRecord
<1>6. WithUrl(o, url) = w
  BY <1>1, <1>3 DEF WithUrl
<1> QED BY <1>4, <1>5, <1>6

\* start_get() while the session is busy or idle: the new request stays.
LEMMA StartGetTooLate ==
    ASSUME HandlesInv, NEW s \in Sessions, s \in Live(session),
           session[s].state # "configuring", NEW q, q = session[s].current_request,
           NEW r \in Requests, MayReset(s, r), NEW url \in Strings \cup {Nobody},
           url \notin heap \ FreedByReset(s, request[q]),
           NEW m, m = ResetRequest(s, r), request' = [m EXCEPT ![r] = WithUrl(m[r], url)],
           session' = [session EXCEPT ![s].current_request = r],
           heap' = (heap \ FreedByReset(s, request[q])) \cup ({url} \cap Strings),
           fault' \in {"none", "double_free"}, handle' = handle, response' = response
    PROVE  HandlesInv'
<1>1. TypeOK /\ Counted /\ Linked /\ StringsHaveOneOwner
  BY DEF HandlesInv
<1>2. /\ session \in [Sessions -> SessionRecord] /\ request \in [Requests -> RequestRecord]
      /\ response \in [Responses -> ResponseRecord] /\ handle \in [Handles -> Objects \cup {Nobody}]
      /\ r \in Objects /\ session[s].life = "live"
  BY <1>1, TypesByRecord DEF Objects, Live
<1>3. /\ session' \in [Sessions -> SessionRecord] /\ OthersStay(s) /\ session'[s].life = "live"
      /\ session'[s].current_request = r /\ session'[s].current_response = session[s].current_response
  BY <1>2 DEF SessionRecord, OthersStay
<1>4. /\ q \in Requests /\ request[r].life = "unborn" /\ q # r
      /\ request[q].life = "live" /\ request[q].ref_count > 0
      /\ FreedByReset(s, request[q]) = FreedWith(request[q])
      /\ m \in [Requests -> RequestRecord] /\ m[q] = Released(request[q])
      /\ m[r].ref_count = 1 /\ m[r].life = "live" /\ m[r].session = s /\ ~m[r].copied
      /\ \A t \in Requests \ {q, r} : m[t] = request[t]
  BY ResetToNew
<1>5. /\ request' \in [Requests -> RequestRecord] /\ request'[q] = Released(request[q])
      /\ request'[r].ref_count = 1 /\ request'[r].life = "live"
      /\ request'[r].session = s /\ ~request'[r].copied
      /\ request'[r].url = url /\ request'[r].verb = "standard"
      /\ \A t \in Requests \ {q, r} : request'[t] = request[t]
  BY <1>4, Configured
<1>6. TypeOK'
  <2>1. heap' \subseteq Strings
    BY <1>1 DEF TypeOK
  <2> QED BY <1>2, <1>3, <1>5, <2>1, TypesNext
<1>7. Counted' /\ Linked'
  <2>1. \A x : HandlesTo(x)' = HandlesTo(x)
    BY HandlesSame
  <2>2. HandlesTo(r) = 0
    BY <1>2, <1>4, WhatIsHeld DEF Fresh
  <2>3. request'[r].ref_count = HandlesTo(r)' + 1 /\ request'[r].ref_count > 0
    BY <1>5, <2>1, <2>2
  <2> QED BY <1>2, <1>3, <1>4, <1>5, <2>1, <2>3, Replaced
<1>8. StringsHaveOneOwner'
  <2>1. /\ request'[q].life = (IF request[q].ref_count = 1 THEN "deleted" ELSE "live")
        /\ request'[q].url = request[q].url /\ request'[q].verb = request[q].verb
    BY <1>2, <1>4, <1>5, ReleasedRequest
  <2>2. ASSUME NEW t \in Requests \ {r}, request[t].life = "live", request'[t].life = "live"
        PROVE  Own(t) \subseteq heap \ FreedWith(request[q])
    <3>1. CASE t # q
      BY <1>4, <2>2, <3>1, FreedAlone
    <3>2. CASE t = q
      <4>1. request[q].ref_count # 1
        BY <2>1, <2>2, <3>2
      <4>2. FreedWith(request[q]) = {} /\ Own(q) \subseteq heap
        BY <1>4, <4>1, FreedAlone
      <4> QED BY <3>2, <4>2
    <3> QED BY <3>1, <3>2
  <2>3. \A t \in Requests \ {r} : StringsStay(t)
    <3> SUFFICES ASSUME NEW t \in Requests \ {r}, request'[t].life = "live" PROVE StringsStay(t)
      BY DEF StringsStay
    <3>1. request[t].life = "live" /\ request'[t].url = request[t].url /\ request'[t].verb = request[t].verb
      BY <1>4, <1>5, <2>1
    <3> QED BY <1>4, <2>2, <3>1 DEF StringsStay
  <2>4. Own(r)' = {url} \cap Strings /\ request'[r].url # request'[r].verb
    BY <1>5, KindsAssumption DEF Own
  <2>5. \A t \in Requests \ {r} : request[t].life = "live" /\ request'[t].life = "live" => Own(r)' \cap Own(t) = {}
    BY <1>4, <2>2, <2>4
  <2> QED BY <1>1, <1>5, <2>3, <2>4, <2>5, StringsStep
<1> QED BY <1>6, <1>7, <1>8 DEF HandlesInv

\* start_get() while the session is being configured: the current request gets
\* the url, and a handle the response.
LEMMA StartGetInTime ==
    ASSUME HandlesInv, NEW s \in Sessions, NEW h \in Handles, s \in Live(session), handle[h] = Nobody,
           session[s].state = "configuring", NEW q, q = session[s].current_request,
           NEW p, p = session[s].current_response,
           NEW r \in Requests, MayReset(s, r), NEW url \in Strings,
           url \notin heap \ FreedByReset(s, request[q]),
           NEW m, m = ResetRequest(s, r), request' = [m EXCEPT ![r] = WithUrl(m[r], url)],
           session' = [session EXCEPT ![s].state = "busy"],
           heap' = (heap \ FreedByReset(s, request[q])) \cup {url}, fault' \in {"none", "double_free"},
           handle' = [handle EXCEPT ![h] = p], response' = [response EXCEPT ![p] = AddRef(response[p])]
    PROVE  HandlesInv'
<1>1. TypeOK /\ Counted /\ Linked /\ StringsHaveOneOwner
  BY DEF HandlesInv
<1>2. /\ session \in [Sessions -> SessionRecord] /\ request \in [Requests -> RequestRecord]
      /\ response \in [Responses -> ResponseRecord] /\ handle \in [Handles -> Objects \cup {Nobody}]
      /\ session[s].life = "live"
  BY <1>1, TypesByRecord DEF Live
<1>3. p \in Responses /\ p \in Objects /\ response[p].life = "live" /\ response[p].ref_count > 0
  BY WhatIsHeld DEF Objects
<1>4. /\ q = r /\ q \in Requests /\ request[q].life = "live" /\ request[q].ref_count > 0
      /\ FreedByReset(s, request[q]) = Own(q)
      /\ m \in [Requests -> RequestRecord]
      /\ m[q].ref_count = request[q].ref_count /\ m[q].life = "live"
      /\ m[q].session = request[q].session /\ m[q].copied = request[q].copied
      /\ \A t \in Requests \ {q} : m[t] = request[t]
  BY ResetSame
<1>5. session' \in [Sessions -> SessionRecord] /\ SameHolders
  BY <1>2 DEF SessionRecord, SameHolders
<1>6. /\ request' \in [Requests -> RequestRecord]
      /\ request'[q].ref_count = request[q].ref_count /\ request'[q].life = "live"
      /\ request'[q].session = request[q].session /\ request'[q].copied = request[q].copied
      /\ request'[q].url = url /\ request'[q].verb = "standard"
      /\ \A t \in Requests \ {q} : request'[t] = request[t]
  BY <1>4, Configured
<1>7. /\ response' \in [Responses -> ResponseRecord]
      /\ response'[p].ref_count = response[p].ref_count + 1 /\ response'[p].life = "live"
      /\ response'[p].session = response[p].session
      /\ response'[p].session_owned_by_me = response[p].session_owned_by_me
      /\ \A t \in Responses \ {p} : response'[t] = response[t]
  BY <1>2, <1>3, AddRefResponse
<1>8. TypeOK'
  <2>1. heap' \subseteq Strings /\ handle' \in [Handles -> Objects \cup {Nobody}]
    BY <1>1, <1>2, <1>3 DEF TypeOK
  <2> QED BY <1>5, <1>6, <1>7, <2>1, TypesNext
<1>9. /\ \A x : SessionsWith(x)' = SessionsWith(x)
      /\ \A x \in Objects : HandlesTo(x)' = IF x = p THEN HandlesTo(x) + 1 ELSE HandlesTo(x)
  BY <1>1, <1>3, <1>5, HoldersSame, HandleGiven
<1>10. Counted'
  <2>1. ResponseCounted(p)'
    <3>1. /\ response'[p].ref_count = response[p].ref_count + 1 + 0 /\ response'[p].ref_count > 0
          /\ SessionsWith(p)' = SessionsWith(p) + 0 /\ HandlesTo(p)' = HandlesTo(p) + 1
      BY <1>1, <1>2, <1>3, <1>7, <1>9, CountsAreNumbers DEF ResponseRecord
    <3> QED BY <1>1, <1>3, <1>7, <3>1, ResponseCountStep DEF Counted
  <2>2. \A t \in Responses \ {p} : ResponseCounted(t)'
    BY <1>1, <1>7, <1>9, ResponseCountFrame DEF Counted, Objects
  <2>3. \A t \in Requests : RequestCounted(t)'
    <3>1. \A t \in Requests : t \in Objects /\ t # p
      BY <1>3, KindsAssumption DEF Objects
    <3>2. \A t \in Requests : HandlesTo(t)' = HandlesTo(t) /\ SessionsWith(t)' = SessionsWith(t)
      BY <1>9, <3>1
    <3> QED BY <1>1, <1>4, <1>6, <3>2, RequestCountFrame DEF Counted
  <2> QED BY <2>1, <2>2, <2>3 DEF Counted
<1>11. Linked'
  <2>1. \A t \in Requests : RequestLinkStays(t)
    BY <1>6 DEF RequestLinkStays
  <2>2. \A t \in Responses : ResponseLinkStays(t)
    BY <1>7 DEF ResponseLinkStays
  <2> QED BY <1>1, <1>5, <2>1, <2>2, LinksFrame
<1>12. StringsHaveOneOwner'
  <2>1. \A t \in Requests \ {q} : request[t].life = "live" => Own(t) \subseteq heap \ Own(q)
    BY <1>4, FreedAlone
  <2>2. \A t \in Requests \ {q} : StringsStay(t)
    BY <1>4, <1>6, <2>1 DEF StringsStay
  <2>3. Own(q)' = {url} /\ request'[q].url # request'[q].verb
    BY <1>6, KindsAssumption DEF Own
  <2>4. \A t \in Requests \ {q} : request[t].life = "live" => Own(q)' \cap Own(t) = {}
    BY <1>4, <2>1, <2>3
  <2> QED BY <1>1, <1>4, <1>6, <2>2, <2>3, <2>4, StringsStep
<1> QED BY <1>8, <1>10, <1>11, <1>12 DEF HandlesInv

\* start_get() that throws while the session is being configured, without a
\* channel or without a url: the current request has what it was given.
LEMMA StartGetUnsent ==
    ASSUME HandlesInv, NEW s \in Sessions, s \in Live(session),
           session[s].state = "configuring", NEW q, q = session[s].current_request,
           NEW r \in Requests, MayReset(s, r), NEW url \in Strings \cup {Nobody},
           url \notin heap \ FreedByReset(s, request[q]),
           NEW m, m = ResetRequest(s, r), request' = [m EXCEPT ![r] = WithUrl(m[r], url)],
           heap' = (heap \ FreedByReset(s, request[q])) \cup ({url} \cap Strings),
           fault' \in {"none", "double_free"}, session' = session, handle' = handle, response' = response
    PROVE  HandlesInv'
<1>1. TypeOK /\ Counted /\ Linked /\ StringsHaveOneOwner
  BY DEF HandlesInv
<1>2. /\ session \in [Sessions -> SessionRecord] /\ request \in [Requests -> RequestRecord]
      /\ response \in [Responses -> ResponseRecord] /\ handle \in [Handles -> Objects \cup {Nobody}]
  BY <1>1, TypesByRecord
<1>3. /\ q = r /\ q \in Requests /\ request[q].life = "live" /\ request[q].ref_count > 0
      /\ FreedByReset(s, request[q]) = Own(q)
      /\ m \in [Requests -> RequestRecord]
      /\ m[q].ref_count = request[q].ref_count /\ m[q].life = "live"
      /\ m[q].session = request[q].session /\ m[q].copied = request[q].copied
      /\ \A t \in Requests \ {q} : m[t] = request[t]
  BY ResetSame
<1>4. /\ request' \in [Requests -> RequestRecord]
      /\ request'[q].ref_count = request[q].ref_count /\ request'[q].life = "live"
      /\ request'[q].session = request[q].session /\ request'[q].copied = request[q].copied
      /\ request'[q].url = url /\ request'[q].verb = "standard"
      /\ \A t \in Requests \ {q} : request'[t] = request[t]
  BY <1>3, Configured
<1>5. SameHolders
  BY DEF SameHolders
<1>6. TypeOK'
  <2>1. heap' \subseteq Strings
    BY <1>1 DEF TypeOK
  <2> QED BY <1>2, <1>4, <2>1, TypesNext
<1>7. /\ \A x : SessionsWith(x)' = SessionsWith(x)
      /\ \A x : HandlesTo(x)' = HandlesTo(x)
  BY <1>1, <1>5, HoldersSame, HandlesSame
<1>8. Counted'
  <2>1. \A t \in Requests : RequestCounted(t)'
    BY <1>1, <1>3, <1>4, <1>7, RequestCountFrame DEF Counted
  <2> QED BY <1>1, <1>7, <2>1, ResponsesUntouched DEF Counted
<1>9. Linked'
  <2>1. \A t \in Requests : RequestLinkStays(t)
    BY <1>4 DEF RequestLinkStays
  <2> QED BY <1>1, <1>5, <1>7, <2>1, ResponsesUntouched, LinksFrame
<1>10. StringsHaveOneOwner'
  <2>1. \A t \in Requests \ {q} : request[t].life = "live" => Own(t) \subseteq heap \ Own(q)
    BY <1>3, FreedAlone
  <2>2. \A t \in Requests \ {q} : StringsStay(t)
    BY <1>3, <1>4, <2>1 DEF StringsStay
  <2>3. Own(q)' = {url} \cap Strings /\ request'[q].url # request'[q].verb
    BY <1>4, KindsAssumption DEF Own
  <2>4. \A t \in Requests \ {q} : request[t].life = "live" => Own(q)' \cap Own(t) = {}
    BY <1>3, <2>1, <2>3
  <2> QED BY <1>1, <1>3, <1>4, <2>2, <2>3, <2>4, StringsStep
<1> QED BY <1>6, <1>8, <1>9, <1>10 DEF HandlesInv

LEMMA StartGetKeeps ==
    ASSUME HandlesInv, NEW s \in Sessions, NEW h \in Handles, start_get(s, h)
    PROVE  HandlesInv'
<1>0. PICK q, p : q = session[s].current_request /\ p = session[s].current_response
  OBVIOUS
<1>1. PICK r \in Requests, url \in Strings \cup {Nobody}, sent \in BOOLEAN :
         /\ sent => session[s].state = "configuring" /\ url \in Strings
         /\ s \in Live(session) /\ handle[h] = Nobody /\ MayReset(s, r)
         /\ url \notin heap \ FreedByReset(s, request[q])
         /\ request' = [ResetRequest(s, r) EXCEPT ![r].url = url, ![r].verb = "standard"]
         /\ session' = [session EXCEPT ![s].current_request = r, ![s].state = IF sent THEN "busy" ELSE @]
         /\ heap' = (heap \ FreedByReset(s, request[q])) \cup ({url} \cap Strings)
         /\ fault' \in {"none", "double_free"}
         /\ handle' = [handle EXCEPT ![h] = IF sent THEN p ELSE Nobody]
         /\ response' = [response EXCEPT ![p] = IF sent THEN AddRef(@) ELSE @]
  <2>1. PICK r \in Requests, url \in Strings \cup {Nobody}, detached \in BOOLEAN :
         LET freed == FreedByReset(s, request[session[s].current_request])
             sent == session[s].state = "configuring" /\ url # Nobody /\ ~detached
             answer == session[s].current_response
         IN
         /\ s \in Live(session) /\ session[s].visible /\ handle[h] = Nobody /\ MayReset(s, r)
         /\ url \notin heap \ freed
         /\ request' = [ResetRequest(s, r) EXCEPT ![r].url = url, ![r].verb = "standard"]
         /\ session' = [session EXCEPT ![s].current_request = r, ![s].state = IF sent THEN "busy" ELSE @]
         /\ heap' = (heap \ freed) \cup ({url} \cap Strings)
         /\ fault' = IF FreesTwice(freed) THEN "double_free" ELSE "none"
         /\ handle' = [handle EXCEPT ![h] = IF sent THEN answer ELSE Nobody]
         /\ response' = [response EXCEPT ![answer] = IF sent THEN AddRef(@) ELSE @]
    BY Zenon DEF start_get
  <2> DEFINE done == session[s].state = "configuring" /\ url # Nobody /\ ~detached
  <2>2. done \in BOOLEAN /\ (done => session[s].state = "configuring" /\ url \in Strings)
    OBVIOUS
  <2>3. fault' \in {"none", "double_free"}
    BY <2>1
  <2>4. /\ s \in Live(session) /\ handle[h] = Nobody /\ MayReset(s, r)
        /\ url \notin heap \ FreedByReset(s, request[q])
        /\ request' = [ResetRequest(s, r) EXCEPT ![r].url = url, ![r].verb = "standard"]
        /\ session' = [session EXCEPT ![s].current_request = r, ![s].state = IF done THEN "busy" ELSE @]
        /\ heap' = (heap \ FreedByReset(s, request[q])) \cup ({url} \cap Strings)
        /\ handle' = [handle EXCEPT ![h] = IF done THEN p ELSE Nobody]
        /\ response' = [response EXCEPT ![p] = IF done THEN AddRef(@) ELSE @]
    BY <1>0, <2>1
  <2> HIDE DEF done
  <2> QED BY <2>2, <2>3, <2>4
<1>2. /\ session \in [Sessions -> SessionRecord] /\ response \in [Responses -> ResponseRecord]
      /\ handle \in [Handles -> Objects \cup {Nobody}]
  BY TypesByRecord DEF HandlesInv
<1>3. PICK m : m = ResetRequest(s, r)
  OBVIOUS
<1>4. request' = [m EXCEPT ![r] = WithUrl(m[r], url)]
  BY <1>1, <1>3 DEF WithUrl
<1>5. /\ s \in Live(session) /\ handle[h] = Nobody /\ MayReset(s, r)
      /\ url \notin heap \ FreedByReset(s, request[q])
      /\ heap' = (heap \ FreedByReset(s, request[q])) \cup ({url} \cap Strings)
      /\ fault' \in {"none", "double_free"}
  BY <1>1
<1>6. CASE sent
  <2>0. session[s].state = "configuring" /\ url \in Strings /\ {url} \cap Strings = {url}
    BY <1>1, <1>6
  <2>1. session' = [session EXCEPT ![s].current_request = r, ![s].state = "busy"]
    BY <1>1, <1>6
  <2>2. r = session[s].current_request
    BY <1>1, <2>0 DEF MayReset
  <2>3. session' = [session EXCEPT ![s].state = "busy"]
    BY <1>2, <2>1, <2>2 DEF SessionRecord
  <2>4. handle' = [handle EXCEPT ![h] = p] /\ response' = [response EXCEPT ![p] = AddRef(response[p])]
    BY <1>1, <1>6
  <2> QED BY <1>0, <1>3, <1>4, <1>5, <2>0, <2>3, <2>4, StartGetInTime
<1>7. CASE ~sent
  <2>1. /\ session' = [session EXCEPT ![s].current_request = r]
        /\ handle' = handle /\ response' = response
    <3>1. handle' = handle
      BY <1>1, <1>2, <1>7
    <3>2. response' = response
      BY <1>1, <1>2, <1>7
    <3>3. session' = [session EXCEPT ![s].current_request = r]
      BY <1>1, <1>2, <1>7 DEF SessionRecord
    <3> QED BY <3>1, <3>2, <3>3
  <2>2. CASE session[s].state = "configuring"
    <3>1. r = session[s].current_request
      BY <1>1, <2>2 DEF MayReset
    <3>2. session' = session
      BY <1>2, <2>1, <3>1 DEF SessionRecord
    <3> QED BY <1>0, <1>3, <1>4, <1>5, <2>1, <2>2, <3>2, StartGetUnsent
  <2>3. CASE session[s].state # "configuring"
    BY <1>0, <1>3, <1>4, <1>5, <2>1, <2>3, StartGetTooLate
  <2> QED BY <2>2, <2>3
<1> QED BY <1>6, <1>7
-----------------------------------------------------------------------------
\* The invariant

LEMMA HandlesInvStep == HandlesInv /\ [Next]_vars => HandlesInv'
<1> SUFFICES ASSUME HandlesInv, [Next]_vars PROVE HandlesInv'
  OBVIOUS
<1>1. CASE NewSession
  BY <1>1, NewSessionKeeps
<1>2. ASSUME NEW s \in Sessions, DeleteSession(s) \/ cleanup_after_transfer(s) PROVE HandlesInv'
  BY <1>2, DeleteSessionKeeps, CleanupKeeps
<1>3. ASSUME NEW s \in Sessions, NEW n \in Chunks, store_bytes(s, n) PROVE HandlesInv'
  BY <1>3, StoreBytesKeeps
<1>4. ASSUME NEW s \in Sessions, NEW h \in Handles, reset(s, h) \/ start_get(s, h) \/ send(s, h) PROVE HandlesInv'
  BY <1>4, ResetKeeps, StartGetKeeps, SendKeeps
<1>5. ASSUME NEW s \in Sessions, NEW h \in Handles,
             get(s, h) \/ get_current_request(s, h) \/ get_current_response(s, h)
      PROVE  HandlesInv'
  BY <1>5, GetKeeps, GetCurrentRequestKeeps, GetCurrentResponseKeeps
<1>6. ASSUME NEW g \in Handles, NEW h \in Handles, CopyRequest(g, h) \/ CopyResponse(g, h) \/ MoveHandle(g, h)
      PROVE  HandlesInv'
  BY <1>6, CopyRequestKeeps, CopyResponseKeeps, MoveHandleKeeps
<1>7. ASSUME NEW h \in Handles,
             StartGetInvisible(h) \/ DestroyRequest(h) \/ DestroyResponse(h) \/ SetUrl(h) \/ SetVerb(h) \/ FollowSession(h)
      PROVE  HandlesInv'
  BY <1>7, StartGetInvisibleKeeps, DestroyRequestKeeps, DestroyResponseKeeps, SetStringKeeps, FollowSessionKeeps
<1>8. CASE UNCHANGED vars
  <2>1. TypeOK' /\ Linked' /\ StringsHaveOneOwner' /\ fault' # "recursion"
    BY <1>8 DEF HandlesInv, vars, TypeOK, Linked, SessionLinked, OwnerIsCurrent, StringsHaveOneOwner, Live
  <2>2. Counted'
    <3>1. \A x : HandlesTo(x)' = HandlesTo(x) /\ SessionsWith(x)' = SessionsWith(x)
      BY <1>8 DEF vars, HandlesTo, SessionsWith, Live
    <3> QED BY <1>8, <3>1 DEF HandlesInv, vars, Counted, RequestCounted, ResponseCounted
  <2> QED BY <2>1, <2>2 DEF HandlesInv
<1> QED BY <1>1, <1>2, <1>3, <1>4, <1>5, <1>6, <1>7, <1>8 DEF Next

LEMMA HandlesInvInit == Init => HandlesInv
<1> SUFFICES ASSUME Init PROVE HandlesInv
  OBVIOUS
<1>1. TypeOK
  <2>1. 0 \in 0 .. Cap - 1
    BY CapAssumption
  <2>2. NoSession \in SessionRecord
    BY DEF NoSession, SessionRecord, Lives
  <2>3. NoRequest \in RequestRecord
    BY DEF NoRequest, RequestRecord, Lives
  <2>4. NoResponse \in ResponseRecord
    BY <2>1 DEF NoResponse, ResponseRecord, Lives
  <2> QED BY <2>2, <2>3, <2>4, TypesByRecord DEF Init
<1>2. Counted
  <2>1. \A x \in Objects : Owners(x) = {} /\ Holders(x) = {}
    BY NobodyAssumption DEF Init, Objects, Owners, Holders, Live, NoSession
  <2>2. \A x \in Objects : HandlesTo(x) = 0 /\ SessionsWith(x) = 0
    BY <1>1, <2>1, CountsAreNumbers
  <2> QED BY <2>2 DEF Init, Objects, Counted, RequestCounted, ResponseCounted, NoRequest, NoResponse
<1>3. Linked
  BY DEF Init, Linked, SessionLinked, OwnerIsCurrent, NoSession, NoResponse
<1>4. StringsHaveOneOwner
  BY DEF Init, StringsHaveOneOwner, Live, NoRequest
<1> QED BY <1>1, <1>2, <1>3, <1>4 DEF HandlesInv, Init

LEMMA HandlesInvHolds == Spec => []HandlesInv
BY HandlesInvInit, HandlesInvStep, PTL DEF Spec

\* Type correctness: in particular reference counts do not fall below zero, and
\* the stored part of a body, with its terminating zero, stays within
\* max_stored_response_size however the chunks are cut.
THEOREM HandlesTypeOK == Spec => []TypeOK
<1>1. HandlesInv => TypeOK
  BY DEF HandlesInv
<1> QED BY <1>1, HandlesInvHolds, PTL

\* The count of every response, and of every request that was not made by
\* copying, is the number of handles and live sessions that hold it, and it
\* lives exactly as long as that is not zero: release_ref() never deletes what
\* is still held, and leaves nothing. The copy of a request has one reference
\* more than holders (request.cpp:41-43), so it is never deleted.
THEOREM HandlesRefCountIsExact == Spec => []RefCountIsExact
<1>1. HandlesInv => RefCountIsExact
  <2> SUFFICES ASSUME HandlesInv PROVE RefCountIsExact
    OBVIOUS
  <2>1. ASSUME NEW q \in Requests, request[q].copied PROVE request[q].life = "live"
    <3>1. RequestCounted(q) /\ request[q].ref_count = HandlesTo(q) + SessionsWith(q) + 1
      BY <2>1 DEF HandlesInv, Counted, RequestCounted
    <3>2. HandlesTo(q) \in Nat /\ SessionsWith(q) \in Nat
      BY CountsAreNumbers DEF HandlesInv
    <3>3. request[q].ref_count > 0
      BY <3>1, <3>2
    <3> QED BY <3>1, <3>3 DEF RequestCounted
  <2> QED BY <2>1 DEF HandlesInv, Counted, RequestCounted, ResponseCounted, RefCountIsExact
<1> QED BY <1>1, HandlesInvHolds, PTL

\* The current objects of a session point back to it while it lives and not
\* afterwards, and ~impl_t of a response never deletes the session whose
\* destructor is deleting that response.
THEOREM HandlesCurrentsPointBack == Spec => []CurrentsPointBack
<1>1. HandlesInv => CurrentsPointBack
  <2> SUFFICES ASSUME HandlesInv PROVE CurrentsPointBack
    OBVIOUS
  <2>1. \A s \in Live(session) : s \in Sessions /\ session[s].life = "live"
    BY DEF HandlesInv, TypeOK, Live
  <2> QED BY <2>1 DEF HandlesInv, Linked, SessionLinked, CurrentsPointBack
<1> QED BY <1>1, HandlesInvHolds, PTL

\* No two live requests own the same url or verb, and none owns a string that
\* was freed: requests free their own strings, once.
THEOREM HandlesStringsHaveOneOwner == Spec => []StringsHaveOneOwner
<1>1. HandlesInv => StringsHaveOneOwner
  BY DEF HandlesInv
<1> QED BY <1>1, HandlesInvHolds, PTL
=============================================================================
