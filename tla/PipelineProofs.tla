---------------------------- MODULE PipelineProofs ----------------------------
(***************************************************************************)
(* TLAPS proofs about Pipeline, for every finite set of requests, every    *)
(* set of clients and of keys.  GaugeExact is inductive with the types.    *)
(* The other two are not: what a response carries depends on the stages it *)
(* has left behind, so Own says, stage by stage, what is known of a        *)
(* request on the way in and on the way back.                              *)
(***************************************************************************)
EXTENDS Pipeline, FiniteSetTheorems, TLAPS

LEMMA Places ==
    /\ Place("request_id") = 1 /\ Place("logging") = 2 /\ Place("auth") = 3
    /\ Place("cache") = 4 /\ Place("limit") = 5 /\ Place("llm") = 6 /\ Place("handler") = 7
    /\ Len(Order) = 7
BY DEF Place, Order

Within(q) == request[q].at > Place("logging") \/ Out(q, "logging")

\* Whoever the request is, its key stood for them while it was under way.
Identified(q) ==
    /\ request[q].client # None => request[q].client \in request[q].held
    /\ Standing(request[q].credential) \subseteq request[q].held
    /\ Exempt(q) => request[q].credential = None /\ request[q].client = None

\* On the way in, the authentication and the limiter leave what they found out.
OwnIn(q) ==
    request[q].response = None =>
        /\ request[q].at <= Place("auth") => request[q].client = None
        /\ request[q].at > Place("auth") /\ ~Exempt(q) => request[q].client # None
        /\ request[q].at > Place("limit") /\ ~Exempt(q) =>
               request[q].bucket = request[q].client

\* On the way back, a response has the headers of the stages that are behind it.
OwnOut(q) ==
    request[q].response # None =>
        LET response == request[q].response
        IN  /\ request[q].at >= Place("limit") =>
                   /\ response.limit = None
                   /\ ~Exempt(q) => request[q].bucket = request[q].client
            /\ request[q].at < Place("limit") =>
                   response.hit \/ response.limit \in {None, request[q].client}
            /\ request[q].at >= Place("auth") =>
                   /\ response.client = None
                   /\ ~Exempt(q) => request[q].client # None
            /\ request[q].at < Place("auth") /\ response.status # "raised" =>
                   response.client = request[q].client
            /\ request[q].at < Place("auth") /\ ~Exempt(q) /\ response.status = "ok" =>
                   request[q].client # None
            /\ request[q].at = 0 /\ response.status # "raised" => response.id = q

Own(q) == Identified(q) /\ OwnIn(q) /\ OwnOut(q)

\* The cache stores what has not been through the authentication yet.
StoreUntagged == store # None => store.client = None

IInv ==
    /\ TypeOK /\ GaugeExact /\ StoreUntagged
    /\ \A q \in Requests : Own(q)

-------------------------------------------------------------------------------
(* How a step moves its request.                                           *)

\* Only r has moved: to `at`, with `response`.
Moved(r, at, response) ==
    /\ request' \in [Requests -> Request]
    /\ \A q \in Requests \ {r} : request'[q] = request[q]
    /\ request'[r].at = at /\ request'[r].response = response
    /\ request'[r].kind = request[r].kind /\ request'[r].credential = request[r].credential
    /\ request'[r].held = request[r].held /\ request'[r].client = request[r].client
    /\ request'[r].bucket = request[r].bucket

LEMMA InwardMoves ==
    ASSUME TypeOK, NEW r \in Requests, request[r].at \in 0 .. 6, Inward(r)
    PROVE  Moved(r, request[r].at + 1, request[r].response)
<1>1. request[r] \in Request /\ request[r].at + 1 \in 0 .. Len(Order)
    BY Places DEF TypeOK
<1>2. request' = [request EXCEPT ![r] = [request[r] EXCEPT !.at = request[r].at + 1]]
    BY DEF Inward
<1>3. [request[r] EXCEPT !.at = request[r].at + 1] \in Request
    BY <1>1 DEF Request
<1> QED  BY <1>1, <1>2, <1>3 DEF Moved, TypeOK, Request

LEMMA OutwardMoves ==
    ASSUME TypeOK, NEW r \in Requests, request[r].at \in 1 .. 7,
           NEW response \in Response, Outward(r, response)
    PROVE  Moved(r, request[r].at - 1, response)
<1>1. request[r] \in Request /\ request[r].at - 1 \in 0 .. Len(Order)
    BY Places DEF TypeOK
<1>2. request' = [request EXCEPT ![r] =
                    [request[r] EXCEPT !.at = request[r].at - 1, !.response = response]]
    BY DEF Outward
<1>3. [request[r] EXCEPT !.at = request[r].at - 1, !.response = response] \in Request
    BY <1>1 DEF Request
<1> QED  BY <1>1, <1>2, <1>3 DEF Moved, TypeOK, Request

\* What is known of the other requests stays, and the gauge with them.
LEMMA OneMoved ==
    ASSUME IInv, NEW r \in Requests, registry' = registry, active' = active,
           store' \in Response \cup {None}, StoreUntagged',
           request' \in [Requests -> Request],
           \A q \in Requests \ {r} : request'[q] = request[q],
           Within(r)' <=> Within(r), Own(r)'
    PROVE  IInv'
<1>1. TypeOK'
    BY DEF IInv, TypeOK
<1>2. ASSUME NEW q \in Requests \ {r}  PROVE Own(q)'
    BY <1>2 DEF IInv, Own, Identified, OwnIn, OwnOut, Standing, Exempt
<1>3. ASSUME NEW q \in Requests \ {r}  PROVE Within(q)' <=> Within(q)
    BY <1>3 DEF Within, Out
<1>4. Inside' = Inside
    BY <1>3 DEF Inside, Within
<1>5. GaugeExact'
    BY <1>4 DEF IInv, GaugeExact
<1> QED  BY <1>1, <1>2, <1>5 DEF IInv

LEMMA PlainIsResponse ==
    ASSUME NEW status \in {"ok", "not_ok", "raised"}
    PROVE  /\ Plain(status) \in Response
           /\ Plain(status).status = status /\ Plain(status).client = None
           /\ Plain(status).limit = None
BY DEF Plain, Response

-------------------------------------------------------------------------------
(* The stages.                                                             *)

\* Nobody is under way.
LEMMA InitIInv == Init => IInv
<1> SUFFICES ASSUME Init  PROVE IInv
    OBVIOUS
<1>1. NoRequest \in Request
    BY Places, PipelineAssumption DEF NoRequest, Request, Kinds, Credentials, PipelineAssumption
<1>2. TypeOK
    BY <1>1 DEF Init, TypeOK
<1>3. Inside = {}
    BY Places, PipelineAssumption DEF Init, Inside, Out, NoRequest, PipelineAssumption
<1>4. GaugeExact
    BY <1>3, FS_EmptySet DEF Init, GaugeExact
<1>5. ASSUME NEW q \in Requests  PROVE Own(q)
    BY Places, PipelineAssumption
       DEF Init, NoRequest, Own, Identified, OwnIn, OwnOut, Standing, Exempt, PipelineAssumption
<1> QED  BY <1>2, <1>4, <1>5 DEF Init, IInv, StoreUntagged

\* The step of a stage that has nothing to find out about the request.
LEMMA PassInKeepsIInv ==
    ASSUME IInv, NEW r \in Requests, request[r].response = None,
           request[r].at \in {1, 4, 6} \/ (Exempt(r) /\ request[r].at \in {3, 5}),
           Inward(r), UNCHANGED <<registry, store, active>>
    PROVE  IInv'
<1>1. Moved(r, request[r].at + 1, None)
    BY InwardMoves DEF IInv
<1>2. Own(r)'
    BY <1>1, Places
       DEF IInv, Own, Identified, OwnIn, OwnOut, Moved, Standing, Exempt
<1>3. Within(r)' <=> Within(r)
    BY <1>1, Places DEF Moved, Within, Out
<1> QED  BY <1>1, <1>2, <1>3, OneMoved DEF Moved, IInv, TypeOK, StoreUntagged

\* A stage that answers itself gives its answer to the one around it.
LEMMA AnswerKeepsIInv ==
    ASSUME IInv, NEW r \in Requests, request[r].response = None, request[r].at \in 3 .. 7,
           NEW response \in Response, Outward(r, response), response.client = None,
           request[r].at >= 6 => response.limit = None,
           response.hit \/ response.limit \in {None, request[r].client},
           request[r].at = 3 => response.status = "not_ok",
           UNCHANGED <<registry, active>>, store' \in {store, None}
    PROVE  IInv'
<1>1. Moved(r, request[r].at - 1, response)
    BY OutwardMoves DEF IInv
<1>2. response # None
    BY ResponseAssumption DEF ResponseAssumption
<1>3. Identified(r)' /\ OwnIn(r)'
    BY <1>1, <1>2 DEF IInv, Own, Identified, OwnIn, Moved, Standing, Exempt
<1>4. OwnOut(r)'
    BY <1>1, <1>2, Places DEF IInv, Own, OwnIn, OwnOut, Moved, Exempt
<1>5. Within(r)' <=> Within(r)
    BY <1>1, <1>2, Places DEF Moved, Within, Out
<1>6. store' \in Response \cup {None} /\ StoreUntagged'
    BY DEF IInv, TypeOK, StoreUntagged
<1> QED  BY <1>1, <1>3, <1>4, <1>5, <1>6, OneMoved DEF Moved, Own

\* A stage hands a response on, with the headers that are its own.
LEMMA PassOutKeepsIInv ==
    ASSUME IInv, NEW r \in Requests, request[r].response # None,
           request[r].at \in {1, 3, 4, 5, 6},
           NEW response \in Response, Outward(r, response),
           UNCHANGED <<registry, active>>,
           store' \in Response \cup {None}, StoreUntagged',
           Moved(r, request[r].at - 1, response) /\ response # None => OwnOut(r)'
    PROVE  IInv'
<1>1. Moved(r, request[r].at - 1, response)
    BY OutwardMoves DEF IInv
<1>2. response # None
    BY ResponseAssumption DEF ResponseAssumption
<1>3. Identified(r)' /\ OwnIn(r)'
    BY <1>1, <1>2 DEF IInv, Own, Identified, OwnIn, Moved, Standing, Exempt
<1>4. Within(r)' <=> Within(r)
    BY <1>1, <1>2, Places DEF Moved, Within, Out
<1> QED  BY <1>1, <1>2, <1>3, <1>4, OneMoved DEF Moved, Own

LEMMA ArriveKeepsIInv ==
    ASSUME IInv, NEW r \in Requests, Arrive(r)
    PROVE  IInv'
<1>1. PICK kind \in Kinds, credential \in Credentials :
          /\ kind \in {"admin", "unmatched"} => credential = None
          /\ request' = [request EXCEPT ![r] =
               [NoRequest EXCEPT !.at = 1, !.kind = kind, !.credential = credential,
                                 !.held = Standing(credential)]]
    BY DEF Arrive
<1> DEFINE fresh == [NoRequest EXCEPT !.at = 1, !.kind = kind, !.credential = credential,
                                      !.held = Standing(credential)]
<1>2. /\ fresh.at = 1 /\ fresh.kind = kind /\ fresh.credential = credential
      /\ fresh.held = Standing(credential) /\ fresh.client = None /\ fresh.response = None
    BY DEF NoRequest
<1>3. Standing(credential) \in SUBSET Clients
    BY PipelineAssumption DEF IInv, TypeOK, Standing, Credentials, PipelineAssumption
<1>4. fresh \in Request
    <2>1. 1 \in 0 .. Len(Order) /\ kind \in Kinds /\ credential \in Credentials
        BY <1>1, Places
    <2> QED  BY <1>3, <2>1 DEF NoRequest, Request
<1>5. /\ request' \in [Requests -> Request] /\ request'[r] = fresh
      /\ \A q \in Requests \ {r} : request'[q] = request[q]
    BY <1>1, <1>4 DEF IInv, TypeOK
<1> HIDE DEF fresh
<1>6. registry' = registry /\ store' = store /\ active' = active
    BY DEF Arrive
<1>7. Own(r)'
    <2>1. /\ request'[r].kind = kind /\ request'[r].credential = credential
          /\ request'[r].held = Standing(credential)
          /\ request'[r].client = None /\ request'[r].response = None /\ request'[r].at = 1
        BY <1>2, <1>5
    <2>2. Identified(r)'
        BY <1>1, <1>6, <2>1 DEF Identified, Standing, Exempt
    <2> QED  BY <2>1, <2>2, Places DEF Own, OwnIn, OwnOut
<1>8. ~Within(r) /\ ~Within(r)'
    BY <1>2, <1>5, Places DEF Arrive, Within, Out
<1> QED  BY <1>5, <1>6, <1>7, <1>8, OneMoved DEF IInv, TypeOK, StoreUntagged

\* The gauge goes up and down with the requests that are inside (logger.py:79-134).
LEMMA LoggingInKeepsIInv ==
    ASSUME IInv, NEW r \in Requests, LoggingIn(r)
    PROVE  IInv'
<1>1. request[r].at = 2 /\ request[r].response = None
    BY Places DEF LoggingIn, In
<1>2. Moved(r, 3, None)
    BY <1>1, InwardMoves DEF IInv, LoggingIn
<1>3. TypeOK'
    BY <1>2 DEF IInv, TypeOK, LoggingIn, Moved
<1>4. ASSUME NEW q \in Requests  PROVE Own(q)'
    <2>1. CASE q = r
        BY <1>1, <1>2, <2>1, Places
           DEF IInv, LoggingIn, Own, Identified, OwnIn, OwnOut, Moved, Standing, Exempt
    <2>2. CASE q # r
        BY <1>2, <2>2
           DEF IInv, LoggingIn, Own, Identified, OwnIn, OwnOut, Moved, Standing, Exempt
    <2> QED  BY <2>1, <2>2
<1>5. GaugeExact'
    <2>1. Inside' = Inside \cup {r} /\ r \notin Inside
        BY <1>1, <1>2, Places DEF Inside, Out, Moved
    <2>2. IsFiniteSet(Inside)
        BY PipelineAssumption, FS_Subset DEF Inside, PipelineAssumption
    <2> QED  BY <2>1, <2>2, FS_AddElement DEF IInv, GaugeExact, LoggingIn
<1> QED  BY <1>3, <1>4, <1>5 DEF IInv, StoreUntagged, LoggingIn

LEMMA LoggingOutKeepsIInv ==
    ASSUME IInv, NEW r \in Requests, LoggingOut(r)
    PROVE  IInv'
<1>1. request[r].at = 2 /\ request[r].response # None
    BY Places DEF LoggingOut, Out
<1>2. request[r].response \in Response
    BY <1>1 DEF IInv, TypeOK, Request
<1>3. Moved(r, 1, request[r].response)
    BY <1>1, <1>2, OutwardMoves DEF IInv, LoggingOut
<1>4. ASSUME NEW q \in Requests  PROVE Own(q)'
    <2>1. CASE q = r
        BY <1>1, <1>3, <2>1, Places
           DEF IInv, LoggingOut, Own, Identified, OwnIn, OwnOut, Moved, Standing, Exempt
    <2>2. CASE q # r
        BY <1>3, <2>2
           DEF IInv, LoggingOut, Own, Identified, OwnIn, OwnOut, Moved, Standing, Exempt
    <2> QED  BY <2>1, <2>2
<1>5. GaugeExact' /\ active' \in Nat
    <2>1. Inside' = Inside \ {r} /\ r \in Inside
        BY <1>1, <1>3, Places DEF Inside, Out, Moved
    <2>2. IsFiniteSet(Inside)
        BY PipelineAssumption, FS_Subset DEF Inside, PipelineAssumption
    <2>3. IsFiniteSet(Inside') /\ Cardinality(Inside') = Cardinality(Inside) - 1
        BY <2>1, <2>2, FS_RemoveElement
    <2>4. Cardinality(Inside') \in Nat
        BY <2>3, FS_CardinalityType
    <2>5. active' = Cardinality(Inside')
        BY <2>3 DEF IInv, GaugeExact, LoggingOut, CountedBack
    <2> QED  BY <2>4, <2>5 DEF GaugeExact
<1>6. TypeOK'
    BY <1>3, <1>5 DEF IInv, TypeOK, LoggingOut, Moved
<1> QED  BY <1>4, <1>5, <1>6 DEF IInv, StoreUntagged, LoggingOut

\* A request that moves on with what a stage has found out.
LEMMA FoundOutIsRequest ==
    ASSUME NEW q \in Request, NEW at \in 0 .. 7,
           NEW client \in Clients \cup {None}, NEW bucket \in Clients \cup {Ip, None}
    PROVE  /\ [q EXCEPT !.at = at, !.client = client] \in Request
           /\ [q EXCEPT !.at = at, !.bucket = bucket] \in Request
<1>1. at \in 0 .. Len(Order)
    BY Places
<1> QED  BY <1>1 DEF Request

\* What a key proves is one of the clients it has stood for (auth.py:64-110).
LEMMA AuthInKeepsIInv ==
    ASSUME IInv, NEW r \in Requests, AuthIn(r)
    PROVE  IInv'
<1>1. request[r].at = 3 /\ request[r].response = None /\ request[r].client = None
    BY Places DEF AuthIn, In, IInv, Own, OwnIn
<1>2. UNCHANGED <<registry, store, active>>
    BY DEF AuthIn
<1>3. CASE Exempt(r)
    BY <1>1, <1>2, <1>3, PassInKeepsIInv DEF AuthIn
<1>4. CASE ~Exempt(r) /\ Outward(r, Plain("not_ok"))
    <2>1. Plain("not_ok") \in Response
        BY PlainIsResponse
    <2> QED  BY <1>1, <1>2, <1>4, <2>1, PlainIsResponse, AnswerKeepsIInv
<1>5. CASE ~Exempt(r) /\ ~Outward(r, Plain("not_ok"))
    <2>1. PICK client \in Identities(request[r].credential) :
              /\ client # None
              /\ request' = [request EXCEPT ![r].at = @ + 1, ![r].client = client]
        BY <1>5 DEF AuthIn
    <2>2. request[r] \in Request /\ request[r].credential \in Credentials
        BY DEF IInv, TypeOK, Request
    <2>3. client \in Clients /\ client \in Standing(request[r].credential)
        BY <2>1, <2>2, PipelineAssumption
           DEF Identities, Standing, IInv, TypeOK, PipelineAssumption
    <2> DEFINE after == [request[r] EXCEPT !.at = request[r].at + 1, !.client = client]
    <2>4. request' = [request EXCEPT ![r] = after]
        BY <2>1
    <2>5. /\ after.at = 4 /\ after.client = client /\ after.response = None
          /\ after.kind = request[r].kind /\ after.credential = request[r].credential
          /\ after.held = request[r].held
        BY <1>1, <2>2 DEF Request
    <2>6. after \in Request
        <3>1. request[r].at + 1 \in 0 .. 7 /\ client \in Clients \cup {None}
            BY <1>1, <2>3
        <3> QED  BY <2>2, <3>1, FoundOutIsRequest
    <2> HIDE DEF after
    <2>7. /\ request' \in [Requests -> Request] /\ request'[r] = after
          /\ \A q \in Requests \ {r} : request'[q] = request[q]
        BY <2>4, <2>6 DEF IInv, TypeOK
    <2>8. Own(r)'
        <3>1. Identified(r)'
            <4>1. request[r].client = None /\ Standing(request[r].credential) \subseteq request[r].held
                BY <1>1 DEF IInv, Own, Identified
            <4>2. Standing(request[r].credential)' = Standing(request[r].credential)
                BY <1>2, <2>5, <2>7 DEF Standing
            <4>3. ~Exempt(r)'
                BY <1>5, <2>5, <2>7 DEF Exempt
            <4> QED  BY <2>3, <2>5, <2>7, <4>1, <4>2, <4>3 DEF Identified
        <3>2. request'[r].at = 4 /\ request'[r].client # None /\ request'[r].response = None
            BY <2>1, <2>5, <2>7
        <3> QED  BY <3>1, <3>2, Places DEF Own, OwnIn, OwnOut
    <2>9. Within(r) /\ Within(r)'
        BY <1>1, <2>5, <2>7, Places DEF Within, Out
    <2> QED  BY <1>2, <2>7, <2>8, <2>9, OneMoved DEF IInv, TypeOK, StoreUntagged
<1> QED  BY <1>3, <1>4, <1>5

LEMMA CacheInKeepsIInv ==
    ASSUME IInv, NEW r \in Requests, CacheIn(r)
    PROVE  IInv'
<1>1. request[r].at = 4 /\ request[r].response = None
    BY Places DEF CacheIn, In
<1>2. UNCHANGED <<registry, store, active>>
    BY DEF CacheIn
<1>3. CASE Inward(r)
    BY <1>1, <1>2, <1>3, PassInKeepsIInv
<1>4. CASE ~Inward(r)
    <2> DEFINE response == [store EXCEPT !.hit = TRUE]
    <2>1. store # None /\ Outward(r, response)
        BY <1>4 DEF CacheIn
    <2>2. store \in Response
        BY <2>1 DEF IInv, TypeOK
    <2>3. response \in Response /\ response.hit /\ response.client = store.client
        BY <2>2 DEF Response
    <2>4. response.client = None
        BY <2>1, <2>3 DEF IInv, StoreUntagged
    <2> HIDE DEF response
    <2> QED  BY <1>1, <1>2, <2>1, <2>3, <2>4, AnswerKeepsIInv
<1> QED  BY <1>3, <1>4

\* Behind the authentication the bucket is the client's (rate_limit.py:421-450).
LEMMA LimitInKeepsIInv ==
    ASSUME IInv, NEW r \in Requests, LimitIn(r)
    PROVE  IInv'
<1>1. request[r].at = 5 /\ request[r].response = None
    BY Places DEF LimitIn, In
<1>2. UNCHANGED <<registry, store, active>>
    BY DEF LimitIn
<1>3. CASE Exempt(r)
    BY <1>1, <1>2, <1>3, PassInKeepsIInv DEF LimitIn
<1>4. ASSUME ~Exempt(r)
      PROVE  BucketOf(r) = request[r].client /\ request[r].client \in Clients
    BY <1>1, <1>4, Places DEF IInv, TypeOK, Request, Own, OwnIn, BucketOf
<1>5. CASE ~Exempt(r) /\ request' = [request EXCEPT ![r].at = @ + 1, ![r].bucket = BucketOf(r)]
    <2> DEFINE after == [request[r] EXCEPT !.at = request[r].at + 1, !.bucket = BucketOf(r)]
    <2>1. request' = [request EXCEPT ![r] = after]
        BY <1>5
    <2>2. request[r] \in Request
        BY DEF IInv, TypeOK
    <2>3. /\ after.at = 6 /\ after.bucket = request[r].client /\ after.response = None
          /\ after.kind = request[r].kind /\ after.credential = request[r].credential
          /\ after.held = request[r].held /\ after.client = request[r].client
        BY <1>1, <1>4, <1>5, <2>2 DEF Request
    <2>4. after \in Request
        <3>1. request[r].at + 1 \in 0 .. 7 /\ BucketOf(r) \in Clients \cup {Ip, None}
            BY <1>1, <1>4, <1>5
        <3> QED  BY <2>2, <3>1, FoundOutIsRequest
    <2> HIDE DEF after
    <2>5. /\ request' \in [Requests -> Request] /\ request'[r] = after
          /\ \A q \in Requests \ {r} : request'[q] = request[q]
        BY <2>1, <2>4 DEF IInv, TypeOK
    <2>6. Own(r)'
        BY <1>1, <1>2, <2>3, <2>5, Places
           DEF IInv, Own, Identified, OwnIn, OwnOut, Standing, Exempt
    <2>7. Within(r) /\ Within(r)'
        BY <1>1, <2>3, <2>5, Places DEF Within, Out
    <2> QED  BY <1>2, <2>5, <2>6, <2>7, OneMoved DEF IInv, TypeOK, StoreUntagged
<1>6. CASE ~Exempt(r) /\ Outward(r, [Plain("not_ok") EXCEPT !.limit = BucketOf(r)])
    <2> DEFINE response == [Plain("not_ok") EXCEPT !.limit = BucketOf(r)]
    <2>1. response \in Response /\ response.client = None /\ response.limit = request[r].client
        BY <1>4, <1>6 DEF Plain, Response
    <2> HIDE DEF response
    <2>2. Outward(r, response)
        BY <1>6 DEF response
    <2> QED  BY <1>1, <1>2, <2>1, <2>2, AnswerKeepsIInv
<1>7. CASE Outward(r, Plain("raised"))
    <2>1. Plain("raised") \in Response
        BY PlainIsResponse
    <2> QED  BY <1>1, <1>2, <1>7, <2>1, PlainIsResponse, AnswerKeepsIInv
<1> QED  BY <1>3, <1>5, <1>6, <1>7 DEF LimitIn

LEMMA PlainKeepsIInv ==
    ASSUME IInv, NEW r \in Requests, request[r].response = None, request[r].at \in {6, 7},
           NEW status \in {"ok", "not_ok", "raised"}, Outward(r, Plain(status)),
           UNCHANGED <<registry, active>>, store' \in {store, None}
    PROVE  IInv'
<1>1. /\ Plain(status) \in Response /\ Plain(status).client = None
      /\ Plain(status).limit = None
    BY PlainIsResponse
<1> QED  BY <1>1, AnswerKeepsIInv

LEMMA LLMInKeepsIInv ==
    ASSUME IInv, NEW r \in Requests, LLMIn(r)
    PROVE  IInv'
<1>1. request[r].at = 6 /\ request[r].response = None /\ UNCHANGED <<registry, store, active>>
    BY Places DEF LLMIn, In
<1>2. CASE Inward(r)
    BY <1>1, <1>2, PassInKeepsIInv
<1>3. CASE \E status \in {"not_ok", "raised"} : Outward(r, Plain(status))
    BY <1>1, <1>3, PlainKeepsIInv
<1> QED  BY <1>2, <1>3 DEF LLMIn

\* The holders of a key that is given on or taken away include its new one: no
\* request under way is left with a client it has not stood for
\* (admin/routes.py:141-187).
LEMMA RegisteredKeepsIInv ==
    ASSUME IInv, NEW r \in Requests, request[r].response = None, request[r].at = 7,
           Exempt(r), NEW k \in Keys, NEW client \in Clients \cup {None},
           Registered(r, k, client)
    PROVE  IInv'
<1>1. UNCHANGED <<store, active>> /\ registry' = [registry EXCEPT ![k] = client]
    BY DEF Registered
<1>2. registry' \in [Keys -> Clients \cup {None}]
    BY <1>1 DEF IInv, TypeOK
<1> DEFINE answered == [request[r] EXCEPT !.at = request[r].at - 1, !.response = Plain("ok")]
           told(q) == [request[q] EXCEPT !.held = request[q].held \cup ({client} \ {None})]
<1>3. request' = [q \in Requests |-> IF q = r THEN answered
                                     ELSE IF request[q].credential = k THEN told(q)
                                     ELSE request[q]]
    BY DEF Registered
<1>4. /\ answered \in Request /\ answered.at = 6 /\ answered.response = Plain("ok")
      /\ answered.kind = request[r].kind /\ answered.credential = request[r].credential
      /\ answered.held = request[r].held /\ answered.client = request[r].client
    <2>1. /\ 6 \in 0 .. Len(Order) /\ request[r].at - 1 = 6
          /\ Plain("ok") \in Response /\ request[r] \in Request
        BY Places, PlainIsResponse DEF IInv, TypeOK
    <2>2. answered \in Request
        BY <2>1 DEF Request
    <2> QED  BY <2>1, <2>2 DEF Request
<1>5. ASSUME NEW q \in Requests
      PROVE  /\ told(q) \in Request /\ told(q).at = request[q].at
             /\ told(q).response = request[q].response /\ told(q).kind = request[q].kind
             /\ told(q).credential = request[q].credential
             /\ told(q).held = request[q].held \cup ({client} \ {None})
             /\ told(q).client = request[q].client /\ told(q).bucket = request[q].bucket
    <2>1. request[q] \in Request /\ {client} \ {None} \subseteq Clients
        BY DEF IInv, TypeOK
    <2> QED  BY <2>1 DEF Request
<1> HIDE DEF answered, told
<1>6. TypeOK'
    <2>1. request' \in [Requests -> Request]
        BY <1>3, <1>4, <1>5 DEF IInv, TypeOK
    <2> QED  BY <1>1, <1>2, <2>1 DEF IInv, TypeOK
<1>7. Own(r)'
    <2>1. request'[r] = answered /\ Plain("ok") # None
        BY <1>3, PlainIsResponse, ResponseAssumption DEF ResponseAssumption
    <2>2. request[r].credential = None /\ request[r].client = None
        BY DEF IInv, Own, Identified
    <2>3. Standing(request[r].credential)' = {}
        BY <1>4, <2>1, <2>2, PipelineAssumption DEF Standing, PipelineAssumption
    <2>4. Identified(r)' /\ OwnIn(r)' /\ Exempt(r)'
        BY <1>4, <2>1, <2>2, <2>3 DEF Identified, OwnIn, Exempt
    <2>5. OwnOut(r)'
        BY <1>4, <2>1, <2>2, <2>4, PlainIsResponse, Places DEF OwnOut
    <2> QED  BY <2>4, <2>5 DEF Own
<1>8. ASSUME NEW q \in Requests \ {r}  PROVE Own(q)'
    <2>1. /\ request'[q].at = request[q].at /\ request'[q].kind = request[q].kind
          /\ request'[q].response = request[q].response
          /\ request'[q].credential = request[q].credential
          /\ request'[q].client = request[q].client /\ request'[q].bucket = request[q].bucket
          /\ request[q].held \subseteq request'[q].held
          /\ request[q].credential = k =>
                 request'[q].held = request[q].held \cup ({client} \ {None})
        BY <1>3, <1>5, <1>8
    <2>2. Standing(request[q].credential)' \subseteq request'[q].held
        <3>1. CASE request[q].credential = k
            BY <1>1, <2>1, <3>1 DEF Standing, IInv, TypeOK
        <3>2. CASE request[q].credential # k
            BY <1>1, <2>1, <3>2 DEF Standing, IInv, TypeOK, Own, Identified
        <3> QED  BY <3>1, <3>2
    <2>3. Identified(q)'
        BY <1>8, <2>1, <2>2 DEF IInv, Own, Identified, Exempt
    <2>4. OwnIn(q)' /\ OwnOut(q)'
        BY <1>8, <2>1 DEF IInv, Own, OwnIn, OwnOut, Exempt
    <2> QED  BY <2>3, <2>4 DEF Own
<1>9. GaugeExact'
    <2>1. ASSUME NEW q \in Requests  PROVE Within(q)' <=> Within(q)
        <3>1. CASE q = r
            BY <1>3, <1>4, <3>1, Places DEF Within, Out
        <3>2. CASE q # r
            BY <1>3, <1>5, <3>2 DEF Within, Out
        <3> QED  BY <3>1, <3>2
    <2>2. Inside' = Inside
        BY <2>1 DEF Inside, Within
    <2> QED  BY <1>1, <2>2 DEF IInv, GaugeExact
<1> QED  BY <1>1, <1>6, <1>7, <1>8, <1>9 DEF IInv, StoreUntagged

LEMMA HandleKeepsIInv ==
    ASSUME IInv, NEW r \in Requests, Handle(r)
    PROVE  IInv'
<1>1. request[r].at = 7 /\ request[r].response = None
    BY Places DEF Handle, Proxy, CreateKey, DeleteKey, ClearCache, OtherInternal, Admin, In
<1>2. CASE Proxy(r)
    BY <1>1, <1>2, PlainKeepsIInv DEF Proxy
<1>3. CASE CreateKey(r) \/ DeleteKey(r)
    BY <1>1, <1>3, RegisteredKeepsIInv DEF CreateKey, DeleteKey, Admin, Exempt
<1>4. CASE ClearCache(r)
    BY <1>1, <1>4, PlainKeepsIInv DEF ClearCache
<1>5. CASE OtherInternal(r)
    BY <1>1, <1>5, PlainKeepsIInv DEF OtherInternal
<1> QED  BY <1>2, <1>3, <1>4, <1>5 DEF Handle

-------------------------------------------------------------------------------
(* The way back.                                                           *)

LEMMA LLMOutKeepsIInv ==
    ASSUME IInv, NEW r \in Requests, LLMOut(r)
    PROVE  IInv'
<1> DEFINE response == request[r].response
<1>1. /\ request[r].at = 6 /\ response # None /\ Outward(r, response)
      /\ UNCHANGED <<registry, store, active>>
    BY Places DEF LLMOut, Out
<1>2. response \in Response
    BY <1>1 DEF IInv, TypeOK, Request
<1>3. Moved(r, request[r].at - 1, response) => OwnOut(r)'
    BY <1>1, Places DEF IInv, Own, OwnOut, Moved, Exempt
<1> QED  BY <1>1, <1>2, <1>3, PassOutKeepsIInv DEF IInv, TypeOK, StoreUntagged

\* The limiter's headers are of the bucket it took the token from
\* (rate_limit.py:513-520).
LEMMA LimitOutKeepsIInv ==
    ASSUME IInv, NEW r \in Requests, LimitOut(r)
    PROVE  IInv'
<1>1. /\ request[r].at = 5 /\ request[r].response # None
      /\ UNCHANGED <<registry, store, active>>
    BY Places DEF LimitOut, Out
<1>2. request[r] \in Request /\ request[r].response \in Response
    BY <1>1 DEF IInv, TypeOK, Request
<1>3. PICK response \in {request[r].response,
                         [request[r].response EXCEPT !.limit = request[r].bucket]} :
          /\ Outward(r, response)
          /\ Raised(r) \/ Exempt(r) => response = request[r].response
          /\ ~Raised(r) /\ ~Exempt(r) =>
                 response = [request[r].response EXCEPT !.limit = request[r].bucket]
    BY DEF LimitOut, Tagged
<1>4. /\ response \in Response
      /\ response.client = request[r].response.client
      /\ response.limit \in {None, request[r].client}
    BY <1>1, <1>2, <1>3, Places DEF IInv, Own, OwnOut, Request, Response
<1>5. Moved(r, request[r].at - 1, response) => OwnOut(r)'
    BY <1>1, <1>4, Places DEF IInv, Own, OwnOut, Moved, Exempt
<1> QED  BY <1>1, <1>3, <1>4, <1>5, PassOutKeepsIInv DEF IInv, TypeOK, StoreUntagged

\* What is stored has no client yet (cache.py:217-246).
LEMMA CacheOutKeepsIInv ==
    ASSUME IInv, NEW r \in Requests, CacheOut(r)
    PROVE  IInv'
<1> DEFINE response == request[r].response
<1>1. /\ request[r].at = 4 /\ response # None /\ Outward(r, response)
      /\ UNCHANGED <<registry, active>> /\ store' \in {response, store}
    BY Places DEF CacheOut, Out
<1>2. response \in Response
    BY <1>1 DEF IInv, TypeOK, Request
<1>3. response.client = None
    BY <1>1, Places DEF IInv, Own, OwnOut
<1>4. store' \in Response \cup {None} /\ StoreUntagged'
    BY <1>1, <1>2, <1>3 DEF IInv, TypeOK, StoreUntagged
<1>5. Moved(r, request[r].at - 1, response) => OwnOut(r)'
    BY <1>1, Places DEF IInv, Own, OwnOut, Moved, Exempt
<1> QED  BY <1>1, <1>2, <1>4, <1>5, PassOutKeepsIInv

\* The authentication tags whatever comes back with the client it found
\* (auth.py:191-196).
LEMMA AuthOutKeepsIInv ==
    ASSUME IInv, NEW r \in Requests, AuthOut(r)
    PROVE  IInv'
<1>1. /\ request[r].at = 3 /\ request[r].response # None
      /\ UNCHANGED <<registry, store, active>>
    BY Places DEF AuthOut, Out
<1>2. request[r] \in Request /\ request[r].response \in Response
    BY <1>1 DEF IInv, TypeOK, Request
<1>3. PICK response \in {request[r].response,
                         [request[r].response EXCEPT !.client = request[r].client]} :
          /\ Outward(r, response)
          /\ Raised(r) \/ Exempt(r) => response = request[r].response
          /\ ~Raised(r) /\ ~Exempt(r) =>
                 response = [request[r].response EXCEPT !.client = request[r].client]
    BY DEF AuthOut, Tagged
<1>4. /\ response \in Response /\ response.limit = request[r].response.limit
      /\ response.hit = request[r].response.hit
      /\ response.status = request[r].response.status
      /\ response.status # "raised" => response.client = request[r].client
    BY <1>1, <1>2, <1>3, Places DEF IInv, Own, Identified, OwnOut, Raised, Request, Response
<1>5. Moved(r, request[r].at - 1, response) => OwnOut(r)'
    BY <1>1, <1>4, Places DEF IInv, Own, OwnOut, Moved, Exempt
<1> QED  BY <1>1, <1>3, <1>4, <1>5, PassOutKeepsIInv DEF IInv, TypeOK, StoreUntagged

LEMMA RequestIDOutKeepsIInv ==
    ASSUME IInv, NEW r \in Requests, RequestIDOut(r)
    PROVE  IInv'
<1>1. /\ request[r].at = 1 /\ request[r].response # None
      /\ UNCHANGED <<registry, store, active>>
    BY Places DEF RequestIDOut, Out
<1>2. request[r] \in Request /\ request[r].response \in Response
    BY <1>1 DEF IInv, TypeOK, Request
<1>3. PICK response \in {request[r].response, [request[r].response EXCEPT !.id = r]} :
          /\ Outward(r, response)
          /\ ~Raised(r) => response = [request[r].response EXCEPT !.id = r]
    BY DEF RequestIDOut, Tagged
<1>4. /\ response \in Response /\ response.limit = request[r].response.limit
      /\ response.hit = request[r].response.hit
      /\ response.client = request[r].response.client
      /\ response.status = request[r].response.status
      /\ response.status # "raised" => response.id = r
    BY <1>1, <1>2, <1>3 DEF Raised, Response
<1>5. Moved(r, request[r].at - 1, response) => OwnOut(r)'
    BY <1>1, <1>4, Places DEF IInv, Own, OwnOut, Moved, Exempt
<1> QED  BY <1>1, <1>3, <1>4, <1>5, PassOutKeepsIInv DEF IInv, TypeOK, StoreUntagged

-------------------------------------------------------------------------------
(* The theorems.                                                           *)

LEMMA NextKeepsIInv == IInv /\ [Next]_vars => IInv'
<1> SUFFICES ASSUME IInv, [Next]_vars  PROVE IInv'
    OBVIOUS
<1>1. ASSUME NEW r \in Requests, RequestIDIn(r)  PROVE IInv'
    BY <1>1, PassInKeepsIInv, Places DEF RequestIDIn, In
<1>2. CASE Expire \/ UNCHANGED vars
    BY <1>2
       DEF Expire, vars, IInv, TypeOK, GaugeExact, Inside, Out, StoreUntagged,
           Own, Identified, OwnIn, OwnOut, Standing, Exempt
<1> QED
    BY <1>1, <1>2, ArriveKeepsIInv, LoggingInKeepsIInv, AuthInKeepsIInv, CacheInKeepsIInv,
       LimitInKeepsIInv, LLMInKeepsIInv, HandleKeepsIInv, LLMOutKeepsIInv, LimitOutKeepsIInv,
       CacheOutKeepsIInv, AuthOutKeepsIInv, LoggingOutKeepsIInv, RequestIDOutKeepsIInv
    DEF Next

LEMMA IInvAlways == Spec => []IInv
BY InitIInv, NextKeepsIInv, PTL DEF Spec

\* The registry, the cache, the gauge and every request have their types.
THEOREM TypeCorrect == Spec => []TypeOK
<1>1. IInv => TypeOK
    BY DEF IInv
<1> QED  BY <1>1, IInvAlways, PTL

\* The gauge of in-flight requests counts each of them once, whichever stage
\* answers or raises (logger.py:59).
THEOREM GaugeCounts == Spec => []GaugeExact
<1>1. IInv => GaugeExact
    BY DEF IInv
<1> QED  BY <1>1, IInvAlways, PTL

\* A response has the headers of the request it answers, but for the bucket's on
\* a cache hit (request_id.py:13, auth.py:194, rate_limit.py:516).
THEOREM ResponsesAreOwn == Spec => []TagsAreOwn
<1>1. IInv => TagsAreOwn
    BY Places DEF IInv, Own, OwnOut, TagsAreOwn, Answered, Raised
<1> QED  BY <1>1, IInvAlways, PTL

\* Backends' answers, cached ones too, go only to clients the request's key stood
\* for while it was under way (auth.py:147-189), except that what the fallback
\* backend answers for a path under /gateway/ without a route goes to nobody in
\* particular (auth.py:121-127, main.py:150-157).
THEOREM ServedToHolders == Spec => []ServedAsHolder
<1>1. IInv => ServedAsHolder
    BY Places DEF IInv, Own, Identified, OwnOut, ServedAsHolder, Answered
<1> QED  BY <1>1, IInvAlways, PTL
===============================================================================
