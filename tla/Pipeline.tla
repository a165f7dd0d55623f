------------------------------- MODULE Pipeline -------------------------------
(***************************************************************************)
(* A request on its way through the middlewares (main.py:78-83) to the     *)
(* handler and back.  Each dispatch runs up to its call_next, waits while  *)
(* the stages inside it run, and goes on with their response or with the   *)
(* exception they raised; other requests run between any two of those      *)
(* steps.  Some of them are the admin API's, which create and delete the   *)
(* keys the others are authenticated by.                                   *)
(*                                                                         *)
(* What the limiter, the LLM gateway and the proxy answer is their         *)
(* modules' subject and is any of their answers here.  A response is what  *)
(* it is and the headers the middlewares tag it with.  One cached path     *)
(* stands for all.                                                         *)
(***************************************************************************)
EXTENDS Integers, FiniteSets, Sequences

CONSTANTS Requests,   \* requests at a time
          Clients,    \* client ids
          Keys,       \* API keys
          Ip,         \* the bucket of whoever has no identity
          None        \* no key, identity, header or entry

ASSUME PipelineAssumption ==
    /\ IsFiniteSet(Requests)
    /\ Ip \notin Clients /\ Keys \cap Clients = {}
    /\ None \notin Requests \cup Clients \cup Keys \cup {Ip}

VARIABLES
    registry,   \* API_KEY_REGISTRY: the client of each key, or None
    store,      \* the cached path's entry
    active,     \* ACTIVE_REQUESTS
    request     \* the requests

vars == <<registry, store, active, request>>

\* Mutant: the cache in front of the authentication.
OrderCacheFirst == <<"request_id", "logging", "cache", "auth", "limit", "llm", "handler">>

\* Mutant: the limiter in front of the authentication.
OrderLimitFirst == <<"request_id", "logging", "limit", "auth", "cache", "llm", "handler">>

\* add_middleware puts each new one around those before it.
Order == <<"request_id", "logging", "auth", "cache", "limit", "llm", "handler">>

Place(stage) == CHOOSE i \in DOMAIN Order : Order[i] = stage

\* GET of the cached path, POST to a model, which stands for all that the cache
\* lets through, and two of /gateway/...: what one of the gateway's own routes
\* takes, and the paths and methods that none of them matches, left to the proxy.
Kinds == {"get", "post", "admin", "unmatched"}

\* An API key, the JWT of a client, or nothing.
Credentials == Keys \cup Clients \cup {None}

Response ==
    [status : {"ok", "not_ok", "raised"},
     id : Requests \cup {None},              \* X-Request-ID
     client : Clients \cup {None},           \* X-Authenticated-Client
     limit : Clients \cup {Ip, None},        \* X-RateLimit-*: of whose bucket
     hit : BOOLEAN]                          \* X-Cache

ASSUME ResponseAssumption == None \notin Response

\* `at` is the place of the stage that runs next, on the way in while there is no
\* response yet; at 0 the client has it.  `held` is history: the clients
\* the request's credential has stood for since it arrived.
Request ==
    [at : 0 .. Len(Order), kind : Kinds, credential : Credentials, held : SUBSET Clients,
     client : Clients \cup {None}, bucket : Clients \cup {Ip, None},
     response : Response \cup {None}]

TypeOK ==
    /\ registry \in [Keys -> Clients \cup {None}]
    /\ store \in Response \cup {None}
    /\ active \in Nat
    /\ request \in [Requests -> Request]

NoRequest == [at |-> 0, kind |-> "get", credential |-> None, held |-> {},
              client |-> None, bucket |-> None, response |-> None]

Init ==
    /\ registry \in [Keys -> Clients]
    /\ store = None
    /\ active = 0
    /\ request = [r \in Requests |-> NoRequest]

-------------------------------------------------------------------------------
(* Moving a request.                                                       *)

In(r, stage) == request[r].at = Place(stage) /\ request[r].response = None
Out(r, stage) == request[r].at = Place(stage) /\ request[r].response # None

\* _is_exempt: by the prefix of the path, /gateway/, whoever will handle it.
Exempt(r) == request[r].kind \in {"admin", "unmatched"}

Raised(r) == request[r].response.status = "raised"

\* call_next.
Inward(r) == request' = [request EXCEPT ![r].at = @ + 1]

\* The stage hands a response, or an exception, to the one around it.
Outward(r, response) ==
    request' = [request EXCEPT ![r].at = @ - 1, ![r].response = response]

\* A response that a stage makes itself, without a header of the others.
Plain(status) == [status |-> status, id |-> None, client |-> None, limit |-> None, hit |-> FALSE]

Tagged(r, response) == Outward(r, IF Raised(r) THEN request[r].response ELSE response)

-------------------------------------------------------------------------------
(* The stages, from the outermost to the handler.                          *)

Standing(credential) ==
    IF credential \in Keys THEN {registry[credential]} \ {None} ELSE {credential} \ {None}

Arrive(r) ==
    /\ request[r].at = 0
    /\ \E kind \in Kinds, credential \in Credentials :
         /\ kind \in {"admin", "unmatched"} => credential = None
         /\ request' = [request EXCEPT ![r] =
              [NoRequest EXCEPT !.at = 1, !.kind = kind, !.credential = credential,
                                !.held = Standing(credential)]]
    /\ UNCHANGED <<registry, store, active>>

RequestIDIn(r) ==
    /\ In(r, "request_id") /\ Inward(r)
    /\ UNCHANGED <<registry, store, active>>

LoggingIn(r) ==
    /\ In(r, "logging") /\ Inward(r)
    /\ active' = active + 1
    /\ UNCHANGED <<registry, store>>

\* What the credential proves, None if nothing: a JWT may have expired.
Identities(credential) ==
    IF credential \in Clients THEN {credential, None}
    ELSE IF credential \in Keys THEN {registry[credential]} ELSE {None}

\* 401 or 403 without an identity; request.state.client with one.
AuthIn(r) ==
    /\ In(r, "auth")
    /\ IF Exempt(r) THEN Inward(r)
       ELSE \E client \in Identities(request[r].credential) :
              IF client = None THEN Outward(r, Plain("not_ok"))
              ELSE request' = [request EXCEPT ![r].at = @ + 1, ![r].client = client]
    /\ UNCHANGED <<registry, store, active>>

CacheIn(r) ==
    /\ In(r, "cache")
    /\ IF request[r].kind = "get" /\ store # None
       THEN Outward(r, [store EXCEPT !.hit = TRUE])
       ELSE Inward(r)
    /\ UNCHANGED <<registry, store, active>>

\* _resolve_client.
BucketOf(r) == IF request[r].client # None THEN request[r].client ELSE Ip

\* Allowed, 429 with headers of its own, or Redis raises.
LimitIn(r) ==
    /\ In(r, "limit")
    /\ IF Exempt(r) THEN Inward(r)
       ELSE \/ request' = [request EXCEPT ![r].at = @ + 1, ![r].bucket = BucketOf(r)]
            \/ Outward(r, [Plain("not_ok") EXCEPT !.limit = BucketOf(r)])
            \/ Outward(r, Plain("raised"))
    /\ UNCHANGED <<registry, store, active>>

\* A POST may name an unknown model or have no quota left; reading its body
\* raises when the client has gone or when the JSON is not an object.
LLMIn(r) ==
    /\ In(r, "llm")
    /\ \/ Inward(r)
       \/ request[r].kind = "post" /\ \E status \in {"not_ok", "raised"} : Outward(r, Plain(status))
    /\ UNCHANGED <<registry, store, active>>

-------------------------------------------------------------------------------
(* The handlers.                                                           *)

Admin(r) == In(r, "handler") /\ request[r].kind = "admin"

\* The catch-all: what no route of the gateway's own takes.  It answers whatever
\* happens (Gateway).
Proxy(r) ==
    /\ In(r, "handler") /\ ~Admin(r)
    /\ \E status \in {"ok", "not_ok"} : Outward(r, Plain(status))
    /\ UNCHANGED <<registry, store, active>>

\* The answer to an admin request that gives key k to client, and what that
\* means for the requests under way.
Registered(r, k, client) ==
    /\ registry' = [registry EXCEPT ![k] = client]
    /\ request' = [q \in Requests |->
         IF q = r THEN [request[r] EXCEPT !.at = @ - 1, !.response = Plain("ok")]
         ELSE IF request[q].credential = k
         THEN [request[q] EXCEPT !.held = @ \cup ({client} \ {None})]
         ELSE request[q]]
    /\ UNCHANGED <<store, active>>

\* create_api_key, for a new key or one there is, and delete_api_key.
CreateKey(r) ==
    /\ Admin(r)
    /\ \E k \in Keys, client \in Clients : Registered(r, k, client)

DeleteKey(r) ==
    /\ Admin(r)
    /\ \E k \in Keys : registry[k] # None /\ Registered(r, k, None)

\* invalidate_cache.
ClearCache(r) ==
    /\ Admin(r)
    /\ store' = None
    /\ Outward(r, Plain("ok"))
    /\ UNCHANGED <<registry, active>>

\* Health, metrics and the lists; a key that is unknown (404); a body that is no
\* JSON object; a method that not even the proxy takes.
OtherInternal(r) ==
    /\ Admin(r)
    /\ \E status \in {"ok", "not_ok", "raised"} : Outward(r, Plain(status))
    /\ UNCHANGED <<registry, store, active>>

Handle(r) == Proxy(r) \/ CreateKey(r) \/ DeleteKey(r) \/ ClearCache(r) \/ OtherInternal(r)

-------------------------------------------------------------------------------
(* The same stages on the way back.                                        *)

\* What is read of the usage is TokenQuota's subject.
LLMOut(r) ==
    /\ Out(r, "llm") /\ Outward(r, request[r].response)
    /\ UNCHANGED <<registry, store, active>>

LimitOut(r) ==
    /\ Out(r, "limit")
    /\ Tagged(r, IF Exempt(r) THEN request[r].response
                 ELSE [request[r].response EXCEPT !.limit = request[r].bucket])
    /\ UNCHANGED <<registry, store, active>>

\* A 2xx is stored with the headers it has by now.
CacheOut(r) ==
    /\ Out(r, "cache") /\ Outward(r, request[r].response)
    /\ store' = IF request[r].kind = "get" /\ request[r].response.status = "ok"
                THEN request[r].response ELSE store
    /\ UNCHANGED <<registry, active>>

AuthOut(r) ==
    /\ Out(r, "auth")
    /\ Tagged(r, IF Exempt(r) THEN request[r].response
                 ELSE [request[r].response EXCEPT !.client = request[r].client])
    /\ UNCHANGED <<registry, store, active>>

\* Mutant: no except clause around call_next.
CountedBackUnlessRaised(r) == IF Raised(r) THEN active ELSE active - 1

\* Mutant: the except clause does not raise again.
CountedBackTwice(r) == IF Raised(r) THEN active - 2 ELSE active - 1

CountedBack(r) == active - 1

LoggingOut(r) ==
    /\ Out(r, "logging") /\ Outward(r, request[r].response)
    /\ active' = CountedBack(r)
    /\ UNCHANGED <<registry, store>>

RequestIDOut(r) ==
    /\ Out(r, "request_id")
    /\ Tagged(r, [request[r].response EXCEPT !.id = r])
    /\ UNCHANGED <<registry, store, active>>

\* The entry's TTL is over.
Expire ==
    /\ store # None /\ store' = None
    /\ UNCHANGED <<registry, active, request>>

Next ==
    \/ \E r \in Requests :
         \/ Arrive(r) \/ RequestIDIn(r) \/ LoggingIn(r) \/ AuthIn(r) \/ CacheIn(r)
         \/ LimitIn(r) \/ LLMIn(r) \/ Handle(r)
         \/ LLMOut(r) \/ LimitOut(r) \/ CacheOut(r) \/ AuthOut(r) \/ LoggingOut(r)
         \/ RequestIDOut(r)
    \/ Expire

Spec == Init /\ [][Next]_vars

-------------------------------------------------------------------------------

Answered(r) == request[r].at = 0 /\ request[r].response # None

\* Requests between the two ends of LoggingMiddleware.dispatch.
Inside ==
    {r \in Requests : \/ request[r].at > Place("logging")
                      \/ Out(r, "logging")}

\* "Number of in-flight requests" (logger.py:59): the gauge counts every request
\* once, and no longer than it is under way, whichever stage answers or raises.
GaugeExact == active = Cardinality(Inside)

\* A response carries the headers of the request it answers (request_id.py:13,
\* auth.py:194, rate_limit.py:516): its ID, the client it was authenticated as and
\* that client's bucket, although it may be made from one stored for another
\* request.  The exception is the bucket's headers of a cache hit, which are
\* those of the request that filled the entry (cache.py:229).
TagsAreOwn ==
    \A r \in Requests : Answered(r) /\ ~Raised(r) =>
        LET response == request[r].response
        IN  /\ response.id = r
            /\ response.client = request[r].client
            /\ response.limit = response.client \/ response.limit = None \/ response.hit

\* What a backend answered, now or earlier, goes to a request only as to a client
\* its key stood for at some moment while the request was under way, not to the one
\* the key was taken from before (auth.py:147-189), in whatever order keys are
\* created, moved and deleted meanwhile.  The exception is a path under /gateway/
\* that the gateway has no route for: whoever asks for it is served as nobody.
ServedAsHolder ==
    \A r \in Requests :
        Answered(r) /\ request[r].kind # "admin" /\ request[r].response.status = "ok" =>
            request[r].response.client \in
                IF Exempt(r) THEN {None} ELSE request[r].held

\* "Authenticate every proxied request via API key or JWT" (auth.py:135): what
\* reaches the proxy has an identity.
ProxiedAuthenticated ==
    [][\A r \in Requests : Proxy(r) => request[r].client # None]_vars
===============================================================================
