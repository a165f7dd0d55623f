------------------------------ MODULE TokenQuota ------------------------------
(***************************************************************************)
(* LLMGatewayMiddleware (llm/llm_gateway.py): the quota is checked against *)
(* what the client has used so far; what a request itself uses is known    *)
(* and recorded only when the model has answered.  Other requests of the   *)
(* client run in between.                                                  *)
(*                                                                         *)
(* Tokens are counted in a unit of their own; one answer reports up to     *)
(* MaxUsage.  The authenticated client is known: AuthMiddleware runs       *)
(* before this one for every LLM path.  The tier, and with it the quota,   *)
(* is that of the credential a request came with, and a client may have    *)
(* credentials of several tiers; the tokens are counted for the client.    *)
(***************************************************************************)
EXTENDS Integers, FiniteSets

CONSTANTS Clients,
          Requests,    \* requests at a time
          Quotas,      \* TOKEN_QUOTAS of the tiers of the client's credentials
          MaxUsage     \* tokens one answer may report

ASSUME QuotaAssumption ==
    /\ Quotas \in [Clients -> SUBSET (Nat \ {0})]
    /\ \A c \in Clients : Quotas[c] # {}
    /\ MaxUsage \in Nat
    /\ IsFiniteSet(Requests)

VARIABLES
    total_tokens,   \* _token_usage[client].total_tokens
    request,        \* what each request is doing
    outcome         \* how the last request ended

quotaVars == <<total_tokens, request, outcome>>

Idle == [phase |-> "idle"]

\* What comes back: an error, a 2xx with a usage, or a 2xx that is no JSON object.
Replies == [kind : {"error", "unreadable"}, tokens : {0}]
             \cup [kind : {"usage"}, tokens : 0 .. MaxUsage]

Request ==
    {Idle} \cup [phase : {"forwarded"}, method : {"GET", "POST"}, client : Clients]
           \cup [phase : {"answered"}, method : {"GET", "POST"}, client : Clients,
                 reply : Replies]

QuotaTypeOK ==
    /\ total_tokens \in [Clients -> Nat]
    /\ request \in [Requests -> Request]
    /\ outcome \in {"none", "not_found", "over_quota", "error", "whole", "empty"}

QuotaInit ==
    /\ total_tokens = [c \in Clients |-> 0]
    /\ request = [r \in Requests |-> Idle]
    /\ outcome = "none"

\* Mutant: the client may start a request with the quota used up.
ExceededAbove(c, quota) == total_tokens[c] > quota

Exceeded(c, quota) == total_tokens[c] >= quota

\* The model of a POST is unknown: 404, before the quota is looked at.
UnknownModel(r) ==
    /\ request[r] = Idle
    /\ outcome' = "not_found"
    /\ UNCHANGED <<total_tokens, request>>

Refuse(r, c, quota) ==
    /\ request[r] = Idle /\ Exceeded(c, quota)
    /\ outcome' = "over_quota"
    /\ UNCHANGED <<total_tokens, request>>

\* Only a POST has its quota checked.
Forward(r, c, quota) ==
    /\ request[r] = Idle
    /\ \E method \in {"GET", "POST"} :
         /\ method = "POST" => ~Exceeded(c, quota)
         /\ request' = [request EXCEPT ![r] =
                          [phase |-> "forwarded", method |-> method, client |-> c]]
    /\ UNCHANGED <<total_tokens, outcome>>

\* The rest of the pipeline, and the model behind it, answers.
Reply(r) ==
    /\ request[r].phase = "forwarded"
    /\ \E reply \in Replies :
         request' = [request EXCEPT ![r] =
                       [phase |-> "answered", method |-> request[r].method,
                        client |-> request[r].client, reply |-> reply]]
    /\ UNCHANGED <<total_tokens, outcome>>

\* The body of a 2xx is drained to read its usage, unless the request is a GET.
Drained(q) == q.method = "POST" /\ q.reply.kind # "error"

\* Mutant: what is left of the quota is kept instead of what is used.
RecordedDown(q) == [total_tokens EXCEPT ![q.client] = @ - q.reply.tokens]

Recorded(q) == [total_tokens EXCEPT ![q.client] = @ + q.reply.tokens]

\* The usage is recorded and the answer made again from the body.
Finish(r) ==
    /\ request[r].phase = "answered"
    /\ LET q == request[r]
       IN  /\ total_tokens' = IF Drained(q) /\ q.reply.kind = "usage"
                              THEN Recorded(q) ELSE total_tokens
           /\ outcome' = CASE q.reply.kind = "error" -> "error"
                          [] Drained(q) /\ q.reply.kind = "unreadable" -> "empty"
                          [] OTHER -> "whole"
    /\ request' = [request EXCEPT ![r] = Idle]

QuotaNext ==
    \E r \in Requests :
        \/ UnknownModel(r) \/ Reply(r) \/ Finish(r)
        \/ \E c \in Clients : \E quota \in Quotas[c] :
               Refuse(r, c, quota) \/ Forward(r, c, quota)

QuotaSpec == QuotaInit /\ [][QuotaNext]_quotaVars

\* What was forwarded is answered and finished, and clients keep asking.
QuotaFairSpec ==
    /\ QuotaSpec
    /\ \A r \in Requests : WF_quotaVars(Reply(r)) /\ WF_quotaVars(Finish(r))
    /\ \A c \in Clients : \A quota \in Quotas[c] :
           WF_quotaVars(\E r \in Requests : Refuse(r, c, quota) \/ Forward(r, c, quota))

-------------------------------------------------------------------------------

\* The POSTs of a client that are under way.
InFlight(c) ==
    {r \in Requests :
        request[r] # Idle /\ request[r].method = "POST" /\ request[r].client = c}

\* "Enforce per-tier token quotas" (llm_gateway.py:158), as far as a check before
\* and a record after the answer can: a client exceeds the largest of its quotas by
\* no more than what the requests under way when it was used up may report.
OvershootBounded ==
    \A c \in Clients : \E quota \in Quotas[c] :
        total_tokens[c] + MaxUsage * Cardinality(InFlight(c))
            <= quota - 1 + MaxUsage * Cardinality(Requests)

\* "If we can't parse the response, just pass it through" (llm_gateway.py:252):
\* the client gets the body the model sent.
PassesThrough == outcome # "empty"

\* "100K tokens/month" (llm_gateway.py:121): a client that has used its quota up
\* may use tokens again in the end.
QuotaComesBack ==
    \A c \in Clients : \A quota \in Quotas[c] : Exceeded(c, quota) ~> ~Exceeded(c, quota)
===============================================================================
