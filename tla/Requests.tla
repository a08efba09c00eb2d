------------------------------ MODULE Requests ------------------------------
(***************************************************************************)
(* The requests that are in flight, each served by a goroutine of its own  *)
(* that goes through the router's middleware: token, principal, tenant.    *)
(* The modules of the tables and of the gateway extend this one: a step of *)
(* theirs moves one request from one point to the next.                    *)
(***************************************************************************)
EXTENDS Naturals, FiniteSets

CONSTANTS
    Requests,      \* requests, which also name the rows they create
    Workloads,     \* what is asked for together: functions from Requests
    None,          \* nothing
    Nil            \* uuid.Nil, the organization of a token that names none

VARIABLES
    work,       \* what each request asks for
    redis,      \* whether the server was started with Redis
    at,         \* how far each request is
    local,      \* what its goroutine remembers
    answer,     \* what was answered: a status and the rows of the answer
    published   \* requests whose event was handed to the bus

requestVars == <<work, redis, at, local, answer, published>>

\* What the router asks before it calls the handler of an operation.
RoutePermission == [
    ListUsers |-> <<"user", "read">>, AssignRole |-> <<"user", "write">>,
    CreateOrg |-> <<"org", "write">>, ListOrgs |-> <<"org", "read">>,
    GetOrg |-> <<"org", "read">>,
    CreateApp |-> <<"app", "write">>, ListApps |-> <<"app", "read">>,
    GetApp |-> <<"app", "read">>,
    CreateAPIKey |-> <<"app", "write">>, ListAPIKeys |-> <<"app", "read">>,
    RevokeAPIKey |-> <<"app", "write">>,
    DefineEndpoint |-> <<"endpoint", "write">>, GetEndpoint |-> <<"endpoint", "read">>,
    ListEndpoints |-> <<"endpoint", "read">>, RetireEndpoint |-> <<"endpoint", "write">>,
    ActivateEndpoint |-> <<"endpoint", "write">>, UpdatePolicy |-> <<"endpoint", "write">>,
    GetPolicy |-> <<"endpoint", "read">>,
    CreateWorkspace |-> <<"org", "write">>, ListWorkspaces |-> <<"org", "read">>,
    UpdateWorkspace |-> <<"org", "write">>]

NothingYet == [tenant |-> None, endpoint |-> None, policy |-> None, want |-> None,
               perms |-> {}, row |-> None, count |-> 0]

\* A request that has not been answered.
NoAnswer == [status |-> 0, rows |-> {}]

RequestsInit ==
    /\ work \in Workloads
    /\ redis \in BOOLEAN
    /\ at = [r \in Requests |-> "arrived"]
    /\ local = [r \in Requests |-> NothingYet]
    /\ answer = [r \in Requests |-> NoAnswer]
    /\ published = {}

-----------------------------------------------------------------------------
(* How a step moves its request.                                           *)

\* The outcomes of a call to the database or to Redis.
Outcomes(r) == IF work[r].faulty THEN BOOLEAN ELSE {TRUE}

GoWith(r, point, mem) ==
    /\ at' = [at EXCEPT ![r] = point]
    /\ local' = [local EXCEPT ![r] = mem]
    /\ UNCHANGED <<work, redis, answer, published>>

Go(r, point) == GoWith(r, point, local[r])

\* With a row in its hand.
GoWithRow(r, point, row) == GoWith(r, point, [local[r] EXCEPT !.row = row])

\* The answer of a list or of a read.
Return(r, rows) ==
    /\ at' = [at EXCEPT ![r] = "done"]
    /\ answer' = [answer EXCEPT ![r] = [status |-> 200, rows |-> rows]]
    /\ UNCHANGED <<work, redis, local, published>>

Finish(r, status) ==
    /\ at' = [at EXCEPT ![r] = "done"]
    /\ answer' = [answer EXCEPT ![r] = [status |-> status, rows |-> {}]]
    /\ UNCHANGED <<work, redis, local, published>>

Handling(r, op) == at[r] = "handler" /\ work[r].op = op

\* DecodeAndValidate and the ids of the URL: what cannot be read is refused.
RefuseInput(r) ==
    /\ at[r] = "handler" /\ ~work[r].valid
    /\ Finish(r, 400)

\* The use case hands its event to the bus, whose refusal it ignores.
Publish(r) ==
    /\ at[r] = "publish"
    /\ at' = [at EXCEPT ![r] = "done"]
    /\ answer' = [answer EXCEPT ![r] = [status |-> local[r].row.status, rows |-> {}]]
    /\ \E ok \in Outcomes(r) : published' = IF ok THEN published \cup {r} ELSE published
    /\ UNCHANGED <<work, redis, local>>

-----------------------------------------------------------------------------
(* Admission to the protected routes.                                      *)

\* JWTAuth: a bearer token that the service accepts.
TokenAccepted(r) == work[r].token \in {"device", "user", "blended"}

\* RequireUserPrincipal: not a device's token.
IsUser(r) == work[r].token \in {"user", "blended"}

\* The header must not contradict the token's organization.
HeaderRefusal(r) ==
    IF work[r].header = None THEN 0
    ELSE IF work[r].header = "bad" THEN 400
    ELSE IF work[r].claim # Nil /\ work[r].header # work[r].claim THEN 403
    ELSE 0

\* The organization of a request: header, else token, else the subdomain's.
Tenant(r, bySlug) ==
    IF work[r].header \notin {None, Nil} THEN work[r].header
    ELSE IF work[r].claim # Nil THEN work[r].claim
    ELSE bySlug

\* JWTAuth, RequireUserPrincipal and TenantResolverWithWorkspace.  The lookup
\* of the subdomain reads the organizations, and its errors are ignored.
Admit(r, orgRows) ==
    /\ at[r] = "arrived"
    /\ IF ~TokenAccepted(r) THEN Finish(r, 401)
       ELSE IF ~IsUser(r) THEN Finish(r, 403)
       ELSE IF HeaderRefusal(r) # 0 THEN Finish(r, HeaderRefusal(r))
       ELSE \E ok \in Outcomes(r) :
              LET found == {o.id : o \in {o \in orgRows : o.slug = work[r].host /\ ok}}
                  slugOrg == IF found = {} THEN None ELSE CHOOSE i \in found : TRUE
              IN  GoWith(r, "gateway", [local[r] EXCEPT !.tenant = Tenant(r, slugOrg)])

-----------------------------------------------------------------------------
(* The routes behind the gateway.                                          *)

\* A route with maybeRequirePermission, or one without.
RouteGuarded(r) ==
    /\ at[r] = "route" /\ work[r].op \in DOMAIN RoutePermission
    /\ GoWith(r, "check", [local[r] EXCEPT !.want = RoutePermission[work[r].op]])

\* The trip and LLM routes: a blended token while REQUIRE_BLENDED_SENSITIVE is
\* on; the trip handlers are the matter of another module.
RouteTrip(r) ==
    /\ at[r] = "route" /\ work[r].op = "Trip"
    /\ Finish(r, IF work[r].token = "blended" THEN 200 ELSE 403)

\* LLMKillSwitch after the token: a switch that cannot be read is off.
RouteLLM(r, killed) ==
    /\ at[r] = "route" /\ work[r].op = "LLM"
    /\ IF work[r].token # "blended" THEN Finish(r, 403)
       ELSE \E ok \in Outcomes(r) :
              IF redis /\ killed /\ ok THEN Finish(r, 503) ELSE Go(r, "llm limit")

\* No route and no managed endpoint.
RouteNone(r) ==
    /\ at[r] = "route" /\ work[r].op = "Managed"
    /\ Finish(r, 404)
=============================================================================
