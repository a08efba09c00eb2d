------------------------------ MODULE Platform ------------------------------
(***************************************************************************)
(* The platform side of the server: requests for its tables and through    *)
(* its gateway, served side by side.                                       *)
(***************************************************************************)
EXTENDS Gateway, Integers

CONSTANTS
    Orgs0, Apps0, Workspaces0, Keys0, Endpoints0, Policies0, Records0, Roles0,
               \* what earlier requests have left in the tables
    Users      \* accounts

\* Whatever is asked for.
Inputs == {w[r] : w \in Workloads, r \in Requests}

\* A token names an organization or uuid.Nil; a role is assigned in a row of
\* organizations; the dto of a workspace's change has no id and no
\* organization; a limit is any number (those up to 0 are none).
ASSUME InputsAssumption ==
    \A q \in Inputs :
        /\ q.claim # None
        /\ q.op = "AssignRole" => q.row.org # Nil
        /\ q.op = "UpdateWorkspace" => {"id", "org"} \cap DOMAIN q.change = {}
        /\ q.limit \in Int

\* The rows an endpoint can have.
EndpointRows ==
    [id : Requests \cup {e.id : e \in Endpoints0},
     app : {q.id : q \in Inputs} \cup {e.app : e \in Endpoints0},
     route : {q.route : q \in Inputs} \cup {e.route : e \in Endpoints0},
     action : {q.action : q \in Inputs} \cup {e.action : e \in Endpoints0},
     schema : {q.schema : q \in Inputs} \cup {e.schema : e \in Endpoints0},
     pii : {q.pii : q \in Inputs} \cup {e.pii : e \in Endpoints0},
     status : {"active", "retired"}]

\* What the migrations ask of the tables: references to rows that exist,
\* unique slugs, and ids of rows that no request of ours has made.
ASSUME TablesAssumption ==
    /\ \A a \in Apps0 : \E o \in Orgs0 : o.id = a.org
    /\ \A w \in Workspaces0 :
          /\ DOMAIN w = {"id", "org", "slug", "name", "status"}
          /\ \E o \in Orgs0 : o.id = w.org
    /\ \A k \in Keys0 :
          DOMAIN k = {"id", "app", "active"} /\ \E a \in Apps0 : a.id = k.app
    /\ Endpoints0 \subseteq EndpointRows /\ None \notin EndpointRows
    /\ \A e \in Endpoints0 : \E a \in Apps0 : a.id = e.app
    /\ \A p \in Policies0 : p.limit \in Int /\ \E e \in Endpoints0 : e.id = p.endpoint
    /\ \A d \in Records0 : DOMAIN d = {"id", "org", "app", "data"}
    /\ \A g \in Roles0 : g.org # Nil
    /\ \A a, b \in Orgs0 : a.slug = b.slug => a = b
    /\ \A a, b \in Apps0 : a.org = b.org /\ a.slug = b.slug => a = b
    /\ \A a, b \in Workspaces0 : a.org = b.org /\ a.slug = b.slug => a = b
    /\ \A w \in Workspaces0 : w.id \notin Requests

VARIABLES killSwitch    \* Redis: the LLM kill switch

tables == <<tenantVars, endpointVars, rbacVars, limitVars, gatewayVars, killSwitch>>
vars == <<requestVars, tables>>

PlatformInit ==
    /\ RequestsInit
    /\ orgs = Orgs0 /\ apps = Apps0 /\ workspaces = Workspaces0 /\ keys = Keys0
    /\ endpoints = Endpoints0 /\ policies = Policies0 /\ records = Records0
    /\ userRoles = Roles0 /\ permCache = <<>>
    /\ counters = <<>> /\ passed = <<>> /\ windows = 0
    /\ killSwitch = FALSE

\* SetLLMKillSwitchRedis, or an operator with redis-cli; once, and only while
\* there are requests it makes a difference to.
SetKillSwitch ==
    /\ redis /\ ~killSwitch
    /\ \E r \in Requests : work[r].op = "LLM" /\ at[r] # "done"
    /\ killSwitch' = TRUE
    /\ UNCHANGED <<requestVars, tenantVars, endpointVars, rbacVars, limitVars, gatewayVars>>

\* Steps of the middleware and of the generic parts of the handlers.
RouterStep(r) ==
    /\ \/ Admit(r, orgs)
       \/ RouteGuarded(r) \/ RouteTrip(r) \/ RouteLLM(r, killSwitch) \/ RouteNone(r)
       \/ RefuseInput(r)
       \/ Publish(r)
    /\ UNCHANGED tables

Serve(r) ==
    \/ RouterStep(r)
    \/ RbacStep(r) /\ UNCHANGED <<tenantVars, endpointVars, limitVars, gatewayVars, killSwitch>>
    \/ TenantStep(r) /\ UNCHANGED <<endpointVars, rbacVars, limitVars, gatewayVars, killSwitch>>
    \/ EndpointStep(r) /\ UNCHANGED <<tenantVars, rbacVars, limitVars, gatewayVars, killSwitch>>
    \/ LimitStep(r) /\ UNCHANGED <<tenantVars, endpointVars, rbacVars, gatewayVars, killSwitch>>
    \/ GatewayStep(r) /\ UNCHANGED <<tenantVars, endpointVars, rbacVars, limitVars, killSwitch>>

Expire(key) ==
    /\ ExpirePermissions(key)
    /\ UNCHANGED <<tenantVars, endpointVars, limitVars, gatewayVars, killSwitch>>

PassWindow ==
    /\ \E key \in DOMAIN counters : EndWindow(key)
    /\ UNCHANGED <<tenantVars, endpointVars, rbacVars, gatewayVars, killSwitch>>

CacheKeys == Users \X ({Nil} \cup {o.id : o \in Orgs0})

PlatformNext ==
    \/ \E r \in Requests : Serve(r)
    \/ \E key \in CacheKeys : Expire(key)
    \/ PassWindow
    \/ SetKillSwitch

\* The runtime schedules every goroutine, and time passes.
PlatformSpec ==
    /\ PlatformInit /\ [][PlatformNext]_vars
    /\ \A r \in Requests : WF_vars(Serve(r))
    /\ \A key \in CacheKeys : WF_vars(Expire(key))

-----------------------------------------------------------------------------
(* Properties.                                                             *)

Points == {"arrived", "gateway", "policy", "limit", "window", "intercept", "backend", "records",
           "route", "check", "check roles", "fill cache", "llm limit", "llm window", "handler",
           "invalidate", "insert org", "app slug", "insert app", "workspace slug",
           "insert workspace", "update workspace", "page", "insert endpoint", "update endpoint",
           "insert policy", "update policy", "publish", "done"}

\* Requests are at known points, an answer is given exactly once a request is
\* done, and the rows of the tables refer to rows that exist (migrations 00007
\* to 00012).
PlatformTypeOK ==
    /\ work \in Workloads
    /\ at \in [Requests -> Points]
    /\ \A r \in Requests : (answer[r].status # 0) <=> at[r] = "done"
    /\ published \subseteq {r \in Requests : at[r] = "done"}
    /\ \A a \in apps : OrgById(a.org) # {}
    /\ \A w \in workspaces : OrgById(w.org) # {}
    /\ \A k \in keys : AppById(k.app) # {}
    /\ \A e \in endpoints : AppById(e.app) # {}
    /\ \A p \in policies : EndpointById(p.endpoint) # {}
    /\ DOMAIN passed \subseteq DOMAIN counters

Admitted == {"handler", "limit", "window", "intercept", "backend", "records", "invalidate",
             "insert org", "app slug", "insert app", "workspace slug", "insert workspace",
             "update workspace", "page", "insert endpoint", "update endpoint", "insert policy",
             "update policy", "publish"}

\* Whoever got past a permission check, of the router or of a policy, holds a
\* role with that permission in the organization of the token: no stale or
\* foreign entry of the cache lets anyone in (rbac_service.go:32, auth.go:72,
\* pipeline.go:113).
AccessIsGranted ==
    \A r \in Requests : at[r] \in Admitted /\ local[r].want # None =>
        \E p \in Granted(work[r].user, work[r].claim) : Matches(p, local[r].want)

\* A role that was assigned takes effect: a request that read the old
\* permissions may cache them behind the invalidation (rbac_service.go:45,
\* assign_role.go:41), but not for ever.
AssignmentTakesEffect ==
    <>[](\A key \in DOMAIN permCache : permCache[key] = Granted(key[1], key[2]))

\* Of the requests that one window of a counter lets through there are never
\* more than their limit, whoever counts them and in whatever order they do
\* (rate_limit.go:41 and :70, pipeline.go:252); and only a request on its way
\* to EXPIRE, or one whose EXPIRE failed, leaves a counter without an end.
LimitIsPerWindow ==
    \A key \in DOMAIN counters :
        /\ key \in DOMAIN passed => Cardinality(passed[key]) <= Max({p[2] : p \in passed[key]})
        /\ ~counters[key].ends => \E r \in Requests :
              at[r] \in {"window", "llm window"} \/ work[r].faulty

Touched(r) == at'[r] # at[r] \/ answer'[r] # answer[r]

\* A request creates, changes and removes apps, workspaces and records of its
\* token's organization only, and lists no others' workspaces and records,
\* whatever the headers, the path and the body say (tenant.go:28,
\* create_app.go:29, update_workspace.go:39, dynamic_handler.go:233).  A record
\* that takes the place of one of the organization is where the body puts it.
TenantsAreKeptApart ==
    [][\A r \in Requests : Touched(r) =>
          /\ \A row \in (apps' \ apps) \cup (workspaces' \ workspaces) \cup (records \ records') :
                 row.org = work[r].claim
          /\ records \subseteq records' =>
                 \A d \in records' \ records : d.org = work[r].claim
          /\ (answer'[r].status # 0 /\ (work[r].op = "ListWorkspaces" \/ local[r].endpoint # None)) =>
                 \A row \in answer'[r].rows : row.org = work[r].claim]_vars

\* However two requests check and insert, and even where the check failed, a
\* slug names one organization, and one workspace or app of an organization;
\* what was answered with "created" is in its table (create_org.go:30,
\* create_workspace.go:66, update_workspace.go:49).
SlugsNameOneRow ==
    /\ \A a, b \in orgs : a.slug = b.slug => a = b
    /\ \A a, b \in workspaces : a.org = b.org /\ a.slug = b.slug => a = b
    /\ \A a, b \in apps : a.org = b.org /\ a.slug = b.slug => a = b
    /\ \A r \in Requests : (at[r] = "done" /\ answer[r].status = 201 /\ local[r].endpoint = None) =>
          \E row \in orgs \cup apps \cup workspaces \cup keys \cup endpoints : row.id = r
=============================================================================
