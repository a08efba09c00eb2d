--------------------------- MODULE PlatformProofs ---------------------------
(***************************************************************************)
(* Proofs about the platform: what a step of a request leaves alone, and   *)
(* from it the safety properties of Platform for every value of the        *)
(* constants that its assumptions admit.                                   *)
(***************************************************************************)
EXTENDS Platform, SequenceTheorems, TLAPS

-----------------------------------------------------------------------------
(* Requests move one at a time.                                            *)

MemFields == {"tenant", "endpoint", "policy", "want", "perms", "row", "count"}

\* The points of the handlers of the tables.
TablePoints ==
    {"handler", "insert org", "app slug", "insert app", "workspace slug", "insert workspace",
     "update workspace", "page", "insert endpoint", "update endpoint", "insert policy",
     "update policy"}

\* Every status but 201, "created".
Statuses == {200, 204, 400, 401, 403, 404, 409, 410, 429, 500, 502, 503}

LEMMA StatusCodes ==
    /\ 200 \in Statuses /\ 204 \in Statuses /\ 400 \in Statuses
    /\ 401 \in Statuses /\ 403 \in Statuses /\ 404 \in Statuses /\ 409 \in Statuses
    /\ 410 \in Statuses /\ 429 \in Statuses /\ 500 \in Statuses /\ 502 \in Statuses
    /\ 503 \in Statuses
BY DEF Statuses

ShapeOK ==
    /\ work \in Workloads
    /\ at \in [Requests -> Points]
    /\ DOMAIN local = Requests /\ DOMAIN answer = Requests
    /\ \A r \in Requests : DOMAIN local[r] = MemFields

\* Only r has moved, to another point or to its end.
Moved(r) ==
    /\ work' = work /\ redis' = redis
    /\ ShapeOK'
    /\ \A u \in Requests \ {r} :
          at'[u] = at[u] /\ local'[u] = local[u] /\ answer'[u] = answer[u]
    /\ published' \subseteq published \cup {r}
    /\ published' # published => at'[r] = "done"
    /\ IF at'[r] = "done" THEN answer'[r].status \in Statuses \cup {201} /\ local'[r] = local[r]
       ELSE answer'[r] = answer[r]

\* What r's goroutine remembers, the row in its hand apart.
KeepsMemory(r) ==
    /\ local'[r].tenant = local[r].tenant /\ local'[r].endpoint = local[r].endpoint
    /\ local'[r].policy = local[r].policy /\ local'[r].want = local[r].want
    /\ local'[r].perms = local[r].perms

LEMMA WithRow ==
    ASSUME NEW m, NEW row, DOMAIN m = MemFields
    PROVE  LET n == [m EXCEPT !.row = row]
           IN  /\ DOMAIN n = MemFields
               /\ n.row = row /\ n.tenant = m.tenant /\ n.endpoint = m.endpoint
               /\ n.policy = m.policy /\ n.want = m.want /\ n.perms = m.perms
BY DEF MemFields

LEMMA GoesWith ==
    ASSUME ShapeOK, NEW r \in Requests, NEW p \in Points, NEW m, DOMAIN m = MemFields,
           p # "done", GoWith(r, p, m)
    PROVE  Moved(r) /\ at'[r] = p /\ local'[r] = m /\ published' = published /\ answer' = answer
BY DEF ShapeOK, GoWith, Moved

LEMMA Goes ==
    ASSUME ShapeOK, NEW r \in Requests, NEW p \in Points, p # "done", Go(r, p)
    PROVE  /\ Moved(r) /\ at'[r] = p /\ local'[r] = local[r]
           /\ published' = published /\ answer' = answer
BY GoesWith DEF ShapeOK, Go

\* r ends with this answer.
Answers(r, a) ==
    /\ a.status \in Statuses \cup {201}
    /\ at' = [at EXCEPT ![r] = "done"] /\ answer' = [answer EXCEPT ![r] = a]
    /\ UNCHANGED <<work, redis, local>> /\ published' \subseteq published \cup {r}

LEMMA Answered ==
    ASSUME ShapeOK, NEW r \in Requests, NEW a, Answers(r, a)
    PROVE  Moved(r) /\ at'[r] = "done" /\ answer'[r] = a
<1>1. ShapeOK' /\ at'[r] = "done"
  <2>1. "done" \in Points
    BY DEF Points
  <2> QED
    BY <2>1 DEF Answers, ShapeOK
<1>2. answer'[r] = a
  BY DEF Answers, ShapeOK
<1> QED
  BY <1>1, <1>2 DEF Answers, ShapeOK, Moved

LEMMA Finishes ==
    ASSUME ShapeOK, NEW r \in Requests, NEW s \in Statuses \cup {201}, Finish(r, s)
    PROVE  /\ Moved(r) /\ at'[r] = "done" /\ local' = local /\ published' = published
           /\ answer'[r].status = s /\ answer'[r].rows = {}
<1> DEFINE a == [status |-> s, rows |-> {}]
<1>1. a.status = s /\ a.rows = {}
  OBVIOUS
<1>2. Answers(r, a) /\ local' = local /\ published' = published
  BY <1>1 DEF Finish, Answers
<1> HIDE DEF a
<1>3. Moved(r) /\ at'[r] = "done" /\ answer'[r] = a
  BY <1>2, Answered
<1> QED
  BY <1>1, <1>2, <1>3

LEMMA Returns ==
    ASSUME ShapeOK, NEW r \in Requests, NEW rows, Return(r, rows)
    PROVE  /\ Moved(r) /\ at'[r] = "done" /\ local' = local /\ published' = published
           /\ answer'[r].status = 200 /\ answer'[r].rows = rows
<1> DEFINE a == [status |-> 200, rows |-> rows]
<1>1. a.status = 200 /\ a.rows = rows
  OBVIOUS
<1>2. Answers(r, a) /\ local' = local /\ published' = published
  BY <1>1, StatusCodes DEF Return, Answers
<1> HIDE DEF a
<1>3. Moved(r) /\ at'[r] = "done" /\ answer'[r] = a
  BY <1>2, Answered
<1> QED
  BY <1>1, <1>2, <1>3

LEMMA Publishes ==
    ASSUME ShapeOK, NEW r \in Requests, Publish(r), local[r].row.status \in Statuses \cup {201}
    PROVE  /\ Moved(r) /\ at[r] = "publish" /\ at'[r] = "done" /\ local' = local
           /\ answer'[r].status = local[r].row.status /\ answer'[r].rows = {}
<1> DEFINE a == [status |-> local[r].row.status, rows |-> {}]
<1>1. a.status = local[r].row.status /\ a.rows = {}
  OBVIOUS
<1>2. Answers(r, a) /\ local' = local /\ at[r] = "publish"
  BY <1>1 DEF Publish, Answers
<1> HIDE DEF a
<1>3. Moved(r) /\ at'[r] = "done" /\ answer'[r] = a
  BY <1>2, Answered
<1> QED
  BY <1>1, <1>2, <1>3

LEMMA GoesWithRow ==
    ASSUME ShapeOK, NEW r \in Requests, NEW p \in Points, NEW row, p # "done",
           GoWithRow(r, p, row)
    PROVE  /\ Moved(r) /\ at'[r] = p /\ local'[r].row = row /\ KeepsMemory(r)
           /\ published' = published /\ answer' = answer
<1> DEFINE n == [local[r] EXCEPT !.row = row]
<1>1. GoWith(r, p, n)
  BY DEF GoWithRow
<1>2. DOMAIN local[r] = MemFields
  BY DEF ShapeOK
<1>3. /\ DOMAIN n = MemFields
      /\ n.row = row /\ n.tenant = local[r].tenant /\ n.endpoint = local[r].endpoint
      /\ n.policy = local[r].policy /\ n.want = local[r].want /\ n.perms = local[r].perms
  BY <1>2, WithRow
<1> HIDE DEF n
<1> QED
  BY <1>1, <1>3, GoesWith DEF KeepsMemory

LEMMA Writes1 ==
    ASSUME ShapeOK, NEW r \in Requests, NEW s, Written(r, s)
    PROVE  /\ Moved(r) /\ at'[r] = "publish" /\ local'[r].row = [status |-> s]
           /\ KeepsMemory(r) /\ published' = published /\ answer' = answer
BY GoesWithRow DEF Written, Points

\* The steps that answer "created" without an event, and those that answer rows.
Creates(r) == CreateAPIKey(r) \/ CreateRecord(r)
Reads(r) ==
    \/ StoreWorkspace(r) \/ InsertPolicy(r) \/ StorePolicy(r)
    \/ TenantRead(r) \/ EndpointRead(r) \/ ListRecords(r) \/ GetRecord(r)

\* Where a step leads that keeps what is remembered.
To(r, p) ==
    /\ Moved(r) /\ KeepsMemory(r) /\ published' = published /\ at'[r] = p
    /\ p = "publish" => local'[r].row.status \in {201, 204}
    /\ p = "done" => /\ answer'[r].status # 201 \/ Creates(r)
                     /\ answer'[r].rows = {} \/ Reads(r)

LEMMA GoTo ==
    ASSUME ShapeOK, NEW r \in Requests, NEW p \in Points \ {"done", "publish"}, Go(r, p)
    PROVE  To(r, p)
BY Goes DEF To, KeepsMemory

LEMMA RowTo ==
    ASSUME ShapeOK, NEW r \in Requests, NEW p \in Points \ {"done", "publish"}, NEW row,
           GoWithRow(r, p, row)
    PROVE  To(r, p)
BY GoesWithRow DEF To

LEMMA FinishTo ==
    ASSUME ShapeOK, NEW r \in Requests, NEW s \in Statuses, Finish(r, s) PROVE To(r, "done")
<1>1. 201 \notin Statuses
  BY DEF Statuses
<1> QED
  BY <1>1, Finishes DEF To, KeepsMemory

LEMMA FinishCreated ==
    ASSUME ShapeOK, NEW r \in Requests, Finish(r, 201), Creates(r) PROVE To(r, "done")
BY Finishes DEF To, KeepsMemory

LEMMA ReturnTo ==
    ASSUME ShapeOK, NEW r \in Requests, NEW rows, Return(r, rows), Reads(r)
    PROVE  To(r, "done")
<1>1. answer'[r].status # 201
  BY Returns
<1> QED
  BY <1>1, Returns DEF To, KeepsMemory

LEMMA WriteTo ==
    ASSUME ShapeOK, NEW r \in Requests, NEW s \in {201, 204}, Written(r, s) PROVE To(r, "publish")
<1>1. local'[r].row = [status |-> s]
  BY Writes1
<1>2. local'[r].row.status \in {201, 204}
  BY <1>1
<1> QED
  BY <1>2, Writes1 DEF To

-----------------------------------------------------------------------------
(* What the steps at the tables have in common.                            *)

\* A step of a handler of the tables, with the answer still to come or given.
AtTables(r) ==
    /\ at[r] \in TablePoints
    /\ \E p \in (TablePoints \ {"handler"}) \cup {"publish", "done"} : To(r, p)

LEMMA TenantSteps ==
    ASSUME ShapeOK, NEW r \in Requests, TenantStep(r)
    PROVE  AtTables(r)
<1> USE DEF AtTables, TablePoints, Points
<1>1. CASE CreateOrg(r)
  BY <1>1, FinishTo, StatusCodes, RowTo DEF CreateOrg, Handling
<1>2. CASE InsertOrg(r)
  BY <1>2, FinishTo, StatusCodes, WriteTo DEF InsertOrg
<1>3. CASE CreateApp(r)
  BY <1>3, FinishTo, StatusCodes, RowTo DEF CreateApp, Handling
<1>4. CASE CheckAppSlug(r)
  BY <1>4, FinishTo, StatusCodes, GoTo DEF CheckAppSlug
<1>5. CASE InsertApp(r)
  BY <1>5, FinishTo, StatusCodes, WriteTo DEF InsertApp
<1>6. CASE CreateWorkspace(r)
  BY <1>6, FinishTo, StatusCodes, RowTo DEF CreateWorkspace, Handling
<1>7. CASE InsertWorkspace(r)
  BY <1>7, FinishTo, StatusCodes, WriteTo DEF InsertWorkspace
<1>8. CASE UpdateWorkspace(r)
  BY <1>8, FinishTo, StatusCodes, RowTo DEF UpdateWorkspace, Handling
<1>9. CASE CheckWorkspaceSlug(r)
  BY <1>9, FinishTo, StatusCodes, GoTo DEF CheckWorkspaceSlug
<1>10. CASE StoreWorkspace(r)
  BY <1>10, FinishTo, StatusCodes, ReturnTo DEF StoreWorkspace, Reads
<1>11. CASE CreateAPIKey(r)
  <2>1. Creates(r)
    BY <1>11 DEF Creates
  <2>2. at[r] = "handler" /\ (Finish(r, 201) \/ Finish(r, 500))
    BY <1>11 DEF CreateAPIKey, Handling
  <2>3. CASE Finish(r, 201)
    BY <2>1, <2>2, <2>3, FinishCreated
  <2>4. CASE Finish(r, 500)
    BY <2>2, <2>4, FinishTo, StatusCodes
  <2> QED
    BY <2>2, <2>3, <2>4
<1>12. CASE RevokeAPIKey(r)
  BY <1>12, FinishTo, StatusCodes DEF RevokeAPIKey, Handling
<1>13. CASE TenantRead(r)
  BY <1>13, FinishTo, StatusCodes, ReturnTo, GoTo
     DEF Reads, TenantRead, GetOrg, GetApp, CountRows, ListOrgs, ListApps, ListWorkspaces,
         ListAPIKeys, Handling, ReadOr500, ReadOneOr404
<1> QED
  BY <1>1, <1>2, <1>3, <1>4, <1>5, <1>6, <1>7, <1>8, <1>9, <1>10, <1>11, <1>12, <1>13
     DEF TenantStep

LEMMA EndpointSteps ==
    ASSUME ShapeOK, NEW r \in Requests, EndpointStep(r)
    PROVE  AtTables(r)
<1> USE DEF AtTables, TablePoints, Points
<1>1. CASE DefineEndpoint(r)
  BY <1>1, FinishTo, StatusCodes, RowTo DEF DefineEndpoint, Handling
<1>2. CASE InsertEndpoint(r)
  BY <1>2, FinishTo, StatusCodes, WriteTo DEF InsertEndpoint
<1>3. CASE RetireEndpoint(r) \/ ActivateEndpoint(r)
  BY <1>3, FinishTo, StatusCodes, RowTo DEF RetireEndpoint, ActivateEndpoint, ReadForStatus, Handling
<1>4. CASE StoreEndpoint(r)
  BY <1>4, FinishTo, StatusCodes, WriteTo DEF StoreEndpoint
<1>5. CASE UpdatePolicy(r)
  BY <1>5, RowTo DEF UpdatePolicy, Handling
<1>6. CASE InsertPolicy(r)
  BY <1>6, FinishTo, StatusCodes, ReturnTo DEF InsertPolicy, Reads
<1>7. CASE StorePolicy(r)
  BY <1>7, FinishTo, StatusCodes, ReturnTo DEF StorePolicy, Reads
<1>8. CASE EndpointRead(r)
  BY <1>8, FinishTo, StatusCodes, ReturnTo
     DEF Reads, EndpointRead, GetEndpoint, ListEndpoints, GetPolicy, Handling, ReadOr500, ReadOneOr404
<1> QED
  BY <1>1, <1>2, <1>3, <1>4, <1>5, <1>6, <1>7, <1>8 DEF EndpointStep

-----------------------------------------------------------------------------
(* Admission, and the routes behind the gateway.                           *)

Admits(r) ==
    /\ Moved(r) /\ published' = published /\ at'[r] = "gateway"
    /\ HeaderRefusal(r) = 0
    /\ \E slugOrg : local'[r] = [local[r] EXCEPT !.tenant = Tenant(r, slugOrg)]

LEMMA AdmitStep ==
    ASSUME ShapeOK, NEW r \in Requests, Admit(r, orgs)
    PROVE  at[r] = "arrived" /\ (To(r, "done") \/ Admits(r))
<1>1. HeaderRefusal(r) \in {0} \cup Statuses
  BY StatusCodes DEF HeaderRefusal
<1>2. ASSUME NEW t, GoWith(r, "gateway", [local[r] EXCEPT !.tenant = t])
      PROVE  /\ Moved(r) /\ published' = published /\ at'[r] = "gateway"
             /\ local'[r] = [local[r] EXCEPT !.tenant = t]
  <2> DEFINE n == [local[r] EXCEPT !.tenant = t]
  <2>1. DOMAIN n = MemFields /\ "gateway" \in Points
    BY DEF ShapeOK, Points
  <2> HIDE DEF n
  <2> QED
    BY <1>2, <2>1, GoesWith DEF n
<1>3. CASE TokenAccepted(r) /\ IsUser(r) /\ HeaderRefusal(r) = 0
  <2>1. PICK ok \in Outcomes(r) :
          LET found == {o.id : o \in {o \in orgs : o.slug = work[r].host /\ ok}}
              slugOrg == IF found = {} THEN None ELSE CHOOSE i \in found : TRUE
          IN  GoWith(r, "gateway", [local[r] EXCEPT !.tenant = Tenant(r, slugOrg)])
    BY <1>3 DEF Admit
  <2>2. PICK slugOrg : GoWith(r, "gateway", [local[r] EXCEPT !.tenant = Tenant(r, slugOrg)])
    BY <2>1
  <2> QED
    BY <1>3, <2>2, <1>2 DEF Admits, Admit
<1>4. CASE ~(TokenAccepted(r) /\ IsUser(r) /\ HeaderRefusal(r) = 0)
  BY <1>1, <1>4, FinishTo, StatusCodes DEF Admit
<1> QED
  BY <1>3, <1>4

\* The route's permission is wanted next.
Guards(r) ==
    /\ Moved(r) /\ published' = published /\ at'[r] = "check"
    /\ \E want : local'[r] = [local[r] EXCEPT !.want = want]

LEMMA RouteSteps ==
    ASSUME ShapeOK, NEW r \in Requests,
           RouteGuarded(r) \/ RouteTrip(r) \/ RouteLLM(r, killSwitch) \/ RouteNone(r)
    PROVE  at[r] = "route" /\ (To(r, "done") \/ To(r, "llm limit") \/ Guards(r))
<1>1. CASE RouteGuarded(r)
  <2> DEFINE n == [local[r] EXCEPT !.want = RoutePermission[work[r].op]]
  <2>1. DOMAIN n = MemFields /\ "check" \in Points
    BY DEF ShapeOK, Points
  <2>2. GoWith(r, "check", n) /\ at[r] = "route"
    BY <1>1 DEF RouteGuarded
  <2>3. \E want : n = [local[r] EXCEPT !.want = want]
    OBVIOUS
  <2> HIDE DEF n
  <2> QED
    BY <2>1, <2>2, <2>3, GoesWith DEF Guards
<1>2. CASE RouteTrip(r) \/ RouteNone(r)
  BY <1>2, FinishTo, StatusCodes DEF RouteTrip, RouteNone
<1>3. CASE RouteLLM(r, killSwitch)
  BY <1>3, FinishTo, GoTo, StatusCodes DEF RouteLLM, Points
<1> QED
  BY <1>1, <1>2, <1>3

LEMMA RefuseStep ==
    ASSUME ShapeOK, NEW r \in Requests, RefuseInput(r)
    PROVE  at[r] = "handler" /\ To(r, "done")
BY FinishTo, StatusCodes DEF RefuseInput

-----------------------------------------------------------------------------
(* Permission checks.                                                      *)

KeepsAim(r) ==
    /\ local'[r].tenant = local[r].tenant /\ local'[r].endpoint = local[r].endpoint
    /\ local'[r].policy = local[r].policy /\ local'[r].want = local[r].want

\* A check that these permissions pass.
Passes(r, perms) ==
    /\ Moved(r) /\ published' = published
    /\ KeepsAim(r) /\ local'[r].perms = perms
    /\ at'[r] = IF local[r].endpoint = None THEN "handler" ELSE "limit"
    /\ \E p \in perms : Matches(p, local[r].want)

\* The permissions are on their way to the cache.
Keeps(r, perms) ==
    /\ Moved(r) /\ published' = published
    /\ KeepsAim(r) /\ local'[r].perms = perms
    /\ at'[r] = "fill cache"

LEMMA WithPerms ==
    ASSUME NEW m, NEW perms, DOMAIN m = MemFields
    PROVE  LET n == [m EXCEPT !.perms = perms]
           IN  /\ DOMAIN n = MemFields
               /\ n.perms = perms /\ n.tenant = m.tenant /\ n.endpoint = m.endpoint
               /\ n.policy = m.policy /\ n.want = m.want
BY DEF MemFields

LEMMA Decides ==
    ASSUME ShapeOK, NEW r \in Requests, NEW mem, DOMAIN mem = MemFields,
           mem.tenant = local[r].tenant, mem.endpoint = local[r].endpoint,
           mem.policy = local[r].policy, mem.want = local[r].want, Decide(r, mem)
    PROVE  To(r, "done") \/ Passes(r, mem.perms)
<1>1. CASE \E p \in mem.perms : Matches(p, mem.want)
  <2>1. PICK point \in {"handler", "limit"} :
          point = (IF local[r].endpoint = None THEN "handler" ELSE "limit")
          /\ GoWith(r, point, mem)
    BY <1>1 DEF Decide
  <2>2. point \in Points /\ point # "done"
    BY DEF Points
  <2> QED
    BY <1>1, <2>1, <2>2, GoesWith DEF Passes, KeepsAim
<1>2. CASE ~\E p \in mem.perms : Matches(p, mem.want)
  BY <1>2, FinishTo, StatusCodes DEF Decide
<1> QED
  BY <1>1, <1>2

LEMMA ReadPermissionCacheStep ==
    ASSUME ShapeOK, NEW r \in Requests, ReadPermissionCache(r)
    PROVE  /\ at[r] = "check"
           /\ \/ To(r, "done") \/ To(r, "check roles")
              \/ KeyOf(r) \in DOMAIN permCache /\ Passes(r, permCache[KeyOf(r)])
<1> DEFINE n == [local[r] EXCEPT !.perms = permCache[KeyOf(r)]]
<1>1. DOMAIN local[r] = MemFields
  BY DEF ShapeOK
<1>2. /\ DOMAIN n = MemFields
      /\ n.perms = permCache[KeyOf(r)] /\ n.tenant = local[r].tenant
      /\ n.endpoint = local[r].endpoint /\ n.policy = local[r].policy /\ n.want = local[r].want
  BY <1>1, WithPerms
<1>3. \/ KeyOf(r) \in DOMAIN permCache /\ Decide(r, n)
      \/ Go(r, "check roles")
  BY DEF ReadPermissionCache
<1> HIDE DEF n
<1>4. CASE KeyOf(r) \in DOMAIN permCache /\ Decide(r, n)
  BY <1>4, <1>2, Decides DEF ReadPermissionCache
<1>5. CASE Go(r, "check roles")
  BY <1>5, GoTo DEF ReadPermissionCache, Points
<1> QED
  BY <1>3, <1>4, <1>5

LEMMA ReadRolesStep ==
    ASSUME ShapeOK, NEW r \in Requests, ReadRoles(r)
    PROVE  LET granted == Granted(work[r].user, work[r].claim)
           IN  /\ at[r] = "check roles"
               /\ To(r, "done") \/ Keeps(r, granted) \/ Passes(r, granted)
<1> DEFINE granted == Granted(work[r].user, work[r].claim)
           n == [local[r] EXCEPT !.perms = granted]
<1>1. DOMAIN local[r] = MemFields
  BY DEF ShapeOK
<1>2. /\ DOMAIN n = MemFields
      /\ n.perms = granted /\ n.tenant = local[r].tenant
      /\ n.endpoint = local[r].endpoint /\ n.policy = local[r].policy /\ n.want = local[r].want
  BY <1>1, WithPerms
<1>3. at[r] = "check roles" /\ (Finish(r, 500) \/ GoWith(r, "fill cache", n) \/ Decide(r, n))
  BY DEF ReadRoles
<1> HIDE DEF n, granted
<1>4. CASE Finish(r, 500)
  BY <1>3, <1>4, FinishTo, StatusCodes DEF granted
<1>5. CASE GoWith(r, "fill cache", n)
  <2>1. "fill cache" \in Points
    BY DEF Points
  <2> QED
    BY <1>2, <1>3, <1>5, <2>1, GoesWith DEF Keeps, KeepsAim, granted
<1>6. CASE Decide(r, n)
  BY <1>2, <1>3, <1>6, Decides DEF granted
<1> QED
  BY <1>3, <1>4, <1>5, <1>6

LEMMA FillPermissionCacheStep ==
    ASSUME ShapeOK, NEW r \in Requests, FillPermissionCache(r)
    PROVE  at[r] = "fill cache" /\ (To(r, "done") \/ Passes(r, local[r].perms))
<1>1. DOMAIN local[r] = MemFields
  BY DEF ShapeOK
<1> QED
  BY <1>1, Decides DEF FillPermissionCache

LEMMA RoleSteps ==
    ASSUME ShapeOK, NEW r \in Requests,
           AssignRole(r) \/ InvalidatePermissions(r) \/ ListUsers(r)
    PROVE  \/ at[r] = "handler" /\ (To(r, "done") \/ To(r, "invalidate"))
           \/ at[r] = "invalidate" /\ To(r, "publish")
<1>1. CASE AssignRole(r)
  BY <1>1, GoTo, FinishTo, StatusCodes DEF AssignRole, Handling, Points
<1>2. CASE InvalidatePermissions(r)
  BY <1>2, WriteTo DEF InvalidatePermissions, Written
<1>3. CASE ListUsers(r)
  BY <1>3, FinishTo, StatusCodes DEF ListUsers, Handling
<1> QED
  BY <1>1, <1>2, <1>3

-----------------------------------------------------------------------------
(* Limits and the gateway.                                                 *)

LEMMA LimitSteps ==
    ASSUME ShapeOK, NEW r \in Requests, LimitStep(r)
    PROVE  \/ at[r] = "llm limit" /\ (To(r, "done") \/ To(r, "llm window"))
           \/ at[r] = "llm window" /\ To(r, "done")
           \/ at[r] = "limit" /\ (To(r, "done") \/ To(r, "window") \/ To(r, "intercept"))
           \/ at[r] = "window" /\ To(r, "intercept")
<1> USE DEF Points
<1>1. CASE AllowInMemory(r)
  BY <1>1, FinishTo, StatusCodes DEF AllowInMemory
<1>2. CASE AllowInRedis(r)
  <2>1. Finish(r, 200) \/ Finish(r, 429) \/ Go(r, "llm window")
    BY <1>2 DEF AllowInRedis
  <2>2. at[r] = "llm limit"
    BY <1>2 DEF AllowInRedis
  <2> QED
    BY <2>1, <2>2, FinishTo, GoTo, StatusCodes
<1>3. CASE StartLLMWindow(r)
  BY <1>3, FinishTo, StatusCodes DEF StartLLMWindow
<1>4. CASE SkipLimit(r)
  BY <1>4, GoTo DEF SkipLimit
<1>5. CASE CheckRateLimit(r)
  <2>1. Finish(r, 429) \/ Go(r, "window") \/ Go(r, "intercept")
    BY <1>5 DEF CheckRateLimit
  <2>2. at[r] = "limit"
    BY <1>5 DEF CheckRateLimit
  <2> QED
    BY <2>1, <2>2, FinishTo, GoTo, StatusCodes
<1>6. CASE StartEndpointWindow(r)
  BY <1>6, GoTo DEF StartEndpointWindow
<1> QED
  BY <1>1, <1>2, <1>3, <1>4, <1>5, <1>6 DEF LimitStep

\* The gateway has found an endpoint.
Matched(r, e) ==
    /\ Moved(r) /\ published' = published /\ at'[r] = "policy"
    /\ local'[r] = [local[r] EXCEPT !.endpoint = e]

LEMMA EnforceStep ==
    ASSUME ShapeOK, NEW r \in Requests, Enforce(r)
    PROVE  /\ at[r] = "gateway"
           /\ \/ To(r, "done") \/ To(r, "route")
              \/ \E e \in endpoints : Matched(r, e)
<1>1. ASSUME NEW e \in endpoints, GoWith(r, "policy", [local[r] EXCEPT !.endpoint = e])
      PROVE  Matched(r, e)
  <2> DEFINE n == [local[r] EXCEPT !.endpoint = e]
  <2>1. DOMAIN n = MemFields /\ "policy" \in Points
    BY DEF ShapeOK, Points
  <2> HIDE DEF n
  <2>2. Moved(r) /\ published' = published /\ at'[r] = "policy" /\ local'[r] = n
    BY <1>1, <2>1, GoesWith DEF n
  <2> QED
    BY <2>2 DEF n, Matched
<1>2. /\ at[r] = "gateway"
      /\ \/ Go(r, "route") \/ Finish(r, 400) \/ Finish(r, 410)
         \/ \E e \in endpoints : GoWith(r, "policy", [local[r] EXCEPT !.endpoint = e])
  BY DEF Enforce, EndpointByRoute
<1> QED
  BY <1>1, <1>2, GoTo, FinishTo, StatusCodes DEF Points

\* Its policy is p, and asks for the permission want if that is not None.
Governed(r, p) ==
    /\ Moved(r) /\ published' = published
    /\ \/ /\ p # None /\ p.perm # None /\ at'[r] = "check"
          /\ local'[r] = [local[r] EXCEPT !.policy = p, !.want = p.perm]
       \/ at'[r] = "limit" /\ local'[r] = [local[r] EXCEPT !.policy = p]

LEMMA ApplyPolicyStep ==
    ASSUME ShapeOK, NEW r \in Requests, ApplyPolicy(r)
    PROVE  at[r] = "policy" /\ \E p \in policies \cup {None} : Governed(r, p)
<1>1. ASSUME NEW p,
             p # None /\ p.perm # None
             /\ GoWith(r, "check", [local[r] EXCEPT !.policy = p, !.want = p.perm])
      PROVE  Governed(r, p)
  <2> DEFINE n == [local[r] EXCEPT !.policy = p, !.want = p.perm]
  <2>1. DOMAIN n = MemFields /\ "check" \in Points
    BY DEF ShapeOK, Points
  <2>2. GoWith(r, "check", n)
    BY <1>1
  <2> HIDE DEF n
  <2>3. Moved(r) /\ published' = published /\ at'[r] = "check" /\ local'[r] = n
    BY <2>1, <2>2, GoesWith
  <2> QED
    BY <1>1, <2>3 DEF n, Governed
<1>2. ASSUME NEW p, GoWith(r, "limit", [local[r] EXCEPT !.policy = p])
      PROVE  Governed(r, p)
  <2> DEFINE n == [local[r] EXCEPT !.policy = p]
  <2>1. DOMAIN n = MemFields /\ "limit" \in Points
    BY DEF ShapeOK, Points
  <2> HIDE DEF n
  <2>2. Moved(r) /\ published' = published /\ at'[r] = "limit" /\ local'[r] = n
    BY <1>2, <2>1, GoesWith DEF n
  <2> QED
    BY <2>2 DEF n, Governed
<1>3. PICK p \in policies \cup {None} :
          IF p # None /\ p.perm # None
          THEN GoWith(r, "check", [local[r] EXCEPT !.policy = p, !.want = p.perm])
          ELSE GoWith(r, "limit", [local[r] EXCEPT !.policy = p])
  BY DEF ApplyPolicy, PoliciesOf
<1>4. at[r] = "policy"
  BY DEF ApplyPolicy
<1> QED
  BY <1>1, <1>2, <1>3, <1>4

LEMMA BackendSteps ==
    ASSUME ShapeOK, NEW r \in Requests,
           \/ Intercept(r) \/ ProxyRequest(r) \/ UnknownAction(r)
           \/ CountRecords(r) \/ ListRecords(r) \/ GetRecord(r)
           \/ CreateRecord(r) \/ UpdateRecord(r) \/ DeleteRecord(r)
    PROVE  \/ at[r] = "intercept" /\ (To(r, "done") \/ To(r, "backend"))
           \/ at[r] = "backend" /\ (To(r, "done") \/ To(r, "records"))
           \/ at[r] = "records" /\ To(r, "done")
<1> USE DEF Points, Backend
<1>1. CASE Intercept(r)
  BY <1>1, FinishTo, RowTo, StatusCodes DEF Intercept
<1>2. CASE ProxyRequest(r) \/ UnknownAction(r)
  BY <1>2, FinishTo, StatusCodes DEF ProxyRequest, UnknownAction
<1>3. CASE CountRecords(r)
  BY <1>3, FinishTo, GoTo, StatusCodes DEF CountRecords
<1>4. CASE ListRecords(r)
  BY <1>4, FinishTo, ReturnTo, StatusCodes DEF ListRecords, ReadOr500, Reads
<1>5. CASE GetRecord(r)
  BY <1>5, FinishTo, ReturnTo, StatusCodes DEF GetRecord, Reads
<1>6. CASE CreateRecord(r)
  BY <1>6, FinishTo, FinishCreated, StatusCodes DEF CreateRecord, Creates
<1>7. CASE UpdateRecord(r)
  BY <1>7, FinishTo, StatusCodes DEF UpdateRecord
<1>8. CASE DeleteRecord(r)
  BY <1>8, FinishTo, StatusCodes DEF DeleteRecord
<1> QED
  BY <1>1, <1>2, <1>3, <1>4, <1>5, <1>6, <1>7, <1>8

-----------------------------------------------------------------------------
(* The way of a request, in full.                                          *)

GatewayPoints == {"limit", "window", "intercept", "backend", "records"}

\* What one step of a request's goroutine does to the request.
Path(r) ==
    \/ at[r] = "arrived" /\ (To(r, "done") \/ Admits(r))
    \/ at[r] = "gateway" /\ (To(r, "done") \/ To(r, "route") \/ \E e \in endpoints : Matched(r, e))
    \/ at[r] = "policy" /\ \E p \in policies \cup {None} : Governed(r, p)
    \/ at[r] = "route" /\ (To(r, "done") \/ To(r, "llm limit") \/ Guards(r))
    \/ at[r] \in {"llm limit", "llm window"} /\ (To(r, "done") \/ To(r, "llm window"))
    \/ at[r] \in GatewayPoints /\ \E p \in (GatewayPoints \ {"limit"}) \cup {"done"} : To(r, p)
    \/ /\ at[r] = "check"
       /\ \/ To(r, "done") \/ To(r, "check roles")
          \/ KeyOf(r) \in DOMAIN permCache /\ Passes(r, permCache[KeyOf(r)])
    \/ /\ at[r] = "check roles"
       /\ \/ To(r, "done")
          \/ Keeps(r, Granted(work[r].user, work[r].claim))
          \/ Passes(r, Granted(work[r].user, work[r].claim))
    \/ at[r] = "fill cache" /\ (To(r, "done") \/ Passes(r, local[r].perms))
    \/ at[r] = "handler" /\ (To(r, "done") \/ To(r, "invalidate"))
    \/ at[r] = "invalidate" /\ To(r, "publish")
    \/ AtTables(r)
    \/ /\ at[r] = "publish" /\ Moved(r) /\ at'[r] = "done" /\ local' = local
       /\ answer'[r].status = local[r].row.status /\ answer'[r].rows = {}

AnswersOK ==
    /\ \A r \in Requests :
          /\ at[r] = "publish" => local[r].row.status \in {201, 204}
          /\ (answer[r].status # 0) <=> at[r] = "done"
          /\ r \in published => at[r] = "done"
    /\ published \subseteq Requests

LEMMA ServePath ==
    ASSUME ShapeOK, AnswersOK, NEW r \in Requests, Serve(r)
    PROVE  Path(r)
<1>1. CASE RouterStep(r)
  <2>1. CASE Admit(r, orgs)
    BY <2>1, AdmitStep DEF Path
  <2>2. CASE RouteGuarded(r) \/ RouteTrip(r) \/ RouteLLM(r, killSwitch) \/ RouteNone(r)
    BY <2>2, RouteSteps DEF Path
  <2>3. CASE RefuseInput(r)
    BY <2>3, RefuseStep DEF Path
  <2>4. CASE Publish(r)
    <3>1. local[r].row.status \in Statuses \cup {201}
      <4>1. at[r] = "publish"
        BY <2>4 DEF Publish
      <4> QED
        BY <4>1, StatusCodes DEF AnswersOK
    <3> QED
      BY <2>4, <3>1, Publishes DEF Path
  <2> QED
    BY <1>1, <2>1, <2>2, <2>3, <2>4 DEF RouterStep
<1>2. CASE RbacStep(r)
  <2>1. CASE ReadPermissionCache(r)
    BY <2>1, ReadPermissionCacheStep DEF Path
  <2>2. CASE ReadRoles(r)
    BY <2>2, ReadRolesStep DEF Path
  <2>3. CASE FillPermissionCache(r)
    BY <2>3, FillPermissionCacheStep DEF Path
  <2>4. CASE AssignRole(r) \/ InvalidatePermissions(r) \/ ListUsers(r)
    BY <2>4, RoleSteps DEF Path
  <2> QED
    BY <1>2, <2>1, <2>2, <2>3, <2>4 DEF RbacStep
<1>3. CASE TenantStep(r)
  BY <1>3, TenantSteps DEF Path
<1>4. CASE EndpointStep(r)
  BY <1>4, EndpointSteps DEF Path
<1>5. CASE LimitStep(r)
  BY <1>5, LimitSteps DEF Path, GatewayPoints
<1>6. CASE GatewayStep(r)
  <2>1. CASE Enforce(r)
    BY <2>1, EnforceStep DEF Path
  <2>2. CASE ApplyPolicy(r)
    BY <2>2, ApplyPolicyStep DEF Path
  <2>3. CASE \/ Intercept(r) \/ ProxyRequest(r) \/ UnknownAction(r)
             \/ CountRecords(r) \/ ListRecords(r) \/ GetRecord(r)
             \/ CreateRecord(r) \/ UpdateRecord(r) \/ DeleteRecord(r)
    BY <2>3, BackendSteps DEF Path, GatewayPoints
  <2> QED
    BY <1>6, <2>1, <2>2, <2>3 DEF GatewayStep
<1> QED
  BY <1>1, <1>2, <1>3, <1>4, <1>5, <1>6 DEF Serve

LEMMA PathMoves ==
    ASSUME NEW r \in Requests, Path(r)
    PROVE  Moved(r) /\ at[r] # "done"
BY DEF Path, To, AtTables, Admits, Matched, Governed, Guards, Passes, Keeps, GatewayPoints,
       TablePoints

LEMMA PathAnswers ==
    ASSUME ShapeOK, AnswersOK, NEW r \in Requests, Path(r)
    PROVE  AnswersOK'
<1>1. Moved(r) /\ at[r] # "done"
  BY PathMoves
<1>2. at'[r] = "publish" => local'[r].row.status \in {201, 204}
  BY DEF Path, To, AtTables, Admits, Matched, Governed, Guards, Passes, Keeps, GatewayPoints
<1>3. 0 \notin Statuses
  BY DEF Statuses
<1>4. (answer'[r].status # 0) <=> at'[r] = "done"
  BY <1>1, <1>3 DEF Moved, AnswersOK
<1> QED
  BY <1>1, <1>2, <1>4 DEF Moved, AnswersOK

-----------------------------------------------------------------------------
(* Every step: one request's, or one that moves none of them.              *)

LEMMA Aside ==
    ASSUME PlatformNext \/ UNCHANGED vars, ~\E r \in Requests : Serve(r)
    PROVE  /\ UNCHANGED <<requestVars, tenantVars, endpointVars, userRoles, gatewayVars>>
           /\ \/ UNCHANGED <<rbacVars, limitVars>>
              \/ UNCHANGED rbacVars /\ \E key \in DOMAIN counters : EndWindow(key)
              \/ UNCHANGED limitVars /\ \E key : ExpirePermissions(key)
BY DEF PlatformNext, Expire, PassWindow, SetKillSwitch, ExpirePermissions, EndWindow, vars, tables,
       rbacVars

BaseOK == ShapeOK /\ AnswersOK

LEMMA InitBase == PlatformInit => BaseOK
<1> SUFFICES ASSUME PlatformInit PROVE BaseOK
  OBVIOUS
<1>1. ShapeOK
  BY DEF PlatformInit, RequestsInit, ShapeOK, NothingYet, MemFields, Points
<1>2. NoAnswer.status = 0
  BY DEF NoAnswer
<1>3. AnswersOK
  BY <1>2 DEF PlatformInit, RequestsInit, AnswersOK
<1> QED
  BY <1>1, <1>3 DEF BaseOK

LEMMA AsideBase ==
    ASSUME BaseOK, UNCHANGED requestVars
    PROVE  BaseOK'
BY DEF BaseOK, ShapeOK, AnswersOK, requestVars

LEMMA ServeBase ==
    ASSUME BaseOK, NEW r \in Requests, Serve(r)
    PROVE  BaseOK' /\ Path(r) /\ Moved(r) /\ at[r] # "done"
BY ServePath, PathMoves, PathAnswers DEF BaseOK, Moved

LEMMA NextBase == BaseOK /\ [PlatformNext]_vars => BaseOK'
<1> SUFFICES ASSUME BaseOK, PlatformNext \/ UNCHANGED vars PROVE BaseOK'
  OBVIOUS
<1>1. CASE \E r \in Requests : Serve(r)
  BY <1>1, ServeBase
<1>2. CASE ~\E r \in Requests : Serve(r)
  BY <1>2, Aside, AsideBase
<1> QED
  BY <1>1, <1>2

-----------------------------------------------------------------------------
(* Whoever got past a check holds the permission.                          *)

LEMMA GrantedGrows ==
    ASSUME userRoles \subseteq userRoles', NEW u, NEW o
    PROVE  Granted(u, o) \subseteq Granted(u, o)'
BY DEF Granted

\* The cache holds nothing that was not granted, and roles are not taken away.
CacheOK == \A key \in DOMAIN permCache : permCache[key] \subseteq Granted(key[1], key[2])

Unchecked == {"arrived", "gateway", "policy", "route"}

AccessIInv ==
    /\ BaseOK /\ CacheOK
    /\ \A r \in Requests :
          /\ at[r] \in Unchecked => local[r].want = None
          /\ at[r] = "fill cache" => local[r].perms \subseteq Granted(work[r].user, work[r].claim)
    /\ AccessIsGranted

LEMMA RolesGrow == ASSUME NEW r \in Requests, Serve(r) PROVE userRoles \subseteq userRoles'
<1>1. CASE RbacStep(r)
  BY <1>1 DEF RbacStep, rbacVars, ReadPermissionCache, ReadRoles, FillPermissionCache,
              AssignRole, InvalidatePermissions, ListUsers
<1>2. CASE RouterStep(r)
  BY <1>2 DEF RouterStep, tables, rbacVars
<1> QED
  BY <1>1, <1>2 DEF Serve, rbacVars

LEMMA ServeCache ==
    ASSUME AccessIInv, NEW r \in Requests, Serve(r)
    PROVE  CacheOK'
<1>1. userRoles \subseteq userRoles'
  BY RolesGrow
<1>2. ASSUME NEW key \in DOMAIN permCache PROVE permCache[key] \subseteq Granted(key[1], key[2])'
  BY <1>1, <1>2, GrantedGrows DEF AccessIInv, CacheOK
<1>3. CASE UNCHANGED permCache
  BY <1>2, <1>3 DEF CacheOK
<1>4. CASE FillPermissionCache(r)
  <2>1. at[r] = "fill cache"
    BY <1>4 DEF FillPermissionCache
  <2>2. local[r].perms \subseteq Granted(work[r].user, work[r].claim)
    BY <2>1 DEF AccessIInv
  <2>3. local[r].perms \subseteq Granted(KeyOf(r)[1], KeyOf(r)[2])
    BY <2>2 DEF KeyOf, CacheKey
  <2>4. PICK key : key = KeyOf(r)
    OBVIOUS
  <2>5. local[r].perms \subseteq Granted(key[1], key[2])'
    BY <2>3, <2>4, <1>1, GrantedGrows
  <2>6. permCache' = permCache \/
        permCache' = [k \in DOMAIN permCache \cup {key} |->
                         IF k = key THEN local[r].perms ELSE permCache[k]]
    BY <1>4, <2>4 DEF FillPermissionCache
  <2> QED
    BY <2>5, <2>6, <1>2 DEF CacheOK
<1>5. CASE InvalidatePermissions(r)
  <2>1. PICK key : permCache' = permCache \/ permCache' = [k \in DOMAIN permCache \ {key} |-> permCache[k]]
    BY <1>5 DEF InvalidatePermissions, Forget
  <2> QED
    BY <2>1, <1>2 DEF CacheOK
<1>6. UNCHANGED permCache \/ FillPermissionCache(r) \/ InvalidatePermissions(r)
  <2>1. CASE RbacStep(r)
    BY <2>1 DEF RbacStep, rbacVars, ReadPermissionCache, ReadRoles, AssignRole, ListUsers
  <2>2. CASE RouterStep(r)
    BY <2>2 DEF RouterStep, tables, rbacVars
  <2> QED
    BY <2>1, <2>2 DEF Serve, rbacVars
<1> QED
  BY <1>3, <1>4, <1>5, <1>6

\* What holds of one request.
AccessOf(r) ==
    /\ at[r] \in Unchecked => local[r].want = None
    /\ at[r] = "fill cache" => local[r].perms \subseteq Granted(work[r].user, work[r].claim)
    /\ at[r] \in Admitted /\ local[r].want # None =>
          \E p \in Granted(work[r].user, work[r].claim) : Matches(p, local[r].want)

LEMMA AccessOfAll ==
    AccessIInv <=> BaseOK /\ CacheOK /\ \A r \in Requests : AccessOf(r)
BY DEF AccessIInv, AccessOf, AccessIsGranted

LEMMA PathAccess ==
    ASSUME AccessIInv, NEW r \in Requests, Path(r), userRoles \subseteq userRoles'
    PROVE  AccessOf(r)'
<1> DEFINE G == Granted(work[r].user, work[r].claim)
<1>1. Moved(r) /\ AccessOf(r) /\ DOMAIN local[r] = MemFields /\ CacheOK
  BY PathMoves, AccessOfAll DEF AccessIInv, BaseOK, ShapeOK
<1>2. work' = work
  BY <1>1 DEF Moved
<1>3. PICK u, o : u = work[r].user /\ o = work[r].claim
  OBVIOUS
<1>4. G \subseteq G'
  BY <1>2, <1>3, GrantedGrows
<1>5. ASSUME NEW perms, Passes(r, perms), perms \subseteq G PROVE AccessOf(r)'
  BY <1>4, <1>5 DEF Passes, KeepsAim, AccessOf, Unchecked
<1>6. ASSUME NEW p, To(r, p), p \in Admitted => at[r] \in Admitted,
             p \in Unchecked => at[r] \in Unchecked, p # "fill cache"
      PROVE  AccessOf(r)'
  BY <1>1, <1>4, <1>6 DEF To, KeepsMemory, AccessOf
<1> HIDE DEF G
<1> USE DEF Unchecked, Admitted
<1>7. CASE at[r] = "arrived" /\ (To(r, "done") \/ Admits(r))
  <2>1. CASE Admits(r)
    <3>1. local'[r].want = local[r].want
      BY <1>1, <2>1 DEF Admits, MemFields
    <3> QED
      BY <3>1, <2>1, <1>1, <1>7 DEF Admits, AccessOf
  <2> QED
    BY <1>6, <1>7, <2>1
<1>8. CASE at[r] = "gateway"
           /\ (To(r, "done") \/ To(r, "route") \/ \E e \in endpoints : Matched(r, e))
  <2>1. CASE \E e \in endpoints : Matched(r, e)
    <3>1. local'[r].want = local[r].want /\ at'[r] = "policy"
      BY <1>1, <2>1 DEF Matched, MemFields
    <3> QED
      BY <3>1, <1>1, <1>8 DEF AccessOf
  <2> QED
    BY <1>6, <1>8, <2>1
<1>9. CASE at[r] = "policy" /\ \E p \in policies \cup {None} : Governed(r, p)
  <2>1. at'[r] = "check" \/ (at'[r] = "limit" /\ local'[r].want = local[r].want)
    BY <1>1, <1>9 DEF Governed, MemFields
  <2> QED
    BY <2>1, <1>1, <1>9 DEF AccessOf
<1>10. CASE at[r] = "route" /\ (To(r, "done") \/ To(r, "llm limit") \/ Guards(r))
  BY <1>6, <1>10 DEF Guards, AccessOf
<1>11. CASE at[r] \in {"llm limit", "llm window"} /\ (To(r, "done") \/ To(r, "llm window"))
  BY <1>6, <1>11
<1>12. CASE at[r] \in GatewayPoints /\ \E p \in (GatewayPoints \ {"limit"}) \cup {"done"} : To(r, p)
  BY <1>6, <1>12 DEF GatewayPoints
<1>13. CASE /\ at[r] = "check"
            /\ \/ To(r, "done") \/ To(r, "check roles")
               \/ KeyOf(r) \in DOMAIN permCache /\ Passes(r, permCache[KeyOf(r)])
  <2>1. CASE KeyOf(r) \in DOMAIN permCache /\ Passes(r, permCache[KeyOf(r)])
    <3>1. permCache[KeyOf(r)] \subseteq G
      BY <1>1, <2>1 DEF CacheOK, KeyOf, CacheKey, G
    <3> QED
      BY <2>1, <3>1, <1>5
  <2> QED
    BY <1>6, <1>13, <2>1
<1>14. CASE /\ at[r] = "check roles"
            /\ \/ To(r, "done")
               \/ Keeps(r, Granted(work[r].user, work[r].claim))
               \/ Passes(r, Granted(work[r].user, work[r].claim))
  <2>1. CASE Keeps(r, Granted(work[r].user, work[r].claim))
    BY <1>2, <1>4, <2>1 DEF Keeps, AccessOf, G
  <2> QED
    BY <1>5, <1>6, <1>14, <2>1 DEF G
<1>15. CASE at[r] = "fill cache" /\ (To(r, "done") \/ Passes(r, local[r].perms))
  <2>1. local[r].perms \subseteq G
    BY <1>1, <1>15 DEF AccessOf, G
  <2> QED
    BY <1>5, <1>6, <1>15, <2>1
<1>16. CASE at[r] = "handler" /\ (To(r, "done") \/ To(r, "invalidate"))
  BY <1>6, <1>16
<1>17. CASE at[r] = "invalidate" /\ To(r, "publish")
  BY <1>6, <1>17
<1>18. CASE AtTables(r)
  BY <1>6, <1>18 DEF AtTables, TablePoints
<1>19. CASE /\ at[r] = "publish" /\ Moved(r) /\ at'[r] = "done" /\ local' = local
            /\ answer'[r].status = local[r].row.status /\ answer'[r].rows = {}
  BY <1>19 DEF AccessOf
<1> QED
  BY <1>7, <1>8, <1>9, <1>10, <1>11, <1>12, <1>13, <1>14, <1>15, <1>16, <1>17, <1>18, <1>19
     DEF Path

LEMMA AccessStays ==
    ASSUME NEW r \in Requests, AccessOf(r), userRoles \subseteq userRoles', work' = work,
           at'[r] = at[r], local'[r] = local[r]
    PROVE  AccessOf(r)'
<1>1. PICK u, o : u = work[r].user /\ o = work[r].claim
  OBVIOUS
<1>2. Granted(u, o) \subseteq Granted(u, o)'
  BY GrantedGrows
<1> QED
  BY <1>1, <1>2 DEF AccessOf

LEMMA InitAccessIInv == PlatformInit => AccessIInv
<1> SUFFICES ASSUME PlatformInit PROVE AccessIInv
  OBVIOUS
<1>1. BaseOK
  BY InitBase
<1>2. CacheOK
  <2>1. DOMAIN permCache = {}
    BY EmptySeq DEF PlatformInit
  <2> QED
    BY <2>1 DEF CacheOK
<1>3. ASSUME NEW r \in Requests PROVE AccessOf(r)
  BY DEF PlatformInit, RequestsInit, AccessOf, NothingYet, Admitted
<1> QED
  BY <1>1, <1>2, <1>3, AccessOfAll

LEMMA NextAccessIInv == AccessIInv /\ [PlatformNext]_vars => AccessIInv'
<1> SUFFICES ASSUME AccessIInv, PlatformNext \/ UNCHANGED vars PROVE AccessIInv'
  OBVIOUS
<1>1. BaseOK /\ BaseOK'
  BY NextBase DEF AccessIInv
<1>2. CASE \E r \in Requests : Serve(r)
  <2>1. PICK r \in Requests : Serve(r)
    BY <1>2
  <2>2. Path(r) /\ Moved(r) /\ userRoles \subseteq userRoles' /\ CacheOK'
    BY <1>1, <2>1, ServeBase, RolesGrow, ServeCache
  <2>3. ASSUME NEW u \in Requests PROVE AccessOf(u)'
    <3>1. CASE u = r
      BY <2>2, <3>1, PathAccess
    <3>2. CASE u # r
      BY <2>2, <3>2, AccessStays, AccessOfAll DEF Moved
    <3> QED
      BY <3>1, <3>2
  <2>4. BaseOK' /\ CacheOK' /\ \A u \in Requests : AccessOf(u)'
    BY <1>1, <2>2, <2>3
  <2> QED
    BY <2>4 DEF AccessIInv, AccessOf, AccessIsGranted
<1>3. CASE ~\E r \in Requests : Serve(r)
  <2>1. UNCHANGED <<requestVars, userRoles>>
    BY <1>3, Aside
  <2>2. CacheOK'
    <3>1. ASSUME NEW key PROVE Granted(key[1], key[2])' = Granted(key[1], key[2])
      BY <2>1 DEF Granted
    <3>2. permCache' = permCache \/
          \E key : permCache' = [k \in DOMAIN permCache \ {key} |-> permCache[k]]
      BY <1>3, Aside DEF ExpirePermissions, Forget, rbacVars
    <3>3. ASSUME NEW key \in DOMAIN permCache'
          PROVE  key \in DOMAIN permCache /\ permCache'[key] = permCache[key]
      BY <3>2, <3>3
    <3>4. ASSUME NEW key \in DOMAIN permCache' PROVE permCache'[key] \subseteq Granted(key[1], key[2])'
      BY <3>1, <3>3, <3>4 DEF AccessIInv, CacheOK
    <3> QED
      BY <3>4 DEF CacheOK
  <2>3. ASSUME NEW u \in Requests PROVE AccessOf(u)'
    BY <2>1, AccessStays, AccessOfAll DEF requestVars
  <2> QED
    BY <1>1, <2>2, <2>3 DEF AccessIInv, AccessOf, AccessIsGranted
<1> QED
  BY <1>2, <1>3

\* Whoever got past a permission check, of the router or of a policy, holds a
\* role with that permission in the organization of the token: the cache never
\* has more than the roles grant (rbac_service.go:32, auth.go:72, pipeline.go:113).
THEOREM NobodyGetsInWithoutRole == PlatformSpec => []AccessIsGranted
<1>1. AccessIInv => AccessIsGranted
  BY DEF AccessIInv
<1> QED
  BY <1>1, InitAccessIInv, NextAccessIInv, PTL DEF PlatformSpec
=============================================================================
