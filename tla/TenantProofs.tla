---------------------------- MODULE TenantProofs ----------------------------
(***************************************************************************)
(* Proofs about the tables and the counters of the platform: that rows     *)
(* refer to rows that exist, that slugs stay unique, that "created" means  *)
(* created, that a window lets through no more than its limit, and that no *)
(* request touches another organization's rows.                            *)
(***************************************************************************)
EXTENDS PlatformProofs, FiniteSetTheorems

-----------------------------------------------------------------------------
(* What is in the tables, and what a request brings to them.               *)

WorkspaceFields == {"id", "org", "slug", "name", "status"}

HasOrg(id) == \E o \in orgs : o.id = id
HasApp(id) == \E a \in apps : a.id = id
HasWorkspace(id) == \E w \in workspaces : w.id = id
HasEndpoint(id) == \E e \in endpoints : e.id = id

\* The row that request r was to create.
HasCreated(r) == \E row \in orgs \cup apps \cup workspaces \cup keys \cup endpoints : row.id = r

TablesOK ==
    /\ \A a \in apps : HasOrg(a.org)
    /\ \A w \in workspaces : DOMAIN w = WorkspaceFields /\ HasOrg(w.org)
    /\ \A k \in keys : DOMAIN k = {"id", "app", "active"} /\ HasApp(k.app)
    /\ \A e \in endpoints : e \in EndpointRows /\ HasApp(e.app)
    /\ \A p \in policies : p.limit \in Int /\ HasEndpoint(p.endpoint)

\* A workspace that a request has made is there only once it was inserted.
UniqueOK ==
    /\ \A a, b \in orgs : a.slug = b.slug => a = b
    /\ \A a, b \in apps : a.org = b.org /\ a.slug = b.slug => a = b
    /\ \A a, b \in workspaces : a.org = b.org /\ a.slug = b.slug => a = b
    /\ \A w \in workspaces : w.id \in Requests => at[w.id] \in {"publish", "done"}

\* The row in r's hand when it is at p.
RowFits(r, p, row) ==
    /\ p \in {"insert org", "app slug", "insert app", "insert workspace"} => row.id = r
    /\ p \in {"app slug", "insert app"} => HasOrg(row.org)
    /\ p \in {"workspace slug", "insert workspace", "update workspace"} =>
          DOMAIN row = WorkspaceFields /\ row.org = work[r].claim /\ HasOrg(row.org)
    /\ p = "workspace slug" =>
          IF work[r].op = "CreateWorkspace" THEN row.id = r ELSE HasWorkspace(row.id)
    /\ p = "update workspace" => HasWorkspace(row.id)
    /\ p \in {"insert endpoint", "update endpoint"} => row \in EndpointRows
    /\ p = "insert endpoint" => row.id = r
    /\ p = "update endpoint" => HasApp(row.app)
    /\ p \in {"insert policy", "update policy"} => row.limit \in Int
    /\ p = "update policy" => HasEndpoint(row.endpoint)
    /\ p = "publish" /\ row.status = 201 => HasCreated(r)

RowOf(r) == RowFits(r, at[r], local[r].row)

\* An endpoint is what takes a request through the gateway, not to a table.
EndpointOf(r) ==
    /\ at[r] \in GatewayPoints \cup {"policy"} => local[r].endpoint # None
    /\ at[r] \in TablePoints => local[r].endpoint = None

CreatedOf(r) ==
    at[r] = "done" /\ answer[r].status = 201 /\ local[r].endpoint = None => HasCreated(r)

RowsIInv ==
    /\ BaseOK /\ TablesOK /\ UniqueOK
    /\ \A r \in Requests : RowOf(r) /\ EndpointOf(r) /\ CreatedOf(r)

\* Rows are not taken away, or not without one of the same id in their place.
Grows ==
    /\ \A x : HasOrg(x) => HasOrg(x)'
    /\ \A x : HasApp(x) => HasApp(x)'
    /\ \A x : HasWorkspace(x) => HasWorkspace(x)'
    /\ \A x : HasEndpoint(x) => HasEndpoint(x)'
    /\ \A x : HasCreated(x) => HasCreated(x)'

KeepsTables == UNCHANGED <<orgs, apps, workspaces, keys, endpoints, policies>>

-----------------------------------------------------------------------------
(* The tables.                                                             *)

LEMMA TableWrites ==
    ASSUME NEW r \in Requests, Serve(r)
    PROVE  \/ KeepsTables
           \/ InsertOrg(r) /\ UNCHANGED <<apps, workspaces, keys, endpoints, policies>>
           \/ InsertApp(r) /\ UNCHANGED <<orgs, workspaces, keys, endpoints, policies>>
           \/ (InsertWorkspace(r) \/ StoreWorkspace(r))
              /\ UNCHANGED <<orgs, apps, keys, endpoints, policies>>
           \/ (CreateAPIKey(r) \/ RevokeAPIKey(r))
              /\ UNCHANGED <<orgs, apps, workspaces, endpoints, policies>>
           \/ (InsertEndpoint(r) \/ StoreEndpoint(r))
              /\ UNCHANGED <<orgs, apps, workspaces, keys, policies>>
           \/ (InsertPolicy(r) \/ StorePolicy(r))
              /\ UNCHANGED <<orgs, apps, workspaces, keys, endpoints>>
<1> USE DEF KeepsTables
<1>1. CASE TenantStep(r) /\ UNCHANGED endpointVars
  BY <1>1 DEF TenantStep, tenantVars, endpointVars, CreateOrg, InsertOrg, CreateApp, CheckAppSlug,
              InsertApp, CreateWorkspace, InsertWorkspace, UpdateWorkspace, CheckWorkspaceSlug,
              StoreWorkspace, CreateAPIKey, RevokeAPIKey, TenantRead
<1>2. CASE EndpointStep(r) /\ UNCHANGED tenantVars
  BY <1>2 DEF EndpointStep, tenantVars, endpointVars, DefineEndpoint, InsertEndpoint,
              RetireEndpoint, ActivateEndpoint, ReadForStatus, StoreEndpoint, UpdatePolicy,
              InsertPolicy, StorePolicy, EndpointRead
<1>3. CASE RouterStep(r)
  BY <1>3 DEF RouterStep, tables, tenantVars, endpointVars
<1>4. CASE UNCHANGED <<tenantVars, endpointVars>>
  BY <1>4 DEF tenantVars, endpointVars
<1> QED
  BY <1>1, <1>2, <1>3, <1>4 DEF Serve

LEMMA KeepsGrow == ASSUME KeepsTables PROVE Grows
BY DEF KeepsTables, Grows, HasOrg, HasApp, HasWorkspace, HasEndpoint, HasCreated

LEMMA ServeGrows ==
    ASSUME TablesOK, NEW r \in Requests, Serve(r)
    PROVE  Grows
<1> USE DEF Grows, HasOrg, HasApp, HasWorkspace, HasEndpoint, HasCreated
<1>1. CASE InsertOrg(r) /\ UNCHANGED <<apps, workspaces, keys, endpoints, policies>>
  <2>1. orgs \subseteq orgs'
    BY <1>1 DEF InsertOrg
  <2> QED
    BY <1>1, <2>1
<1>2. CASE InsertApp(r) /\ UNCHANGED <<orgs, workspaces, keys, endpoints, policies>>
  <2>1. apps \subseteq apps'
    BY <1>2 DEF InsertApp
  <2> QED
    BY <1>2, <2>1
<1>3. CASE (InsertWorkspace(r) \/ StoreWorkspace(r))
           /\ UNCHANGED <<orgs, apps, keys, endpoints, policies>>
  <2>1. \A w \in workspaces : \E v \in workspaces' : v.id = w.id
    BY <1>3 DEF InsertWorkspace, StoreWorkspace
  <2> QED
    BY <1>3, <2>1
<1>4. CASE (CreateAPIKey(r) \/ RevokeAPIKey(r))
           /\ UNCHANGED <<orgs, apps, workspaces, endpoints, policies>>
  <2>1. CASE CreateAPIKey(r)
    <3>1. keys \subseteq keys'
      BY <2>1 DEF CreateAPIKey
    <3> QED
      BY <1>4, <3>1
  <2>2. CASE RevokeAPIKey(r)
    <3>1. keys' = keys \/ keys' = {IF k.id = work[r].id THEN [k EXCEPT !.active = FALSE] ELSE k :
                                      k \in keys}
      BY <2>2 DEF RevokeAPIKey
    <3>2. \A k \in keys : [k EXCEPT !.active = FALSE].id = k.id
      BY DEF TablesOK
    <3>3. \A k \in keys : \E v \in keys' : v.id = k.id
      BY <3>1, <3>2
    <3> QED
      BY <1>4, <3>3
  <2> QED
    BY <1>4, <2>1, <2>2
<1>5. CASE (InsertEndpoint(r) \/ StoreEndpoint(r))
           /\ UNCHANGED <<orgs, apps, workspaces, keys, policies>>
  <2>1. \A e \in endpoints : \E v \in endpoints' : v.id = e.id
    BY <1>5 DEF InsertEndpoint, StoreEndpoint
  <2> QED
    BY <1>5, <2>1
<1>6. CASE (InsertPolicy(r) \/ StorePolicy(r))
           /\ UNCHANGED <<orgs, apps, workspaces, keys, endpoints>>
  BY <1>6
<1> QED
  BY <1>1, <1>2, <1>3, <1>4, <1>5, <1>6, KeepsGrow, TableWrites

\* The rows that refer to others still do, whatever is added.
LEMMA ReferencesStay ==
    ASSUME TablesOK, Grows
    PROVE  /\ \A a \in apps : HasOrg(a.org)'
           /\ \A w \in workspaces : DOMAIN w = WorkspaceFields /\ HasOrg(w.org)'
           /\ \A k \in keys : DOMAIN k = {"id", "app", "active"} /\ HasApp(k.app)'
           /\ \A e \in endpoints : e \in EndpointRows /\ HasApp(e.app)'
           /\ \A p \in policies : p.limit \in Int /\ HasEndpoint(p.endpoint)'
<1>1. ASSUME NEW x PROVE /\ HasOrg(x) => HasOrg(x)'
                         /\ HasApp(x) => HasApp(x)'
                         /\ HasEndpoint(x) => HasEndpoint(x)'
  BY DEF Grows
<1> QED
  BY <1>1 DEF TablesOK

LEMMA TablesKept ==
    ASSUME TablesOK, NEW r \in Requests, RowOf(r), Serve(r)
    PROVE  TablesOK'
<1> DEFINE row == local[r].row
<1>1. Grows
  BY ServeGrows
<1>2. RowFits(r, at[r], row)
  BY DEF RowOf
<1>3. PICK new : new = row
  OBVIOUS
<1>4. ASSUME NEW x PROVE /\ HasOrg(x) => HasOrg(x)'
                         /\ HasApp(x) => HasApp(x)'
                         /\ HasEndpoint(x) => HasEndpoint(x)'
  BY <1>1 DEF Grows
<1>5. CASE \/ KeepsTables
           \/ InsertOrg(r) /\ UNCHANGED <<apps, workspaces, keys, endpoints, policies>>
  BY <1>1, <1>5, ReferencesStay DEF TablesOK, KeepsTables
<1>6. CASE InsertApp(r) /\ UNCHANGED <<orgs, workspaces, keys, endpoints, policies>>
  <2>1. at[r] = "insert app" /\ apps' \subseteq apps \cup {new}
    BY <1>3, <1>6 DEF InsertApp
  <2>2. HasOrg(new.org)'
    BY <1>2, <1>3, <1>4, <2>1 DEF RowFits
  <2> QED
    BY <1>1, <1>6, <2>1, <2>2, ReferencesStay DEF TablesOK
<1>7. CASE (InsertWorkspace(r) \/ StoreWorkspace(r))
           /\ UNCHANGED <<orgs, apps, keys, endpoints, policies>>
  <2>1. at[r] \in {"insert workspace", "update workspace"} /\ workspaces' \subseteq workspaces \cup {new}
    <3>1. CASE InsertWorkspace(r)
      BY <3>1, <1>3 DEF InsertWorkspace
    <3>2. CASE StoreWorkspace(r)
      <4>1. at[r] = "update workspace"
        BY <3>2 DEF StoreWorkspace
      <4>2. \/ workspaces' = workspaces
            \/ workspaces' = {IF w.id = new.id THEN new ELSE w : w \in workspaces}
        BY <3>2, <1>3 DEF StoreWorkspace
      <4> QED
        BY <4>1, <4>2
    <3> QED
      BY <1>7, <3>1, <3>2
  <2>2. DOMAIN new = WorkspaceFields /\ HasOrg(new.org)'
    BY <1>2, <1>3, <1>4, <2>1 DEF RowFits
  <2> QED
    BY <1>1, <1>7, <2>1, <2>2, ReferencesStay DEF TablesOK
<1>8. CASE (CreateAPIKey(r) \/ RevokeAPIKey(r))
           /\ UNCHANGED <<orgs, apps, workspaces, endpoints, policies>>
  <2>1. CASE CreateAPIKey(r)
    <3>1. PICK id : id = work[r].id
      OBVIOUS
    <3>2. keys' = keys \/ (HasApp(id) /\ keys' = keys \cup {[id |-> r, app |-> id, active |-> TRUE]})
      BY <2>1, <3>1 DEF CreateAPIKey, HasApp, AppById
    <3>3. LET k == [id |-> r, app |-> id, active |-> TRUE]
          IN  DOMAIN k = {"id", "app", "active"} /\ k.app = id
      OBVIOUS
    <3>4. keys' = keys \/ HasApp(id)'
      BY <3>2, <1>4
    <3>5. \A k \in keys' : DOMAIN k = {"id", "app", "active"} /\ HasApp(k.app)'
      BY <3>2, <3>3, <3>4, <1>1, ReferencesStay
    <3> QED
      BY <3>5, <1>1, <1>8, ReferencesStay DEF TablesOK
  <2>2. CASE RevokeAPIKey(r)
    <3>1. keys' = keys \/ keys' = {IF k.id = work[r].id THEN [k EXCEPT !.active = FALSE] ELSE k :
                                      k \in keys}
      BY <2>2 DEF RevokeAPIKey
    <3>2. ASSUME NEW k \in keys
          PROVE  LET v == [k EXCEPT !.active = FALSE]
                 IN  DOMAIN v = {"id", "app", "active"} /\ v.app = k.app
      BY DEF TablesOK
    <3>3. \A v \in keys' : DOMAIN v = {"id", "app", "active"} /\ \E k \in keys : v.app = k.app
      BY <3>1, <3>2 DEF TablesOK
    <3>4. \A k \in keys' : DOMAIN k = {"id", "app", "active"} /\ HasApp(k.app)'
      BY <3>3, <1>1, ReferencesStay
    <3> QED
      BY <3>4, <1>1, <1>8, ReferencesStay DEF TablesOK
  <2> QED
    BY <1>8, <2>1, <2>2
<1>9. CASE (InsertEndpoint(r) \/ StoreEndpoint(r))
           /\ UNCHANGED <<orgs, apps, workspaces, keys, policies>>
  <2>1. /\ at[r] \in {"insert endpoint", "update endpoint"}
        /\ endpoints' \subseteq endpoints \cup {new}
        /\ at[r] = "insert endpoint" => endpoints' = endpoints \/ HasApp(new.app)
    <3>1. CASE InsertEndpoint(r)
      BY <3>1, <1>3 DEF InsertEndpoint, HasApp, AppById
    <3>2. CASE StoreEndpoint(r)
      <4>1. at[r] = "update endpoint"
        BY <3>2 DEF StoreEndpoint
      <4>2. \/ endpoints' = endpoints
            \/ endpoints' = {IF e.id = new.id THEN new ELSE e : e \in endpoints}
        BY <3>2, <1>3 DEF StoreEndpoint
      <4> QED
        BY <4>1, <4>2
    <3> QED
      BY <1>9, <3>1, <3>2
  <2>2. new \in EndpointRows /\ (endpoints' = endpoints \/ HasApp(new.app))
    BY <1>2, <1>3, <2>1 DEF RowFits
  <2>3. endpoints' = endpoints \/ HasApp(new.app)'
    BY <1>4, <2>2
  <2> QED
    BY <1>1, <1>9, <2>1, <2>2, <2>3, ReferencesStay DEF TablesOK
<1>10. CASE (InsertPolicy(r) \/ StorePolicy(r))
            /\ UNCHANGED <<orgs, apps, workspaces, keys, endpoints>>
  <2>1. /\ at[r] \in {"insert policy", "update policy"}
        /\ policies' \subseteq policies \cup {new}
        /\ at[r] = "insert policy" => policies' = policies \/ HasEndpoint(new.endpoint)
    <3>1. CASE InsertPolicy(r)
      BY <3>1, <1>3 DEF InsertPolicy, HasEndpoint, EndpointById
    <3>2. CASE StorePolicy(r)
      <4>1. at[r] = "update policy"
        BY <3>2 DEF StorePolicy
      <4>2. \/ policies' = policies
            \/ policies' = {IF p.id = new.id THEN new ELSE p : p \in policies}
        BY <3>2, <1>3 DEF StorePolicy
      <4> QED
        BY <4>1, <4>2
    <3> QED
      BY <1>10, <3>1, <3>2
  <2>2. new.limit \in Int /\ (policies' = policies \/ HasEndpoint(new.endpoint))
    BY <1>2, <1>3, <2>1 DEF RowFits
  <2>3. policies' = policies \/ HasEndpoint(new.endpoint)'
    BY <1>4, <2>2
  <2> QED
    BY <1>1, <1>10, <2>1, <2>2, <2>3, ReferencesStay DEF TablesOK
<1> QED
  BY <1>5, <1>6, <1>7, <1>8, <1>9, <1>10, TableWrites

LEMMA UniqueKept ==
    ASSUME BaseOK, UniqueOK, TablesOK, NEW r \in Requests, RowOf(r), Serve(r)
    PROVE  UniqueOK'
<1> DEFINE row == local[r].row
<1>1. Path(r) /\ Moved(r)
  BY ServeBase
<1>2. RowFits(r, at[r], row)
  BY DEF RowOf
<1>3. PICK new : new = row
  OBVIOUS
<1>4. at[r] \in {"publish", "done"} => at'[r] \in {"publish", "done"}
  BY <1>1 DEF Path, To, AtTables, TablePoints, GatewayPoints
<1>5. \A w \in workspaces : w.id \in Requests => at'[w.id] \in {"publish", "done"}
  BY <1>1, <1>4 DEF UniqueOK, Moved
<1>6. CASE InsertOrg(r) /\ UNCHANGED <<apps, workspaces, keys, endpoints, policies>>
  <2>1. orgs' = orgs \/ (orgs' = orgs \cup {new} /\ \A o \in orgs : o.slug # new.slug)
    BY <1>3, <1>6 DEF InsertOrg, OrgSlugFree, OrgBySlug
  <2>2. \A a, b \in orgs' : a.slug = b.slug => a = b
    BY <2>1 DEF UniqueOK
  <2> QED
    BY <1>5, <1>6, <2>2 DEF UniqueOK
<1>7. CASE InsertApp(r) /\ UNCHANGED <<orgs, workspaces, keys, endpoints, policies>>
  <2>1. apps' = apps \/ (apps' = apps \cup {new} /\ \A a \in apps : ~(a.org = new.org /\ a.slug = new.slug))
    BY <1>3, <1>7 DEF InsertApp, AppSlugFree, AppBySlug
  <2>2. \A a, b \in apps' : a.org = b.org /\ a.slug = b.slug => a = b
    BY <2>1 DEF UniqueOK
  <2> QED
    BY <1>5, <1>7, <2>2 DEF UniqueOK
<1>8. CASE InsertWorkspace(r) /\ UNCHANGED <<orgs, apps, keys, endpoints, policies>>
  <2>1. /\ at[r] = "insert workspace"
        /\ \/ workspaces' = workspaces
           \/ /\ workspaces' = workspaces \cup {new} /\ Written(r, 201)
              /\ \A w \in workspaces : w.org = new.org /\ w.slug = new.slug => w.id = new.id
    BY <1>3, <1>8 DEF InsertWorkspace, WorkspaceSlugFree, WorkspaceBySlug
  <2>2. new.id = r
    BY <1>2, <1>3, <2>1 DEF RowFits
  <2>3. \A w \in workspaces : w.id # r
    BY <2>1 DEF UniqueOK
  <2>4. workspaces' = workspaces \/ at'[r] = "publish"
    BY <2>1, Writes1 DEF BaseOK
  <2>5. \A a, b \in workspaces' : a.org = b.org /\ a.slug = b.slug => a = b
    BY <2>1, <2>2, <2>3 DEF UniqueOK
  <2>6. \A w \in workspaces' : w.id \in Requests => at'[w.id] \in {"publish", "done"}
    BY <1>5, <2>1, <2>2, <2>4
  <2> QED
    BY <1>8, <2>5, <2>6 DEF UniqueOK
<1>9. CASE StoreWorkspace(r) /\ UNCHANGED <<orgs, apps, keys, endpoints, policies>>
  <2>1. \/ workspaces' = workspaces
        \/ /\ workspaces' = {IF w.id = new.id THEN new ELSE w : w \in workspaces}
           /\ \A w \in workspaces : w.org = new.org /\ w.slug = new.slug => w.id = new.id
    BY <1>3, <1>9 DEF StoreWorkspace, WorkspaceSlugFree, WorkspaceBySlug
  <2>2. \/ workspaces' = workspaces
        \/ /\ \A v \in workspaces' : v = new \/ (v \in workspaces /\ v.id # new.id)
           /\ \A w \in workspaces : w.org = new.org /\ w.slug = new.slug => w.id = new.id
    BY <2>1
  <2>3. \A a, b \in workspaces' : a.org = b.org /\ a.slug = b.slug => a = b
    BY <2>2 DEF UniqueOK
  <2>4. \A v \in workspaces' : \E w \in workspaces : w.id = v.id
    BY <2>1
  <2>5. \A w \in workspaces' : w.id \in Requests => at'[w.id] \in {"publish", "done"}
    BY <1>5, <2>4
  <2> QED
    BY <1>9, <2>3, <2>5 DEF UniqueOK
<1>10. CASE UNCHANGED <<orgs, apps, workspaces>>
  BY <1>5, <1>10 DEF UniqueOK
<1> QED
  BY <1>6, <1>7, <1>8, <1>9, <1>10, TableWrites DEF KeepsTables

-----------------------------------------------------------------------------
(* The row in a request's hand.                                            *)

RowPoints == (TablePoints \ {"handler", "page"}) \cup {"publish"}

LEMMA NoRow == ASSUME NEW r \in Requests, at'[r] \notin RowPoints PROVE RowOf(r)'
BY DEF RowOf, RowFits, RowPoints, TablePoints

LEMMA HasRow ==
    ASSUME ShapeOK, NEW r \in Requests, NEW p \in Points \ {"done"}, NEW row,
           GoWithRow(r, p, row), RowFits(r, p, row)'
    PROVE  RowOf(r)'
BY GoesWithRow DEF RowOf

LEMMA RefusalHasNoRow ==
    ASSUME ShapeOK, NEW r \in Requests, NEW s \in Statuses, Finish(r, s) PROVE RowOf(r)'
<1>1. at'[r] = "done"
  BY Finishes
<1> QED
  BY <1>1, NoRow DEF RowPoints, TablePoints

LEMMA WrittenRow ==
    ASSUME ShapeOK, NEW r \in Requests, NEW s, Written(r, s), s = 201 => HasCreated(r)'
    PROVE  RowOf(r)'
<1>1. at'[r] = "publish" /\ local'[r].row = [status |-> s]
  BY Writes1
<1>2. local'[r].row.status = s
  BY <1>1
<1> QED
  BY <1>1, <1>2 DEF RowOf, RowFits

\* What is asked for is one of the inputs.
LEMMA InputsAsked ==
    ASSUME ShapeOK, NEW r \in Requests
    PROVE  /\ work[r] \in Inputs
           /\ work[r].claim # None
           /\ work[r].op = "AssignRole" => work[r].row.org # Nil
           /\ work[r].op = "UpdateWorkspace" => {"id", "org"} \cap DOMAIN work[r].change = {}
           /\ work[r].limit \in Int
<1>1. work[r] \in Inputs
  BY DEF ShapeOK, Inputs
<1> HIDE DEF Inputs
<1>2. PICK q \in Inputs : q = work[r]
  BY <1>1
<1> QED
  BY <1>1, <1>2, InputsAssumption

LEMMA TenantRow ==
    ASSUME RowsIInv, NEW r \in Requests, TenantStep(r), Grows, UNCHANGED endpointVars
    PROVE  RowOf(r)'
<1> USE DEF Points
<1>1. /\ ShapeOK /\ TablesOK /\ RowFits(r, at[r], local[r].row) /\ AtTables(r)
      /\ work' = work
  BY TenantSteps DEF RowsIInv, BaseOK, RowOf, AtTables, To, Moved
<1>2. ASSUME NEW x PROVE /\ HasOrg(x) => HasOrg(x)'
                         /\ HasWorkspace(x) => HasWorkspace(x)'
  BY DEF Grows
<1>3. CASE CreateOrg(r)
  <2>1. Finish(r, 409) \/ \E row : row.id = r /\ GoWithRow(r, "insert org", row)
    BY <1>3 DEF CreateOrg
  <2>2. ASSUME NEW row, row.id = r PROVE RowFits(r, "insert org", row)'
    BY <2>2 DEF RowFits
  <2> QED
    BY <2>1, <2>2, <1>1, HasRow, RefusalHasNoRow, StatusCodes
<1>4. CASE InsertOrg(r)
  <2>1. at[r] = "insert org" /\ local[r].row.id = r
    BY <1>1, <1>4 DEF InsertOrg, RowFits
  <2>2. Finish(r, 500) \/ (Written(r, 201) /\ local[r].row \in orgs')
    BY <1>4 DEF InsertOrg
  <2>3. local[r].row \in orgs' => HasCreated(r)'
    BY <2>1 DEF HasCreated
  <2> QED
    BY <2>2, <2>3, <1>1, WrittenRow, RefusalHasNoRow, StatusCodes
<1>5. CASE CreateApp(r)
  <2>1. \/ Finish(r, 500) \/ Finish(r, 404) \/ Finish(r, 403)
        \/ \E row : row.id = r /\ HasOrg(row.org) /\ GoWithRow(r, "app slug", row)
    BY <1>5 DEF CreateApp, OrgById, HasOrg
  <2>2. ASSUME NEW row, row.id = r, HasOrg(row.org) PROVE RowFits(r, "app slug", row)'
    BY <2>2, <1>2 DEF RowFits
  <2> QED
    BY <2>1, <2>2, <1>1, HasRow, RefusalHasNoRow, StatusCodes
<1>6. CASE CheckAppSlug(r)
  <2>1. at[r] = "app slug" /\ (Finish(r, 409) \/ Go(r, "insert app"))
    BY <1>6 DEF CheckAppSlug
  <2>2. PICK row : row = local[r].row
    OBVIOUS
  <2>3. row.id = r /\ HasOrg(row.org)
    BY <1>1, <2>1, <2>2 DEF RowFits
  <2>4. RowFits(r, "insert app", row)'
    BY <1>2, <2>3 DEF RowFits
  <2>5. CASE Go(r, "insert app")
    BY <2>2, <2>4, <2>5, <1>1, Goes DEF RowOf
  <2> QED
    BY <2>1, <2>5, <1>1, RefusalHasNoRow, StatusCodes
<1>7. CASE InsertApp(r)
  <2>1. at[r] = "insert app" /\ local[r].row.id = r
    BY <1>1, <1>7 DEF InsertApp, RowFits
  <2>2. Finish(r, 500) \/ (Written(r, 201) /\ local[r].row \in apps')
    BY <1>7 DEF InsertApp
  <2>3. local[r].row \in apps' => HasCreated(r)'
    BY <2>1 DEF HasCreated
  <2> QED
    BY <2>2, <2>3, <1>1, WrittenRow, RefusalHasNoRow, StatusCodes
<1>8. CASE CreateWorkspace(r)
  <2>1. \/ Finish(r, 404) \/ Finish(r, 403)
        \/ /\ HasOrg(work[r].claim) /\ work[r].op = "CreateWorkspace"
           /\ \E row : /\ row.id = r /\ row.org = work[r].claim /\ DOMAIN row = WorkspaceFields
                       /\ GoWithRow(r, "workspace slug", row)
    BY <1>8 DEF CreateWorkspace, Handling, OrgById, HasOrg, WorkspaceFields
  <2>2. ASSUME NEW row, row.id = r, HasOrg(row.org), row.org = work[r].claim,
               DOMAIN row = WorkspaceFields, work[r].op = "CreateWorkspace"
        PROVE  RowFits(r, "workspace slug", row)'
    BY <2>2, <1>1, <1>2 DEF RowFits
  <2> QED
    BY <2>1, <2>2, <1>1, HasRow, RefusalHasNoRow, StatusCodes
<1>9. CASE InsertWorkspace(r)
  <2>1. at[r] = "insert workspace" /\ local[r].row.id = r
    BY <1>1, <1>9 DEF InsertWorkspace, RowFits
  <2>2. Finish(r, 500) \/ (Written(r, 201) /\ local[r].row \in workspaces')
    BY <1>9 DEF InsertWorkspace
  <2>3. local[r].row \in workspaces' => HasCreated(r)'
    BY <2>1 DEF HasCreated
  <2> QED
    BY <2>2, <2>3, <1>1, WrittenRow, RefusalHasNoRow, StatusCodes
<1>10. CASE UpdateWorkspace(r)
  <2>1. /\ work[r].op = "UpdateWorkspace"
        /\ \/ Finish(r, 500) \/ Finish(r, 404) \/ Finish(r, 403)
           \/ \E w \in workspaces, p \in {"workspace slug", "update workspace"} :
                 w.org = work[r].claim /\ GoWithRow(r, p, Changed(w, work[r].change))
    BY <1>10 DEF UpdateWorkspace, Handling, WorkspaceById
  <2>2. {"id", "org"} \cap DOMAIN work[r].change = {}
    BY <1>1, <2>1, InputsAsked
  <2>3. ASSUME NEW w \in workspaces, w.org = work[r].claim,
               NEW p \in {"workspace slug", "update workspace"}
        PROVE  \E row : row = Changed(w, work[r].change) /\ RowFits(r, p, row)'
    <3>1. PICK row : row = Changed(w, work[r].change)
      OBVIOUS
    <3>2. DOMAIN w = WorkspaceFields /\ HasOrg(w.org)
      BY <1>1 DEF TablesOK
    <3>3. DOMAIN row = WorkspaceFields /\ row.id = w.id /\ row.org = w.org
      BY <2>2, <3>1, <3>2 DEF Changed, WorkspaceFields
    <3>4. HasWorkspace(row.id)
      BY <3>3 DEF HasWorkspace
    <3>5. RowFits(r, p, row)'
      BY <1>1, <1>2, <2>1, <2>3, <3>2, <3>3, <3>4 DEF RowFits
    <3> QED
      BY <3>1, <3>5
  <2>4. ASSUME NEW w \in workspaces, w.org = work[r].claim,
               NEW p \in {"workspace slug", "update workspace"},
               GoWithRow(r, p, Changed(w, work[r].change))
        PROVE  RowOf(r)'
    <3>1. PICK row : row = Changed(w, work[r].change) /\ RowFits(r, p, row)'
      BY <2>3, <2>4
    <3>2. GoWithRow(r, p, row)
      BY <2>4, <3>1
    <3> QED
      BY <3>1, <3>2, <1>1, HasRow
  <2>5. CASE Finish(r, 500) \/ Finish(r, 404) \/ Finish(r, 403)
    BY <2>5, <1>1, RefusalHasNoRow, StatusCodes
  <2> QED
    BY <2>1, <2>4, <2>5
<1>11. CASE CheckWorkspaceSlug(r)
  <2>1. /\ at[r] = "workspace slug"
        /\ \/ Finish(r, 409)
           \/ Go(r, IF work[r].op = "CreateWorkspace" THEN "insert workspace" ELSE "update workspace")
    BY <1>11 DEF CheckWorkspaceSlug
  <2>2. PICK row, p : /\ row = local[r].row
                      /\ p = IF work[r].op = "CreateWorkspace" THEN "insert workspace"
                             ELSE "update workspace"
    OBVIOUS
  <2>3. RowFits(r, p, row)'
    BY <1>1, <1>2, <2>1, <2>2 DEF RowFits
  <2>4. CASE Go(r, p)
    BY <2>2, <2>3, <2>4, <1>1, Goes DEF RowOf
  <2> QED
    BY <2>1, <2>2, <2>4, <1>1, RefusalHasNoRow, StatusCodes
<1>12. CASE StoreWorkspace(r) \/ CreateAPIKey(r) \/ RevokeAPIKey(r)
  <2>1. at'[r] = "done"
    <3>1. CASE StoreWorkspace(r)
      <4>1. Finish(r, 500) \/ Return(r, {local[r].row})
        BY <3>1 DEF StoreWorkspace
      <4> QED
        BY <4>1, <1>1, Finishes, Returns, StatusCodes
    <3>2. CASE CreateAPIKey(r)
      <4>1. Finish(r, 500) \/ Finish(r, 201)
        BY <3>2 DEF CreateAPIKey
      <4> QED
        BY <4>1, <1>1, Finishes, StatusCodes
    <3>3. CASE RevokeAPIKey(r)
      BY <3>3, <1>1, Finishes, StatusCodes DEF RevokeAPIKey
    <3> QED
      BY <1>12, <3>1, <3>2, <3>3
  <2> QED
    BY <2>1, NoRow DEF RowPoints, TablePoints
<1>13. CASE TenantRead(r)
  <2>1. Finish(r, 500) \/ Finish(r, 404) \/ Go(r, "page") \/ \E rows : Return(r, rows)
    BY <1>13
       DEF TenantRead, GetOrg, GetApp, CountRows, ListOrgs, ListApps, ListWorkspaces,
           ListAPIKeys, ReadOr500, ReadOneOr404
  <2>2. at'[r] \in {"done", "page"}
    <3>1. ASSUME NEW s \in {404, 500}, Finish(r, s) PROVE at'[r] = "done"
      BY <3>1, <1>1, Finishes, StatusCodes
    <3>2. ASSUME NEW rows, Return(r, rows) PROVE at'[r] = "done"
      BY <3>2, <1>1, Returns
    <3>3. Go(r, "page") => at'[r] = "page"
      BY <1>1, Goes
    <3> QED
      BY <2>1, <3>1, <3>2, <3>3
  <2> QED
    BY <2>2, NoRow DEF RowPoints, TablePoints
<1> QED
  BY <1>3, <1>4, <1>5, <1>6, <1>7, <1>8, <1>9, <1>10, <1>11, <1>12, <1>13 DEF TenantStep

LEMMA EndpointRow ==
    ASSUME RowsIInv, NEW r \in Requests, EndpointStep(r), Grows, UNCHANGED tenantVars
    PROVE  RowOf(r)'
<1> USE DEF Points
<1>1. /\ ShapeOK /\ TablesOK /\ RowFits(r, at[r], local[r].row)
      /\ work' = work /\ work[r] \in Inputs /\ work[r].limit \in Int
  BY EndpointSteps, InputsAsked DEF RowsIInv, BaseOK, RowOf, AtTables, To, Moved
<1>2. ASSUME NEW x PROVE /\ HasApp(x) => HasApp(x)'
                         /\ HasEndpoint(x) => HasEndpoint(x)'
  BY DEF Grows
<1>3. ASSUME at'[r] = "done" PROVE RowOf(r)'
  BY <1>3, NoRow DEF RowPoints, TablePoints
<1>4. CASE DefineEndpoint(r)
  <2>1. PICK row : row = [id |-> r, app |-> work[r].id, route |-> work[r].route,
                          action |-> work[r].action, schema |-> work[r].schema,
                          pii |-> work[r].pii, status |-> "active"]
    OBVIOUS
  <2>2. Finish(r, 409) \/ GoWithRow(r, "insert endpoint", row)
    BY <1>4, <2>1 DEF DefineEndpoint
  <2>3. row \in EndpointRows /\ row.id = r
    <3>1. PICK q \in Inputs : q = work[r]
      BY <1>1
    <3>2. /\ q.id \in {i.id : i \in Inputs} /\ q.route \in {i.route : i \in Inputs}
          /\ q.action \in {i.action : i \in Inputs} /\ q.schema \in {i.schema : i \in Inputs}
          /\ q.pii \in {i.pii : i \in Inputs}
      OBVIOUS
    <3> HIDE DEF Inputs
    <3> QED
      BY <2>1, <3>1, <3>2 DEF EndpointRows
  <2>4. RowFits(r, "insert endpoint", row)'
    BY <2>3 DEF RowFits
  <2>5. CASE GoWithRow(r, "insert endpoint", row)
    BY <2>4, <2>5, <1>1, HasRow
  <2> QED
    BY <2>2, <2>5, <1>1, RefusalHasNoRow, StatusCodes
<1>5. CASE InsertEndpoint(r)
  <2>1. at[r] = "insert endpoint" /\ local[r].row.id = r
    BY <1>1, <1>5 DEF InsertEndpoint, RowFits
  <2>2. Finish(r, 500) \/ (Written(r, 201) /\ local[r].row \in endpoints')
    BY <1>5 DEF InsertEndpoint
  <2>3. local[r].row \in endpoints' => HasCreated(r)'
    BY <2>1 DEF HasCreated
  <2> QED
    BY <2>2, <2>3, <1>1, WrittenRow, RefusalHasNoRow, StatusCodes
<1>6. CASE RetireEndpoint(r) \/ ActivateEndpoint(r)
  <2>1. PICK status \in {"active", "retired"} : ReadForStatus(r, status)
    BY <1>6 DEF RetireEndpoint, ActivateEndpoint
  <2>2. \/ Finish(r, 500) \/ Finish(r, 404) \/ Finish(r, 400)
        \/ \E e \in endpoints : GoWithRow(r, "update endpoint", [e EXCEPT !.status = status])
    BY <2>1 DEF ReadForStatus, EndpointById
  <2>3. ASSUME NEW e \in endpoints, GoWithRow(r, "update endpoint", [e EXCEPT !.status = status])
        PROVE  RowOf(r)'
    <3>1. PICK row : row = [e EXCEPT !.status = status]
      OBVIOUS
    <3>2. e \in EndpointRows /\ HasApp(e.app)
      BY <1>1 DEF TablesOK
    <3>3. row \in EndpointRows /\ row.app = e.app
      BY <3>1, <3>2 DEF EndpointRows
    <3>4. RowFits(r, "update endpoint", row)'
      BY <3>2, <3>3, <1>2 DEF RowFits
    <3> QED
      BY <2>3, <3>1, <3>4, <1>1, HasRow
  <2>4. CASE Finish(r, 500) \/ Finish(r, 404) \/ Finish(r, 400)
    BY <2>4, <1>1, RefusalHasNoRow, StatusCodes
  <2> QED
    BY <2>2, <2>3, <2>4
<1>7. CASE StoreEndpoint(r)
  <2>1. Finish(r, 500) \/ Written(r, 204)
    BY <1>7 DEF StoreEndpoint
  <2> QED
    BY <2>1, <1>1, WrittenRow, RefusalHasNoRow, StatusCodes
<1>8. CASE UpdatePolicy(r)
  <2> DEFINE Asked(id) == [id |-> id, endpoint |-> work[r].id,
                           perm |-> work[r].perm, limit |-> work[r].limit]
  <2>1. ASSUME NEW id PROVE Asked(id).limit \in Int /\ Asked(id).endpoint = work[r].id
    BY <1>1
  <2>2. \/ \E q \in policies : q.endpoint = work[r].id /\ GoWithRow(r, "update policy", Asked(q.id))
        \/ GoWithRow(r, "insert policy", Asked(r))
    BY <1>8 DEF UpdatePolicy, PoliciesOf
  <2> HIDE DEF Asked
  <2>3. ASSUME NEW p \in {"update policy", "insert policy"}, NEW id, GoWithRow(r, p, Asked(id)),
               p = "update policy" => HasEndpoint(work[r].id)
        PROVE  RowOf(r)'
    <3>1. PICK row : row = Asked(id)
      OBVIOUS
    <3>2. row.limit \in Int /\ row.endpoint = work[r].id
      BY <2>1, <3>1
    <3>3. RowFits(r, p, row)'
      BY <2>3, <3>2, <1>2 DEF RowFits
    <3> QED
      BY <2>3, <3>1, <3>3, <1>1, HasRow
  <2>4. ASSUME NEW q \in policies, q.endpoint = work[r].id PROVE HasEndpoint(work[r].id)
    BY <2>4, <1>1 DEF TablesOK
  <2> QED
    BY <2>2, <2>3, <2>4
<1>9. CASE InsertPolicy(r) \/ StorePolicy(r)
  <2>1. Finish(r, 500) \/ \E rows : Return(r, rows)
    BY <1>9 DEF InsertPolicy, StorePolicy
  <2> QED
    BY <2>1, <1>1, <1>3, Finishes, Returns, StatusCodes
<1>10. CASE EndpointRead(r)
  <2>1. Finish(r, 500) \/ Finish(r, 404) \/ \E rows : Return(r, rows)
    BY <1>10
       DEF EndpointRead, GetEndpoint, ListEndpoints, GetPolicy, ReadOr500, ReadOneOr404
  <2> QED
    BY <2>1, <1>1, <1>3, Finishes, Returns, StatusCodes
<1> QED
  BY <1>4, <1>5, <1>6, <1>7, <1>8, <1>9, <1>10 DEF EndpointStep

\* Elsewhere a request does not get to where a row is in its hand.
LEMMA OtherPoints ==
    ASSUME BaseOK, NEW r \in Requests,
           RouterStep(r) \/ RbacStep(r) \/ LimitStep(r) \/ GatewayStep(r)
    PROVE  at'[r] \notin RowPoints \/ (InvalidatePermissions(r) /\ at'[r] = "publish")
<1> USE DEF RowPoints, TablePoints
<1>1. ShapeOK /\ AnswersOK
  BY DEF BaseOK
<1>2. ASSUME NEW p \in Points \ RowPoints, To(r, p) PROVE at'[r] \notin RowPoints
  BY <1>2 DEF To
<1>3. ASSUME NEW perms, Passes(r, perms) \/ Keeps(r, perms) PROVE at'[r] \notin RowPoints
  BY <1>3 DEF Passes, Keeps
<1> USE DEF Points
<1>4. CASE RouterStep(r)
  <2>1. CASE Admit(r, orgs)
    BY <2>1, <1>1, <1>2, AdmitStep DEF Admits
  <2>2. CASE RouteGuarded(r) \/ RouteTrip(r) \/ RouteLLM(r, killSwitch) \/ RouteNone(r)
    BY <2>2, <1>1, <1>2, RouteSteps DEF Guards
  <2>3. CASE RefuseInput(r)
    BY <2>3, <1>1, <1>2, RefuseStep
  <2>4. CASE Publish(r)
    <3>1. local[r].row.status \in Statuses \cup {201}
      <4>1. at[r] = "publish"
        BY <2>4 DEF Publish
      <4> QED
        BY <1>1, <4>1, StatusCodes DEF AnswersOK
    <3> QED
      BY <2>4, <3>1, <1>1, Publishes
  <2> QED
    BY <1>4, <2>1, <2>2, <2>3, <2>4 DEF RouterStep
<1>5. CASE RbacStep(r)
  <2>1. CASE ReadPermissionCache(r)
    BY <2>1, <1>1, <1>2, <1>3, ReadPermissionCacheStep
  <2>2. CASE ReadRoles(r)
    BY <2>2, <1>1, <1>2, <1>3, ReadRolesStep
  <2>3. CASE FillPermissionCache(r)
    BY <2>3, <1>1, <1>2, <1>3, FillPermissionCacheStep
  <2>4. CASE AssignRole(r)
    <3>1. Finish(r, 500) \/ Go(r, "invalidate")
      BY <2>4 DEF AssignRole
    <3> QED
      BY <3>1, <1>1, <1>2, FinishTo, GoTo, StatusCodes
  <2>5. CASE InvalidatePermissions(r)
    <3>1. Written(r, 204)
      BY <2>5 DEF InvalidatePermissions, Written
    <3> QED
      BY <2>5, <3>1, <1>1, Writes1
  <2>6. CASE ListUsers(r)
    BY <2>6, <1>1, <1>2, FinishTo, StatusCodes DEF ListUsers
  <2> QED
    BY <1>5, <2>1, <2>2, <2>3, <2>4, <2>5, <2>6 DEF RbacStep
<1>6. CASE LimitStep(r)
  BY <1>6, <1>1, <1>2, LimitSteps
<1>7. CASE GatewayStep(r)
  <2>1. CASE Enforce(r)
    BY <2>1, <1>1, <1>2, EnforceStep DEF Matched
  <2>2. CASE ApplyPolicy(r)
    BY <2>2, <1>1, <1>2, ApplyPolicyStep DEF Governed
  <2>3. CASE \/ Intercept(r) \/ ProxyRequest(r) \/ UnknownAction(r)
             \/ CountRecords(r) \/ ListRecords(r) \/ GetRecord(r)
             \/ CreateRecord(r) \/ UpdateRecord(r) \/ DeleteRecord(r)
    BY <2>3, <1>1, <1>2, BackendSteps
  <2> QED
    BY <1>7, <2>1, <2>2, <2>3 DEF GatewayStep
<1> QED
  BY <1>4, <1>5, <1>6, <1>7

LEMMA OtherRow ==
    ASSUME BaseOK, NEW r \in Requests,
           RouterStep(r) \/ RbacStep(r) \/ LimitStep(r) \/ GatewayStep(r)
    PROVE  RowOf(r)'
<1>1. CASE at'[r] \notin RowPoints
  BY <1>1, NoRow
<1>2. CASE InvalidatePermissions(r)
  <2>1. Written(r, 204)
    BY <1>2 DEF InvalidatePermissions, Written
  <2> QED
    BY <2>1, WrittenRow DEF BaseOK
<1> QED
  BY <1>1, <1>2, OtherPoints

LEMMA ServeRow ==
    ASSUME RowsIInv, NEW r \in Requests, Serve(r)
    PROVE  RowOf(r)'
<1>1. Grows /\ BaseOK
  BY ServeGrows DEF RowsIInv
<1> QED
  BY <1>1, TenantRow, EndpointRow, OtherRow DEF Serve

\* The endpoint in what a request remembers is one of the table.
LEMMA ServeEndpointOf ==
    ASSUME RowsIInv, NEW r \in Requests, Path(r)
    PROVE  EndpointOf(r)'
<1> USE DEF GatewayPoints, TablePoints
<1>1. EndpointOf(r) /\ TablesOK /\ DOMAIN local[r] = MemFields
  BY DEF RowsIInv, BaseOK, ShapeOK
<1>2. ASSUME NEW p, To(r, p),
             p \in GatewayPoints \cup {"policy"} => at[r] \in GatewayPoints \cup {"policy"},
             p \in TablePoints => at[r] \in TablePoints
      PROVE  EndpointOf(r)'
  BY <1>1, <1>2 DEF To, KeepsMemory, EndpointOf
<1>3. ASSUME NEW perms, Passes(r, perms) \/ Keeps(r, perms) PROVE EndpointOf(r)'
  BY <1>3 DEF Passes, Keeps, KeepsAim, EndpointOf
<1>4. ASSUME NEW e \in endpoints, Matched(r, e) PROVE EndpointOf(r)'
  <2>1. e # None
    BY <1>1, TablesAssumption DEF TablesOK
  <2> QED
    BY <1>1, <1>4, <2>1 DEF Matched, EndpointOf, MemFields
<1>5. ASSUME NEW p, at[r] = "policy", Governed(r, p) PROVE EndpointOf(r)'
  <2>1. local'[r].endpoint = local[r].endpoint /\ at'[r] \in {"check", "limit"}
    BY <1>1, <1>5 DEF Governed, MemFields
  <2> QED
    BY <2>1, <1>1, <1>5 DEF EndpointOf
<1>6. ASSUME at'[r] \in {"gateway", "check", "done"} PROVE EndpointOf(r)'
  BY <1>6 DEF EndpointOf
<1> QED
  BY <1>2, <1>3, <1>4, <1>5, <1>6 DEF Path, AtTables, Admits, Guards

\* What was answered with "created" is there.
LEMMA ServeCreatedOf ==
    ASSUME RowsIInv, NEW r \in Requests, Serve(r), Path(r)
    PROVE  CreatedOf(r)'
<1>1. /\ ShapeOK /\ RowOf(r) /\ EndpointOf(r) /\ Grows
  BY ServeGrows DEF RowsIInv, BaseOK
<1>2. CASE at'[r] # "done"
  BY <1>2 DEF CreatedOf
<1>3. CASE To(r, "done")
  <2>1. CASE CreateAPIKey(r)
    <3>1. Finish(r, 500) \/ [id |-> r, app |-> work[r].id, active |-> TRUE] \in keys'
      BY <2>1 DEF CreateAPIKey
    <3>2. CASE Finish(r, 500)
      BY <3>2, <1>1, Finishes, StatusCodes DEF CreatedOf
    <3>3. CASE [id |-> r, app |-> work[r].id, active |-> TRUE] \in keys'
      BY <3>3 DEF CreatedOf, HasCreated
    <3> QED
      BY <3>1, <3>2, <3>3
  <2>2. CASE CreateRecord(r)
    <3>1. local[r].endpoint # None
      BY <2>2, <1>1 DEF CreateRecord, Backend, EndpointOf, GatewayPoints
    <3> QED
      BY <3>1, <1>3 DEF To, KeepsMemory, CreatedOf
  <2> QED
    BY <2>1, <2>2, <1>3 DEF To, Creates, CreatedOf
<1>4. CASE at[r] = "publish" /\ answer'[r].status = local[r].row.status
  <2>1. answer'[r].status = 201 => HasCreated(r)
    BY <1>1, <1>4 DEF RowOf, RowFits
  <2> QED
    BY <2>1, <1>1 DEF CreatedOf, Grows
<1> QED
  BY <1>2, <1>3, <1>4 DEF Path, AtTables, To, Admits, Matched, Governed, Guards, Passes, Keeps

\* A request that does not move is not harmed by one that does.
LEMMA RowsStay ==
    ASSUME NEW r \in Requests, RowOf(r), EndpointOf(r), CreatedOf(r), Grows, work' = work,
           at'[r] = at[r], local'[r] = local[r], answer'[r] = answer[r]
    PROVE  (RowOf(r) /\ EndpointOf(r) /\ CreatedOf(r))'
<1>1. PICK p, row : p = at[r] /\ row = local[r].row
  OBVIOUS
<1>2. RowFits(r, p, row)
  BY <1>1 DEF RowOf
<1>3. /\ HasOrg(row.org) => HasOrg(row.org)'
      /\ HasApp(row.app) => HasApp(row.app)'
      /\ HasWorkspace(row.id) => HasWorkspace(row.id)'
      /\ HasEndpoint(row.endpoint) => HasEndpoint(row.endpoint)'
      /\ HasCreated(r) => HasCreated(r)'
  BY DEF Grows
<1>4. RowOf(r)'
  <2>1. /\ (p \in {"app slug", "insert app"} => HasOrg(row.org))'
        /\ (p \in {"workspace slug", "insert workspace", "update workspace"} =>
               DOMAIN row = WorkspaceFields /\ row.org = work[r].claim /\ HasOrg(row.org))'
    BY <1>2, <1>3, Zenon DEF RowFits
  <2>2. /\ (p = "workspace slug" =>
              IF work[r].op = "CreateWorkspace" THEN row.id = r ELSE HasWorkspace(row.id))'
        /\ (p = "update workspace" => HasWorkspace(row.id))'
    BY <1>2, <1>3, Zenon DEF RowFits
  <2>3. /\ (p = "update endpoint" => HasApp(row.app))'
        /\ (p = "update policy" => HasEndpoint(row.endpoint))'
        /\ (p = "publish" /\ row.status = 201 => HasCreated(r))'
    BY <1>2, <1>3, Zenon DEF RowFits
  <2>4. RowFits(r, p, row)'
    BY <1>2, <2>1, <2>2, <2>3, Zenon DEF RowFits
  <2> QED
    BY <1>1, <2>4 DEF RowOf
<1> QED
  BY <1>4 DEF EndpointOf, CreatedOf, Grows

LEMMA InitRowsIInv == PlatformInit => RowsIInv
<1> SUFFICES ASSUME PlatformInit PROVE RowsIInv
  OBVIOUS
<1>1. BaseOK
  BY InitBase
<1>2. /\ orgs = Orgs0 /\ apps = Apps0 /\ workspaces = Workspaces0 /\ keys = Keys0
      /\ endpoints = Endpoints0 /\ policies = Policies0
  BY DEF PlatformInit
<1>3. TablesOK
  BY <1>2, TablesAssumption DEF TablesOK, HasOrg, HasApp, HasEndpoint, WorkspaceFields
<1>4. UniqueOK
  BY <1>2, TablesAssumption DEF UniqueOK
<1>5. ASSUME NEW r \in Requests PROVE RowOf(r) /\ EndpointOf(r) /\ CreatedOf(r)
  <2>1. at[r] = "arrived"
    BY DEF PlatformInit, RequestsInit
  <2> QED
    BY <2>1 DEF RowOf, RowFits, EndpointOf, CreatedOf, GatewayPoints, TablePoints
<1> QED
  BY <1>1, <1>3, <1>4, <1>5 DEF RowsIInv

LEMMA NextRowsIInv == RowsIInv /\ [PlatformNext]_vars => RowsIInv'
<1> SUFFICES ASSUME RowsIInv, PlatformNext \/ UNCHANGED vars PROVE RowsIInv'
  OBVIOUS
<1>1. BaseOK /\ BaseOK' /\ TablesOK /\ UniqueOK
  BY NextBase DEF RowsIInv
<1>2. ASSUME NEW r \in Requests PROVE RowOf(r) /\ EndpointOf(r) /\ CreatedOf(r)
  BY DEF RowsIInv
<1>3. CASE \E r \in Requests : Serve(r)
  <2>1. PICK r \in Requests : Serve(r)
    BY <1>3
  <2>2. Path(r) /\ Moved(r) /\ Grows
    BY <1>1, <2>1, ServeBase, ServeGrows
  <2>3. TablesOK' /\ UniqueOK'
    BY <1>1, <1>2, <2>1, TablesKept, UniqueKept
  <2>4. ASSUME NEW u \in Requests PROVE (RowOf(u) /\ EndpointOf(u) /\ CreatedOf(u))'
    <3>1. CASE u = r
      BY <3>1, <2>1, <2>2, ServeRow, ServeEndpointOf, ServeCreatedOf
    <3>2. CASE u # r
      BY <3>2, <1>2, <2>2, RowsStay DEF Moved
    <3> QED
      BY <3>1, <3>2
  <2> QED
    BY <1>1, <2>3, <2>4 DEF RowsIInv
<1>4. CASE ~\E r \in Requests : Serve(r)
  <2>1. UNCHANGED <<requestVars, tenantVars, endpointVars>>
    BY <1>4, Aside
  <2>2. KeepsTables /\ work' = work /\ at' = at /\ local' = local /\ answer' = answer
    BY <2>1 DEF requestVars, tenantVars, endpointVars, KeepsTables
  <2>3. Grows
    BY <2>2, KeepsGrow
  <2>4. TablesOK'
    BY <1>1, <2>2, <2>3, ReferencesStay DEF TablesOK, KeepsTables
  <2>5. UniqueOK'
    BY <1>1, <2>2 DEF UniqueOK, KeepsTables
  <2>6. ASSUME NEW u \in Requests PROVE (RowOf(u) /\ EndpointOf(u) /\ CreatedOf(u))'
    BY <1>2, <2>2, <2>3, RowsStay
  <2> QED
    BY <1>1, <2>4, <2>5, <2>6 DEF RowsIInv
<1> QED
  BY <1>3, <1>4

\* However two requests check and insert, and even where the check failed, a
\* slug names one organization, and one workspace or app of an organization;
\* what was answered with "created" is in its table (create_org.go:30,
\* create_workspace.go:66, update_workspace.go:49).
THEOREM SlugsStayUnique == PlatformSpec => []SlugsNameOneRow
<1>1. RowsIInv => SlugsNameOneRow
  BY DEF RowsIInv, UniqueOK, CreatedOf, HasCreated, SlugsNameOneRow
<1> QED
  BY <1>1, InitRowsIInv, NextRowsIInv, PTL DEF PlatformSpec

-----------------------------------------------------------------------------
(* The counters.                                                           *)

\* Those let through are no more than were counted, and than the largest of
\* the limits they were held to.
Within(let, n) ==
    /\ IsFiniteSet(let) /\ Cardinality(let) <= n
    /\ \E m \in {p[2] : p \in let} :
          Cardinality(let) <= m /\ \A p \in let : p[2] \in Int /\ p[2] <= m

LEMMA WithinTheLargest ==
    ASSUME NEW let, NEW n, Within(let, n)
    PROVE  Cardinality(let) <= Max({p[2] : p \in let})
<1> DEFINE limits == {p[2] : p \in let}
<1>1. PICK m \in Int : /\ Cardinality(let) <= m
                       /\ \E p \in let : p[2] = m
                       /\ \A p \in let : p[2] \in Int /\ p[2] <= m
  BY DEF Within
<1>2. m \in limits /\ \A l \in limits : l \in Int /\ m >= l
  BY <1>1
<1>3. Cardinality(let) \in Nat
  BY FS_CardinalityType DEF Within
<1> HIDE DEF limits
<1>4. Max(limits) \in limits /\ \A l \in limits : Max(limits) >= l
  BY <1>2 DEF Max
<1>5. Cardinality(let) <= Max(limits)
  <2>1. PICK largest : largest = Max(limits)
    OBVIOUS
  <2>2. largest \in Int /\ largest >= m
    BY <2>1, <1>2, <1>4
  <2>3. PICK c \in Nat : c = Cardinality(let) /\ c <= m
    BY <1>1, <1>3
  <2>4. c <= largest
    BY <2>2, <2>3
  <2> QED
    BY <2>1, <2>3, <2>4
<1> QED
  BY <1>5 DEF limits

LEMMA OneMore ==
    ASSUME NEW let, NEW n \in Nat, NEW r, NEW limit \in Int, n + 1 <= limit,
           let = {} \/ Within(let, n)
    PROVE  Within(let \cup {<<r, limit>>}, n + 1)
<1> DEFINE more == let \cup {<<r, limit>>}
<1>1. IsFiniteSet(let) /\ Cardinality(let) \in Nat /\ Cardinality(let) <= n
  BY FS_EmptySet, FS_CardinalityType DEF Within
<1>2. IsFiniteSet(more) /\ Cardinality(more) \in Nat /\ Cardinality(more) <= n + 1
  <2>1. IsFiniteSet(more) /\ Cardinality(more) \in {Cardinality(let), Cardinality(let) + 1}
    BY <1>1, FS_AddElement
  <2> HIDE DEF more
  <2> QED
    BY <1>1, <2>1
<1>3. \E m \in Int : /\ Cardinality(more) <= m
                     /\ \E p \in more : p[2] = m
                     /\ \A p \in more : p[2] \in Int /\ p[2] <= m
  <2>1. PICK last : last = <<r, limit>>
    OBVIOUS
  <2>2. last[2] = limit
    BY <2>1
  <2>3. \A p \in more : p = last \/ p \in let
    BY <2>1
  <2>4. last \in more /\ let \subseteq more
    BY <2>1
  <2> HIDE DEF more
  <2>5. CASE let = {}
    BY <2>2, <2>3, <2>4, <2>5, <1>2
  <2>6. CASE Within(let, n)
    <3>1. PICK m \in Int : /\ Cardinality(let) <= m
                           /\ \E p \in let : p[2] = m
                           /\ \A p \in let : p[2] \in Int /\ p[2] <= m
      BY <2>6 DEF Within
    <3>2. CASE m <= limit
      <4>1. Cardinality(more) <= limit
        BY <1>2
      <4>2. \A p \in more : p[2] \in Int /\ p[2] <= limit
        BY <3>1, <3>2, <2>2, <2>3
      <4> QED
        BY <4>1, <4>2, <2>2, <2>4
    <3>3. CASE limit < m
      <4>1. Cardinality(more) <= m
        BY <1>2, <3>3
      <4>2. \A p \in more : p[2] \in Int /\ p[2] <= m
        BY <3>1, <3>3, <2>2, <2>3
      <4> QED
        BY <4>1, <4>2, <3>1, <2>4
    <3> QED
      BY <3>2, <3>3
  <2> QED
    BY <2>5, <2>6
<1> QED
  BY <1>2, <1>3 DEF Within

CountsOK ==
    /\ \A key \in DOMAIN counters : counters[key].n \in Nat \ {0} /\ counters[key].ends \in BOOLEAN
    /\ \A key \in DOMAIN passed : key \in DOMAIN counters /\ Within(passed[key], counters[key].n)

\* On its way to EXPIRE.
Starting(r, key) ==
    \/ at[r] = "llm window" /\ key = LLMKey(r)
    \/ at[r] = "window" /\ key = EndpointKey(r)

WindowOK(key) ==
    counters[key].ends \/ \E r \in Requests : Starting(r, key) \/ work[r].faulty

\* The limit of a policy is a number.
PolicyOf(r) == local[r].policy = None \/ local[r].policy.limit \in Int

LimitIInv ==
    /\ RowsIInv /\ CountsOK
    /\ \A key \in DOMAIN counters : WindowOK(key)
    /\ \A r \in Requests : PolicyOf(r)

LEMMA ServePolicyOf ==
    ASSUME RowsIInv, NEW r \in Requests, Path(r), PolicyOf(r)
    PROVE  PolicyOf(r)'
<1>1. DOMAIN local[r] = MemFields /\ TablesOK
  BY DEF RowsIInv, BaseOK, ShapeOK
<1>2. ASSUME local'[r].policy = local[r].policy PROVE PolicyOf(r)'
  BY <1>2 DEF PolicyOf
<1>3. ASSUME NEW p \in policies \cup {None}, Governed(r, p) PROVE PolicyOf(r)'
  <2>1. local'[r].policy = p
    BY <1>1, <1>3 DEF Governed, MemFields
  <2> QED
    BY <1>1, <2>1 DEF PolicyOf, TablesOK
<1>4. ASSUME Admits(r) \/ Guards(r) \/ \E e \in endpoints : Matched(r, e)
      PROVE  local'[r].policy = local[r].policy
  BY <1>1, <1>4 DEF Admits, Guards, Matched, MemFields
<1>5. ASSUME NEW p, To(r, p) PROVE local'[r].policy = local[r].policy
  BY <1>5 DEF To, KeepsMemory
<1>6. ASSUME NEW perms, Passes(r, perms) \/ Keeps(r, perms)
      PROVE  local'[r].policy = local[r].policy
  BY <1>6 DEF Passes, Keeps, KeepsAim
<1> QED
  BY <1>2, <1>3, <1>4, <1>5, <1>6 DEF Path, AtTables

LEMMA WindowsStartInLimits ==
    ASSUME NEW r \in Requests, BaseOK, Serve(r), at[r] \in {"window", "llm window"}
    PROVE  LimitStep(r)
<1>1. ~RouterStep(r)
  BY DEF RouterStep, Admit, RouteGuarded, RouteTrip, RouteLLM, RouteNone, RefuseInput, Publish
<1>2. ~RbacStep(r)
  BY DEF RbacStep, ReadPermissionCache, ReadRoles, FillPermissionCache, AssignRole,
         InvalidatePermissions, ListUsers, Handling
<1>3. ~TenantStep(r) /\ ~EndpointStep(r)
  BY TenantSteps, EndpointSteps DEF BaseOK, AtTables, TablePoints
<1>4. ~GatewayStep(r)
  BY DEF GatewayStep, Enforce, ApplyPolicy, Intercept, ProxyRequest, UnknownAction, CountRecords,
         ListRecords, GetRecord, CreateRecord, UpdateRecord, DeleteRecord, Backend
<1> QED
  BY <1>1, <1>2, <1>3, <1>4 DEF Serve

\* One more is counted, and let through if the limit is not reached.
LEMMA CountsAdvance ==
    ASSUME CountsOK, NEW r, NEW key, NEW e \in BOOLEAN,
           counters' = Set(counters, key, [n |-> Count(key) + 1, ends |-> e]),
           \/ passed' = passed
           \/ \E limit \in Int : Count(key) + 1 <= limit /\ LetThrough(key, r, limit)
    PROVE  /\ CountsOK'
           /\ DOMAIN counters' = DOMAIN counters \cup {key}
           /\ counters'[key].ends = e
           /\ \A k \in DOMAIN counters \ {key} : counters'[k] = counters[k]
<1>1. Count(key) \in Nat
  BY DEF CountsOK, Count
<1>2. PICK m \in Nat \ {0} : m = Count(key) + 1
  BY <1>1
<1>3. PICK c : c = [n |-> m, ends |-> e]
  OBVIOUS
<1>4. c.n = m /\ c.ends = e
  BY <1>3
<1>5. /\ DOMAIN counters' = DOMAIN counters \cup {key} /\ counters'[key] = c
      /\ \A k \in DOMAIN counters \ {key} : counters'[k] = counters[k]
  BY <1>2, <1>3 DEF Set
<1>6. \A k \in DOMAIN counters' : counters'[k].n \in Nat \ {0} /\ counters'[k].ends \in BOOLEAN
  BY <1>2, <1>4, <1>5 DEF CountsOK
<1>7. ASSUME NEW let, NEW n \in Nat, Within(let, n) PROVE Within(let, n + 1)
  <2>1. Cardinality(let) \in Nat
    BY <1>7, FS_CardinalityType DEF Within
  <2> QED
    BY <1>7, <2>1 DEF Within
<1>8. key \in DOMAIN passed => Within(passed[key], Count(key))
  BY DEF CountsOK, Count
<1>9. ASSUME NEW k \in DOMAIN passed, k # key PROVE k \in DOMAIN counters' /\ Within(passed[k], counters'[k].n)
  BY <1>5, <1>9 DEF CountsOK
<1>10. CASE passed' = passed
  <2>1. key \in DOMAIN passed => Within(passed[key], counters'[key].n)
    BY <1>1, <1>2, <1>4, <1>5, <1>7, <1>8
  <2>2. \A k \in DOMAIN passed' : k \in DOMAIN counters' /\ Within(passed'[k], counters'[k].n)
    BY <2>1, <1>5, <1>9, <1>10
  <2> QED
    BY <2>2, <1>4, <1>5, <1>6 DEF CountsOK
<1>11. CASE \E limit \in Int : Count(key) + 1 <= limit /\ LetThrough(key, r, limit)
  <2>1. PICK limit \in Int : Count(key) + 1 <= limit /\ LetThrough(key, r, limit)
    BY <1>11
  <2>2. PICK let : let = IF key \in DOMAIN passed THEN passed[key] ELSE {}
    OBVIOUS
  <2>3. Within(let \cup {<<r, limit>>}, m)
    BY <1>1, <1>2, <1>8, <2>1, <2>2, OneMore
  <2>4. PICK more : more = let \cup {<<r, limit>>}
    OBVIOUS
  <2>5. passed' = Set(passed, key, more)
    BY <2>1, <2>2, <2>4 DEF LetThrough
  <2>6. /\ DOMAIN passed' = DOMAIN passed \cup {key} /\ passed'[key] = more
        /\ \A k \in DOMAIN passed \ {key} : passed'[k] = passed[k]
    BY <2>5 DEF Set
  <2>7. \A k \in DOMAIN passed' : k \in DOMAIN counters' /\ Within(passed'[k], counters'[k].n)
    BY <2>3, <2>4, <2>6, <1>4, <1>5, <1>9
  <2> QED
    BY <2>7, <1>4, <1>5, <1>6 DEF CountsOK
<1> QED
  BY <1>10, <1>11

\* EXPIRE.
LEMMA CountsEnd ==
    ASSUME CountsOK, NEW r \in Requests, NEW key, StartWindow(r, key), passed' = passed
    PROVE  /\ CountsOK' /\ DOMAIN counters' = DOMAIN counters
           /\ \A k \in DOMAIN counters \ {key} : counters'[k] = counters[k]
           /\ key \in DOMAIN counters => counters'[key].ends \/ (work[r].faulty /\ counters' = counters)
<1>1. CASE counters' = counters /\ (work[r].faulty \/ key \notin DOMAIN counters)
  BY <1>1 DEF CountsOK
<1>2. CASE key \in DOMAIN counters /\ counters' = Set(counters, key, [n |-> Count(key), ends |-> TRUE])
  <2>1. PICK c : c = [n |-> Count(key), ends |-> TRUE]
    OBVIOUS
  <2>2. c.n = counters[key].n /\ c.ends = TRUE
    BY <2>1, <1>2 DEF Count
  <2>3. /\ DOMAIN counters' = DOMAIN counters /\ counters'[key] = c
        /\ \A k \in DOMAIN counters \ {key} : counters'[k] = counters[k]
    BY <1>2, <2>1 DEF Set
  <2>4. \A k \in DOMAIN counters : counters'[k].n = counters[k].n /\ counters'[k].ends \in BOOLEAN
    BY <2>2, <2>3 DEF CountsOK
  <2>5. CountsOK'
    BY <2>3, <2>4 DEF CountsOK
  <2> QED
    BY <2>2, <2>3, <2>5
<1>3. \/ counters' = counters /\ (work[r].faulty \/ key \notin DOMAIN counters)
      \/ key \in DOMAIN counters /\ counters' = Set(counters, key, [n |-> Count(key), ends |-> TRUE])
  BY DEF StartWindow, Outcomes
<1> QED
  BY <1>1, <1>2, <1>3

\* The window of a counter is over.
LEMMA CountsForgotten ==
    ASSUME CountsOK, NEW key, EndWindow(key)
    PROVE  /\ CountsOK' /\ DOMAIN counters' \subseteq DOMAIN counters
           /\ \A k \in DOMAIN counters' : counters'[k] = counters[k]
BY DEF CountsOK, EndWindow

LEMMA WindowStays ==
    ASSUME NEW r \in Requests, Moved(r), NEW key, WindowOK(key),
           counters'[key].ends = counters[key].ends, ~Starting(r, key) \/ Starting(r, key)'
    PROVE  WindowOK(key)'
<1>1. ASSUME NEW u \in Requests, Starting(u, key), u # r PROVE Starting(u, key)'
  BY <1>1 DEF Moved, Starting, LLMKey, EndpointKey
<1>2. work' = work
  BY DEF Moved
<1> QED
  BY <1>1, <1>2 DEF WindowOK

\* Counting one more keeps every counter's end, or the way to it.
LEMMA WindowsAdvance ==
    ASSUME LimitIInv, NEW r \in Requests, Moved(r), NEW key, NEW e \in BOOLEAN,
           ~\E k : Starting(r, k),
           counters' = Set(counters, key, [n |-> Count(key) + 1, ends |-> e]),
           \/ passed' = passed
           \/ \E limit \in Int : Count(key) + 1 <= limit /\ LetThrough(key, r, limit),
           \/ e = TRUE
           \/ key \in DOMAIN counters /\ e = counters[key].ends
           \/ Starting(r, key)'
    PROVE  CountsOK' /\ \A k \in DOMAIN counters' : WindowOK(k)'
<1>1. CountsOK /\ \A k \in DOMAIN counters : WindowOK(k)
  BY DEF LimitIInv
<1>2. /\ CountsOK' /\ DOMAIN counters' = DOMAIN counters \cup {key} /\ counters'[key].ends = e
      /\ \A k \in DOMAIN counters \ {key} : counters'[k] = counters[k]
  BY <1>1, CountsAdvance
<1>3. ASSUME NEW k \in DOMAIN counters \ {key} PROVE WindowOK(k)'
  BY <1>1, <1>2, <1>3, WindowStays
<1>4. WindowOK(key)'
  <2>1. CASE key \in DOMAIN counters /\ e = counters[key].ends
    BY <2>1, <1>1, <1>2, WindowStays
  <2>2. CASE e = TRUE \/ Starting(r, key)'
    BY <2>2, <1>2 DEF WindowOK
  <2> QED
    BY <2>1, <2>2
<1> QED
  BY <1>2, <1>3, <1>4

LEMMA WindowsEnd ==
    ASSUME LimitIInv, NEW r \in Requests, Moved(r), NEW key, StartWindow(r, key),
           \A k : Starting(r, k) => k = key, passed' = passed
    PROVE  CountsOK' /\ \A k \in DOMAIN counters' : WindowOK(k)'
<1>1. CountsOK /\ \A k \in DOMAIN counters : WindowOK(k)
  BY DEF LimitIInv
<1>2. /\ CountsOK' /\ DOMAIN counters' = DOMAIN counters
      /\ \A k \in DOMAIN counters \ {key} : counters'[k] = counters[k]
      /\ key \in DOMAIN counters => counters'[key].ends \/ work[r].faulty
  BY <1>1, CountsEnd
<1>3. ASSUME NEW k \in DOMAIN counters \ {key} PROVE WindowOK(k)'
  BY <1>1, <1>2, <1>3, WindowStays
<1>4. key \in DOMAIN counters => WindowOK(key)'
  BY <1>2 DEF WindowOK, Moved
<1> QED
  BY <1>2, <1>3, <1>4

LEMMA ServeCounts ==
    ASSUME LimitIInv, NEW r \in Requests, Serve(r)
    PROVE  CountsOK' /\ \A key \in DOMAIN counters' : WindowOK(key)'
<1>1. /\ BaseOK /\ ShapeOK /\ CountsOK /\ Moved(r) /\ PolicyOf(r)
      /\ \A k \in DOMAIN counters : WindowOK(k)
  BY ServeBase DEF LimitIInv, RowsIInv, BaseOK
<1>2. LLMLimit \in Int /\ \A n \in Nat : n = 0 => n + 1 <= LLMLimit
  BY LLMLimitAssumption
<1>3. ASSUME NEW key PROVE Ends(key) \in BOOLEAN /\ (key \in DOMAIN counters => Ends(key) = counters[key].ends)
  BY <1>1 DEF Ends, CountsOK
<1>4. ASSUME NEW key PROVE Count(key) \in Nat /\ (key \notin DOMAIN counters => Count(key) = 0)
  BY <1>1 DEF Count, CountsOK
<1>5. CASE UNCHANGED <<counters, passed>> /\ at[r] \notin {"window", "llm window"}
  <2>1. CountsOK'
    BY <1>1, <1>5 DEF CountsOK
  <2>2. ASSUME NEW key \in DOMAIN counters PROVE WindowOK(key)'
    BY <2>2, <1>1, <1>5, WindowStays DEF Starting
  <2> QED
    BY <2>1, <2>2, <1>5
<1>6. CASE AllowInMemory(r)
  <2>1. PICK key : key = LLMKey(r)
    OBVIOUS
  <2>2. \/ UNCHANGED <<counters, passed>>
        \/ /\ counters' = Set(counters, key, [n |-> Count(key) + 1, ends |-> TRUE])
           /\ Count(key) + 1 <= LLMLimit /\ LetThrough(key, r, LLMLimit)
    BY <1>6, <2>1 DEF AllowInMemory, WithinLimit
  <2>3. at[r] = "llm limit"
    BY <1>6 DEF AllowInMemory
  <2>4. ~\E k : Starting(r, k)
    BY <2>3 DEF Starting
  <2> QED
    BY <2>2, <2>3, <2>4, <1>1, <1>2, <1>5, WindowsAdvance
<1>7. CASE AllowInRedis(r)
  <2>1. PICK key : key = LLMKey(r)
    OBVIOUS
  <2>2. \/ UNCHANGED <<counters, passed>>
        \/ /\ Increment(key)
           /\ \/ /\ Count(key) + 1 = 1 /\ Count(key) + 1 <= LLMLimit
                 /\ LetThrough(key, r, LLMLimit) /\ Go(r, "llm window")
              \/ /\ Count(key) + 1 # 1 /\ Count(key) + 1 <= LLMLimit
                 /\ LetThrough(key, r, LLMLimit)
              \/ passed' = passed /\ ~(Count(key) + 1 <= LLMLimit)
    BY <1>7, <2>1 DEF AllowInRedis, WithinLimit
  <2>3. at[r] = "llm limit"
    BY <1>7 DEF AllowInRedis
  <2>4. ~\E k : Starting(r, k)
    BY <2>3 DEF Starting
  <2>5. CASE UNCHANGED <<counters, passed>>
    BY <2>3, <2>5, <1>5
  <2>6. ASSUME Go(r, "llm window") PROVE Starting(r, key)'
    <3>1. at'[r] = "llm window" /\ work' = work
      BY <2>6, <1>1, Goes DEF Points, Moved
    <3> QED
      BY <2>1, <3>1 DEF Starting, LLMKey
  <2>7. CASE /\ Increment(key)
             /\ \/ passed' = passed
                \/ Count(key) + 1 <= LLMLimit /\ LetThrough(key, r, LLMLimit)
             /\ key \in DOMAIN counters \/ Starting(r, key)'
    <3>1. PICK e \in BOOLEAN : e = Ends(key)
      BY <1>3
    <3>2. counters' = Set(counters, key, [n |-> Count(key) + 1, ends |-> e])
      BY <2>7, <3>1 DEF Increment
    <3>3. (key \in DOMAIN counters /\ e = counters[key].ends) \/ Starting(r, key)'
      BY <2>7, <3>1, <1>3
    <3> QED
      BY <2>4, <2>7, <3>2, <3>3, <1>1, <1>2, WindowsAdvance
  <2>8. key \in DOMAIN counters \/ Count(key) = 0
    BY <1>4
  <2>9. Count(key) = 0 => Count(key) + 1 = 1 /\ Count(key) + 1 <= LLMLimit
    BY <1>2, <1>4
  <2> QED
    BY <2>2, <2>5, <2>6, <2>7, <2>8, <2>9
<1>8. CASE CheckRateLimit(r)
  <2>1. PICK key, limit : key = EndpointKey(r) /\ limit = local[r].policy.limit
    OBVIOUS
  <2>2. at[r] = "limit" /\ local[r].policy # None /\ limit > 0
    BY <1>8, <2>1 DEF CheckRateLimit, Limited
  <2>3. limit \in Int
    BY <2>1, <2>2, <1>1 DEF PolicyOf
  <2>4. \/ UNCHANGED <<counters, passed>>
        \/ /\ Increment(key)
           /\ \/ /\ Count(key) + 1 = 1 /\ Count(key) + 1 <= limit
                 /\ LetThrough(key, r, limit) /\ Go(r, "window")
              \/ /\ Count(key) + 1 # 1 /\ Count(key) + 1 <= limit
                 /\ LetThrough(key, r, limit)
              \/ passed' = passed /\ ~(Count(key) + 1 <= limit)
    BY <1>8, <2>1 DEF CheckRateLimit, WithinLimit
  <2>5. ~\E k : Starting(r, k)
    BY <2>2 DEF Starting
  <2>6. CASE UNCHANGED <<counters, passed>>
    BY <2>2, <2>6, <1>5
  <2>7. ASSUME Go(r, "window") PROVE Starting(r, key)'
    <3>1. at'[r] = "window" /\ work' = work /\ local'[r] = local[r]
      BY <2>7, <1>1, Goes DEF Points, Moved
    <3> QED
      BY <2>1, <3>1 DEF Starting, EndpointKey
  <2>8. CASE /\ Increment(key)
             /\ \/ passed' = passed
                \/ Count(key) + 1 <= limit /\ LetThrough(key, r, limit)
             /\ key \in DOMAIN counters \/ Starting(r, key)'
    <3>1. PICK e \in BOOLEAN : e = Ends(key)
      BY <1>3
    <3>2. counters' = Set(counters, key, [n |-> Count(key) + 1, ends |-> e])
      BY <2>8, <3>1 DEF Increment
    <3>3. (key \in DOMAIN counters /\ e = counters[key].ends) \/ Starting(r, key)'
      BY <2>8, <3>1, <1>3
    <3> QED
      BY <2>3, <2>5, <2>8, <3>2, <3>3, <1>1, WindowsAdvance
  <2>9. key \in DOMAIN counters \/ Count(key) = 0
    BY <1>4
  <2>10. Count(key) = 0 => Count(key) + 1 = 1 /\ Count(key) + 1 <= limit
    BY <2>2, <2>3, <1>4
  <2> QED
    BY <2>4, <2>6, <2>7, <2>8, <2>9, <2>10
<1>9. CASE StartLLMWindow(r)
  <2>1. PICK key : key = LLMKey(r) /\ StartWindow(r, key)
    BY <1>9 DEF StartLLMWindow
  <2>2. at[r] = "llm window" /\ passed' = passed
    BY <1>9 DEF StartLLMWindow
  <2>3. \A k : Starting(r, k) => k = key
    BY <2>1, <2>2 DEF Starting
  <2> QED
    BY <2>1, <2>2, <2>3, <1>1, WindowsEnd
<1>10. CASE StartEndpointWindow(r)
  <2>1. PICK key : key = EndpointKey(r) /\ StartWindow(r, key)
    BY <1>10 DEF StartEndpointWindow
  <2>2. at[r] = "window" /\ passed' = passed
    BY <1>10 DEF StartEndpointWindow
  <2>3. \A k : Starting(r, k) => k = key
    BY <2>1, <2>2 DEF Starting
  <2> QED
    BY <2>1, <2>2, <2>3, <1>1, WindowsEnd
<1>11. CASE SkipLimit(r)
  BY <1>5, <1>11 DEF SkipLimit, limitVars
<1>12. CASE ~LimitStep(r)
  <2>1. UNCHANGED <<counters, passed>>
    BY <1>12 DEF Serve, RouterStep, tables, limitVars
  <2> QED
    BY <2>1, <1>1, <1>5, <1>12, WindowsStartInLimits
<1> QED
  BY <1>6, <1>7, <1>8, <1>9, <1>10, <1>11, <1>12 DEF LimitStep

LEMMA InitLimitIInv == PlatformInit => LimitIInv
<1> SUFFICES ASSUME PlatformInit PROVE LimitIInv
  OBVIOUS
<1>1. DOMAIN counters = {} /\ DOMAIN passed = {}
  BY EmptySeq DEF PlatformInit
<1>2. ASSUME NEW r \in Requests PROVE PolicyOf(r)
  BY DEF PlatformInit, RequestsInit, NothingYet, PolicyOf
<1> QED
  BY <1>1, <1>2, InitRowsIInv DEF LimitIInv, CountsOK

LEMMA NextLimitIInv == LimitIInv /\ [PlatformNext]_vars => LimitIInv'
<1> SUFFICES ASSUME LimitIInv, PlatformNext \/ UNCHANGED vars PROVE LimitIInv'
  OBVIOUS
<1>1. RowsIInv /\ RowsIInv' /\ BaseOK /\ CountsOK
  BY NextRowsIInv DEF LimitIInv, RowsIInv
<1>2. CASE \E r \in Requests : Serve(r)
  <2>1. PICK r \in Requests : Serve(r)
    BY <1>2
  <2>2. CountsOK' /\ \A key \in DOMAIN counters' : WindowOK(key)'
    BY <2>1, ServeCounts
  <2>3. ASSUME NEW u \in Requests PROVE PolicyOf(u)'
    <3>1. Path(r) /\ Moved(r) /\ PolicyOf(u)
      BY <1>1, <2>1, ServeBase DEF LimitIInv
    <3> QED
      BY <3>1, <1>1, ServePolicyOf DEF Moved, PolicyOf
  <2> QED
    BY <1>1, <2>2, <2>3 DEF LimitIInv
<1>3. CASE ~\E r \in Requests : Serve(r)
  <2>1. UNCHANGED requestVars
    BY <1>3, Aside
  <2>2. work' = work /\ at' = at /\ local' = local
    BY <2>1 DEF requestVars
  <2>3. /\ CountsOK' /\ DOMAIN counters' \subseteq DOMAIN counters
        /\ \A key \in DOMAIN counters' : counters'[key] = counters[key]
    <3>1. CASE UNCHANGED <<counters, passed>>
      BY <1>1, <3>1 DEF CountsOK
    <3>2. CASE \E key \in DOMAIN counters : EndWindow(key)
      BY <1>1, <3>2, CountsForgotten
    <3> QED
      BY <3>1, <3>2, <1>3, Aside DEF limitVars
  <2>4. ASSUME NEW key \in DOMAIN counters' PROVE WindowOK(key)'
    BY <2>2, <2>3 DEF LimitIInv, WindowOK, Starting, LLMKey, EndpointKey
  <2>5. ASSUME NEW u \in Requests PROVE PolicyOf(u)'
    BY <2>2 DEF LimitIInv, PolicyOf
  <2> QED
    BY <1>1, <2>3, <2>4, <2>5 DEF LimitIInv
<1> QED
  BY <1>2, <1>3

\* Requests are at known points and are answered once, and the rows of the
\* tables refer to rows that exist (migrations 00007 to 00012).
THEOREM PlatformTypes == PlatformSpec => []PlatformTypeOK
<1>1. LimitIInv => PlatformTypeOK
  <2> SUFFICES ASSUME LimitIInv PROVE PlatformTypeOK
    OBVIOUS
  <2>1. ShapeOK /\ AnswersOK /\ TablesOK /\ CountsOK
    BY DEF LimitIInv, RowsIInv, BaseOK
  <2>2. /\ \A r \in Requests : (answer[r].status # 0) <=> at[r] = "done"
        /\ \A r \in Requests : r \in published => at[r] = "done"
    BY <2>1 DEF AnswersOK
  <2>3. published \subseteq Requests
    BY DEF LimitIInv, RowsIInv, BaseOK, AnswersOK
  <2>4. /\ \A a \in apps : OrgById(a.org) # {}
        /\ \A w \in workspaces : OrgById(w.org) # {}
        /\ \A k \in keys : AppById(k.app) # {}
        /\ \A e \in endpoints : AppById(e.app) # {}
        /\ \A p \in policies : EndpointById(p.endpoint) # {}
    BY <2>1 DEF TablesOK, HasOrg, HasApp, HasEndpoint, OrgById, AppById, EndpointById
  <2>5. DOMAIN passed \subseteq DOMAIN counters
    BY <2>1 DEF CountsOK
  <2> QED
    BY <2>1, <2>2, <2>3, <2>4, <2>5 DEF ShapeOK, PlatformTypeOK
<1> QED
  BY <1>1, InitLimitIInv, NextLimitIInv, PTL DEF PlatformSpec

\* Of the requests that one window of a counter lets through there are never
\* more than their limit; and only a request on its way to EXPIRE, or one whose
\* EXPIRE failed, leaves a counter without an end (rate_limit.go:41 and :70,
\* pipeline.go:252).
THEOREM WindowsAreBounded == PlatformSpec => []LimitIsPerWindow
<1>1. LimitIInv => LimitIsPerWindow
  <2> SUFFICES ASSUME LimitIInv, NEW key \in DOMAIN counters
               PROVE  /\ key \in DOMAIN passed =>
                            Cardinality(passed[key]) <= Max({p[2] : p \in passed[key]})
                      /\ ~counters[key].ends => \E r \in Requests :
                            at[r] \in {"window", "llm window"} \/ work[r].faulty
    BY DEF LimitIsPerWindow
  <2>1. key \in DOMAIN passed => Cardinality(passed[key]) <= Max({p[2] : p \in passed[key]})
    BY WithinTheLargest DEF LimitIInv, CountsOK
  <2>2. WindowOK(key)
    BY DEF LimitIInv
  <2> QED
    BY <2>1, <2>2 DEF WindowOK, Starting
<1> QED
  BY <1>1, InitLimitIInv, NextLimitIInv, PTL DEF PlatformSpec

-----------------------------------------------------------------------------
(* Organizations are kept apart.                                           *)

RolesOK == \A g \in userRoles : g.org # Nil

RecordsOK == \A d \in records : DOMAIN d = {"id", "org", "app", "data"}

\* The token's organization is the request's; one that names none gets to no
\* table, for a role is in an organization.
ApartOf(r) ==
    /\ at[r] \notin {"arrived", "done"} /\ work[r].claim # Nil => local[r].tenant = work[r].claim
    /\ at[r] \in TablePoints => work[r].claim # Nil
    /\ at[r] \in {"app slug", "insert app"} => local[r].row.org = work[r].claim
    /\ at[r] \in {"insert policy", "update policy"} => work[r].op = "UpdatePolicy"

ApartIInv ==
    /\ RowsIInv /\ AccessIInv /\ RolesOK /\ RecordsOK
    /\ \A r \in Requests : ApartOf(r)

\* Only creating an app gets to its insert, only a policy's update to its.
LEMMA TenantAims ==
    ASSUME ShapeOK, NEW r \in Requests, TenantStep(r)
    PROVE  /\ at'[r] \notin {"insert policy", "update policy"}
           /\ at'[r] \in {"app slug", "insert app"} => CreateApp(r) \/ CheckAppSlug(r)
<1> USE DEF Points
<1>1. ASSUME NEW p, To(r, p) PROVE at'[r] = p
  BY <1>1 DEF To
<1>2. ASSUME Finish(r, 400) \/ Finish(r, 403) \/ Finish(r, 404) \/ Finish(r, 409) \/ Finish(r, 500)
      PROVE  at'[r] = "done"
  BY <1>1, <1>2, FinishTo, StatusCodes
<1>3. ASSUME NEW rows, Return(r, rows) PROVE at'[r] = "done"
  BY <1>3, Returns
<1>4. ASSUME NEW s, Written(r, s) PROVE at'[r] = "publish"
  BY <1>4, Writes1
<1>5. ASSUME NEW p \in Points \ {"done", "publish"}, NEW row, GoWithRow(r, p, row) PROVE at'[r] = p
  BY <1>1, <1>5, RowTo
<1>6. ASSUME NEW p \in Points \ {"done", "publish"}, Go(r, p) PROVE at'[r] = p
  BY <1>1, <1>6, GoTo
<1>7. CASE CreateOrg(r)
  BY <1>7, <1>2, <1>5 DEF CreateOrg
<1>8. CASE InsertOrg(r) \/ InsertApp(r) \/ InsertWorkspace(r)
  <2>1. Finish(r, 500) \/ Written(r, 201)
    BY <1>8 DEF InsertOrg, InsertApp, InsertWorkspace
  <2> QED
    BY <2>1, <1>2, <1>4
<1>9. CASE CreateApp(r)
  <2>1. at'[r] \in {"done", "app slug"}
    BY <1>9, <1>2, <1>5 DEF CreateApp
  <2> QED
    BY <2>1, <1>9
<1>10. CASE CheckAppSlug(r)
  <2>1. at'[r] \in {"done", "insert app"}
    BY <1>10, <1>2, <1>6 DEF CheckAppSlug
  <2> QED
    BY <2>1, <1>10
<1>11. CASE CreateWorkspace(r)
  <2>1. Finish(r, 404) \/ Finish(r, 403) \/ \E row : GoWithRow(r, "workspace slug", row)
    BY <1>11 DEF CreateWorkspace
  <2> QED
    BY <2>1, <1>2, <1>5
<1>12. CASE UpdateWorkspace(r)
  <2>1. \/ Finish(r, 500) \/ Finish(r, 404) \/ Finish(r, 403)
        \/ \E row : GoWithRow(r, "workspace slug", row) \/ GoWithRow(r, "update workspace", row)
    BY <1>12 DEF UpdateWorkspace
  <2> QED
    BY <2>1, <1>2, <1>5
<1>13. CASE CheckWorkspaceSlug(r)
  BY <1>13, <1>2, <1>6 DEF CheckWorkspaceSlug
<1>14. CASE StoreWorkspace(r)
  <2>1. Finish(r, 500) \/ \E rows : Return(r, rows)
    BY <1>14 DEF StoreWorkspace
  <2> QED
    BY <2>1, <1>2, <1>3
<1>15. CASE CreateAPIKey(r) \/ RevokeAPIKey(r)
  <2>1. Finish(r, 500) \/ Finish(r, 201) \/ Finish(r, 204)
    BY <1>15 DEF CreateAPIKey, RevokeAPIKey
  <2>2. at'[r] = "done"
    BY <2>1, <1>2, Finishes, StatusCodes
  <2> QED
    BY <2>2
<1>16. CASE TenantRead(r)
  <2>1. Finish(r, 500) \/ Finish(r, 404) \/ Go(r, "page") \/ \E rows : Return(r, rows)
    BY <1>16
       DEF TenantRead, GetOrg, GetApp, CountRows, ListOrgs, ListApps, ListWorkspaces,
           ListAPIKeys, ReadOr500, ReadOneOr404
  <2> QED
    BY <2>1, <1>2, <1>3, <1>6
<1> QED
  BY <1>7, <1>8, <1>9, <1>10, <1>11, <1>12, <1>13, <1>14, <1>15, <1>16 DEF TenantStep

LEMMA EndpointAims ==
    ASSUME ShapeOK, NEW r \in Requests, EndpointStep(r)
    PROVE  /\ at'[r] \notin {"app slug", "insert app"}
           /\ at'[r] \in {"insert policy", "update policy"} => work[r].op = "UpdatePolicy"
<1> USE DEF Points
<1>1. ASSUME NEW p, To(r, p) PROVE at'[r] = p
  BY <1>1 DEF To
<1>2. ASSUME Finish(r, 400) \/ Finish(r, 403) \/ Finish(r, 404) \/ Finish(r, 409) \/ Finish(r, 500)
      PROVE  at'[r] = "done"
  BY <1>1, <1>2, FinishTo, StatusCodes
<1>3. ASSUME NEW rows, Return(r, rows) PROVE at'[r] = "done"
  BY <1>3, Returns
<1>4. ASSUME NEW s, Written(r, s) PROVE at'[r] = "publish"
  BY <1>4, Writes1
<1>5. ASSUME NEW p \in Points \ {"done", "publish"}, NEW row, GoWithRow(r, p, row) PROVE at'[r] = p
  BY <1>1, <1>5, RowTo
<1>6. CASE DefineEndpoint(r)
  BY <1>6, <1>2, <1>5 DEF DefineEndpoint
<1>7. CASE InsertEndpoint(r) \/ StoreEndpoint(r)
  <2>1. Finish(r, 500) \/ \E s : Written(r, s)
    BY <1>7 DEF InsertEndpoint, StoreEndpoint
  <2> QED
    BY <2>1, <1>2, <1>4
<1>8. CASE RetireEndpoint(r) \/ ActivateEndpoint(r)
  <2>1. \/ Finish(r, 500) \/ Finish(r, 404) \/ Finish(r, 400)
        \/ \E row : GoWithRow(r, "update endpoint", row)
    BY <1>8 DEF RetireEndpoint, ActivateEndpoint, ReadForStatus
  <2> QED
    BY <2>1, <1>2, <1>5
<1>9. CASE UpdatePolicy(r)
  <2>1. work[r].op = "UpdatePolicy" /\ at'[r] \in {"insert policy", "update policy"}
    BY <1>9, <1>5 DEF UpdatePolicy, Handling
  <2> QED
    BY <2>1
<1>10. CASE InsertPolicy(r) \/ StorePolicy(r) \/ EndpointRead(r)
  <2>1. Finish(r, 500) \/ Finish(r, 404) \/ \E rows : Return(r, rows)
    BY <1>10 DEF InsertPolicy, StorePolicy, EndpointRead, GetEndpoint, ListEndpoints, GetPolicy,
                 ReadOr500, ReadOneOr404
  <2> QED
    BY <2>1, <1>2, <1>3
<1> QED
  BY <1>6, <1>7, <1>8, <1>9, <1>10 DEF EndpointStep

\* A new app's organization is the token's.
LEMMA AppRow ==
    ASSUME ShapeOK, NEW r \in Requests, ApartOf(r), CreateApp(r) \/ CheckAppSlug(r),
           at'[r] \in {"app slug", "insert app"}
    PROVE  local'[r].row.org = work[r].claim
<1> USE DEF Points
<1>1. ASSUME NEW s \in Statuses, Finish(r, s) PROVE FALSE
  BY <1>1, Finishes
<1>2. CASE CreateApp(r)
  <2>1. AppOrg(r) = work[r].claim
    <3>1. at[r] = "handler"
      BY <1>2 DEF CreateApp, Handling
    <3>2. local[r].tenant = work[r].claim
      BY <3>1 DEF ApartOf, TablePoints
    <3> QED
      BY <3>2, InputsAsked DEF AppOrg
  <2>2. PICK row : row = [id |-> r, org |-> AppOrg(r), slug |-> work[r].slug]
    OBVIOUS
  <2>3. Finish(r, 500) \/ Finish(r, 404) \/ Finish(r, 403) \/ GoWithRow(r, "app slug", row)
    BY <1>2, <2>2 DEF CreateApp
  <2>4. GoWithRow(r, "app slug", row)
    BY <2>3, <1>1, StatusCodes
  <2>5. local'[r].row = row
    BY <2>4, GoesWithRow
  <2>6. row.org = AppOrg(r)
    BY <2>2
  <2> QED
    BY <2>1, <2>5, <2>6
<1>3. CASE CheckAppSlug(r)
  <2>1. at[r] = "app slug" /\ (Finish(r, 409) \/ Go(r, "insert app"))
    BY <1>3 DEF CheckAppSlug
  <2>2. Go(r, "insert app")
    BY <2>1, <1>1, StatusCodes
  <2> QED
    BY <2>1, <2>2, Goes DEF ApartOf
<1> QED
  BY <1>2, <1>3

\* The organization, and the right to be at a table.
StaysApart(r) ==
    /\ at'[r] \notin {"arrived", "done"} /\ work[r].claim # Nil => local'[r].tenant = work[r].claim
    /\ at'[r] \in TablePoints => work[r].claim # Nil

LEMMA PathApart ==
    ASSUME ApartIInv, NEW r \in Requests, Path(r)
    PROVE  StaysApart(r)
<1> USE DEF TablePoints
<1>1. /\ ApartOf(r) /\ DOMAIN local[r] = MemFields /\ CacheOK /\ AccessOf(r)
      /\ Moved(r) /\ at[r] # "done"
  BY PathMoves, AccessOfAll DEF ApartIInv, RowsIInv, BaseOK, ShapeOK
<1>2. at[r] # "arrived" /\ work[r].claim # Nil => local[r].tenant = work[r].claim
  BY <1>1 DEF ApartOf
<1>3. ASSUME at'[r] = "done" PROVE StaysApart(r)
  BY <1>3 DEF StaysApart
<1>4. ASSUME NEW p, To(r, p), at[r] # "arrived", p \in TablePoints => at[r] \in TablePoints
      PROVE  StaysApart(r)
  BY <1>1, <1>2, <1>4 DEF To, KeepsMemory, ApartOf, StaysApart
<1>5. ASSUME Admits(r) PROVE StaysApart(r)
  <2>1. PICK slugOrg : local'[r] = [local[r] EXCEPT !.tenant = Tenant(r, slugOrg)]
    BY <1>5 DEF Admits
  <2>2. local'[r].tenant = Tenant(r, slugOrg)
    BY <2>1, <1>1 DEF MemFields
  <2>3. work[r].claim # Nil => Tenant(r, slugOrg) = work[r].claim
    BY <1>5 DEF Admits, HeaderRefusal, Tenant
  <2> QED
    BY <1>5, <2>2, <2>3 DEF Admits, StaysApart
<1>6. ASSUME Guards(r) \/ (\E e \in endpoints : Matched(r, e))
             \/ (\E p \in policies \cup {None} : Governed(r, p)),
             at[r] # "arrived"
      PROVE  StaysApart(r)
  <2>1. local'[r].tenant = local[r].tenant /\ at'[r] \in {"check", "policy", "limit"}
    BY <1>1, <1>6 DEF Guards, Matched, Governed, MemFields
  <2> QED
    BY <2>1, <1>2, <1>6 DEF StaysApart
<1>7. ASSUME NEW perms, Keeps(r, perms), at[r] # "arrived" PROVE StaysApart(r)
  BY <1>2, <1>7 DEF Keeps, KeepsAim, StaysApart
<1>8. ASSUME NEW perms, Passes(r, perms), at[r] # "arrived",
             perms \subseteq Granted(work[r].user, work[r].claim)
      PROVE  StaysApart(r)
  <2>1. PICK p \in Granted(work[r].user, work[r].claim) : TRUE
    BY <1>8 DEF Passes
  <2>2. \E g \in userRoles : g.org = work[r].claim
    BY <2>1 DEF Granted
  <2>3. work[r].claim # Nil
    BY <2>2 DEF ApartIInv, RolesOK
  <2> QED
    BY <1>2, <1>8, <2>3 DEF Passes, KeepsAim, StaysApart
<1>9. KeyOf(r) \in DOMAIN permCache =>
          permCache[KeyOf(r)] \subseteq Granted(work[r].user, work[r].claim)
  BY <1>1 DEF CacheOK, KeyOf, CacheKey
<1>10. at[r] = "fill cache" => local[r].perms \subseteq Granted(work[r].user, work[r].claim)
  BY <1>1 DEF AccessOf
<1>11. CASE at[r] = "arrived"
  BY <1>3, <1>5, <1>11 DEF Path, AtTables, GatewayPoints, To
<1>12. CASE AtTables(r)
  BY <1>4, <1>12 DEF AtTables
<1>13. CASE at[r] \in {"check", "check roles", "fill cache"}
  BY <1>3, <1>4, <1>7, <1>8, <1>9, <1>10, <1>13 DEF Path, AtTables, GatewayPoints, To
<1>14. CASE at[r] \in {"gateway", "policy", "route"}
  BY <1>3, <1>4, <1>6, <1>14 DEF Path, AtTables, GatewayPoints, To
<1>15. CASE at[r] \in GatewayPoints \cup {"llm limit", "llm window", "invalidate", "publish"}
  <2>1. \/ \E p \in GatewayPoints : To(r, p)
        \/ To(r, "llm window") \/ To(r, "publish") \/ at'[r] = "done"
    BY <1>15 DEF Path, AtTables, GatewayPoints, To
  <2>2. at[r] # "arrived"
    BY <1>15 DEF GatewayPoints
  <2>3. ASSUME NEW p \in GatewayPoints, To(r, p) PROVE StaysApart(r)
    <3>1. p \notin TablePoints
      BY <2>3 DEF GatewayPoints
    <3> QED
      BY <2>2, <2>3, <3>1, <1>4
  <2> QED
    BY <2>1, <2>2, <2>3, <1>3, <1>4
<1>16. CASE at[r] = "handler" /\ (To(r, "done") \/ To(r, "invalidate"))
  BY <1>4, <1>16
<1> QED
  BY <1>11, <1>12, <1>13, <1>14, <1>15, <1>16 DEF Path

LEMMA ServeApartOf ==
    ASSUME ApartIInv, NEW r \in Requests, Serve(r)
    PROVE  ApartOf(r)'
<1>1. BaseOK /\ ShapeOK /\ Path(r) /\ Moved(r) /\ ApartOf(r) /\ work' = work
  BY ServeBase DEF ApartIInv, RowsIInv, BaseOK, Moved
<1>2. at'[r] \in {"app slug", "insert app"} => local'[r].row.org = work[r].claim
  BY <1>1, TenantAims, EndpointAims, OtherPoints, AppRow DEF Serve, RowPoints, TablePoints
<1>3. at'[r] \in {"insert policy", "update policy"} => work[r].op = "UpdatePolicy"
  BY <1>1, TenantAims, EndpointAims, OtherPoints DEF Serve, RowPoints, TablePoints
<1> QED
  BY <1>1, <1>2, <1>3, PathApart DEF ApartOf, StaysApart

LEMMA ServeRoles ==
    ASSUME RolesOK, ShapeOK, NEW r \in Requests, Serve(r)
    PROVE  RolesOK'
<1>1. CASE AssignRole(r)
  <2>1. userRoles' \subseteq userRoles \cup {work[r].row} /\ work[r].op = "AssignRole"
    BY <1>1 DEF AssignRole, Handling
  <2>2. work[r].row.org # Nil
    BY <2>1, InputsAsked
  <2> QED
    BY <2>1, <2>2 DEF RolesOK
<1>2. CASE ~AssignRole(r)
  <2>1. userRoles' = userRoles
    <3>1. CASE RbacStep(r)
      BY <1>2, <3>1 DEF RbacStep, rbacVars, ReadPermissionCache, ReadRoles, FillPermissionCache,
                        InvalidatePermissions, ListUsers
    <3>2. CASE RouterStep(r)
      BY <3>2 DEF RouterStep, tables, rbacVars
    <3> QED
      BY <3>1, <3>2 DEF Serve, rbacVars
  <2> QED
    BY <2>1 DEF RolesOK
<1> QED
  BY <1>1, <1>2

\* A record that takes another's place has its columns, and the organization
\* that the body names, if it names one.
LEMMA RewrittenRows ==
    ASSUME RecordsOK, NEW r \in Requests, NEW d \in Target(r)
    PROVE  /\ d \in records /\ d.org = work[r].claim
           /\ DOMAIN Rewritten(r, d) = {"id", "org", "app", "data"}
           /\ Rewritten(r, d).org = IF "org" \in DOMAIN Respelled(r)
                                    THEN Respelled(r)["org"] ELSE work[r].claim
<1>1. d \in records /\ d.org = work[r].claim /\ DOMAIN d = {"id", "org", "app", "data"}
  BY DEF Target, Own, RecordsOK
<1>2. PICK e : e = [d EXCEPT !.data = local[r].row.data]
  OBVIOUS
<1>3. DOMAIN e = {"id", "org", "app", "data"} /\ e.org = work[r].claim
  BY <1>1, <1>2
<1>4. PICK change : change = Respelled(r)
  OBVIOUS
<1>5. Rewritten(r, d) = [f \in DOMAIN e |-> IF f \in DOMAIN change THEN change[f] ELSE e[f]]
  BY <1>2, <1>4 DEF Rewritten, Changed
<1> QED
  BY <1>1, <1>3, <1>4, <1>5

LEMMA ServeRecords ==
    ASSUME RecordsOK, NEW r \in Requests, Serve(r)
    PROVE  /\ RecordsOK'
           /\ \A d \in records \ records' : d.org = work[r].claim
           /\ records \subseteq records' =>
                  \A d \in records' \ records : d.org = work[r].claim
<1>1. CASE CreateRecord(r)
  <2>1. PICK d : d = [id |-> r, org |-> work[r].claim, app |-> work[r].app, data |-> local[r].row.data]
    OBVIOUS
  <2>2. DOMAIN d = {"id", "org", "app", "data"} /\ d.org = work[r].claim
    BY <2>1
  <2>3. records' = records \/ records' = records \cup {d}
    BY <1>1, <2>1 DEF CreateRecord
  <2> QED
    BY <2>2, <2>3 DEF RecordsOK
<1>2. CASE UpdateRecord(r)
  <2>1. \/ records' = records
        \/ records' = {IF d \in Target(r) THEN Rewritten(r, d) ELSE d : d \in records}
    BY <1>2 DEF UpdateRecord
  <2>2. CASE records' = records
    BY <2>2 DEF RecordsOK
  <2>3. CASE records' = {IF d \in Target(r) THEN Rewritten(r, d) ELSE d : d \in records}
    <3>1. \A d \in records' : d \in records \/ \E e \in Target(r) : d = Rewritten(r, e)
      BY <2>3
    <3>2. RecordsOK'
      BY <3>1, RewrittenRows DEF RecordsOK
    <3>3. \A d \in records \ records' : d \in Target(r)
      BY <2>3
    <3>4. \A d \in records \ records' : d.org = work[r].claim
      BY <3>3, RewrittenRows
    <3>5. ASSUME records \subseteq records', NEW d \in records' \ records
          PROVE  d.org = work[r].claim
      <4>1. PICK e \in Target(r) : d = Rewritten(r, e)
        BY <3>1
      <4>2. e \in records' /\ e.org = work[r].claim
        BY <3>5, RewrittenRows
      <4>3. PICK c \in Target(r) : e = Rewritten(r, c)
        BY <2>3, <4>2
      <4> QED
        BY <4>1, <4>2, <4>3, RewrittenRows
    <3> QED
      BY <3>2, <3>4, <3>5
  <2> QED
    BY <2>1, <2>2, <2>3
<1>3. CASE DeleteRecord(r)
  <2>1. records' = records \/ records' = records \ Target(r)
    BY <1>3 DEF DeleteRecord
  <2> QED
    BY <2>1 DEF RecordsOK, Target, Own
<1>4. CASE UNCHANGED records
  BY <1>4 DEF RecordsOK
<1>5. CreateRecord(r) \/ UpdateRecord(r) \/ DeleteRecord(r) \/ UNCHANGED records
  <2>1. CASE GatewayStep(r)
    BY <2>1 DEF GatewayStep, gatewayVars, Enforce, ApplyPolicy, Intercept, ProxyRequest,
                UnknownAction, CountRecords, ListRecords, GetRecord
  <2>2. CASE RouterStep(r)
    BY <2>2 DEF RouterStep, tables, gatewayVars
  <2> QED
    BY <2>1, <2>2 DEF Serve, gatewayVars
<1> QED
  BY <1>1, <1>2, <1>3, <1>4, <1>5

\* What is new in the tables of a tenant.
LEMMA NewRows ==
    ASSUME ApartIInv, NEW r \in Requests, Serve(r)
    PROVE  \A row \in (apps' \ apps) \cup (workspaces' \ workspaces) : row.org = work[r].claim
<1>1. ApartOf(r) /\ RowFits(r, at[r], local[r].row)
  BY DEF ApartIInv, RowsIInv, RowOf
<1>2. PICK new : new = local[r].row
  OBVIOUS
<1>3. CASE InsertApp(r) /\ UNCHANGED workspaces
  <2>1. at[r] = "insert app" /\ apps' \subseteq apps \cup {new}
    BY <1>2, <1>3 DEF InsertApp
  <2>2. new.org = work[r].claim
    BY <2>1, <1>1, <1>2 DEF ApartOf
  <2> QED
    BY <2>1, <2>2, <1>3
<1>4. CASE (InsertWorkspace(r) \/ StoreWorkspace(r)) /\ UNCHANGED apps
  <2>1. at[r] \in {"insert workspace", "update workspace"}
    BY <1>4 DEF InsertWorkspace, StoreWorkspace
  <2>2. \/ workspaces' \subseteq workspaces \cup {new}
        \/ workspaces' = {IF w.id = new.id THEN new ELSE w : w \in workspaces}
    BY <1>2, <1>4 DEF InsertWorkspace, StoreWorkspace
  <2>3. workspaces' \subseteq workspaces \cup {new}
    BY <2>2
  <2>4. new.org = work[r].claim
    BY <2>1, <1>1, <1>2 DEF RowFits
  <2> QED
    BY <2>3, <2>4, <1>4
<1>5. CASE UNCHANGED <<apps, workspaces>>
  BY <1>5
<1> QED
  BY <1>3, <1>4, <1>5, TableWrites DEF KeepsTables

\* What a list of workspaces, or the gateway, answers.
LEMMA OwnAnswers ==
    ASSUME ApartIInv, NEW r \in Requests, Serve(r), at'[r] = "done",
           work[r].op = "ListWorkspaces" \/ local[r].endpoint # None
    PROVE  \A row \in answer'[r].rows : row.org = work[r].claim
<1>1. /\ BaseOK /\ ShapeOK /\ Path(r) /\ ApartOf(r) /\ EndpointOf(r)
      /\ RowFits(r, at[r], local[r].row)
  BY ServeBase DEF ApartIInv, RowsIInv, BaseOK, RowOf
<1>2. ASSUME at[r] \in TablePoints PROVE work[r].op = "ListWorkspaces"
  BY <1>1, <1>2 DEF EndpointOf
<1>3. ASSUME NEW rows, Return(r, rows) PROVE answer'[r].rows = rows
  BY <1>1, <1>3, Returns
<1>4. ASSUME NEW s \in Statuses, Finish(r, s) PROVE answer'[r].rows = {}
  BY <1>1, <1>4, Finishes
<1>5. CASE StoreWorkspace(r)
  <2>1. at[r] = "update workspace" /\ (Finish(r, 500) \/ Return(r, {local[r].row}))
    BY <1>5 DEF StoreWorkspace
  <2>2. local[r].row.org = work[r].claim
    BY <2>1, <1>1 DEF RowFits
  <2> QED
    BY <2>1, <2>2, <1>3, <1>4, StatusCodes
<1>6. CASE InsertPolicy(r) \/ StorePolicy(r)
  BY <1>1, <1>2, <1>6 DEF InsertPolicy, StorePolicy, ApartOf, TablePoints
<1>7. CASE TenantRead(r)
  <2>1. at[r] \in {"handler", "page"}
    BY <1>7 DEF TenantRead, GetOrg, GetApp, CountRows, ListOrgs, ListApps, ListWorkspaces,
                ListAPIKeys, Handling
  <2>2. work[r].op = "ListWorkspaces"
    BY <2>1, <1>2 DEF TablePoints
  <2>3. ListWorkspaces(r)
    BY <2>2, <1>7 DEF TenantRead, GetOrg, GetApp, CountRows, ListOrgs, ListApps, ListAPIKeys,
                      Handling
  <2>4. Finish(r, 500) \/ Return(r, WorkspacesOf(work[r].claim))
    BY <2>3 DEF ListWorkspaces, ReadOr500
  <2> QED
    BY <2>4, <1>3, <1>4, StatusCodes DEF WorkspacesOf
<1>8. CASE EndpointRead(r)
  BY <1>2, <1>8 DEF EndpointRead, GetEndpoint, ListEndpoints, GetPolicy, Handling, TablePoints
<1>9. CASE ListRecords(r) \/ GetRecord(r)
  <2>1. Finish(r, 500) \/ Return(r, Own(r)) \/ Return(r, Target(r))
    BY <1>9 DEF ListRecords, GetRecord, ReadOr500
  <2> QED
    BY <2>1, <1>3, <1>4, StatusCodes DEF Own, Target
<1>10. answer'[r].rows = {} \/ Reads(r)
  BY <1>1 DEF Path, AtTables, GatewayPoints, TablePoints, To, Admits, Matched, Governed, Guards,
              Passes, Keeps
<1> QED
  BY <1>5, <1>6, <1>7, <1>8, <1>9, <1>10 DEF Reads

LEMMA InitApartIInv == PlatformInit => ApartIInv
<1> SUFFICES ASSUME PlatformInit PROVE ApartIInv
  OBVIOUS
<1>1. RolesOK /\ RecordsOK
  BY TablesAssumption DEF PlatformInit, RolesOK, RecordsOK
<1>2. ASSUME NEW r \in Requests PROVE ApartOf(r)
  BY DEF PlatformInit, RequestsInit, ApartOf, TablePoints
<1> QED
  BY <1>1, <1>2, InitRowsIInv, InitAccessIInv DEF ApartIInv

LEMMA NextApartIInv == ApartIInv /\ [PlatformNext]_vars => ApartIInv'
<1> SUFFICES ASSUME ApartIInv, PlatformNext \/ UNCHANGED vars PROVE ApartIInv'
  OBVIOUS
<1>1. RowsIInv' /\ AccessIInv' /\ BaseOK /\ ShapeOK /\ RolesOK /\ RecordsOK
  BY NextRowsIInv, NextAccessIInv DEF ApartIInv, RowsIInv, BaseOK
<1>2. CASE \E r \in Requests : Serve(r)
  <2>1. PICK r \in Requests : Serve(r)
    BY <1>2
  <2>2. RolesOK' /\ RecordsOK' /\ Moved(r)
    BY <1>1, <2>1, ServeRoles, ServeRecords, ServeBase
  <2>3. ASSUME NEW u \in Requests PROVE ApartOf(u)'
    <3>1. CASE u = r
      BY <2>1, <3>1, ServeApartOf
    <3>2. CASE u # r
      BY <2>2, <3>2 DEF Moved, ApartIInv, ApartOf
    <3> QED
      BY <3>1, <3>2
  <2> QED
    BY <1>1, <2>2, <2>3 DEF ApartIInv
<1>3. CASE ~\E r \in Requests : Serve(r)
  <2>1. UNCHANGED <<work, at, local, userRoles, records>>
    BY <1>3, Aside DEF requestVars, gatewayVars
  <2>2. RolesOK' /\ RecordsOK' /\ \A u \in Requests : ApartOf(u)'
    BY <1>1, <2>1 DEF ApartIInv, RolesOK, RecordsOK, ApartOf
  <2> QED
    BY <1>1, <2>2 DEF ApartIInv
<1> QED
  BY <1>2, <1>3

\* A request creates, changes and removes apps, workspaces and records of its
\* token's organization only, and lists no others' workspaces and records,
\* whatever the headers, the path and the body say (tenant.go:28,
\* create_app.go:29, update_workspace.go:39, dynamic_handler.go:233).  A record
\* that takes the place of one of the organization is where the body puts it.
THEOREM TenantsStayApart == PlatformSpec => TenantsAreKeptApart
<1>1. ApartIInv /\ [PlatformNext]_vars =>
        [\A r \in Requests : Touched(r) =>
          /\ \A row \in (apps' \ apps) \cup (workspaces' \ workspaces) \cup (records \ records') :
                 row.org = work[r].claim
          /\ records \subseteq records' =>
                 \A d \in records' \ records : d.org = work[r].claim
          /\ (answer'[r].status # 0 /\ (work[r].op = "ListWorkspaces" \/ local[r].endpoint # None)) =>
                 \A row \in answer'[r].rows : row.org = work[r].claim]_vars
  <2> SUFFICES ASSUME ApartIInv, PlatformNext, NEW r \in Requests, Touched(r)
               PROVE  /\ \A row \in (apps' \ apps) \cup (workspaces' \ workspaces)
                                    \cup (records \ records') : row.org = work[r].claim
                      /\ records \subseteq records' =>
                             \A d \in records' \ records : d.org = work[r].claim
                      /\ (answer'[r].status # 0
                          /\ (work[r].op = "ListWorkspaces" \/ local[r].endpoint # None)) =>
                             \A row \in answer'[r].rows : row.org = work[r].claim
    OBVIOUS
  <2>1. \E u \in Requests : Serve(u)
    BY Aside DEF Touched, requestVars
  <2>2. BaseOK /\ RecordsOK
    BY DEF ApartIInv, RowsIInv
  <2>3. Serve(r)
    BY <2>1, <2>2, ServeBase DEF Touched, Moved
  <2>4. answer'[r].status # 0 => at'[r] = "done"
    BY <2>2, <2>3, ServeBase DEF BaseOK, AnswersOK
  <2> QED
    BY <2>2, <2>3, <2>4, NewRows, ServeRecords, OwnAnswers
<1> QED
  BY <1>1, InitApartIInv, NextApartIInv, PTL DEF PlatformSpec, TenantsAreKeptApart
=============================================================================
