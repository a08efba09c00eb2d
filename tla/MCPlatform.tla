----------------------------- MODULE MCPlatform -----------------------------
(* Two organizations, each with an app; three requests at a time, in the     *)
(* combinations below.                                                       *)
EXTENDS Platform, TLC

CONSTANTS r1, r2, r3, u1, u2, o1, o2, a1, a2, w1, w2, e1, e2, d1, k1, p1, p2

MCRequests == {r1, r2, r3}
MCUsers == {u1, u2}

\* u1 administers o1 and may only read in o2; u2 has no role yet.
MCRolePerms == [admin |-> {<<"*", "*">>}, reader |-> {<<"*", "read">>},
                orgs |-> {<<"org", "*">>}]
MCRoles0 == {[user |-> u1, org |-> o1, role |-> "admin"],
             [user |-> u1, org |-> o2, role |-> "reader"]}

MCOrgs0 == {[id |-> o1, slug |-> "one", active |-> TRUE],
            [id |-> o2, slug |-> "two", active |-> TRUE]}
MCApps0 == {[id |-> a1, org |-> o1, slug |-> "app"], [id |-> a2, org |-> o2, slug |-> "app"]}
MCWorkspaces0 == {[id |-> w1, org |-> o1, slug |-> "x", name |-> "n", status |-> "active"],
                  [id |-> w2, org |-> o2, slug |-> "x", name |-> "n", status |-> "active"]}
MCKeys0 == {[id |-> k1, app |-> a1, active |-> TRUE]}
Managed(id, app, path, action, more) ==
    [id |-> id, app |-> app, route |-> path, action |-> action, schema |-> more, pii |-> more,
     status |-> "active"]
MCEndpoints0 == {
    Managed(e1, a1, <<"GET", "/things">>, "list", FALSE),
    Managed(e2, a1, <<"POST", "/things">>, "create", TRUE),
    Managed("get", a1, <<"GET", "/thing/1">>, "get", FALSE),
    Managed("put", a1, <<"PUT", "/thing/1">>, "update", TRUE),
    Managed("del", a1, <<"DELETE", "/thing/1">>, "delete", FALSE),
    Managed("proxy", a1, <<"GET", "/proxy">>, "proxy", FALSE),
    Managed("odd", a1, <<"GET", "/odd">>, "odd", FALSE)}
MCPolicies0 == {[id |-> p1, endpoint |-> e1, perm |-> <<"things", "read">>, limit |-> 1],
                [id |-> p2, endpoint |-> e2, perm |-> None, limit |-> 2]}
MCRecords0 == {[id |-> d1, org |-> o1, app |-> a1, data |-> "plain"]}

-----------------------------------------------------------------------------
Base == [op |-> "Managed", user |-> u1, claim |-> o1, token |-> "user", header |-> None,
         host |-> None, url |-> o1, app |-> None, route |-> None, body |-> "none",
         valid |-> TRUE, faulty |-> FALSE, id |-> None, slug |-> None, name |-> None,
         change |-> None, row |-> None, perm |-> None, limit |-> 0, remote |-> "c",
         action |-> "list", schema |-> FALSE, pii |-> FALSE]
Ask(op) == [Base EXCEPT !.op = op]
On(op, id) == [Base EXCEPT !.op = op, !.id = id]
Faulty(q) == [q EXCEPT !.faulty = TRUE]
By(u, o, q) == [q EXCEPT !.user = u, !.claim = o]
Create(op, slug) == [Base EXCEPT !.op = op, !.slug = slug, !.name = "new"]
Change(id, change) == [Base EXCEPT !.op = "UpdateWorkspace", !.id = id, !.change = change]
Assign(u, o, role) == [Base EXCEPT !.op = "AssignRole", !.row = [user |-> u, org |-> o, role |-> role]]
Call(method, path) == [Base EXCEPT !.app = a1, !.route = <<method, path>>, !.id = d1]
Body(q, body) == [q EXCEPT !.body = body]
Columns(q, change) == [q EXCEPT !.change = change]
Policy(e, perm, limit) ==
    [Base EXCEPT !.op = "UpdatePolicy", !.id = e, !.perm = perm, !.limit = limit]
LLM(remote) == [Base EXCEPT !.op = "LLM", !.token = "blended", !.remote = remote]

Three(a, b, c) == (r1 :> a) @@ (r2 :> b) @@ (r3 :> c)

MCWorkloads == {
    \* a role is assigned while its user asks twice
    Three(Assign(u1, o2, "orgs"), By(u1, o2, Faulty(Ask("ListWorkspaces"))),
          By(u1, o2, Create("CreateWorkspace", "new"))),
    Three(Faulty(Assign(u2, o1, "reader")), By(u2, o1, Ask("GetOrg")), By(u2, o1, Create("CreateOrg", "y"))),
    \* one user, two organizations
    Three(Ask("ListUsers"), By(u1, o2, Create("CreateWorkspace", "y")), By(u1, o2, Ask("ListApps"))),
    \* one slug, wanted more than once
    Three(Create("CreateOrg", "new"), Faulty(Create("CreateOrg", "new")),
          [Create("CreateApp", "new") EXCEPT !.header = o1]),
    Three(Create("CreateApp", "new"), Faulty(Create("CreateApp", "new")),
          By(u1, Nil, [Create("CreateApp", "new") EXCEPT !.host = "one"])),
    Three(Create("CreateWorkspace", "new"), Faulty(Create("CreateWorkspace", "new")),
          Change(w1, [slug |-> "new"])),
    Three(Change(w1, [slug |-> "new", name |-> "m"]), Change(w1, [status |-> "archived"]),
          Change(w2, [name |-> "m"])),
    \* keys and reads
    Three(On("CreateAPIKey", a1), Faulty(On("RevokeAPIKey", k1)), On("ListAPIKeys", a1)),
    Three(On("GetApp", r2), Create("CreateApp", "z"), On("CreateAPIKey", r2)),
    \* endpoints, their status and policies, and a call of them
    Three([On("DefineEndpoint", a1) EXCEPT !.route = <<"GET", "/new">>],
          Faulty([On("DefineEndpoint", a1) EXCEPT !.route = <<"GET", "/new">>]),
          Call("GET", "/new")),
    Three(On("RetireEndpoint", e1), On("ActivateEndpoint", e1), Call("GET", "/things")),
    Three(Faulty(On("RetireEndpoint", e1)), On("RetireEndpoint", e1), On("ActivateEndpoint", e1)),
    Three(Policy("get", None, 1), Faulty(Policy("get", <<"things", "read">>, 0)),
          Call("GET", "/thing/1")),
    Three(Policy(e1, None, 2), Call("GET", "/things"), Faulty(Call("GET", "/things"))),
    Three(On("GetEndpoint", e1), Faulty(On("GetPolicy", e1)), On("ListEndpoints", a1)),
    Three(On("GetPolicy", "get"), Policy("get", None, 1), Policy("get", None, 2)),
    \* counted calls
    Three(Body(Call("POST", "/things"), "pii"), Body(Call("POST", "/things"), "plain"),
          Faulty(Call("POST", "/things"))),
    Three(LLM("c"), LLM("c"), Faulty(LLM("c"))),
    \* records of two organizations through one app
    Three(Body(Call("PUT", "/thing/1"), "pii"), By(u1, o2, Body(Call("PUT", "/thing/1"), "plain")),
          By(u1, o2, Call("GET", "/things"))),
    Three(Call("DELETE", "/thing/1"), Faulty(Call("GET", "/thing/1")),
          By(u1, o2, Call("DELETE", "/thing/1"))),
    Three(Columns(Body(Call("PUT", "/thing/1"), "plain"), [org |-> o2]),
          By(u1, o2, Call("DELETE", "/thing/1")), By(u1, o2, Call("GET", "/things"))),
    Three(Columns(Body(Call("PUT", "/thing/1"), "pii"), [id |-> "other", app |-> a2]),
          Columns(Body(Call("POST", "/things"), "plain"), [org |-> o2]), Call("GET", "/thing/1")),
    Three(By(u1, o2, Body(Call("POST", "/things"), "unfit")), Call("GET", "/proxy"),
          Call("GET", "/odd")),
    \* what is turned away
    Three([Ask("ListOrgs") EXCEPT !.token = "none"], [Ask("ListOrgs") EXCEPT !.token = "device"],
          [Call("GET", "/nothing") EXCEPT !.app = "bad"]),
    Three([Ask("ListOrgs") EXCEPT !.header = "bad"], [Ask("ListOrgs") EXCEPT !.header = o2],
          [Ask("ListOrgs") EXCEPT !.valid = FALSE]),
    Three([Ask("Trip") EXCEPT !.token = "blended"], Ask("Trip"), Ask("LLM"))}
=============================================================================
