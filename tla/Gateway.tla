------------------------------ MODULE Gateway -------------------------------
(***************************************************************************)
(* The gateway: requests that name an app are matched against the app's    *)
(* endpoints, checked against the endpoint's policy, rewritten by the      *)
(* interceptors and answered by a backend: a proxied service, or the       *)
(* generic handler with its table of records.                              *)
(***************************************************************************)
EXTENDS Endpoints, Rbac, RateLimits

VARIABLES records    \* the rows of the generic handler's table

gatewayVars == <<records>>

\* A request whose path is not skipped, and that names an app, is looked up.
\* A lookup that fails, for whatever reason, passes the request on.
Enforce(r) ==
    /\ at[r] = "gateway"
    /\ LET found == EndpointByRoute(work[r].app, work[r].route)
       IN  IF work[r].app = None THEN Go(r, "route")
           ELSE IF work[r].app = "bad" THEN Finish(r, 400)
           ELSE \E ok \in Outcomes(r) :
                  IF ~ok \/ found = {} THEN Go(r, "route")
                  ELSE \E e \in found :
                         IF e.status # "active" THEN Finish(r, 410)
                         ELSE GoWith(r, "policy", [local[r] EXCEPT !.endpoint = e])
    /\ UNCHANGED gatewayVars

\* Then its policy: one that cannot be read counts as none.
ApplyPolicy(r) ==
    /\ at[r] = "policy"
    /\ LET found == PoliciesOf(local[r].endpoint.id)
           Apply(p) == IF p # None /\ p.perm # None
                       THEN GoWith(r, "check", [local[r] EXCEPT !.policy = p, !.want = p.perm])
                       ELSE GoWith(r, "limit", [local[r] EXCEPT !.policy = p])
       IN  \/ \E p \in found : Apply(p)
           \/ (found = {} \/ FALSE \in Outcomes(r)) /\ Apply(None)
    /\ UNCHANGED gatewayVars

Writes(r) == work[r].route[1] \in {"POST", "PUT", "PATCH"} /\ work[r].body # "none"

\* SchemaValidator: a body that does not fit the endpoint's schema.
Unfit(r) == local[r].endpoint.schema /\ Writes(r) /\ work[r].body = "unfit"

\* PIIMasker: the body as the backend sees it.
Masked(r) ==
    IF local[r].endpoint.pii /\ Writes(r) /\ work[r].body = "pii" THEN "masked" ELSE work[r].body

\* The chain of request interceptors: validation first, then masking.
Intercept(r) ==
    /\ at[r] = "intercept"
    /\ IF Unfit(r) THEN Finish(r, 400)
       ELSE GoWithRow(r, "backend", [data |-> Masked(r)])
    /\ UNCHANGED gatewayVars

-----------------------------------------------------------------------------
(* The backends: ResolveHandler.                                           *)

Backend(r, action) == at[r] = "backend" /\ local[r].endpoint.action = action

\* handleHTTPProxy: the answer is the service's, or that there was none.
ProxyRequest(r) ==
    /\ Backend(r, "proxy")
    /\ Finish(r, 200) \/ Finish(r, 502)
    /\ UNCHANGED gatewayVars

\* Mutant of Own: the statements ask for the app only.
OwnOfApp(r) == {d \in records : d.app = work[r].app}

\* The rows the generic handler sees: those of the token's organization and
\* of the app named in the header.
Own(r) == {d \in records : d.org = work[r].claim /\ d.app = work[r].app}

\* The row whose id is in the path.
Target(r) == {d \in Own(r) : d.id = work[r].id}

\* handleList counts in one statement and reads the page in another.
CountRecords(r) ==
    /\ Backend(r, "list")
    /\ \E ok \in Outcomes(r) : IF ok THEN Go(r, "records") ELSE Finish(r, 500)
    /\ UNCHANGED gatewayVars

ListRecords(r) ==
    /\ at[r] = "records"
    /\ ReadOr500(r, Own(r))
    /\ UNCHANGED gatewayVars

\* handleGet: a record that is not there is an internal error.
GetRecord(r) ==
    /\ Backend(r, "get")
    /\ \E ok \in Outcomes(r) :
         IF ok /\ Target(r) # {} THEN Return(r, Target(r)) ELSE Finish(r, 500)
    /\ UNCHANGED gatewayVars

\* Id, organization and app, where the body names them in another spelling: the
\* handler knows the columns' names by one spelling, the database by any case.
Respelled(r) == IF work[r].change = None THEN <<>> ELSE work[r].change

\* handleCreate: id, organization and app are the handler's; a statement that
\* names one of them twice is refused.
CreateRecord(r) ==
    /\ Backend(r, "create")
    /\ \E ok \in Outcomes(r) :
         IF ok /\ DOMAIN Respelled(r) = {}
         THEN /\ records' = records \cup
                   {[id |-> r, org |-> work[r].claim, app |-> work[r].app,
                     data |-> local[r].row.data]}
              /\ Finish(r, 201)
         ELSE UNCHANGED records /\ Finish(r, 500)

\* The row as the body leaves it: a column that is named is written.
Rewritten(r, d) == Changed([d EXCEPT !.data = local[r].row.data], Respelled(r))

\* handleUpdate: the columns the body names, in one statement.  The table may
\* refuse another id, organization or app.
UpdateRecord(r) ==
    /\ Backend(r, "update")
    /\ \E ok \in Outcomes(r) \cup {DOMAIN Respelled(r) = {}} :
         IF ok /\ Target(r) # {}
         THEN /\ records' = {IF d \in Target(r) THEN Rewritten(r, d) ELSE d : d \in records}
              /\ Finish(r, 200)
         ELSE UNCHANGED records /\ Finish(r, 500)

\* handleDelete.
DeleteRecord(r) ==
    /\ Backend(r, "delete")
    /\ \E ok \in Outcomes(r) :
         IF ok /\ Target(r) # {}
         THEN records' = records \ Target(r) /\ Finish(r, 200)
         ELSE UNCHANGED records /\ Finish(r, 500)

\* handleGeneric knows no other action.
UnknownAction(r) ==
    /\ Backend(r, "odd")
    /\ Finish(r, 400)
    /\ UNCHANGED gatewayVars

GatewayStep(r) ==
    \/ Enforce(r) \/ ApplyPolicy(r) \/ Intercept(r)
    \/ ProxyRequest(r) \/ UnknownAction(r)
    \/ CountRecords(r) \/ ListRecords(r) \/ GetRecord(r)
    \/ CreateRecord(r) \/ UpdateRecord(r) \/ DeleteRecord(r)
=============================================================================
