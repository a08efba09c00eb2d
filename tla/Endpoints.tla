----------------------------- MODULE Endpoints ------------------------------
(***************************************************************************)
(* API management: the endpoints an app defines, their status and their    *)
(* policies.                                                               *)
(***************************************************************************)
EXTENDS Tenants

VARIABLES endpoints, policies

endpointVars == <<endpoints, policies>>

EndpointById(id) == {e \in endpoints : e.id = id}
EndpointByRoute(app, route) == {e \in endpoints : e.app = app /\ e.route = route}
EndpointsOf(app) == {e \in endpoints : e.app = app}

\* GetByEndpointID names no order: with two rows, any of them.
PoliciesOf(endpoint) == {p \in policies : p.endpoint = endpoint}

-----------------------------------------------------------------------------

\* DefineEndpointUseCase: a lookup that fails counts as no endpoint.
DefineEndpoint(r) ==
    /\ Handling(r, "DefineEndpoint") /\ work[r].valid
    /\ \E ok \in Outcomes(r) :
         IF ok /\ EndpointByRoute(work[r].id, work[r].route) # {} THEN Finish(r, 409)
         ELSE GoWithRow(r, "insert endpoint",
                         [id |-> r, app |-> work[r].id, route |-> work[r].route,
                          action |-> work[r].action, schema |-> work[r].schema,
                          pii |-> work[r].pii, status |-> "active"])
    /\ UNCHANGED endpointVars

\* The row refers to an app, and UNIQUE(app_id, method, path, version).
InsertEndpoint(r) ==
    /\ at[r] = "insert endpoint"
    /\ LET row == local[r].row
       IN  \E ok \in Outcomes(r) :
             IF ok /\ AppById(row.app) # {} /\ EndpointByRoute(row.app, row.route) = {}
             THEN endpoints' = endpoints \cup {row} /\ Written(r, 201)
             ELSE UNCHANGED endpoints /\ Finish(r, 500)
    /\ UNCHANGED policies

\* The row is read, and the status it has must differ from the new one.
ReadForStatus(r, status) ==
    /\ \E ok \in Outcomes(r) :
         IF ~ok THEN Finish(r, 500)
         ELSE IF EndpointById(work[r].id) = {} THEN Finish(r, 404)
         ELSE \E e \in EndpointById(work[r].id) :
                IF e.status = status THEN Finish(r, 400)
                ELSE GoWithRow(r, "update endpoint", [e EXCEPT !.status = status])
    /\ UNCHANGED endpointVars

\* RetireEndpointUseCase and ActivateEndpointUseCase.
RetireEndpoint(r) ==
    Handling(r, "RetireEndpoint") /\ work[r].valid /\ ReadForStatus(r, "retired")

ActivateEndpoint(r) ==
    Handling(r, "ActivateEndpoint") /\ work[r].valid /\ ReadForStatus(r, "active")

\* Update writes the whole row as it was read, with its new status.
StoreEndpoint(r) ==
    /\ at[r] = "update endpoint"
    /\ LET row == local[r].row
       IN  \E ok \in Outcomes(r) :
             IF ok
             THEN /\ endpoints' = {IF e.id = row.id THEN row ELSE e : e \in endpoints}
                  /\ Written(r, 204)
             ELSE UNCHANGED endpoints /\ Finish(r, 500)
    /\ UNCHANGED policies

-----------------------------------------------------------------------------

\* UpdatePolicyUseCase: a lookup that fails counts as no policy.
UpdatePolicy(r) ==
    /\ Handling(r, "UpdatePolicy") /\ work[r].valid
    /\ LET Asked(id) == [id |-> id, endpoint |-> work[r].id,
                         perm |-> work[r].perm, limit |-> work[r].limit]
       IN  \/ \E p \in PoliciesOf(work[r].id) :
                GoWithRow(r, "update policy", Asked(p.id))
           \/ /\ PoliciesOf(work[r].id) = {} \/ FALSE \in Outcomes(r)
              /\ GoWithRow(r, "insert policy", Asked(r))
    /\ UNCHANGED endpointVars

\* Nothing keeps an endpoint from having two policies.
InsertPolicy(r) ==
    /\ at[r] = "insert policy"
    /\ \E ok \in Outcomes(r) :
         IF ok /\ EndpointById(local[r].row.endpoint) # {}
         THEN policies' = policies \cup {local[r].row} /\ Return(r, {local[r].row})
         ELSE UNCHANGED policies /\ Finish(r, 500)
    /\ UNCHANGED endpoints

StorePolicy(r) ==
    /\ at[r] = "update policy"
    /\ LET row == local[r].row
       IN  \E ok \in Outcomes(r) :
             IF ok
             THEN /\ policies' = {IF p.id = row.id THEN row ELSE p : p \in policies}
                  /\ Return(r, {row})
             ELSE UNCHANGED policies /\ Finish(r, 500)
    /\ UNCHANGED endpoints

-----------------------------------------------------------------------------

GetEndpoint(r) ==
    Handling(r, "GetEndpoint") /\ work[r].valid /\ ReadOneOr404(r, EndpointById(work[r].id))
ListEndpoints(r) ==
    at[r] = "page" /\ work[r].op = "ListEndpoints" /\ ReadOr500(r, EndpointsOf(work[r].id))

\* With two policies, the one that is found is the answer.
GetPolicy(r) ==
    /\ Handling(r, "GetPolicy") /\ work[r].valid
    /\ IF PoliciesOf(work[r].id) = {} THEN ReadOneOr404(r, {})
       ELSE \E p \in PoliciesOf(work[r].id) : ReadOneOr404(r, {p})

EndpointRead(r) ==
    /\ GetEndpoint(r) \/ ListEndpoints(r) \/ GetPolicy(r)
    /\ UNCHANGED endpointVars

EndpointStep(r) ==
    \/ DefineEndpoint(r) \/ InsertEndpoint(r)
    \/ RetireEndpoint(r) \/ ActivateEndpoint(r) \/ StoreEndpoint(r)
    \/ UpdatePolicy(r) \/ InsertPolicy(r) \/ StorePolicy(r)
    \/ EndpointRead(r)
=============================================================================
