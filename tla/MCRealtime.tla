----------------------------- MODULE MCRealtime -----------------------------
(* A client of application a1 next to an application a2 of the same         *)
(* organization, and two requests: one whose event is for the organization  *)
(* and one for an endpoint, of either application.                          *)
EXTENDS Realtime, TLC

CONSTANTS r1, r2, c1, a1, a2, o1, tenant, api

MCRequests == {r1, r2}
MCTopics == {tenant, api}
MCTopicOf == (r1 :> tenant) @@ (r2 :> api)
MCHandlers == [t \in MCTopics |-> 2]
MCConns == {c1}
MCApps == {a1, a2}
MCOrgs == {o1}
MCOrgOf == [a \in MCApps |-> o1]
MCAppOf == c1 :> a1
MCScope == (r1 :> "org") @@ (r2 :> "lookup")
MCEventOrg == [r \in MCRequests |-> o1]
MCEventAppOther == [r \in MCRequests |-> a2]
MCEventAppSame == [r \in MCRequests |-> a1]
MCTopicChannel == (tenant :> "tenant") @@ (api :> "api")
=============================================================================
