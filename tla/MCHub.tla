------------------------------- MODULE MCHub -------------------------------
(* Two connections for one place, in two applications of one organization:  *)
(* one of them is refused, or follows the other.  The liveness run has one   *)
(* application, so that a broadcast can meet both clients.                   *)
EXTENDS Hub, TLC

CONSTANTS c1, c2, a1, a2, o1

MCConns == {c1, c2}
MCApps == {a1, a2}
MCOrgs == {o1}
MCOrgOf == (a1 :> o1) @@ (a2 :> o1)
MCAppOf == (c1 :> a1) @@ (c2 :> a2)

MCOneApp == {a1}
MCOneOrgOf == a1 :> o1
MCSameApp == [c \in MCConns |-> a1]
=============================================================================
