-------------------------------- MODULE Rbac --------------------------------
(***************************************************************************)
(* Roles and permissions: what a user may do in an organization, read from *)
(* the database through a cache in Redis.  The router and the gateway both *)
(* come here with the permission they want.                                *)
(***************************************************************************)
EXTENDS Requests

CONSTANTS RolePerms    \* role_permissions: the permissions of each role

VARIABLES
    userRoles,   \* user_roles: who has which role in which organization
    permCache    \* Redis: the permissions kept for a user in an organization

rbacVars == <<userRoles, permCache>>

\* Mutant of CacheKey: one entry per user, whatever the organization.
CacheKeyOfUser(user, org) == <<user, Nil>>

CacheKey(user, org) == <<user, org>>

KeyOf(r) == CacheKey(work[r].user, work[r].claim)

\* matchesPermission: equal, everything, a resource with all its verbs, or
\* every read.
Matches(granted, required) ==
    \/ granted = required
    \/ granted = <<"*", "*">>
    \/ granted[2] = "*" /\ granted[1] = required[1]
    \/ granted = <<"*", "read">> /\ required[2] = "read"

\* RoleRepo.GetUserPermissions.
Granted(user, org) ==
    UNION {RolePerms[g.role] : g \in {g \in userRoles : g.user = user /\ g.org = org}}

\* HasPermission, and where a check ends: the route's handler, or the gateway.
Decide(r, mem) ==
    IF \E p \in mem.perms : Matches(p, mem.want)
    THEN GoWith(r, IF mem.endpoint = None THEN "handler" ELSE "limit", mem)
    ELSE Finish(r, 403)

\* GetUserPermissions asks Redis first, if there is one.
ReadPermissionCache(r) ==
    /\ at[r] = "check"
    /\ \E ok \in Outcomes(r) :
         IF redis /\ ok /\ KeyOf(r) \in DOMAIN permCache
         THEN Decide(r, [local[r] EXCEPT !.perms = permCache[KeyOf(r)]])
         ELSE Go(r, "check roles")
    /\ UNCHANGED rbacVars

\* Then the database; an error of it is an answer.
ReadRoles(r) ==
    /\ at[r] = "check roles"
    /\ \E ok \in Outcomes(r) :
         LET mem == [local[r] EXCEPT !.perms = Granted(work[r].user, work[r].claim)]
         IN  IF ~ok THEN Finish(r, 500)
             ELSE IF redis /\ mem.perms # {} THEN GoWith(r, "fill cache", mem)
             ELSE Decide(r, mem)
    /\ UNCHANGED rbacVars

\* What was found is cached, if it is not empty; failing to is no error.
FillPermissionCache(r) ==
    /\ at[r] = "fill cache"
    /\ \E ok \in Outcomes(r) :
         permCache' = IF ok THEN [k \in DOMAIN permCache \cup {KeyOf(r)} |->
                                    IF k = KeyOf(r) THEN local[r].perms ELSE permCache[k]]
                      ELSE permCache
    /\ Decide(r, local[r])
    /\ UNCHANGED userRoles

Forget(key) == [k \in DOMAIN permCache \ {key} |-> permCache[k]]

\* Mutant of ExpirePermissions: the cache is filled without a time to live.
NeverExpire(key) == FALSE /\ UNCHANGED <<rbacVars, requestVars>>

\* The time to live of a cached entry passes.
ExpirePermissions(key) ==
    /\ key \in DOMAIN permCache
    /\ permCache' = Forget(key)
    /\ UNCHANGED <<userRoles, requestVars>>

-----------------------------------------------------------------------------
(* Assigning a role.                                                       *)

\* AssignRoleToUser: a role the user has already is no error; the user, the
\* role and the organization it names are rows that exist.
AssignRole(r) ==
    /\ Handling(r, "AssignRole") /\ work[r].valid
    /\ \E ok \in Outcomes(r) :
         IF ok
         THEN /\ userRoles' = userRoles \cup {work[r].row}
              /\ Go(r, "invalidate")
         ELSE UNCHANGED userRoles /\ Finish(r, 500)
    /\ UNCHANGED permCache

\* InvalidateCache: its error is ignored.
InvalidatePermissions(r) ==
    /\ at[r] = "invalidate"
    /\ LET key == CacheKey(work[r].row.user, work[r].row.org)
       IN  \E ok \in Outcomes(r) : permCache' = IF redis /\ ok THEN Forget(key) ELSE permCache
    /\ GoWithRow(r, "publish", [status |-> 204])
    /\ UNCHANGED userRoles

\* Reading the users, whose table is the matter of another module.
ListUsers(r) ==
    /\ Handling(r, "ListUsers") /\ work[r].valid
    /\ \E ok \in Outcomes(r) : Finish(r, IF ok THEN 200 ELSE 500)
    /\ UNCHANGED rbacVars

RbacStep(r) ==
    \/ ReadPermissionCache(r) \/ ReadRoles(r) \/ FillPermissionCache(r)
    \/ AssignRole(r) \/ InvalidatePermissions(r)
    \/ ListUsers(r)
=============================================================================
