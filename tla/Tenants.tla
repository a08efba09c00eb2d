------------------------------ MODULE Tenants -------------------------------
(***************************************************************************)
(* Organizations, their apps and workspaces, and the apps' keys: the       *)
(* tables, and the use cases that check first and write in a second        *)
(* statement, with no transaction around the two.                          *)
(***************************************************************************)
EXTENDS Requests

VARIABLES orgs, apps, workspaces, keys

tenantVars == <<orgs, apps, workspaces, keys>>

-----------------------------------------------------------------------------
(* The repositories: what a statement finds.                               *)

OrgById(id) == {o \in orgs : o.id = id}
OrgBySlug(slug) == {o \in orgs : o.slug = slug}
AppById(id) == {a \in apps : a.id = id}
AppBySlug(org, slug) == {a \in apps : a.org = org /\ a.slug = slug}
AppsOf(org) == {a \in apps : a.org = org}
WorkspaceById(id) == {w \in workspaces : w.id = id}
WorkspaceBySlug(org, slug) == {w \in workspaces : w.org = org /\ w.slug = slug}
WorkspacesOf(org) == {w \in workspaces : w.org = org}
KeysOf(app) == {k \in keys : k.app = app}

\* UNIQUE(slug) and twice UNIQUE(organization_id, slug): the row's slug is
\* free or its own.
OrgSlugFree(row) == OrgBySlug(row.slug) = {}
AppSlugFree(row) == AppBySlug(row.org, row.slug) = {}

\* Mutant of WorkspaceSlugFree: the table has no such constraint.
WorkspaceSlugUnconstrained(row) == TRUE

WorkspaceSlugFree(row) == \A w \in WorkspaceBySlug(row.org, row.slug) : w.id = row.id

\* A row was written: what is left is the event and the answer.
Written(r, status) == GoWithRow(r, "publish", [status |-> status])

-----------------------------------------------------------------------------
(* Creating.                                                               *)

\* CreateOrgUseCase: a lookup that fails counts as a free slug.
CreateOrg(r) ==
    /\ Handling(r, "CreateOrg") /\ work[r].valid
    /\ \E ok \in Outcomes(r) :
         IF ok /\ OrgBySlug(work[r].slug) # {} THEN Finish(r, 409)
         ELSE GoWithRow(r, "insert org", [id |-> r, slug |-> work[r].slug, active |-> TRUE])
    /\ UNCHANGED tenantVars

InsertOrg(r) ==
    /\ at[r] = "insert org"
    /\ \E ok \in Outcomes(r) :
         IF ok /\ OrgSlugFree(local[r].row)
         THEN orgs' = orgs \cup {local[r].row} /\ Written(r, 201)
         ELSE UNCHANGED orgs /\ Finish(r, 500)
    /\ UNCHANGED <<apps, workspaces, keys>>

\* The organization of a new app: the resolved tenant, else the URL's.
AppOrg(r) == IF local[r].tenant # None THEN local[r].tenant ELSE work[r].url

\* CreateAppUseCase: the organization must exist and be active.
CreateApp(r) ==
    /\ Handling(r, "CreateApp") /\ work[r].valid
    /\ \E ok \in Outcomes(r) :
         IF ~ok THEN Finish(r, 500)
         ELSE IF OrgById(AppOrg(r)) = {} THEN Finish(r, 404)
         ELSE IF \E o \in OrgById(AppOrg(r)) : ~o.active THEN Finish(r, 403)
         ELSE GoWithRow(r, "app slug", [id |-> r, org |-> AppOrg(r), slug |-> work[r].slug])
    /\ UNCHANGED tenantVars

\* Then the slug is looked up in it.
CheckAppSlug(r) ==
    /\ at[r] = "app slug"
    /\ \E ok \in Outcomes(r) :
         IF ok /\ AppBySlug(local[r].row.org, local[r].row.slug) # {}
         THEN Finish(r, 409) ELSE Go(r, "insert app")
    /\ UNCHANGED tenantVars

InsertApp(r) ==
    /\ at[r] = "insert app"
    /\ \E ok \in Outcomes(r) :
         IF ok /\ AppSlugFree(local[r].row)
         THEN apps' = apps \cup {local[r].row} /\ Written(r, 201)
         ELSE UNCHANGED apps /\ Finish(r, 500)
    /\ UNCHANGED <<orgs, workspaces, keys>>

\* CreateWorkspaceUseCase: in the organization of the token, and in no other.
CreateWorkspace(r) ==
    /\ Handling(r, "CreateWorkspace") /\ work[r].valid
    /\ \E ok \in Outcomes(r) :
         IF ~ok \/ OrgById(work[r].claim) = {} THEN Finish(r, 404)
         ELSE IF \E o \in OrgById(work[r].claim) : ~o.active THEN Finish(r, 403)
         ELSE GoWithRow(r, "workspace slug",
                         [id |-> r, org |-> work[r].claim, slug |-> work[r].slug,
                          name |-> work[r].name, status |-> "active"])
    /\ UNCHANGED tenantVars

InsertWorkspace(r) ==
    /\ at[r] = "insert workspace"
    /\ \E ok \in Outcomes(r) :
         IF ok /\ WorkspaceSlugFree(local[r].row)
         THEN workspaces' = workspaces \cup {local[r].row} /\ Written(r, 201)
         ELSE UNCHANGED workspaces /\ Finish(r, 500)
    /\ UNCHANGED <<orgs, apps, keys>>

-----------------------------------------------------------------------------
(* Changing a workspace.                                                   *)

\* The row with the fields that were given.
Changed(row, change) == [f \in DOMAIN row |-> IF f \in DOMAIN change THEN change[f] ELSE row[f]]

\* Mutant of UpdateWorkspace: the row's organization is not looked at.
UpdateAnyWorkspace(r) ==
    /\ Handling(r, "UpdateWorkspace") /\ work[r].valid
    /\ \E ok \in Outcomes(r) :
         IF ~ok THEN Finish(r, 500)
         ELSE IF WorkspaceById(work[r].id) = {} THEN Finish(r, 404)
         ELSE \E w \in WorkspaceById(work[r].id) :
                GoWithRow(r, "workspace slug", Changed(w, work[r].change))
    /\ UNCHANGED tenantVars

\* UpdateWorkspaceUseCase reads the row and changes the fields it was given.
UpdateWorkspace(r) ==
    /\ Handling(r, "UpdateWorkspace") /\ work[r].valid
    /\ \E ok \in Outcomes(r) :
         IF ~ok THEN Finish(r, 500)
         ELSE IF WorkspaceById(work[r].id) = {} THEN Finish(r, 404)
         ELSE \E w \in WorkspaceById(work[r].id) :
                IF w.org # work[r].claim THEN Finish(r, 403)
                ELSE GoWithRow(r, IF "slug" \in DOMAIN work[r].change
                                  THEN "workspace slug" ELSE "update workspace",
                               Changed(w, work[r].change))
    /\ UNCHANGED tenantVars

\* A new slug must be free or the row's own: creating and changing look it up
\* in the same way.
CheckWorkspaceSlug(r) ==
    /\ at[r] = "workspace slug"
    /\ LET row == local[r].row
       IN  \E ok \in Outcomes(r) :
             IF ok /\ \E w \in WorkspaceBySlug(work[r].claim, row.slug) : w.id # row.id
             THEN Finish(r, 409)
             ELSE Go(r, IF work[r].op = "CreateWorkspace"
                        THEN "insert workspace" ELSE "update workspace")
    /\ UNCHANGED tenantVars

\* Update writes the whole row it was given, and so back what it did not mean
\* to change.
StoreWorkspace(r) ==
    /\ at[r] = "update workspace"
    /\ LET row == local[r].row
       IN  \E ok \in Outcomes(r) :
             IF ok /\ WorkspaceSlugFree(row)
             THEN /\ workspaces' = {IF w.id = row.id THEN row ELSE w : w \in workspaces}
                  /\ Return(r, {row})
             ELSE UNCHANGED workspaces /\ Finish(r, 500)
    /\ UNCHANGED <<orgs, apps, keys>>

-----------------------------------------------------------------------------
(* Keys.                                                                   *)

\* Mutant of CreateAPIKey: the table has no foreign key.
CreateAPIKeyUnchecked(r) ==
    /\ Handling(r, "CreateAPIKey") /\ work[r].valid
    /\ keys' = keys \cup {[id |-> r, app |-> work[r].id, active |-> TRUE]}
    /\ Finish(r, 201)
    /\ UNCHANGED <<orgs, apps, workspaces>>

\* CreateKey: the foreign key is all that asks for the app.
CreateAPIKey(r) ==
    /\ Handling(r, "CreateAPIKey") /\ work[r].valid
    /\ \E ok \in Outcomes(r) :
         IF ok /\ AppById(work[r].id) # {}
         THEN /\ keys' = keys \cup {[id |-> r, app |-> work[r].id, active |-> TRUE]}
              /\ Finish(r, 201)
         ELSE UNCHANGED keys /\ Finish(r, 500)
    /\ UNCHANGED <<orgs, apps, workspaces>>

\* RevokeKey: revoking what does not exist, or again, is no error.
RevokeAPIKey(r) ==
    /\ Handling(r, "RevokeAPIKey") /\ work[r].valid
    /\ \E ok \in Outcomes(r) :
         IF ok
         THEN /\ keys' = {IF k.id = work[r].id THEN [k EXCEPT !.active = FALSE] ELSE k : k \in keys}
              /\ Finish(r, 204)
         ELSE UNCHANGED keys /\ Finish(r, 500)
    /\ UNCHANGED <<orgs, apps, workspaces>>

-----------------------------------------------------------------------------
(* Reading.                                                                *)

ReadOr500(r, rows) == \E ok \in Outcomes(r) : IF ok THEN Return(r, rows) ELSE Finish(r, 500)

\* A row of which there is at most one.
ReadOneOr404(r, rows) ==
    \E ok \in Outcomes(r) :
        IF ~ok THEN Finish(r, 500)
        ELSE IF rows = {} THEN Finish(r, 404) ELSE Return(r, rows)

GetOrg(r) == Handling(r, "GetOrg") /\ work[r].valid /\ ReadOneOr404(r, OrgById(work[r].url))
GetApp(r) == Handling(r, "GetApp") /\ work[r].valid /\ ReadOneOr404(r, AppById(work[r].id))

\* The paginated lists count in one statement and read the page in another.
CountRows(r) ==
    /\ at[r] = "handler" /\ work[r].valid
    /\ work[r].op \in {"ListOrgs", "ListApps", "ListEndpoints"}
    /\ \E ok \in Outcomes(r) : IF ok THEN Go(r, "page") ELSE Finish(r, 500)

ListOrgs(r) == at[r] = "page" /\ work[r].op = "ListOrgs" /\ ReadOr500(r, orgs)
ListApps(r) == at[r] = "page" /\ work[r].op = "ListApps" /\ ReadOr500(r, AppsOf(work[r].url))
ListWorkspaces(r) ==
    Handling(r, "ListWorkspaces") /\ work[r].valid /\ ReadOr500(r, WorkspacesOf(work[r].claim))
ListAPIKeys(r) ==
    Handling(r, "ListAPIKeys") /\ work[r].valid /\ ReadOr500(r, KeysOf(work[r].id))

TenantRead(r) ==
    /\ \/ GetOrg(r) \/ GetApp(r) \/ CountRows(r) \/ ListOrgs(r) \/ ListApps(r)
       \/ ListWorkspaces(r) \/ ListAPIKeys(r)
    /\ UNCHANGED tenantVars

TenantStep(r) ==
    \/ CreateOrg(r) \/ InsertOrg(r)
    \/ CreateApp(r) \/ CheckAppSlug(r) \/ InsertApp(r)
    \/ CreateWorkspace(r) \/ InsertWorkspace(r)
    \/ UpdateWorkspace(r) \/ CheckWorkspaceSlug(r) \/ StoreWorkspace(r)
    \/ CreateAPIKey(r) \/ RevokeAPIKey(r)
    \/ TenantRead(r)
=============================================================================
