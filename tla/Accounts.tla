------------------------------ MODULE Accounts ------------------------------
(***************************************************************************)
(* Registration (auth.service.ts) and the deletion of a user               *)
(* (users.service.ts).  The rows a user leaves in the content tables (the  *)
(* author of an issue comment, the uploader of an attachment) are declared *)
(* ON DELETE RESTRICT: the transaction of DeleteUser then fails as a whole *)
(* and is no step.                                                         *)
(***************************************************************************)
EXTENDS AccessControl

\* Registration is open; the password hash is computed before the
\* transaction, which inserts the user and the credential rows.
Register(u) ==
    /\ u \notin users
    /\ users' = users \cup {u}
    /\ UNCHANGED <<usersSystemRoles, projectVars, teamVars, organizationVars>>

listOrganizationIdsForUser(u) ==
    {o \in Organizations : hasAnyOrganizationRole(o, u)}

listTeamIdsWithRole(u) == {t \in Teams : hasAnyTeamRole(t, u)}

listOwnedProjectIds(u) ==
    {p \in Projects : u \in listDirectProjectOwnerUserIds(p)}

preservesProjectOwners(u) ==
    \A p \in listOwnedProjectIds(u) :
        listDirectProjectOwnerUserIds(p) \ {u} # {}

\* The teams the user manages, directly or for the owning organization.
listManagedTeamIds(u) ==
    LET organizationTeams ==
            UNION {organizationsTeams[o] : o \in listOrganizationIdsForUser(u)}
    IN  {t \in listTeamIdsWithRole(u) \cup organizationTeams :
            \/ u \in listDirectTeamManagerUserIds(t)
            \/ u \in listOrganizationTeamManagerUserIdsForTeam(t)}

preservesTeamManagers(u) ==
    \A t \in listManagedTeamIds(u) :
        listEffectiveTeamManagerUserIds(t) \ {u} # {}

hasEffectiveProjectManagerViaTeam(u, t) ==
    \/ u \in listTeamProjectManagerUserIds(t)
    \/ \E p \in listProjectIdsForTeam(t) :
          u \in listOrganizationProjectManagerUserIdsForProject(p)

\* Teams of the user's organizations that are linked to a project of one of
\* the user's organizations.
listOrganizationProjectManagerTeamIds(u) ==
    LET organizationIds == listOrganizationIdsForUser(u)
        organizationProjectIds ==
            UNION {listProjectIdsForOrganization(o) : o \in organizationIds}
    IN  {t \in UNION {organizationsTeams[o] : o \in organizationIds} :
            listProjectIdsForTeam(t) \cap organizationProjectIds # {}}

listProjectManagerTeamIds(u) ==
    {t \in listTeamIdsWithRole(u)
             \cup listOrganizationProjectManagerTeamIds(u) :
        hasEffectiveProjectManagerViaTeam(u, t)}

\* Slip: only the projects on which the user holds a direct role.
projectsOfDirectRolesOnly(u) == {p \in Projects : hasAnyProjectRole(p, u)}

\* A project linked to an organization directly, and to none of its teams, is
\* not among the affected projects.
listAffectedProjectIds(u) ==
    {p \in Projects : hasAnyProjectRole(p, u)}
        \cup UNION {listProjectIdsForTeam(t) :
                    t \in listProjectManagerTeamIds(u)}

preservesProjectManagers(u) ==
    \A p \in listAffectedProjectIds(u) :
        listEffectiveProjectManagerUserIds(p) \ {u} # {}

\* Sessions and credentials, which the transaction deletes too, are modelled
\* in Sessions.
DeleteUser(actor, u) ==
    /\ u \in users
    /\ u = actor \/ hasSystemAdminRole(actor)
    /\ preservesProjectOwners(u)
    /\ preservesTeamManagers(u)
    /\ preservesProjectManagers(u)
    /\ users' = users \ {u}
    /\ usersSystemRoles' = usersSystemRoles \ {u}
    /\ projectsUsers' = [p \in Projects |-> projectsUsers[p] \ {u}]
    /\ usersProjectsProjectRoles' =
         [p \in Projects |->
            [r \in ProjectRole |-> usersProjectsProjectRoles[p][r] \ {u}]]
    /\ teamsUsers' = [t \in Teams |-> teamsUsers[t] \ {u}]
    /\ usersTeamsTeamRoles' =
         [t \in Teams |->
            [r \in TeamRole |-> usersTeamsTeamRoles[t][r] \ {u}]]
    /\ usersOrganizations' =
         [o \in Organizations |-> usersOrganizations[o] \ {u}]
    /\ usersOrganizationsOrganizationRoles' =
         [o \in Organizations |->
            [r \in OrganizationRole |->
                usersOrganizationsOrganizationRoles[o][r] \ {u}]]
    /\ UNCHANGED <<projects, projectsTeams, teams, organizations,
                   organizationsTeams, projectsOrganizations>>
=============================================================================
