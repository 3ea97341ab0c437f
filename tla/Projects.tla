------------------------------ MODULE Projects ------------------------------
(***************************************************************************)
(* The handlers of projects.service.ts that change the membership, the     *)
(* roles and the links of a project.  better-sqlite3 is synchronous and    *)
(* none of these handlers awaits between its first check and the end of    *)
(* its transaction, so each is one action of the acting user.  A handler   *)
(* that throws rolls back and is no step.                                  *)
(***************************************************************************)
EXTENDS AccessControl

canOwnProject(actor, p) == actor \in listDirectProjectOwnerUserIds(p)

canSelfGrantProjectRole(actor, u) == hasSystemAdminRole(actor) /\ u = actor

(***************************************************************************)
(* createProject: the record, the creator's membership and both of the     *)
(* creator's roles in one transaction.  The chart and journal files that   *)
(* follow are awaited and not part of this module; when writing them fails *)
(* the record is deleted again, whatever it holds by then, as an owner's   *)
(* DeleteProject would: EveryProjectHasOwner says that there is an owner.  *)
(***************************************************************************)
CreateProject(actor, p) ==
    /\ p \notin projects
    /\ projects' = projects \cup {p}
    /\ projectsUsers' = [projectsUsers EXCEPT ![p] = @ \cup {actor}]
    /\ usersProjectsProjectRoles' =
         [usersProjectsProjectRoles EXCEPT
            ![p] = [r \in ProjectRole |-> @[r] \cup {actor}]]
    /\ UNCHANGED <<projectsTeams, userVars, teamVars, organizationVars>>

\* A new set of members with a new set of roles for each.
retainsOwnerAfterMembershipReplace(roles) == roles["OWNER"] # {}

retainsManagerAfterMembershipReplace(p, roles) ==
    roles["PM"] \cup (listEffectiveProjectManagerUserIds(p)
                        \ listDirectProjectManagerUserIds(p)) # {}

ReplaceProjectMembers(actor, p, members, roles) ==
    /\ p \in projects
    /\ canOwnProject(actor, p)
    /\ members \subseteq users
    /\ retainsOwnerAfterMembershipReplace(roles)
    /\ retainsManagerAfterMembershipReplace(p, roles)
    /\ projectsUsers' = [projectsUsers EXCEPT ![p] = members]
    /\ usersProjectsProjectRoles' =
         [usersProjectsProjectRoles EXCEPT ![p] = roles]
    /\ UNCHANGED <<projects, projectsTeams, userVars, teamVars,
                   organizationVars>>

\* Granting a role makes the user a direct member.
ensureDirectProjectMembershipForRoleGrant(p, u) ==
    projectsUsers' = [projectsUsers EXCEPT ![p] = @ \cup {u}]

GrantProjectRole(actor, p, u, role) ==
    /\ p \in projects
    /\ u \in users
    /\ canSelfGrantProjectRole(actor, u) \/ canOwnProject(actor, p)
    /\ u \notin usersProjectsProjectRoles[p][role]
    /\ ensureDirectProjectMembershipForRoleGrant(p, u)
    /\ usersProjectsProjectRoles' =
         [usersProjectsProjectRoles EXCEPT ![p][role] = @ \cup {u}]
    /\ UNCHANGED <<projects, projectsTeams, userVars, teamVars,
                   organizationVars>>

\* Slip: the owner whose role is revoked is counted among the remaining ones.
ownerRevocationCountsRevokedUser(p, u, role) ==
    role = "OWNER" => listDirectProjectOwnerUserIds(p) # {}

retainsOwnerAfterRoleRevocation(p, u, role) ==
    role = "OWNER" => listDirectProjectOwnerUserIds(p) \ {u} # {}

\* Slip: the manager whose role is revoked is counted among the remaining ones.
managerRevocationCountsRevokedUser(p, u, role) ==
    role = "PM" => listEffectiveProjectManagerUserIds(p) # {}

\* The revoked user still counts when a team or an organization also makes
\* them a manager.
retainsManagerAfterRoleRevocation(p, u, role) ==
    role = "PM" =>
        (listDirectProjectManagerUserIds(p) \ {u})
            \cup listIndirectProjectManagerUserIds(p)
            \cup listOrganizationProjectManagerUserIdsForProject(p) # {}

RevokeProjectRole(actor, p, u, role) ==
    /\ p \in projects
    /\ u \in users
    /\ canSelfGrantProjectRole(actor, u) \/ canOwnProject(actor, p)
    /\ u \in usersProjectsProjectRoles[p][role]
    /\ retainsOwnerAfterRoleRevocation(p, u, role)
    /\ retainsManagerAfterRoleRevocation(p, u, role)
    /\ usersProjectsProjectRoles' =
         [usersProjectsProjectRoles EXCEPT ![p][role] = @ \ {u}]
    /\ UNCHANGED <<projects, projectsUsers, projectsTeams, userVars, teamVars,
                   organizationVars>>

(***************************************************************************)
(* deleteProject: deleteProjectRecordRows removes the roles, the members   *)
(* and the links of the project in both directions.                        *)
(***************************************************************************)
DeleteProject(actor, p) ==
    /\ p \in projects
    /\ canOwnProject(actor, p)
    /\ projects' = projects \ {p}
    /\ projectsUsers' = [projectsUsers EXCEPT ![p] = {}]
    /\ usersProjectsProjectRoles' =
         [usersProjectsProjectRoles EXCEPT ![p] = [r \in ProjectRole |-> {}]]
    /\ projectsTeams' = [projectsTeams EXCEPT ![p] = {}]
    /\ projectsOrganizations' =
         [o \in Organizations |-> projectsOrganizations[o] \ {p}]
    /\ UNCHANGED <<userVars, teamVars, organizations, usersOrganizations,
                   usersOrganizationsOrganizationRoles, organizationsTeams>>

AssociateProjectTeam(actor, p, t) ==
    /\ p \in projects
    /\ t \in teams
    /\ canOwnProject(actor, p)
    /\ t \notin projectsTeams[p]
    /\ projectsTeams' = [projectsTeams EXCEPT ![p] = @ \cup {t}]
    /\ UNCHANGED <<projects, projectsUsers, usersProjectsProjectRoles,
                   userVars, teamVars, organizationVars>>

canManageOrganizationAssociation(actor, o) ==
    hasSystemAdminRole(actor) \/ hasOrganizationManagerRole(o, actor)

\* Slip: the two ids change places in the inserted row.
AssociateWithSwappedIds(actor, p, o) ==
    /\ p \in projects
    /\ o \in organizations
    /\ canOwnProject(actor, p)
    /\ canManageOrganizationAssociation(actor, o)
    /\ p \notin projectsOrganizations[o]
    /\ projectsOrganizations' = [projectsOrganizations EXCEPT ![o] = @ \cup {o}]
    /\ UNCHANGED <<projectVars, userVars, teamVars, organizations,
                   usersOrganizations, usersOrganizationsOrganizationRoles,
                   organizationsTeams>>

AssociateProjectOrganization(actor, p, o) ==
    /\ p \in projects
    /\ o \in organizations
    /\ canOwnProject(actor, p)
    /\ canManageOrganizationAssociation(actor, o)
    /\ p \notin projectsOrganizations[o]
    /\ projectsOrganizations' = [projectsOrganizations EXCEPT ![o] = @ \cup {p}]
    /\ UNCHANGED <<projectVars, userVars, teamVars, organizations,
                   usersOrganizations, usersOrganizationsOrganizationRoles,
                   organizationsTeams>>

\* Every request the project routes accept from one user.
ProjectHandlers(actor) ==
    \E p \in Projects :
        \/ CreateProject(actor, p)
        \/ \E members \in SUBSET users :
              \E roles \in [ProjectRole -> SUBSET members] :
                  ReplaceProjectMembers(actor, p, members, roles)
        \/ \E u \in users, role \in ProjectRole :
              \/ GrantProjectRole(actor, p, u, role)
              \/ RevokeProjectRole(actor, p, u, role)
        \/ DeleteProject(actor, p)
        \/ \E t \in Teams : AssociateProjectTeam(actor, p, t)
        \/ \E o \in Organizations : AssociateProjectOrganization(actor, p, o)
=============================================================================
