--------------------------- MODULE Organizations ---------------------------
(***************************************************************************)
(* The handlers of organizations.service.ts that change the members, the   *)
(* roles, the teams and the projects of an organization.  Each runs its    *)
(* checks and its transaction without an await and is one action.          *)
(***************************************************************************)
EXTENDS AccessControl

canManageOrganization(actor, o) ==
    hasSystemAdminRole(actor) \/ hasOrganizationManagerRole(o, actor)

canAdminSelfGrantOrganizationManager(actor, u, role) ==
    hasSystemAdminRole(actor) /\ role = "OM" /\ u = actor

CreateOrganization(actor, o) ==
    /\ o \notin organizations
    /\ organizations' = organizations \cup {o}
    /\ usersOrganizations' = [usersOrganizations EXCEPT ![o] = @ \cup {actor}]
    /\ usersOrganizationsOrganizationRoles' =
         [usersOrganizationsOrganizationRoles EXCEPT
            ![o]["OM"] = @ \cup {actor}]
    /\ UNCHANGED <<userVars, projectVars, teamVars, organizationsTeams,
                   projectsOrganizations>>

\* Slip: that a member stays is taken for a manager who stays.
memberStaysAfterUserReplace(o, members) ==
    usersOrganizations[o] \cap members # {}

retainsManagerAfterUserReplace(o, members) ==
    usersOrganizationsOrganizationRoles[o]["OM"] \cap members # {}

\* Users who stay keep their roles, users who go lose them.  Nothing is
\* checked of the projects and teams the lost roles covered.
ReplaceOrganizationUsers(actor, o, members) ==
    /\ o \in organizations
    /\ canManageOrganization(actor, o)
    /\ members \subseteq users
    /\ retainsManagerAfterUserReplace(o, members)
    /\ usersOrganizations' = [usersOrganizations EXCEPT ![o] = members]
    /\ usersOrganizationsOrganizationRoles' =
         [usersOrganizationsOrganizationRoles EXCEPT
            ![o] = [r \in OrganizationRole |-> @[r] \cap members]]
    /\ UNCHANGED <<userVars, projectVars, teamVars, organizations,
                   organizationsTeams, projectsOrganizations>>

\* The payload names at least one project.
ReplaceOrganizationProjects(actor, o, linked) ==
    /\ o \in organizations
    /\ canManageOrganization(actor, o)
    /\ linked \subseteq projects /\ linked # {}
    /\ projectsOrganizations' = [projectsOrganizations EXCEPT ![o] = linked]
    /\ UNCHANGED <<userVars, projectVars, teamVars, organizations,
                   usersOrganizations, usersOrganizationsOrganizationRoles,
                   organizationsTeams>>

AssignTeam(actor, o, t) ==
    /\ o \in organizations
    /\ t \in teams
    /\ canManageOrganization(actor, o)
    /\ getOrganizationIdForTeam(t) = {}
    /\ organizationsTeams' = [organizationsTeams EXCEPT ![o] = @ \cup {t}]
    /\ UNCHANGED <<userVars, projectVars, teamVars, organizations,
                   usersOrganizations, usersOrganizationsOrganizationRoles,
                   projectsOrganizations>>

UnassignTeam(actor, o, t) ==
    /\ o \in organizations
    /\ t \in teams
    /\ canManageOrganization(actor, o)
    /\ t \in organizationsTeams[o]
    /\ listDirectTeamManagerUserIds(t) # {}
    /\ organizationsTeams' = [organizationsTeams EXCEPT ![o] = @ \ {t}]
    /\ UNCHANGED <<userVars, projectVars, teamVars, organizations,
                   usersOrganizations, usersOrganizationsOrganizationRoles,
                   projectsOrganizations>>

canGrantOrganizationRole(actor, o, u, role) ==
    \/ canAdminSelfGrantOrganizationManager(actor, u, role)
    \/ canManageOrganization(actor, o)

canTargetOrganizationRole(actor, o, u, role) ==
    \/ role # "OM"
    \/ hasOrganizationMembership(o, u)
    \/ hasSystemAdminRole(actor) /\ u = actor

ensureMembershipForAdminSelfGrant(actor, o, u, role) ==
    usersOrganizations' =
        IF canAdminSelfGrantOrganizationManager(actor, u, role)
        THEN [usersOrganizations EXCEPT ![o] = @ \cup {u}]
        ELSE usersOrganizations

GrantOrganizationRole(actor, o, u, role) ==
    /\ o \in organizations
    /\ u \in users
    /\ canGrantOrganizationRole(actor, o, u, role)
    /\ canTargetOrganizationRole(actor, o, u, role)
    /\ u \notin usersOrganizationsOrganizationRoles[o][role]
    /\ ensureMembershipForAdminSelfGrant(actor, o, u, role)
    /\ usersOrganizationsOrganizationRoles' =
         [usersOrganizationsOrganizationRoles EXCEPT ![o][role] = @ \cup {u}]
    /\ UNCHANGED <<userVars, projectVars, teamVars, organizations,
                   organizationsTeams, projectsOrganizations>>

retainsManagerAfterOrganizationRoleRevoke(o, u, role) ==
    role = "OM" => usersOrganizationsOrganizationRoles[o]["OM"] \ {u} # {}

RevokeOrganizationRole(actor, o, u, role) ==
    /\ o \in organizations
    /\ u \in users
    /\ canGrantOrganizationRole(actor, o, u, role)
    /\ u \in usersOrganizationsOrganizationRoles[o][role]
    /\ retainsManagerAfterOrganizationRoleRevoke(o, u, role)
    /\ usersOrganizationsOrganizationRoles' =
         [usersOrganizationsOrganizationRoles EXCEPT ![o][role] = @ \ {u}]
    /\ UNCHANGED <<userVars, projectVars, teamVars, organizations,
                   usersOrganizations, organizationsTeams,
                   projectsOrganizations>>

\* Slip: the organization that is being deleted still counts.
remainingManagersWithDeletedOrganization(o, p) ==
    listEffectiveProjectManagerUserIds(p)

listRemainingProjectManagerUserIdsAfterOrganizationDelete(o, p) ==
    listDirectProjectManagerUserIds(p)
        \cup listIndirectProjectManagerUserIds(p)
        \cup UNION {usersOrganizationsOrganizationRoles[c]["OPM"] :
                    c \in listOrganizationIdsForProject(p) \ {o}}

organizationDeletionPreservesCoverage(o) ==
    /\ listTeamIdsForOrganization(o) = {}
    /\ \A p \in projectsOrganizations[o] :
          listRemainingProjectManagerUserIdsAfterOrganizationDelete(o, p) # {}

\* Deletion has no administrator override.
DeleteOrganization(actor, o) ==
    /\ o \in organizations
    /\ hasOrganizationManagerRole(o, actor)
    /\ organizationDeletionPreservesCoverage(o)
    /\ organizations' = organizations \ {o}
    /\ usersOrganizations' = [usersOrganizations EXCEPT ![o] = {}]
    /\ usersOrganizationsOrganizationRoles' =
         [usersOrganizationsOrganizationRoles EXCEPT
            ![o] = [r \in OrganizationRole |-> {}]]
    /\ projectsOrganizations' = [projectsOrganizations EXCEPT ![o] = {}]
    /\ organizationsTeams' = [organizationsTeams EXCEPT ![o] = {}]
    /\ UNCHANGED <<userVars, projectVars, teamVars>>

\* Every request the organization routes accept from one user.
OrganizationHandlers(actor) ==
    \E o \in Organizations :
        \/ CreateOrganization(actor, o)
        \/ \E members \in SUBSET users :
              ReplaceOrganizationUsers(actor, o, members)
        \/ \E linked \in SUBSET projects :
              ReplaceOrganizationProjects(actor, o, linked)
        \/ \E t \in teams :
              \/ AssignTeam(actor, o, t)
              \/ UnassignTeam(actor, o, t)
        \/ \E u \in users, role \in OrganizationRole :
              \/ GrantOrganizationRole(actor, o, u, role)
              \/ RevokeOrganizationRole(actor, o, u, role)
        \/ DeleteOrganization(actor, o)
=============================================================================
