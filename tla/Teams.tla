------------------------------- MODULE Teams -------------------------------
(***************************************************************************)
(* The handlers of teams.service.ts that change the membership and the     *)
(* roles of a team.  Each runs its checks and its transaction without an   *)
(* await and is one action.                                                *)
(***************************************************************************)
EXTENDS AccessControl

hasEffectiveTeamManagerRole(t, u) == u \in listEffectiveTeamManagerUserIds(t)

canManageTeam(actor, t) ==
    hasSystemAdminRole(actor) \/ hasEffectiveTeamManagerRole(t, actor)

hasOrganizationTeamManagerRoleForTeam(t, u) ==
    u \in listOrganizationTeamManagerUserIdsForTeam(t)

\* An organization's team manager may hand out a team's project manager role
\* only when the team is linked to some project.
canOrganizationTeamManagerGrantTeamProjectManager(actor, t) ==
    /\ hasOrganizationTeamManagerRoleForTeam(t, actor)
    /\ listProjectIdsForTeam(t) # {}

canOrganizationTeamManagerTargetUser(actor, t, u) ==
    /\ hasOrganizationTeamManagerRoleForTeam(t, actor)
    /\ \E o \in getOrganizationIdForTeam(t) : hasOrganizationMembership(o, u)

\* assertCanGrantTeamRole and assertCanRevokeTeamRole are the same check.
canGrantTeamRole(actor, t, role) ==
    \/ role = "TM" /\ canManageTeam(actor, t)
    \/ /\ role = "TPM"
       /\ \/ actor \in listDirectTeamManagerUserIds(t)
          \/ canOrganizationTeamManagerGrantTeamProjectManager(actor, t)

canTargetTeamRole(actor, t, u, role) ==
    \/ hasSystemAdminRole(actor) /\ u = actor /\ role = "TM"
    \/ actor \in listDirectTeamManagerUserIds(t)
    \/ canOrganizationTeamManagerTargetUser(actor, t, u)

(***************************************************************************)
(* The coverage checks a change of team t makes for its linked projects.   *)
(* They count every holder of a team's project manager role, a member of   *)
(* the team or not; access control counts members only.                    *)
(***************************************************************************)
listOrganizationProjectManagerIdsForTeamChange(p, t, removed) ==
    LET survivingTeams == {s \in projectsTeams[p] : ~removed \/ s # t}
    IN  UNION {usersOrganizationsOrganizationRoles[o]["OPM"] :
               o \in {c \in Organizations :
                        \/ p \in projectsOrganizations[c]
                        \/ survivingTeams \cap organizationsTeams[c] # {}}}

listEffectiveManagerIdsForTeamChange(p, t, replacement, removed) ==
    listDirectProjectManagerUserIds(p)
        \cup listOrganizationProjectManagerIdsForTeamChange(p, t, removed)
        \cup replacement
        \cup UNION {listTeamProjectManagerUserIds(s) :
                    s \in projectsTeams[p] \ {t}}

linkedProjectsRetainManagers(t, replacement, removed) ==
    \A p \in listProjectIdsForTeam(t) :
        listEffectiveManagerIdsForTeamChange(p, t, replacement, removed) # {}

-----------------------------------------------------------------------------
CreateTeam(actor, t) ==
    /\ t \notin teams
    /\ teams' = teams \cup {t}
    /\ teamsUsers' = [teamsUsers EXCEPT ![t] = @ \cup {actor}]
    /\ usersTeamsTeamRoles' =
         [usersTeamsTeamRoles EXCEPT ![t]["TM"] = @ \cup {actor}]
    /\ UNCHANGED <<userVars, projectVars, organizationVars>>

retainsTeamManagerAfterMembershipReplace(t, roles) ==
    roles["TM"] \cup listOrganizationTeamManagerUserIdsForTeam(t) # {}

\* The payload names at least one member.
ReplaceTeamMembers(actor, t, members, roles) ==
    /\ t \in teams
    /\ canManageTeam(actor, t)
    /\ members \subseteq users /\ members # {}
    /\ retainsTeamManagerAfterMembershipReplace(t, roles)
    /\ linkedProjectsRetainManagers(t, roles["TPM"], FALSE)
    /\ teamsUsers' = [teamsUsers EXCEPT ![t] = members]
    /\ usersTeamsTeamRoles' = [usersTeamsTeamRoles EXCEPT ![t] = roles]
    /\ UNCHANGED <<teams, userVars, projectVars, organizationVars>>

\* ensureTeamMembershipForRoleGrant does nothing: a role holder need not be a
\* member.
GrantTeamRole(actor, t, u, role) ==
    /\ t \in teams
    /\ u \in users
    /\ canGrantTeamRole(actor, t, role)
    /\ canTargetTeamRole(actor, t, u, role)
    /\ u \notin usersTeamsTeamRoles[t][role]
    /\ usersTeamsTeamRoles' =
         [usersTeamsTeamRoles EXCEPT ![t][role] = @ \cup {u}]
    /\ UNCHANGED <<teams, teamsUsers, userVars, projectVars, organizationVars>>

\* Slip: the manager whose role is revoked is counted among the remaining ones.
teamRevocationCountsRevokedUser(t, u, role) ==
    role = "TM" => listEffectiveTeamManagerUserIds(t) # {}

retainsTeamManagerAfterRoleRevoke(t, u, role) ==
    role = "TM" => listEffectiveTeamManagerUserIds(t) \ {u} # {}

\* Slip: the project manager whose role is revoked is counted too.
linkedProjectsCountRevokedUser(t, u, role) ==
    role = "TPM" =>
        linkedProjectsRetainManagers(
            t, listTeamProjectManagerUserIds(t), FALSE)

linkedProjectsRetainManagersAfterRoleRevoke(t, u, role) ==
    role = "TPM" =>
        linkedProjectsRetainManagers(
            t, listTeamProjectManagerUserIds(t) \ {u}, FALSE)

RevokeTeamRole(actor, t, u, role) ==
    /\ t \in teams
    /\ u \in users
    /\ canGrantTeamRole(actor, t, role)
    /\ u \in usersTeamsTeamRoles[t][role]
    /\ retainsTeamManagerAfterRoleRevoke(t, u, role)
    /\ linkedProjectsRetainManagersAfterRoleRevoke(t, u, role)
    /\ usersTeamsTeamRoles' =
         [usersTeamsTeamRoles EXCEPT ![t][role] = @ \ {u}]
    /\ UNCHANGED <<teams, teamsUsers, userVars, projectVars, organizationVars>>

\* Unlike the other team routes, deletion has no administrator override.  The
\* row of Organizations_Teams goes with the Teams row (ON DELETE CASCADE).
DeleteTeam(actor, t) ==
    /\ t \in teams
    /\ hasEffectiveTeamManagerRole(t, actor)
    /\ linkedProjectsRetainManagers(t, {}, TRUE)
    /\ teams' = teams \ {t}
    /\ teamsUsers' = [teamsUsers EXCEPT ![t] = {}]
    /\ usersTeamsTeamRoles' =
         [usersTeamsTeamRoles EXCEPT ![t] = [r \in TeamRole |-> {}]]
    /\ projectsTeams' = [p \in Projects |-> projectsTeams[p] \ {t}]
    /\ organizationsTeams' =
         [o \in Organizations |-> organizationsTeams[o] \ {t}]
    /\ UNCHANGED <<userVars, projects, projectsUsers,
                   usersProjectsProjectRoles, organizations,
                   usersOrganizations, usersOrganizationsOrganizationRoles,
                   projectsOrganizations>>

\* Every request the team routes accept from one user.
TeamHandlers(actor) ==
    \E t \in Teams :
        \/ CreateTeam(actor, t)
        \/ \E members \in SUBSET users :
              \E roles \in [TeamRole -> SUBSET members] :
                  ReplaceTeamMembers(actor, t, members, roles)
        \/ \E u \in users, role \in TeamRole :
              \/ GrantTeamRole(actor, t, u, role)
              \/ RevokeTeamRole(actor, t, u, role)
        \/ DeleteTeam(actor, t)
=============================================================================
