--------------------------- MODULE AccessControl ---------------------------
(***************************************************************************)
(* The membership and role tables of the backend, and the queries of       *)
(* access-control.utils.ts that compute effective authority from them.     *)
(*                                                                         *)
(* A join table is a function from one of its keys to the set of the other *)
(* key it is paired with: <<p, u>> is a row of Projects_Users exactly when *)
(* u \in projectsUsers[p].  A role table has the role code between the two *)
(* keys.  Row ids, names, descriptions and timestamps are left out.        *)
(*                                                                         *)
(* The id columns are AUTOINCREMENT, so the database never reuses an id.   *)
(* The model does, once every row that names the id is gone, which keeps   *)
(* it finite: ON DELETE CASCADE of every link and role table sees to that  *)
(* (db/v11/schema.ts:610-882), and ReusedIdsAreFresh in AuthorityProofs    *)
(* shows it of the actions.                                                *)
(***************************************************************************)
CONSTANTS
    Users,          \* ids of Users rows
    Projects,       \* ids of Projects rows
    Teams,          \* ids of Teams rows
    Organizations,  \* ids of Organizations rows
    Admins          \* the users seeded with GGTC_SYSTEMROLE_ADMIN

ASSUME AdminsAreUsers == Admins \subseteq Users

VARIABLES
    users,                                \* Users
    usersSystemRoles,                     \* Users_SystemRoles, ADMIN rows
    projects,                             \* Projects
    projectsUsers,                        \* Projects_Users
    usersProjectsProjectRoles,            \* Users_Projects_ProjectRoles
    projectsTeams,                        \* Projects_Teams
    teams,                                \* Teams
    teamsUsers,                           \* Teams_Users
    usersTeamsTeamRoles,                  \* Users_Teams_TeamRoles
    organizations,                        \* Organizations
    usersOrganizations,                   \* Users_Organizations
    usersOrganizationsOrganizationRoles,  \* Users_Organizations_OrganizationRoles
    organizationsTeams,                   \* Organizations_Teams
    projectsOrganizations                 \* Projects_Organizations

userVars == <<users, usersSystemRoles>>

projectVars ==
    <<projects, projectsUsers, usersProjectsProjectRoles, projectsTeams>>

teamVars == <<teams, teamsUsers, usersTeamsTeamRoles>>

organizationVars ==
    <<organizations, usersOrganizations, usersOrganizationsOrganizationRoles,
      organizationsTeams, projectsOrganizations>>

vars == <<userVars, projectVars, teamVars, organizationVars>>

\* PM: PROJECT_MANAGER, OWNER: PROJECT_OWNER
ProjectRole == {"PM", "OWNER"}

\* TM: TEAM_MANAGER, TPM: the team's PROJECT_MANAGER
TeamRole == {"TM", "TPM"}

\* OM: ORGANIZATION_MANAGER, OPM and OTM: the organization's PROJECT_MANAGER
\* and TEAM_MANAGER
OrganizationRole == {"OM", "OPM", "OTM"}

(***************************************************************************)
(* The shape of the tables.                                                *)
(***************************************************************************)
TypeOK ==
    /\ users \subseteq Users
    /\ usersSystemRoles \subseteq Users
    /\ projects \subseteq Projects
    /\ projectsUsers \in [Projects -> SUBSET Users]
    /\ usersProjectsProjectRoles
         \in [Projects -> [ProjectRole -> SUBSET Users]]
    /\ projectsTeams \in [Projects -> SUBSET Teams]
    /\ teams \subseteq Teams
    /\ teamsUsers \in [Teams -> SUBSET Users]
    /\ usersTeamsTeamRoles \in [Teams -> [TeamRole -> SUBSET Users]]
    /\ organizations \subseteq Organizations
    /\ usersOrganizations \in [Organizations -> SUBSET Users]
    /\ usersOrganizationsOrganizationRoles
         \in [Organizations -> [OrganizationRole -> SUBSET Users]]
    /\ organizationsTeams \in [Organizations -> SUBSET Teams]
    /\ projectsOrganizations \in [Organizations -> SUBSET Projects]

-----------------------------------------------------------------------------
(***************************************************************************)
(* Links between projects, teams and organizations.                        *)
(***************************************************************************)
hasSystemAdminRole(u) == u \in usersSystemRoles

listProjectIdsForTeam(t) == {p \in Projects : t \in projectsTeams[p]}

listTeamIdsForProject(p) == projectsTeams[p]

getOrganizationIdForTeam(t) ==
    {o \in Organizations : t \in organizationsTeams[o]}

listTeamIdsForOrganization(o) == organizationsTeams[o]

listOrganizationIdsForProject(p) ==
    {o \in Organizations :
        \/ p \in projectsOrganizations[o]
        \/ projectsTeams[p] \cap organizationsTeams[o] # {}}

listProjectIdsForOrganization(o) ==
    {p \in Projects : o \in listOrganizationIdsForProject(p)}

hasOrganizationMembership(o, u) ==
    \/ u \in usersOrganizations[o]
    \/ \E t \in organizationsTeams[o] : u \in teamsUsers[t]

-----------------------------------------------------------------------------
(***************************************************************************)
(* Effective authority.  A team's project managers count for a linked      *)
(* project only while they are also members of the team: the query joins   *)
(* Users_Teams_TeamRoles with Teams_Users.                                 *)
(***************************************************************************)
listDirectProjectManagerUserIds(p) == usersProjectsProjectRoles[p]["PM"]

listDirectProjectOwnerUserIds(p) == usersProjectsProjectRoles[p]["OWNER"]

listTeamProjectManagerUserIds(t) == usersTeamsTeamRoles[t]["TPM"]

listDirectTeamManagerUserIds(t) == usersTeamsTeamRoles[t]["TM"]

listIndirectProjectManagerUserIds(p) ==
    UNION {usersTeamsTeamRoles[t]["TPM"] \cap teamsUsers[t] :
           t \in projectsTeams[p]}

listOrganizationProjectManagerUserIdsForProject(p) ==
    UNION {usersOrganizationsOrganizationRoles[o]["OPM"] :
           o \in listOrganizationIdsForProject(p)}

listEffectiveProjectManagerUserIds(p) ==
    listDirectProjectManagerUserIds(p)
        \cup listIndirectProjectManagerUserIds(p)
        \cup listOrganizationProjectManagerUserIdsForProject(p)

listOrganizationTeamManagerUserIdsForTeam(t) ==
    UNION {usersOrganizationsOrganizationRoles[o]["OTM"] :
           o \in getOrganizationIdForTeam(t)}

listEffectiveTeamManagerUserIds(t) ==
    listDirectTeamManagerUserIds(t)
        \cup listOrganizationTeamManagerUserIdsForTeam(t)

hasOrganizationManagerRole(o, u) ==
    u \in usersOrganizationsOrganizationRoles[o]["OM"]

-----------------------------------------------------------------------------
(***************************************************************************)
(* What a user can reach, and what the list endpoints show.                *)
(***************************************************************************)
hasProjectAccess(p, u) ==
    \/ u \in projectsUsers[p]
    \/ u \in listEffectiveProjectManagerUserIds(p)
    \/ \E o \in listOrganizationIdsForProject(p) :
          hasOrganizationMembership(o, u)
    \/ \E t \in projectsTeams[p] : u \in teamsUsers[t]

hasAnyOrganizationRole(o, u) ==
    \E r \in OrganizationRole : u \in usersOrganizationsOrganizationRoles[o][r]

hasAnyTeamRole(t, u) == \E r \in TeamRole : u \in usersTeamsTeamRoles[t][r]

hasAnyProjectRole(p, u) ==
    \E r \in ProjectRole : u \in usersProjectsProjectRoles[p][r]

\* Slip: organizations in which the user holds a role but is no member are
\* forgotten.
organizationsOfMembersOnly(u) ==
    {o \in Organizations : hasOrganizationMembership(o, u)}

listOrganizationIdsVisibleByMembership(u) ==
    {o \in Organizations :
        hasOrganizationMembership(o, u) \/ hasAnyOrganizationRole(o, u)}

\* Slip: the teams of the user's organizations are forgotten.
teamsOfOwnRolesOnly(u) ==
    {t \in Teams : u \in teamsUsers[t] \/ hasAnyTeamRole(t, u)}

listTeamIdsVisibleByMembership(u) ==
    {t \in Teams : u \in teamsUsers[t] \/ hasAnyTeamRole(t, u)}
        \cup UNION {organizationsTeams[o] :
                    o \in listOrganizationIdsVisibleByMembership(u)}

listProjectIdsVisibleByMembership(u) ==
    {p \in Projects :
        \/ u \in projectsUsers[p]
        \/ hasAnyProjectRole(p, u)
        \/ projectsTeams[p] \cap listTeamIdsVisibleByMembership(u) # {}
        \/ listOrganizationIdsForProject(p)
             \cap listOrganizationIdsVisibleByMembership(u) # {}}

\* The right to use the instance-wide pool of manager uploads.
hasEffectiveManagerAnywhere(u) ==
    \/ \E p \in listProjectIdsVisibleByMembership(u) :
          \/ u \in listDirectProjectOwnerUserIds(p)
          \/ u \in listEffectiveProjectManagerUserIds(p)
    \/ \E t \in listTeamIdsVisibleByMembership(u) :
          u \in listEffectiveTeamManagerUserIds(t)
    \/ \E o \in listOrganizationIdsVisibleByMembership(u) :
          hasOrganizationManagerRole(o, u)
=============================================================================
