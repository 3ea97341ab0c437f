-------------------------- MODULE AuthorityProofs --------------------------
(***************************************************************************)
(* What holds of Authority for every set of users, projects, teams and     *)
(* organizations, whatever their size: first the invariants, then the      *)
(* manager coverage that each group of handlers keeps.                     *)
(***************************************************************************)
EXTENDS Authority, TLAPS

\* A freshly seeded database has the types.
LEMMA InitTypeOK == Init => TypeOK
<1>1. Admins \subseteq Users
  BY AdminsAreUsers
<1>. QED
  BY <1>1 DEF Init, TypeOK, ProjectRole, TeamRole, OrganizationRole

\* No request on a project spoils the shape of a table.
LEMMA ProjectHandlersTypeOK ==
  ASSUME TypeOK, NEW a \in users, ProjectHandlers(a)
  PROVE  TypeOK'
<1>. PICK p \in Projects :
        \/ CreateProject(a, p)
        \/ \E members \in SUBSET users :
              \E roles \in [ProjectRole -> SUBSET members] :
                  ReplaceProjectMembers(a, p, members, roles)
        \/ \E u \in users, role \in ProjectRole :
              \/ GrantProjectRole(a, p, u, role)
              \/ RevokeProjectRole(a, p, u, role)
        \/ DeleteProject(a, p)
        \/ \E t \in Teams : AssociateProjectTeam(a, p, t)
        \/ \E o \in Organizations : AssociateProjectOrganization(a, p, o)
  BY DEF ProjectHandlers
<1>. USE DEF TypeOK, userVars, teamVars, organizationVars, projectVars
<1>1. CASE CreateProject(a, p)
  BY <1>1 DEF CreateProject
<1>2. ASSUME NEW members \in SUBSET users,
             NEW roles \in [ProjectRole -> SUBSET members],
             ReplaceProjectMembers(a, p, members, roles)
      PROVE  TypeOK'
  <2>1. roles \in [ProjectRole -> SUBSET Users]
    OBVIOUS
  <2>. QED
    BY <1>2, <2>1 DEF ReplaceProjectMembers
<1>3. ASSUME NEW u \in users, NEW role \in ProjectRole,
             GrantProjectRole(a, p, u, role)
      PROVE  TypeOK'
  BY <1>3 DEF GrantProjectRole, ensureDirectProjectMembershipForRoleGrant
<1>4. ASSUME NEW u \in users, NEW role \in ProjectRole,
             RevokeProjectRole(a, p, u, role)
      PROVE  TypeOK'
  BY <1>4 DEF RevokeProjectRole
<1>5. CASE DeleteProject(a, p)
  BY <1>5 DEF DeleteProject
<1>6. ASSUME NEW t \in Teams, AssociateProjectTeam(a, p, t)
      PROVE  TypeOK'
  BY <1>6 DEF AssociateProjectTeam
<1>7. ASSUME NEW o \in Organizations, AssociateProjectOrganization(a, p, o)
      PROVE  TypeOK'
  BY <1>7 DEF AssociateProjectOrganization
<1>. QED
  BY <1>1, <1>2, <1>3, <1>4, <1>5, <1>6, <1>7

\* No request on a team spoils the shape of a table.
LEMMA TeamHandlersTypeOK ==
  ASSUME TypeOK, NEW a \in users, TeamHandlers(a)
  PROVE  TypeOK'
<1>. PICK t \in Teams :
        \/ CreateTeam(a, t)
        \/ \E members \in SUBSET users :
              \E roles \in [TeamRole -> SUBSET members] :
                  ReplaceTeamMembers(a, t, members, roles)
        \/ \E u \in users, role \in TeamRole :
              \/ GrantTeamRole(a, t, u, role)
              \/ RevokeTeamRole(a, t, u, role)
        \/ DeleteTeam(a, t)
  BY DEF TeamHandlers
<1>. USE DEF TypeOK, userVars, teamVars, organizationVars, projectVars
<1>1. CASE CreateTeam(a, t)
  BY <1>1 DEF CreateTeam
<1>2. ASSUME NEW members \in SUBSET users,
             NEW roles \in [TeamRole -> SUBSET members],
             ReplaceTeamMembers(a, t, members, roles)
      PROVE  TypeOK'
  <2>1. roles \in [TeamRole -> SUBSET Users]
    OBVIOUS
  <2>. QED
    BY <1>2, <2>1 DEF ReplaceTeamMembers
<1>3. ASSUME NEW u \in users, NEW role \in TeamRole,
             GrantTeamRole(a, t, u, role)
      PROVE  TypeOK'
  BY <1>3 DEF GrantTeamRole
<1>4. ASSUME NEW u \in users, NEW role \in TeamRole,
             RevokeTeamRole(a, t, u, role)
      PROVE  TypeOK'
  BY <1>4 DEF RevokeTeamRole
<1>5. CASE DeleteTeam(a, t)
  BY <1>5 DEF DeleteTeam
<1>. QED
  BY <1>1, <1>2, <1>3, <1>4, <1>5

\* No request on an organization spoils the shape of a table.
LEMMA OrganizationHandlersTypeOK ==
  ASSUME TypeOK, NEW a \in users, OrganizationHandlers(a)
  PROVE  TypeOK'
<1>. PICK o \in Organizations :
        \/ CreateOrganization(a, o)
        \/ \E members \in SUBSET users :
              ReplaceOrganizationUsers(a, o, members)
        \/ \E linked \in SUBSET projects :
              ReplaceOrganizationProjects(a, o, linked)
        \/ \E t \in teams :
              \/ AssignTeam(a, o, t)
              \/ UnassignTeam(a, o, t)
        \/ \E u \in users, role \in OrganizationRole :
              \/ GrantOrganizationRole(a, o, u, role)
              \/ RevokeOrganizationRole(a, o, u, role)
        \/ DeleteOrganization(a, o)
  BY DEF OrganizationHandlers
<1>. USE DEF TypeOK, userVars, teamVars, organizationVars, projectVars
<1>1. CASE CreateOrganization(a, o)
  BY <1>1 DEF CreateOrganization
<1>2. ASSUME NEW members \in SUBSET users,
             ReplaceOrganizationUsers(a, o, members)
      PROVE  TypeOK'
  BY <1>2 DEF ReplaceOrganizationUsers
<1>3. ASSUME NEW linked \in SUBSET projects,
             ReplaceOrganizationProjects(a, o, linked)
      PROVE  TypeOK'
  BY <1>3 DEF ReplaceOrganizationProjects
<1>4. ASSUME NEW t \in teams, AssignTeam(a, o, t)
      PROVE  TypeOK'
  BY <1>4 DEF AssignTeam
<1>5. ASSUME NEW t \in teams, UnassignTeam(a, o, t)
      PROVE  TypeOK'
  BY <1>5 DEF UnassignTeam
<1>6. ASSUME NEW u \in users, NEW role \in OrganizationRole,
             GrantOrganizationRole(a, o, u, role)
      PROVE  TypeOK'
  BY <1>6 DEF GrantOrganizationRole, ensureMembershipForAdminSelfGrant
<1>7. ASSUME NEW u \in users, NEW role \in OrganizationRole,
             RevokeOrganizationRole(a, o, u, role)
      PROVE  TypeOK'
  BY <1>7 DEF RevokeOrganizationRole
<1>8. CASE DeleteOrganization(a, o)
  BY <1>8 DEF DeleteOrganization
<1>. QED
  BY <1>1, <1>2, <1>3, <1>4, <1>5, <1>6, <1>7, <1>8

\* No step spoils the shape of a table.
LEMMA NextTypeOK == TypeOK /\ [Next]_vars => TypeOK'
<1>. SUFFICES ASSUME TypeOK, [Next]_vars
              PROVE  TypeOK'
  OBVIOUS
<1>1. ASSUME NEW u \in Users, Register(u)
      PROVE  TypeOK'
  BY <1>1 DEF Register, TypeOK, projectVars, teamVars, organizationVars
<1>2. ASSUME NEW a \in users, NEW u \in users, DeleteUser(a, u)
      PROVE  TypeOK'
  BY <1>2 DEF DeleteUser, TypeOK
<1>3. CASE UNCHANGED vars
  BY <1>3 DEF vars, userVars, projectVars, teamVars, organizationVars, TypeOK
<1>. QED
  BY <1>1, <1>2, <1>3, ProjectHandlersTypeOK, TeamHandlersTypeOK,
     OrganizationHandlersTypeOK DEF Next

\* The tables keep their shape.
THEOREM TypeCorrect == Spec => []TypeOK
BY InitTypeOK, NextTypeOK, PTL DEF Spec
-----------------------------------------------------------------------------
(***************************************************************************)
(* The database's cascades leave no row that names what is gone, whatever  *)
(* the explicit deletes of the services do.  The actions keep this, and    *)
(* it is why they may use the id of a deleted entity again: it is an id    *)
(* no row names, like the fresh one the database would hand out.           *)
(***************************************************************************)
\* Rows about a project name live users and teams, and a project that is gone
\* has none.
ProjectRowsAreLive ==
    \A p \in Projects :
        /\ projectsUsers[p] \subseteq users
        /\ projectsTeams[p] \subseteq teams
        /\ \A r \in ProjectRole : usersProjectsProjectRoles[p][r] \subseteq users
        /\ p \notin projects =>
              /\ projectsUsers[p] = {}
              /\ projectsTeams[p] = {}
              /\ \A r \in ProjectRole : usersProjectsProjectRoles[p][r] = {}

\* The same for the rows about a team.
TeamRowsAreLive ==
    \A t \in Teams :
        /\ teamsUsers[t] \subseteq users
        /\ \A r \in TeamRole : usersTeamsTeamRoles[t][r] \subseteq users
        /\ t \notin teams =>
              /\ teamsUsers[t] = {}
              /\ \A r \in TeamRole : usersTeamsTeamRoles[t][r] = {}

\* The same for the rows about an organization.
OrganizationRowsAreLive ==
    \A o \in Organizations :
        /\ usersOrganizations[o] \subseteq users
        /\ organizationsTeams[o] \subseteq teams
        /\ projectsOrganizations[o] \subseteq projects
        /\ \A r \in OrganizationRole :
              usersOrganizationsOrganizationRoles[o][r] \subseteq users
        /\ o \notin organizations =>
              /\ usersOrganizations[o] = {}
              /\ organizationsTeams[o] = {}
              /\ projectsOrganizations[o] = {}
              /\ \A r \in OrganizationRole :
                    usersOrganizationsOrganizationRoles[o][r] = {}

\* Each row names a user, project, team and organization that is there.
ReferentialIntegrity ==
    /\ usersSystemRoles \subseteq users
    /\ ProjectRowsAreLive
    /\ TeamRowsAreLive
    /\ OrganizationRowsAreLive

LEMMA InitReferentialIntegrity == Init => ReferentialIntegrity
BY DEF Init, ReferentialIntegrity, ProjectRowsAreLive, TeamRowsAreLive,
       OrganizationRowsAreLive, ProjectRole, TeamRole, OrganizationRole

\* Requests on projects, the deletion of one included, leave no dangling row.
LEMMA ProjectHandlersReferentialIntegrity ==
  ASSUME TypeOK, ReferentialIntegrity, NEW a \in users, ProjectHandlers(a)
  PROVE  ReferentialIntegrity'
<1>. PICK p \in Projects :
        \/ CreateProject(a, p)
        \/ \E members \in SUBSET users :
              \E roles \in [ProjectRole -> SUBSET members] :
                  ReplaceProjectMembers(a, p, members, roles)
        \/ \E u \in users, role \in ProjectRole :
              \/ GrantProjectRole(a, p, u, role)
              \/ RevokeProjectRole(a, p, u, role)
        \/ DeleteProject(a, p)
        \/ \E t \in Teams : AssociateProjectTeam(a, p, t)
        \/ \E o \in Organizations : AssociateProjectOrganization(a, p, o)
  BY DEF ProjectHandlers
<1>. USE DEF TypeOK, userVars, teamVars, organizationVars, projectVars,
             ReferentialIntegrity, ProjectRowsAreLive, TeamRowsAreLive,
             OrganizationRowsAreLive
<1>1. CASE CreateProject(a, p)
  BY <1>1 DEF CreateProject
<1>2. ASSUME NEW members \in SUBSET users,
             NEW roles \in [ProjectRole -> SUBSET members],
             ReplaceProjectMembers(a, p, members, roles)
      PROVE  ReferentialIntegrity'
  BY <1>2 DEF ReplaceProjectMembers
<1>3. ASSUME NEW u \in users, NEW role \in ProjectRole,
             GrantProjectRole(a, p, u, role)
      PROVE  ReferentialIntegrity'
  BY <1>3 DEF GrantProjectRole, ensureDirectProjectMembershipForRoleGrant
<1>4. ASSUME NEW u \in users, NEW role \in ProjectRole,
             RevokeProjectRole(a, p, u, role)
      PROVE  ReferentialIntegrity'
  BY <1>4 DEF RevokeProjectRole
<1>5. CASE DeleteProject(a, p)
  BY <1>5 DEF DeleteProject
<1>6. ASSUME NEW t \in Teams, AssociateProjectTeam(a, p, t)
      PROVE  ReferentialIntegrity'
  BY <1>6 DEF AssociateProjectTeam
<1>7. ASSUME NEW o \in Organizations, AssociateProjectOrganization(a, p, o)
      PROVE  ReferentialIntegrity'
  BY <1>7 DEF AssociateProjectOrganization
<1>. QED
  BY <1>1, <1>2, <1>3, <1>4, <1>5, <1>6, <1>7

\* Requests on teams, the deletion of one included, leave no dangling row.
LEMMA TeamHandlersReferentialIntegrity ==
  ASSUME TypeOK, ReferentialIntegrity, NEW a \in users, TeamHandlers(a)
  PROVE  ReferentialIntegrity'
<1>. PICK t \in Teams :
        \/ CreateTeam(a, t)
        \/ \E members \in SUBSET users :
              \E roles \in [TeamRole -> SUBSET members] :
                  ReplaceTeamMembers(a, t, members, roles)
        \/ \E u \in users, role \in TeamRole :
              \/ GrantTeamRole(a, t, u, role)
              \/ RevokeTeamRole(a, t, u, role)
        \/ DeleteTeam(a, t)
  BY DEF TeamHandlers
<1>. USE DEF TypeOK, userVars, teamVars, organizationVars, projectVars,
             ReferentialIntegrity, ProjectRowsAreLive, TeamRowsAreLive,
             OrganizationRowsAreLive
<1>1. CASE CreateTeam(a, t)
  BY <1>1 DEF CreateTeam
<1>2. ASSUME NEW members \in SUBSET users,
             NEW roles \in [TeamRole -> SUBSET members],
             ReplaceTeamMembers(a, t, members, roles)
      PROVE  ReferentialIntegrity'
  BY <1>2 DEF ReplaceTeamMembers
<1>3. ASSUME NEW u \in users, NEW role \in TeamRole,
             GrantTeamRole(a, t, u, role)
      PROVE  ReferentialIntegrity'
  BY <1>3 DEF GrantTeamRole
<1>4. ASSUME NEW u \in users, NEW role \in TeamRole,
             RevokeTeamRole(a, t, u, role)
      PROVE  ReferentialIntegrity'
  BY <1>4 DEF RevokeTeamRole
<1>5. CASE DeleteTeam(a, t)
  BY <1>5 DEF DeleteTeam
<1>. QED
  BY <1>1, <1>2, <1>3, <1>4, <1>5

\* Requests on organizations, the deletion of one included, leave no dangling
\* row.
LEMMA OrganizationHandlersReferentialIntegrity ==
  ASSUME TypeOK, ReferentialIntegrity, NEW a \in users,
         OrganizationHandlers(a)
  PROVE  ReferentialIntegrity'
<1>. PICK o \in Organizations :
        \/ CreateOrganization(a, o)
        \/ \E members \in SUBSET users :
              ReplaceOrganizationUsers(a, o, members)
        \/ \E linked \in SUBSET projects :
              ReplaceOrganizationProjects(a, o, linked)
        \/ \E t \in teams :
              \/ AssignTeam(a, o, t)
              \/ UnassignTeam(a, o, t)
        \/ \E u \in users, role \in OrganizationRole :
              \/ GrantOrganizationRole(a, o, u, role)
              \/ RevokeOrganizationRole(a, o, u, role)
        \/ DeleteOrganization(a, o)
  BY DEF OrganizationHandlers
<1>. USE DEF TypeOK, userVars, teamVars, organizationVars, projectVars,
             ReferentialIntegrity, ProjectRowsAreLive, TeamRowsAreLive,
             OrganizationRowsAreLive
<1>1. CASE CreateOrganization(a, o)
  BY <1>1 DEF CreateOrganization
<1>2. ASSUME NEW members \in SUBSET users,
             ReplaceOrganizationUsers(a, o, members)
      PROVE  ReferentialIntegrity'
  BY <1>2 DEF ReplaceOrganizationUsers
<1>3. ASSUME NEW linked \in SUBSET projects,
             ReplaceOrganizationProjects(a, o, linked)
      PROVE  ReferentialIntegrity'
  BY <1>3 DEF ReplaceOrganizationProjects
<1>4. ASSUME NEW t \in teams, AssignTeam(a, o, t)
      PROVE  ReferentialIntegrity'
  BY <1>4 DEF AssignTeam
<1>5. ASSUME NEW t \in teams, UnassignTeam(a, o, t)
      PROVE  ReferentialIntegrity'
  BY <1>5 DEF UnassignTeam
<1>6. ASSUME NEW u \in users, NEW role \in OrganizationRole,
             GrantOrganizationRole(a, o, u, role)
      PROVE  ReferentialIntegrity'
  BY <1>6 DEF GrantOrganizationRole, ensureMembershipForAdminSelfGrant
<1>7. ASSUME NEW u \in users, NEW role \in OrganizationRole,
             RevokeOrganizationRole(a, o, u, role)
      PROVE  ReferentialIntegrity'
  BY <1>7 DEF RevokeOrganizationRole
<1>8. CASE DeleteOrganization(a, o)
  BY <1>8 DEF DeleteOrganization
<1>. QED
  BY <1>1, <1>2, <1>3, <1>4, <1>5, <1>6, <1>7, <1>8

\* No step leaves a dangling row.
LEMMA NextReferentialIntegrity ==
  TypeOK /\ ReferentialIntegrity /\ [Next]_vars => ReferentialIntegrity'
<1>. SUFFICES ASSUME TypeOK, ReferentialIntegrity, [Next]_vars
              PROVE  ReferentialIntegrity'
  OBVIOUS
<1>. USE DEF ReferentialIntegrity, ProjectRowsAreLive, TeamRowsAreLive,
             OrganizationRowsAreLive
<1>1. ASSUME NEW u \in Users, Register(u)
      PROVE  ReferentialIntegrity'
  BY <1>1 DEF Register, projectVars, teamVars, organizationVars
<1>2. ASSUME NEW a \in users, NEW u \in users, DeleteUser(a, u)
      PROVE  ReferentialIntegrity'
  BY <1>2 DEF DeleteUser, TypeOK
<1>3. CASE UNCHANGED vars
  BY <1>3 DEF vars, userVars, projectVars, teamVars, organizationVars
<1>. QED
  BY <1>1, <1>2, <1>3, ProjectHandlersReferentialIntegrity,
     TeamHandlersReferentialIntegrity, OrganizationHandlersReferentialIntegrity
  DEF Next

\* No row ever names an id that may be handed out again.
LEMMA ReusedIdsAreFresh == Spec => []ReferentialIntegrity
<1>1. Spec => []TypeOK
  BY TypeCorrect
<1>. QED
  BY <1>1, InitReferentialIntegrity, NextReferentialIntegrity, PTL DEF Spec

-----------------------------------------------------------------------------
(***************************************************************************)
(* Only three handlers touch the owners of a project that lives on, and    *)
(* deleting a user checks all of them.                                     *)
(***************************************************************************)
LEMMA NextEveryProjectHasOwner ==
  TypeOK /\ EveryProjectHasOwner /\ [Next]_vars => EveryProjectHasOwner'
<1>. SUFFICES ASSUME TypeOK, EveryProjectHasOwner, [Next]_vars
              PROVE  EveryProjectHasOwner'
  OBVIOUS
<1>. USE DEF TypeOK, EveryProjectHasOwner, listDirectProjectOwnerUserIds,
             userVars, projectVars, teamVars, organizationVars
<1>1. ASSUME NEW a \in users, ProjectHandlers(a)
      PROVE  EveryProjectHasOwner'
  <2>1. ASSUME NEW p \in Projects, CreateProject(a, p)
        PROVE  EveryProjectHasOwner'
    BY <2>1 DEF CreateProject, ProjectRole
  <2>2. ASSUME NEW p \in Projects, NEW members \in SUBSET users,
               NEW roles \in [ProjectRole -> SUBSET members],
               ReplaceProjectMembers(a, p, members, roles)
        PROVE  EveryProjectHasOwner'
    BY <2>2 DEF ReplaceProjectMembers, retainsOwnerAfterMembershipReplace,
                ProjectRole
  <2>3. ASSUME NEW p \in Projects, NEW u \in users,
               NEW role \in ProjectRole, GrantProjectRole(a, p, u, role)
        PROVE  EveryProjectHasOwner'
    BY <2>3 DEF GrantProjectRole, ProjectRole
  <2>4. ASSUME NEW p \in Projects, NEW u \in users,
               NEW role \in ProjectRole, RevokeProjectRole(a, p, u, role)
        PROVE  EveryProjectHasOwner'
    BY <2>4 DEF RevokeProjectRole, retainsOwnerAfterRoleRevocation,
                ProjectRole
  <2>5. ASSUME NEW p \in Projects, DeleteProject(a, p)
        PROVE  EveryProjectHasOwner'
    BY <2>5 DEF DeleteProject
  <2>6. ASSUME NEW p \in Projects, NEW t \in Teams, AssociateProjectTeam(a, p, t)
        PROVE  EveryProjectHasOwner'
    BY <2>6 DEF AssociateProjectTeam
  <2>7. ASSUME NEW p \in Projects, NEW o \in Organizations,
               AssociateProjectOrganization(a, p, o)
        PROVE  EveryProjectHasOwner'
    BY <2>7 DEF AssociateProjectOrganization
  <2>. QED
    BY <1>1, <2>1, <2>2, <2>3, <2>4, <2>5, <2>6, <2>7 DEF ProjectHandlers
<1>2. ASSUME NEW a \in users, TeamHandlers(a)
      PROVE  EveryProjectHasOwner'
  BY <1>2 DEF TeamHandlers, CreateTeam, ReplaceTeamMembers, GrantTeamRole,
              RevokeTeamRole, DeleteTeam
<1>3. ASSUME NEW a \in users, OrganizationHandlers(a)
      PROVE  EveryProjectHasOwner'
  BY <1>3 DEF OrganizationHandlers, CreateOrganization,
              ReplaceOrganizationUsers, ReplaceOrganizationProjects,
              AssignTeam, UnassignTeam, GrantOrganizationRole,
              RevokeOrganizationRole, DeleteOrganization
<1>4. ASSUME NEW a \in users, NEW u \in users, DeleteUser(a, u)
      PROVE  EveryProjectHasOwner'
  BY <1>4 DEF DeleteUser, preservesProjectOwners, listOwnedProjectIds,
              ProjectRole
<1>5. CASE \/ UNCHANGED vars
           \/ \E u \in Users : Register(u)
  BY <1>5 DEF vars, Register
<1>. QED
  BY <1>1, <1>2, <1>3, <1>4, <1>5 DEF Next

\* Whatever members are replaced, roles revoked and users deleted, a project
\* that exists has an owner.
THEOREM ProjectsHaveOwners == Spec => []EveryProjectHasOwner
<1>1. Init => EveryProjectHasOwner
  BY DEF Init, EveryProjectHasOwner
<1>2. Spec => []TypeOK
  BY TypeCorrect
<1>. QED
  BY <1>1, <1>2, NextEveryProjectHasOwner, PTL DEF Spec
-----------------------------------------------------------------------------
(***************************************************************************)
(* Direct project roles are held by members.                               *)
(***************************************************************************)
LEMMA NextProjectRoleHoldersAreMembers ==
  TypeOK /\ ProjectRoleHoldersAreMembers /\ [Next]_vars
    => ProjectRoleHoldersAreMembers'
<1>. SUFFICES ASSUME TypeOK, ProjectRoleHoldersAreMembers, [Next]_vars
              PROVE  ProjectRoleHoldersAreMembers'
  OBVIOUS
<1>. USE DEF TypeOK, ProjectRoleHoldersAreMembers, userVars, projectVars,
             teamVars, organizationVars
<1>1. ASSUME NEW a \in users, ProjectHandlers(a)
      PROVE  ProjectRoleHoldersAreMembers'
  <2>1. ASSUME NEW p \in Projects, CreateProject(a, p)
        PROVE  ProjectRoleHoldersAreMembers'
    BY <2>1 DEF CreateProject
  <2>2. ASSUME NEW p \in Projects, NEW members \in SUBSET users,
               NEW roles \in [ProjectRole -> SUBSET members],
               ReplaceProjectMembers(a, p, members, roles)
        PROVE  ProjectRoleHoldersAreMembers'
    BY <2>2 DEF ReplaceProjectMembers
  <2>3. ASSUME NEW p \in Projects, NEW u \in users,
               NEW role \in ProjectRole, GrantProjectRole(a, p, u, role)
        PROVE  ProjectRoleHoldersAreMembers'
    BY <2>3 DEF GrantProjectRole, ensureDirectProjectMembershipForRoleGrant
  <2>4. ASSUME NEW p \in Projects, NEW u \in users,
               NEW role \in ProjectRole, RevokeProjectRole(a, p, u, role)
        PROVE  ProjectRoleHoldersAreMembers'
    BY <2>4 DEF RevokeProjectRole
  <2>5. ASSUME NEW p \in Projects, DeleteProject(a, p)
        PROVE  ProjectRoleHoldersAreMembers'
    BY <2>5 DEF DeleteProject
  <2>6. ASSUME NEW p \in Projects, NEW t \in Teams,
               AssociateProjectTeam(a, p, t)
        PROVE  ProjectRoleHoldersAreMembers'
    BY <2>6 DEF AssociateProjectTeam
  <2>7. ASSUME NEW p \in Projects, NEW o \in Organizations,
               AssociateProjectOrganization(a, p, o)
        PROVE  ProjectRoleHoldersAreMembers'
    BY <2>7 DEF AssociateProjectOrganization
  <2>. QED
    BY <1>1, <2>1, <2>2, <2>3, <2>4, <2>5, <2>6, <2>7 DEF ProjectHandlers
<1>2. ASSUME NEW a \in users, TeamHandlers(a)
      PROVE  ProjectRoleHoldersAreMembers'
  BY <1>2 DEF TeamHandlers, CreateTeam, ReplaceTeamMembers, GrantTeamRole,
              RevokeTeamRole, DeleteTeam
<1>3. ASSUME NEW a \in users, OrganizationHandlers(a)
      PROVE  ProjectRoleHoldersAreMembers'
  BY <1>3 DEF OrganizationHandlers, CreateOrganization,
              ReplaceOrganizationUsers, ReplaceOrganizationProjects,
              AssignTeam, UnassignTeam, GrantOrganizationRole,
              RevokeOrganizationRole, DeleteOrganization
<1>4. ASSUME NEW a \in users, NEW u \in users, DeleteUser(a, u)
      PROVE  ProjectRoleHoldersAreMembers'
  BY <1>4 DEF DeleteUser
<1>5. CASE \/ UNCHANGED vars
           \/ \E u \in Users : Register(u)
  BY <1>5 DEF vars, Register
<1>. QED
  BY <1>1, <1>2, <1>3, <1>4, <1>5 DEF Next

\* The member list of a project shows everyone who holds a direct role on it.
THEOREM RoleHoldersAreMembers == Spec => []ProjectRoleHoldersAreMembers
<1>1. Init => ProjectRoleHoldersAreMembers
  BY DEF Init, ProjectRoleHoldersAreMembers
<1>2. Spec => []TypeOK
  BY TypeCorrect
<1>. QED
  BY <1>1, <1>2, NextProjectRoleHoldersAreMembers, PTL DEF Spec
-----------------------------------------------------------------------------
(***************************************************************************)
(* Every way to reach a project is a way to see it listed.                 *)
(***************************************************************************)
LEMMA AccessImpliesListed ==
  ASSUME TypeOK
  PROVE  AccessibleProjectsAreListed
<1>. SUFFICES ASSUME NEW u \in users, NEW p \in projects,
                     hasProjectAccess(p, u)
              PROVE  p \in listProjectIdsVisibleByMembership(u)
  BY DEF AccessibleProjectsAreListed
<1>1. u \in Users /\ p \in Projects /\ projectsTeams[p] \subseteq Teams
  BY DEF TypeOK
<1>. USE <1>1 DEF listProjectIdsVisibleByMembership
<1>2. CASE u \in projectsUsers[p] \cup listDirectProjectManagerUserIds(p)
  BY <1>2 DEF listDirectProjectManagerUserIds, hasAnyProjectRole, ProjectRole
<1>3. ASSUME NEW t \in projectsTeams[p], u \in teamsUsers[t]
      PROVE  p \in listProjectIdsVisibleByMembership(u)
  BY <1>3 DEF listTeamIdsVisibleByMembership
<1>4. ASSUME NEW o \in listOrganizationIdsForProject(p),
             hasOrganizationMembership(o, u) \/ hasAnyOrganizationRole(o, u)
      PROVE  p \in listProjectIdsVisibleByMembership(u)
  BY <1>4 DEF listOrganizationIdsForProject,
              listOrganizationIdsVisibleByMembership
<1>5. CASE u \in listIndirectProjectManagerUserIds(p)
  BY <1>5, <1>3 DEF listIndirectProjectManagerUserIds
<1>6. CASE u \in listOrganizationProjectManagerUserIdsForProject(p)
  BY <1>6, <1>4 DEF listOrganizationProjectManagerUserIdsForProject,
                    hasAnyOrganizationRole, OrganizationRole
<1>. QED
  BY <1>2, <1>3, <1>4, <1>5, <1>6
  DEF hasProjectAccess, listEffectiveProjectManagerUserIds

\* A project a user may open is never missing from the user's list.
THEOREM AccessibleAreListed == Spec => []AccessibleProjectsAreListed
BY TypeCorrect, AccessImpliesListed, PTL
-----------------------------------------------------------------------------
(***************************************************************************)
(* Looking for a manager among the visible objects finds every manager.    *)
(***************************************************************************)
LEMMA ManagersSeeWhatTheyManage ==
  ASSUME TypeOK
  PROVE  ManagersAnywhereAreRecognised
<1>. USE DEF TypeOK, ProjectRole, TeamRole, OrganizationRole,
             hasEffectiveManagerAnywhere
<1>1. ASSUME NEW u \in users, NEW o \in Organizations,
             hasAnyOrganizationRole(o, u)
      PROVE  o \in listOrganizationIdsVisibleByMembership(u)
  BY <1>1 DEF listOrganizationIdsVisibleByMembership
<1>2. ASSUME NEW u \in users, NEW t \in teams,
             u \in listEffectiveTeamManagerUserIds(t)
      PROVE  hasEffectiveManagerAnywhere(u)
  <2>1. CASE u \in listDirectTeamManagerUserIds(t)
    <3>1. t \in listTeamIdsVisibleByMembership(u)
      BY <2>1 DEF listTeamIdsVisibleByMembership, hasAnyTeamRole,
         listDirectTeamManagerUserIds
    <3>. QED
      BY <1>2, <3>1
  <2>2. CASE u \in listOrganizationTeamManagerUserIdsForTeam(t)
    <3>1. PICK o \in getOrganizationIdForTeam(t) :
             u \in usersOrganizationsOrganizationRoles[o]["OTM"]
      BY <2>2 DEF listOrganizationTeamManagerUserIdsForTeam
    <3>2. o \in Organizations /\ t \in organizationsTeams[o]
      BY DEF getOrganizationIdForTeam
    <3>3. o \in listOrganizationIdsVisibleByMembership(u)
      BY <1>1, <3>1, <3>2 DEF hasAnyOrganizationRole
    <3>4. t \in listTeamIdsVisibleByMembership(u)
      BY <3>2, <3>3 DEF listTeamIdsVisibleByMembership
    <3>. QED
      BY <1>2, <3>4
  <2>. QED
    BY <1>2, <2>1, <2>2 DEF listEffectiveTeamManagerUserIds
<1>3. ASSUME NEW u \in users, NEW p \in projects,
             u \in listDirectProjectOwnerUserIds(p)
      PROVE  hasEffectiveManagerAnywhere(u)
  <2>1. p \in listProjectIdsVisibleByMembership(u)
    BY <1>3 DEF listProjectIdsVisibleByMembership, hasAnyProjectRole,
       listDirectProjectOwnerUserIds
  <2>. QED
    BY <1>3, <2>1
<1>4. ASSUME NEW u \in users, NEW p \in projects,
             u \in listEffectiveProjectManagerUserIds(p)
      PROVE  hasEffectiveManagerAnywhere(u)
  <2>1. hasProjectAccess(p, u)
    BY <1>4 DEF hasProjectAccess
  <2>2. p \in listProjectIdsVisibleByMembership(u)
    BY <2>1, AccessImpliesListed DEF AccessibleProjectsAreListed
  <2>. QED
    BY <1>4, <2>2
<1>5. ASSUME NEW u \in users, NEW o \in organizations,
             hasOrganizationManagerRole(o, u)
      PROVE  hasEffectiveManagerAnywhere(u)
  <2>1. hasAnyOrganizationRole(o, u)
    BY <1>5 DEF hasOrganizationManagerRole, hasAnyOrganizationRole
  <2>2. o \in listOrganizationIdsVisibleByMembership(u)
    BY <1>1, <2>1
  <2>. QED
    BY <1>5, <2>2
<1>. HIDE DEF TypeOK, ProjectRole, TeamRole, OrganizationRole,
              hasEffectiveManagerAnywhere
<1>. QED
  BY <1>2, <1>3, <1>4, <1>5 DEF ManagersAnywhereAreRecognised

\* Every owner and every effective manager has the right to the upload pool.
THEOREM ManagersAreRecognised == Spec => []ManagersAnywhereAreRecognised
BY TypeCorrect, ManagersSeeWhatTheyManage, PTL
-----------------------------------------------------------------------------
(***************************************************************************)
(* Deleting a user.  The affected projects and teams that users.service    *)
(* collects are all those the user manages, but for a project that only an *)
(* organization's direct link brings under the user.                       *)
(***************************************************************************)
LEMMA ManagedTeamsAreCollected ==
  ASSUME TypeOK, NEW u \in Users, NEW t \in Teams,
         u \in listEffectiveTeamManagerUserIds(t)
  PROVE  t \in listManagedTeamIds(u)
<1>1. CASE u \in listDirectTeamManagerUserIds(t)
  BY <1>1 DEF listManagedTeamIds, listTeamIdsWithRole, hasAnyTeamRole,
              listDirectTeamManagerUserIds, TeamRole
<1>2. CASE u \in listOrganizationTeamManagerUserIdsForTeam(t)
  BY <1>2 DEF listManagedTeamIds, listOrganizationIdsForUser,
              hasAnyOrganizationRole, OrganizationRole, getOrganizationIdForTeam,
              listOrganizationTeamManagerUserIdsForTeam
<1>. QED
  BY <1>1, <1>2 DEF listEffectiveTeamManagerUserIds

\* Deletion looks at every project the user manages, unless an organization is
\* linked to it directly.
LEMMA ManagedProjectsAreAffected ==
  ASSUME TypeOK, NEW u \in Users, NEW p \in Projects,
         \A o \in Organizations : p \notin projectsOrganizations[o],
         u \in listEffectiveProjectManagerUserIds(p)
  PROVE  p \in listAffectedProjectIds(u)
<1>1. CASE u \in listDirectProjectManagerUserIds(p)
  BY <1>1 DEF listAffectedProjectIds, hasAnyProjectRole, ProjectRole,
              listDirectProjectManagerUserIds
<1>2. projectsTeams[p] \subseteq Teams
  BY DEF TypeOK
<1>3. ASSUME NEW t \in projectsTeams[p], t \in listProjectManagerTeamIds(u)
      PROVE  p \in listAffectedProjectIds(u)
  BY <1>2, <1>3 DEF listAffectedProjectIds, listProjectIdsForTeam
<1>4. CASE u \in listIndirectProjectManagerUserIds(p)
  <2>1. PICK t \in projectsTeams[p] : u \in usersTeamsTeamRoles[t]["TPM"]
    BY <1>4 DEF listIndirectProjectManagerUserIds
  <2>2. t \in listProjectManagerTeamIds(u)
    BY <1>2, <2>1 DEF listProjectManagerTeamIds, listTeamIdsWithRole,
          hasAnyTeamRole, TeamRole, hasEffectiveProjectManagerViaTeam,
          listTeamProjectManagerUserIds
  <2>. QED
    BY <1>3, <2>2
<1>5. CASE u \in listOrganizationProjectManagerUserIdsForProject(p)
  <2>1. PICK o \in listOrganizationIdsForProject(p) :
           u \in usersOrganizationsOrganizationRoles[o]["OPM"]
    BY <1>5 DEF listOrganizationProjectManagerUserIdsForProject
  <2>2. PICK t \in projectsTeams[p] : t \in organizationsTeams[o]
    BY <2>1 DEF listOrganizationIdsForProject
  <2>3. o \in listOrganizationIdsForUser(u)
    BY <2>1 DEF listOrganizationIdsForUser, hasAnyOrganizationRole,
          OrganizationRole, listOrganizationIdsForProject
  <2>4. p \in listProjectIdsForTeam(t)
    BY <2>2 DEF listProjectIdsForTeam
  <2>5. p \in listProjectIdsForOrganization(o)
    BY <2>1 DEF listProjectIdsForOrganization
  <2>6. t \in listOrganizationProjectManagerTeamIds(u)
    BY <2>2, <2>3, <2>4, <2>5 DEF listOrganizationProjectManagerTeamIds
  <2>7. hasEffectiveProjectManagerViaTeam(u, t)
    BY <1>5, <2>4 DEF hasEffectiveProjectManagerViaTeam
  <2>8. t \in listProjectManagerTeamIds(u)
    BY <2>6, <2>7 DEF listProjectManagerTeamIds
  <2>. QED
    BY <1>3, <2>8
<1>. QED
  BY <1>1, <1>4, <1>5 DEF listEffectiveProjectManagerUserIds

\* The deletion of a user takes that user, and nobody else, from the managers.
LEMMA DeletedUserLeavesOthers ==
  ASSUME TypeOK, NEW a \in users, NEW u \in users, DeleteUser(a, u)
  PROVE  /\ \A t \in Teams :
               listEffectiveTeamManagerUserIds(t)'
                 = listEffectiveTeamManagerUserIds(t) \ {u}
         /\ \A p \in Projects :
               listEffectiveProjectManagerUserIds(p)'
                 = listEffectiveProjectManagerUserIds(p) \ {u}
<1>. USE DEF TypeOK, DeleteUser, ProjectRole, TeamRole, OrganizationRole
<1>1. ASSUME NEW t \in Teams
      PROVE  listEffectiveTeamManagerUserIds(t)'
               = listEffectiveTeamManagerUserIds(t) \ {u}
  BY DEF listEffectiveTeamManagerUserIds, listDirectTeamManagerUserIds,
         listOrganizationTeamManagerUserIdsForTeam, getOrganizationIdForTeam
<1>2. ASSUME NEW p \in Projects
      PROVE  listEffectiveProjectManagerUserIds(p)'
               = listEffectiveProjectManagerUserIds(p) \ {u}
  <2>1. listDirectProjectManagerUserIds(p)'
          = listDirectProjectManagerUserIds(p) \ {u}
    BY DEF listDirectProjectManagerUserIds
  <2>2. listIndirectProjectManagerUserIds(p)'
          = listIndirectProjectManagerUserIds(p) \ {u}
    <3>1. projectsTeams'[p] = projectsTeams[p]
      OBVIOUS
    <3>2. \A t \in projectsTeams[p] :
             usersTeamsTeamRoles'[t]["TPM"] \cap teamsUsers'[t]
               = (usersTeamsTeamRoles[t]["TPM"] \cap teamsUsers[t]) \ {u}
      OBVIOUS
    <3>. HIDE DEF TypeOK, DeleteUser
    <3>. QED
      BY <3>1, <3>2 DEF listIndirectProjectManagerUserIds
  <2>3. listOrganizationProjectManagerUserIdsForProject(p)'
          = listOrganizationProjectManagerUserIdsForProject(p) \ {u}
    BY DEF listOrganizationProjectManagerUserIdsForProject,
           listOrganizationIdsForProject
  <2>. QED
    BY <2>1, <2>2, <2>3 DEF listEffectiveProjectManagerUserIds
<1>. QED
  BY <1>1, <1>2

\* Deleting a user leaves every team a manager, and every project that no
\* organization is directly linked to.
THEOREM UserDeletionIsCovered == Spec => UserDeletionKeepsManagers
<1>. DEFINE Covered ==
        ~ users \subseteq users' =>
          /\ \A t \in teams : HasTeamManager(t) => HasTeamManager(t)'
          /\ \A p \in projects :
                (\A o \in Organizations : p \notin projectsOrganizations[o])
                  => (HasProjectManager(p) => HasProjectManager(p)')
<1>1. ASSUME TypeOK, [Next]_vars
      PROVE  [Covered]_vars
  <2>1. ASSUME NEW a \in users, NEW u \in users, DeleteUser(a, u)
        PROVE  Covered
    <3>1. u \in Users /\ teams \subseteq Teams /\ projects \subseteq Projects
      BY <1>1 DEF TypeOK
    <3>2. ASSUME NEW t \in teams, HasTeamManager(t)
          PROVE  HasTeamManager(t)'
      <4>1. listEffectiveTeamManagerUserIds(t) \ {u} # {}
        BY <1>1, <2>1, <3>1, <3>2, ManagedTeamsAreCollected
        DEF HasTeamManager, DeleteUser, preservesTeamManagers
      <4>. QED
        BY <1>1, <2>1, <3>1, <4>1, DeletedUserLeavesOthers DEF HasTeamManager
    <3>3. ASSUME NEW p \in projects, HasProjectManager(p),
                 \A o \in Organizations : p \notin projectsOrganizations[o]
          PROVE  HasProjectManager(p)'
      <4>1. listEffectiveProjectManagerUserIds(p) \ {u} # {}
        BY <1>1, <2>1, <3>1, <3>3, ManagedProjectsAreAffected
        DEF HasProjectManager, DeleteUser, preservesProjectManagers
      <4>. QED
        BY <1>1, <2>1, <3>1, <4>1, DeletedUserLeavesOthers
        DEF HasProjectManager
    <3>. QED
      BY <3>2, <3>3
  <2>2. ASSUME NEW a \in users, ProjectHandlers(a)
        PROVE  users' = users
    BY <2>2 DEF ProjectHandlers, CreateProject, ReplaceProjectMembers,
          GrantProjectRole, RevokeProjectRole, DeleteProject,
          AssociateProjectTeam, AssociateProjectOrganization, userVars
  <2>3. ASSUME NEW a \in users, TeamHandlers(a)
        PROVE  users' = users
    BY <2>3 DEF TeamHandlers, CreateTeam, ReplaceTeamMembers, GrantTeamRole,
          RevokeTeamRole, DeleteTeam, userVars
  <2>4. ASSUME NEW a \in users, OrganizationHandlers(a)
        PROVE  users' = users
    BY <2>4 DEF OrganizationHandlers, CreateOrganization,
          ReplaceOrganizationUsers, ReplaceOrganizationProjects, AssignTeam,
          UnassignTeam, GrantOrganizationRole, RevokeOrganizationRole,
          DeleteOrganization, userVars
  <2>5. ASSUME NEW u \in Users, Register(u)
        PROVE  users \subseteq users'
    BY <2>5 DEF Register
  <2>. QED
    BY <1>1, <2>1, <2>2, <2>3, <2>4, <2>5 DEF Next
<1>2. Spec => []TypeOK
  BY TypeCorrect
<1>. QED
  BY <1>1, <1>2, PTL DEF Spec, UserDeletionKeepsManagers
-----------------------------------------------------------------------------
(***************************************************************************)
(* Deleting an organization.  It has no team left, so the projects whose   *)
(* managers it provides are those it is directly linked to, and the        *)
(* handler computes for each what will remain.                             *)
(***************************************************************************)
LEMMA OnlyDeleteOrganizationShrinksOrganizations ==
  ASSUME [Next]_vars, ~ organizations \subseteq organizations'
  PROVE  \E a \in users, o \in Organizations : DeleteOrganization(a, o)
<1>. USE DEF userVars, projectVars, teamVars, organizationVars
<1>1. ASSUME NEW a \in users, ProjectHandlers(a)
      PROVE  organizations' = organizations
  BY <1>1 DEF ProjectHandlers, CreateProject, ReplaceProjectMembers,
        GrantProjectRole, RevokeProjectRole, DeleteProject,
        AssociateProjectTeam, AssociateProjectOrganization
<1>2. ASSUME NEW a \in users, TeamHandlers(a)
      PROVE  organizations' = organizations
  BY <1>2 DEF TeamHandlers, CreateTeam, ReplaceTeamMembers, GrantTeamRole,
        RevokeTeamRole, DeleteTeam
<1>3. ASSUME NEW a \in users, OrganizationHandlers(a)
      PROVE  \E o \in Organizations : DeleteOrganization(a, o)
  BY <1>3 DEF OrganizationHandlers, CreateOrganization,
        ReplaceOrganizationUsers, ReplaceOrganizationProjects, AssignTeam,
        UnassignTeam, GrantOrganizationRole, RevokeOrganizationRole
<1>4. ASSUME NEW a \in users, NEW u \in users, DeleteUser(a, u)
      PROVE  organizations' = organizations
  BY <1>4 DEF DeleteUser
<1>5. CASE \/ UNCHANGED vars
           \/ \E u \in Users : Register(u)
  BY <1>5 DEF vars, Register
<1>. QED
  BY <1>1, <1>2, <1>3, <1>4, <1>5 DEF Next

\* The managers left after the deletion of an organization are those its guard
\* computed.
LEMMA DeletedOrganizationLeavesRemaining ==
  ASSUME TypeOK, NEW a \in users, NEW o \in Organizations,
         DeleteOrganization(a, o)
  PROVE  /\ \A t \in Teams :
               listEffectiveTeamManagerUserIds(t)'
                 = listEffectiveTeamManagerUserIds(t)
         /\ \A p \in Projects :
               listEffectiveProjectManagerUserIds(p)' =
                 listRemainingProjectManagerUserIdsAfterOrganizationDelete(o, p)
<1>0. organizationsTeams[o] = {}
  BY DEF DeleteOrganization, organizationDeletionPreservesCoverage,
         listTeamIdsForOrganization
<1>. USE <1>0 DEF TypeOK, DeleteOrganization, userVars, projectVars, teamVars,
                  OrganizationRole
<1>1. ASSUME NEW t \in Teams
      PROVE  listEffectiveTeamManagerUserIds(t)'
               = listEffectiveTeamManagerUserIds(t)
  <2>1. getOrganizationIdForTeam(t)' = getOrganizationIdForTeam(t)
    BY DEF getOrganizationIdForTeam
  <2>2. \A c \in getOrganizationIdForTeam(t) :
           usersOrganizationsOrganizationRoles'[c]["OTM"]
             = usersOrganizationsOrganizationRoles[c]["OTM"]
    BY DEF getOrganizationIdForTeam
  <2>3. listDirectTeamManagerUserIds(t)' = listDirectTeamManagerUserIds(t)
    BY DEF listDirectTeamManagerUserIds
  <2>. HIDE DEF TypeOK, DeleteOrganization
  <2>. QED
    BY <2>1, <2>2, <2>3 DEF listEffectiveTeamManagerUserIds,
       listOrganizationTeamManagerUserIdsForTeam
<1>2. ASSUME NEW p \in Projects
      PROVE  listEffectiveProjectManagerUserIds(p)' =
               listRemainingProjectManagerUserIdsAfterOrganizationDelete(o, p)
  <2>1. listOrganizationIdsForProject(p)'
          = listOrganizationIdsForProject(p) \ {o}
    BY DEF listOrganizationIdsForProject
  <2>2. \A c \in listOrganizationIdsForProject(p) \ {o} :
           usersOrganizationsOrganizationRoles'[c]["OPM"]
             = usersOrganizationsOrganizationRoles[c]["OPM"]
    BY DEF listOrganizationIdsForProject
  <2>3. /\ listDirectProjectManagerUserIds(p)'
             = listDirectProjectManagerUserIds(p)
        /\ listIndirectProjectManagerUserIds(p)'
             = listIndirectProjectManagerUserIds(p)
    BY DEF listDirectProjectManagerUserIds, listIndirectProjectManagerUserIds
  <2>. HIDE DEF TypeOK, DeleteOrganization
  <2>. QED
    BY <2>1, <2>2, <2>3 DEF listEffectiveProjectManagerUserIds,
       listOrganizationProjectManagerUserIdsForProject,
       listRemainingProjectManagerUserIdsAfterOrganizationDelete
<1>. QED
  BY <1>1, <1>2

\* Deleting an organization leaves every project and every team that had a
\* manager with one.
THEOREM OrganizationDeletionIsCovered ==
  Spec => OrganizationDeletionKeepsManagers
<1>. DEFINE Covered ==
        ~ organizations \subseteq organizations' =>
          /\ \A p \in projects : HasProjectManager(p) => HasProjectManager(p)'
          /\ \A t \in teams : HasTeamManager(t) => HasTeamManager(t)'
<1>1. ASSUME TypeOK, [Next]_vars
      PROVE  [Covered]_vars
  <2>. SUFFICES ASSUME ~ organizations \subseteq organizations'
                PROVE  Covered
    OBVIOUS
  <2>1. PICK a \in users, o \in Organizations : DeleteOrganization(a, o)
    BY <1>1, OnlyDeleteOrganizationShrinksOrganizations
  <2>2. teams \subseteq Teams /\ projects \subseteq Projects
    BY <1>1 DEF TypeOK
  <2>3. ASSUME NEW t \in teams, HasTeamManager(t)
        PROVE  HasTeamManager(t)'
    BY <1>1, <2>1, <2>2, <2>3, DeletedOrganizationLeavesRemaining
    DEF HasTeamManager
  <2>4. ASSUME NEW p \in projects, HasProjectManager(p)
        PROVE  HasProjectManager(p)'
    <3>1. organizationsTeams[o] = {}
      BY <2>1 DEF DeleteOrganization, organizationDeletionPreservesCoverage,
                  listTeamIdsForOrganization
    <3>2. listRemainingProjectManagerUserIdsAfterOrganizationDelete(o, p) # {}
      <4>1. CASE p \in projectsOrganizations[o]
        BY <2>1, <4>1
        DEF DeleteOrganization, organizationDeletionPreservesCoverage
      <4>2. CASE p \notin projectsOrganizations[o]
        <5>1. o \notin listOrganizationIdsForProject(p)
          BY <3>1, <4>2 DEF listOrganizationIdsForProject
        <5>. QED
          BY <2>4, <5>1
          DEF HasProjectManager, listEffectiveProjectManagerUserIds,
              listOrganizationProjectManagerUserIdsForProject,
              listRemainingProjectManagerUserIdsAfterOrganizationDelete
      <4>. QED
        BY <4>1, <4>2
    <3>. QED
      BY <1>1, <2>1, <2>2, <3>2, DeletedOrganizationLeavesRemaining
      DEF HasProjectManager
  <2>. QED
    BY <2>3, <2>4
<1>2. Spec => []TypeOK
  BY TypeCorrect
<1>. QED
  BY <1>1, <1>2, PTL DEF Spec, OrganizationDeletionKeepsManagers
-----------------------------------------------------------------------------
(***************************************************************************)
(* The project routes.  Only the members and the roles of one project      *)
(* change; its indirect managers and those of its organizations stay.      *)
(***************************************************************************)
LEMMA IndirectManagersUnchanged ==
  ASSUME NEW p \in Projects,
         UNCHANGED <<projectsTeams, teamVars, organizationVars>>
  PROVE  /\ listIndirectProjectManagerUserIds(p)'
              = listIndirectProjectManagerUserIds(p)
         /\ listOrganizationProjectManagerUserIdsForProject(p)'
              = listOrganizationProjectManagerUserIdsForProject(p)
BY DEF teamVars, organizationVars, listIndirectProjectManagerUserIds,
       listOrganizationProjectManagerUserIdsForProject,
       listOrganizationIdsForProject

\* A project with a manager has one after every request on a project.
LEMMA ProjectHandlersKeepManagers ==
  ASSUME TypeOK, NEW a \in users, ProjectHandlers(a),
         UNCHANGED organizationVars,
         NEW q \in projects \cap projects', HasProjectManager(q)
  PROVE  HasProjectManager(q)'
<1>. USE DEF HasProjectManager, listEffectiveProjectManagerUserIds,
             listDirectProjectManagerUserIds, ProjectRole, TypeOK
<1>1. ASSUME NEW p \in Projects, CreateProject(a, p)
      PROVE  HasProjectManager(q)'
  BY <1>1, IndirectManagersUnchanged DEF CreateProject
<1>2. ASSUME NEW p \in Projects, NEW members \in SUBSET users,
             NEW roles \in [ProjectRole -> SUBSET members],
             ReplaceProjectMembers(a, p, members, roles)
      PROVE  HasProjectManager(q)'
  BY <1>2, IndirectManagersUnchanged
  DEF ReplaceProjectMembers, retainsManagerAfterMembershipReplace
<1>3. ASSUME NEW p \in Projects, NEW u \in users,
             NEW role \in ProjectRole, GrantProjectRole(a, p, u, role)
      PROVE  HasProjectManager(q)'
  BY <1>3, IndirectManagersUnchanged DEF GrantProjectRole
<1>4. ASSUME NEW p \in Projects, NEW u \in users,
             NEW role \in ProjectRole, RevokeProjectRole(a, p, u, role)
      PROVE  HasProjectManager(q)'
  BY <1>4, IndirectManagersUnchanged
  DEF RevokeProjectRole, retainsManagerAfterRoleRevocation
<1>5. ASSUME NEW p \in Projects, DeleteProject(a, p)
      PROVE  HasProjectManager(q)'
  <2>1. q # p /\ q \in Projects
    BY <1>5 DEF DeleteProject
  <2>2. /\ listIndirectProjectManagerUserIds(q)'
             = listIndirectProjectManagerUserIds(q)
        /\ listOrganizationProjectManagerUserIdsForProject(q)'
             = listOrganizationProjectManagerUserIdsForProject(q)
    BY <1>5, <2>1 DEF DeleteProject, teamVars, organizationVars,
       listIndirectProjectManagerUserIds, listOrganizationIdsForProject,
       listOrganizationProjectManagerUserIdsForProject
  <2>. QED
    BY <1>5, <2>1, <2>2 DEF DeleteProject
<1>6. ASSUME NEW p \in Projects, NEW t \in Teams, AssociateProjectTeam(a, p, t)
      PROVE  HasProjectManager(q)'
  <2>1. /\ listIndirectProjectManagerUserIds(q)
             \subseteq listIndirectProjectManagerUserIds(q)'
        /\ listOrganizationProjectManagerUserIdsForProject(q)
             \subseteq listOrganizationProjectManagerUserIdsForProject(q)'
    BY <1>6 DEF AssociateProjectTeam, teamVars, organizationVars,
       listIndirectProjectManagerUserIds, listOrganizationIdsForProject,
       listOrganizationProjectManagerUserIdsForProject
  <2>. QED
    BY <1>6, <2>1 DEF AssociateProjectTeam
<1>7. ASSUME NEW p \in Projects, NEW o \in Organizations,
             AssociateProjectOrganization(a, p, o)
      PROVE  HasProjectManager(q)'
  BY <1>7, IndirectManagersUnchanged
  DEF AssociateProjectOrganization, projectVars
<1>. QED
  BY <1>1, <1>2, <1>3, <1>4, <1>5, <1>6, <1>7 DEF ProjectHandlers

\* Replacing a project's members or revoking one of its roles never takes the
\* last effective manager away.
THEOREM ProjectStepsAreCovered == Spec => ProjectStepsKeepManagers
<1>. DEFINE Covered ==
        UNCHANGED <<userVars, teamVars, organizationVars>> =>
          \A p \in projects \cap projects' :
              HasProjectManager(p) => HasProjectManager(p)'
<1>1. ASSUME TypeOK, [Next]_vars
      PROVE  [Covered]_vars
  <2>. SUFFICES ASSUME UNCHANGED <<userVars, teamVars, organizationVars>>,
                       NEW p \in projects \cap projects',
                       HasProjectManager(p)
                PROVE  HasProjectManager(p)'
    OBVIOUS
  <2>1. p \in Projects
    BY <1>1 DEF TypeOK
  <2>2. ASSUME NEW a \in users, ProjectHandlers(a)
        PROVE  HasProjectManager(p)'
    BY <1>1, <2>2, ProjectHandlersKeepManagers
  <2>3. CASE UNCHANGED projectVars
    BY <2>1, <2>3, IndirectManagersUnchanged
    DEF projectVars, HasProjectManager, listEffectiveProjectManagerUserIds,
        listDirectProjectManagerUserIds
  <2>4. ASSUME NEW a \in users, TeamHandlers(a)
        PROVE  UNCHANGED projectVars
    BY <2>4 DEF TeamHandlers, CreateTeam, ReplaceTeamMembers, GrantTeamRole,
       RevokeTeamRole, DeleteTeam, teamVars
  <2>5. ASSUME NEW a \in users, OrganizationHandlers(a)
        PROVE  UNCHANGED projectVars
    BY <2>5 DEF OrganizationHandlers, CreateOrganization,
          ReplaceOrganizationUsers, ReplaceOrganizationProjects, AssignTeam,
          UnassignTeam, GrantOrganizationRole, RevokeOrganizationRole,
          DeleteOrganization
  <2>6. ASSUME NEW a \in users, NEW u \in users, DeleteUser(a, u)
        PROVE  FALSE
    BY <2>6 DEF DeleteUser, userVars
  <2>7. CASE UNCHANGED vars
    BY <2>3, <2>7 DEF vars
  <2>8. ASSUME NEW u \in Users, Register(u)
        PROVE  UNCHANGED projectVars
    BY <2>8 DEF Register
  <2>. QED
    BY <1>1, <2>2, <2>3, <2>4, <2>5, <2>6, <2>7, <2>8 DEF Next
<1>2. Spec => []TypeOK
  BY TypeCorrect
<1>. QED
  BY <1>1, <1>2, PTL DEF Spec, ProjectStepsKeepManagers

-----------------------------------------------------------------------------
(***************************************************************************)
(* The team routes.  The handlers count every holder of a team's project   *)
(* manager role; while all of them are members of their teams, access      *)
(* control counts the same users.                                          *)
(***************************************************************************)
LEMMA TeamHandlersKeepManagers ==
  ASSUME TypeOK, NEW a \in users, TeamHandlers(a),
         TeamProjectManagersAreMembers,
         NEW p \in projects, HasProjectManager(p)
  PROVE  HasProjectManager(p)'
<1>0. p \in Projects /\ projectsTeams[p] \subseteq Teams
  BY DEF TypeOK
<1>. USE <1>0 DEF HasProjectManager, listEffectiveProjectManagerUserIds,
                  userVars, projectVars, organizationVars
\* Only the rows of team t change, and its project managers are still members.
<1>1. ASSUME NEW t \in Teams,
             UNCHANGED <<projectVars, organizationVars>>,
             \A s \in Teams \ {t} :
                /\ teamsUsers'[s] = teamsUsers[s]
                /\ usersTeamsTeamRoles'[s] = usersTeamsTeamRoles[s],
             t \in projectsTeams[p] =>
                linkedProjectsRetainManagers(
                    t, usersTeamsTeamRoles'[t]["TPM"], FALSE),
             usersTeamsTeamRoles'[t]["TPM"] \subseteq teamsUsers'[t]
      PROVE  HasProjectManager(p)'
  <2>1. listDirectProjectManagerUserIds(p)'
          = listDirectProjectManagerUserIds(p)
    BY <1>1 DEF listDirectProjectManagerUserIds
  <2>2. listOrganizationProjectManagerUserIdsForProject(p)'
          = listOrganizationProjectManagerUserIdsForProject(p)
    BY <1>1 DEF listOrganizationProjectManagerUserIdsForProject,
       listOrganizationIdsForProject
  <2>3. CASE t \notin projectsTeams[p]
    <3>1. listIndirectProjectManagerUserIds(p)'
            = listIndirectProjectManagerUserIds(p)
      BY <1>1, <2>3 DEF listIndirectProjectManagerUserIds
    <3>. QED
      BY <2>1, <2>2, <3>1
  <2>4. CASE t \in projectsTeams[p]
    <3>1. listEffectiveManagerIdsForTeamChange(
              p, t, usersTeamsTeamRoles'[t]["TPM"], FALSE) # {}
      BY <1>1, <2>4 DEF linkedProjectsRetainManagers, listProjectIdsForTeam
    <3>2. listOrganizationProjectManagerIdsForTeamChange(p, t, FALSE)
            = listOrganizationProjectManagerUserIdsForProject(p)
      BY DEF listOrganizationProjectManagerIdsForTeamChange,
             listOrganizationProjectManagerUserIdsForProject,
             listOrganizationIdsForProject
    <3>3. usersTeamsTeamRoles'[t]["TPM"]
            \subseteq listIndirectProjectManagerUserIds(p)'
      BY <1>1, <2>4 DEF listIndirectProjectManagerUserIds
    <3>4. \A s \in projectsTeams[p] \ {t} :
             listTeamProjectManagerUserIds(s)
               \subseteq listIndirectProjectManagerUserIds(p)'
      BY <1>1 DEF listTeamProjectManagerUserIds,
         listIndirectProjectManagerUserIds, TeamProjectManagersAreMembers
    <3>. QED
      BY <2>1, <2>2, <3>1, <3>2, <3>3, <3>4
      DEF listEffectiveManagerIdsForTeamChange
  <2>. QED
    BY <2>3, <2>4
\* The rows of the teams only grow.
<1>2. ASSUME NEW t \in Teams,
             UNCHANGED <<projectVars, organizationVars>>,
             \A s \in Teams :
                /\ teamsUsers[s] \subseteq teamsUsers'[s]
                /\ usersTeamsTeamRoles[s]["TPM"]
                     \subseteq usersTeamsTeamRoles'[s]["TPM"]
      PROVE  HasProjectManager(p)'
  <2>1. listDirectProjectManagerUserIds(p)'
          = listDirectProjectManagerUserIds(p)
    BY <1>2 DEF listDirectProjectManagerUserIds
  <2>2. listOrganizationProjectManagerUserIdsForProject(p)'
          = listOrganizationProjectManagerUserIdsForProject(p)
    BY <1>2 DEF listOrganizationProjectManagerUserIdsForProject,
       listOrganizationIdsForProject
  <2>3. listIndirectProjectManagerUserIds(p)
          \subseteq listIndirectProjectManagerUserIds(p)'
    BY <1>2 DEF listIndirectProjectManagerUserIds
  <2>. QED
    BY <2>1, <2>2, <2>3
<1>3. ASSUME NEW t \in Teams, CreateTeam(a, t)
      PROVE  HasProjectManager(p)'
  <2>1. \A s \in Teams :
          /\ teamsUsers[s] \subseteq teamsUsers'[s]
          /\ usersTeamsTeamRoles[s]["TPM"]
               \subseteq usersTeamsTeamRoles'[s]["TPM"]
    BY <1>3 DEF CreateTeam, TypeOK, TeamRole
  <2>. QED
    BY <1>2, <1>3, <2>1 DEF CreateTeam
<1>4. ASSUME NEW t \in Teams, NEW members \in SUBSET users,
             NEW roles \in [TeamRole -> SUBSET members],
             ReplaceTeamMembers(a, t, members, roles)
      PROVE  HasProjectManager(p)'
  <2>1. /\ \A s \in Teams \ {t} :
              /\ teamsUsers'[s] = teamsUsers[s]
              /\ usersTeamsTeamRoles'[s] = usersTeamsTeamRoles[s]
        /\ usersTeamsTeamRoles'[t] = roles
        /\ teamsUsers'[t] = members
    BY <1>4 DEF ReplaceTeamMembers, TypeOK
  <2>2. roles["TPM"] \subseteq members
    BY DEF TeamRole
  <2>. QED
    BY <1>1, <1>4, <2>1, <2>2 DEF ReplaceTeamMembers
<1>5. ASSUME NEW t \in Teams, NEW u \in users, NEW role \in TeamRole,
             GrantTeamRole(a, t, u, role)
      PROVE  HasProjectManager(p)'
  <2>1. \A s \in Teams :
          /\ teamsUsers[s] \subseteq teamsUsers'[s]
          /\ usersTeamsTeamRoles[s]["TPM"]
               \subseteq usersTeamsTeamRoles'[s]["TPM"]
    BY <1>5 DEF GrantTeamRole, TypeOK, TeamRole
  <2>. QED
    BY <1>2, <1>5, <2>1 DEF GrantTeamRole
<1>6. ASSUME NEW t \in Teams, NEW u \in users,
             RevokeTeamRole(a, t, u, "TM")
      PROVE  HasProjectManager(p)'
  <2>1. \A s \in Teams :
          /\ teamsUsers[s] \subseteq teamsUsers'[s]
          /\ usersTeamsTeamRoles[s]["TPM"]
               \subseteq usersTeamsTeamRoles'[s]["TPM"]
    BY <1>6 DEF RevokeTeamRole, TypeOK, TeamRole
  <2>. QED
    BY <1>2, <1>6, <2>1 DEF RevokeTeamRole
<1>7. ASSUME NEW t \in Teams, NEW u \in users,
             RevokeTeamRole(a, t, u, "TPM")
      PROVE  HasProjectManager(p)'
  <2>1. /\ \A s \in Teams \ {t} :
              /\ teamsUsers'[s] = teamsUsers[s]
              /\ usersTeamsTeamRoles'[s] = usersTeamsTeamRoles[s]
        /\ usersTeamsTeamRoles'[t]["TPM"]
             = listTeamProjectManagerUserIds(t) \ {u}
        /\ teamsUsers'[t] = teamsUsers[t]
    BY <1>7 DEF RevokeTeamRole, TypeOK, TeamRole, listTeamProjectManagerUserIds
  <2>2. usersTeamsTeamRoles'[t]["TPM"] \subseteq teamsUsers'[t]
    BY <2>1 DEF TeamProjectManagersAreMembers
  <2>3. linkedProjectsRetainManagers(t, usersTeamsTeamRoles'[t]["TPM"], FALSE)
    BY <1>7, <2>1
    DEF RevokeTeamRole, linkedProjectsRetainManagersAfterRoleRevoke
  <2>. QED
    BY <1>1, <1>7, <2>1, <2>2, <2>3 DEF RevokeTeamRole
<1>8. ASSUME NEW t \in Teams, DeleteTeam(a, t)
      PROVE  HasProjectManager(p)'
  <2>. USE <1>8 DEF DeleteTeam, TypeOK
  <2>1. listDirectProjectManagerUserIds(p)'
          = listDirectProjectManagerUserIds(p)
    BY DEF listDirectProjectManagerUserIds
  <2>2. /\ projectsTeams'[p] = projectsTeams[p] \ {t}
        /\ \A s \in Teams \ {t} :
              /\ teamsUsers'[s] = teamsUsers[s]
              /\ usersTeamsTeamRoles'[s] = usersTeamsTeamRoles[s]
        /\ \A o \in Organizations :
              organizationsTeams'[o] = organizationsTeams[o] \ {t}
        /\ usersOrganizationsOrganizationRoles'
             = usersOrganizationsOrganizationRoles
        /\ projectsOrganizations' = projectsOrganizations
    OBVIOUS
  <2>3. linkedProjectsRetainManagers(t, {}, TRUE)
    OBVIOUS
  <2>. HIDE <1>8 DEF DeleteTeam, TypeOK
  <2>4. listOrganizationIdsForProject(p)'
          = {c \in Organizations :
               \/ p \in projectsOrganizations[c]
               \/ {s \in projectsTeams[p] : s # t} \cap organizationsTeams[c]
                    # {}}
    BY <2>2 DEF listOrganizationIdsForProject
  <2>5. listOrganizationProjectManagerUserIdsForProject(p)'
          = listOrganizationProjectManagerIdsForTeamChange(p, t, TRUE)
    BY <2>2, <2>4 DEF listOrganizationProjectManagerUserIdsForProject,
       listOrganizationProjectManagerIdsForTeamChange
  <2>6. listIndirectProjectManagerUserIds(p)'
          = UNION {listTeamProjectManagerUserIds(s) :
                   s \in projectsTeams[p] \ {t}}
    <3>1. \A s \in projectsTeams[p] \ {t} :
             usersTeamsTeamRoles'[s]["TPM"] \cap teamsUsers'[s]
               = listTeamProjectManagerUserIds(s)
      BY <2>2 DEF TeamProjectManagersAreMembers, listTeamProjectManagerUserIds
    <3>. QED
      BY <2>2, <3>1 DEF listIndirectProjectManagerUserIds
  <2>7. CASE t \in projectsTeams[p]
    <3>1. listEffectiveManagerIdsForTeamChange(p, t, {}, TRUE) # {}
      BY <2>3, <2>7 DEF linkedProjectsRetainManagers, listProjectIdsForTeam
    <3>. QED
      BY <2>1, <2>5, <2>6, <3>1 DEF listEffectiveManagerIdsForTeamChange
  <2>8. CASE t \notin projectsTeams[p]
    <3>1. listOrganizationProjectManagerUserIdsForProject(p)'
            = listOrganizationProjectManagerUserIdsForProject(p)
      BY <2>2, <2>4, <2>8 DEF listOrganizationProjectManagerUserIdsForProject,
         listOrganizationIdsForProject
    <3>2. listIndirectProjectManagerUserIds(p)'
            = listIndirectProjectManagerUserIds(p)
      BY <2>2, <2>8 DEF listIndirectProjectManagerUserIds
    <3>. QED
      BY <2>1, <3>1, <3>2
  <2>. QED
    BY <2>7, <2>8
<1>. QED
  BY <1>3, <1>4, <1>5, <1>6, <1>7, <1>8 DEF TeamHandlers, TeamRole

\* A change of a team leaves every linked project an effective manager, as
\* long as the project managers of the teams are members of them.
THEOREM TeamStepsAreCovered == Spec => TeamStepsKeepManagers
<1>. DEFINE Covered ==
        teamVars' # teamVars /\ users' = users /\ TeamProjectManagersAreMembers
          => \A p \in projects : HasProjectManager(p) => HasProjectManager(p)'
<1>1. ASSUME TypeOK, [Next]_vars
      PROVE  [Covered]_vars
  <2>. SUFFICES ASSUME teamVars' # teamVars, users' = users,
                       TeamProjectManagersAreMembers,
                       NEW p \in projects, HasProjectManager(p)
                PROVE  HasProjectManager(p)'
    OBVIOUS
  <2>1. ASSUME NEW a \in users, TeamHandlers(a)
        PROVE  HasProjectManager(p)'
    BY <1>1, <2>1, TeamHandlersKeepManagers
  <2>2. ASSUME NEW a \in users, ProjectHandlers(a)
        PROVE  FALSE
    BY <2>2 DEF ProjectHandlers, CreateProject, ReplaceProjectMembers,
          GrantProjectRole, RevokeProjectRole, DeleteProject,
          AssociateProjectTeam, AssociateProjectOrganization
  <2>3. ASSUME NEW a \in users, OrganizationHandlers(a)
        PROVE  FALSE
    BY <2>3 DEF OrganizationHandlers, CreateOrganization,
          ReplaceOrganizationUsers, ReplaceOrganizationProjects, AssignTeam,
          UnassignTeam, GrantOrganizationRole, RevokeOrganizationRole,
          DeleteOrganization
  <2>4. ASSUME NEW a \in users, NEW u \in users, DeleteUser(a, u)
        PROVE  FALSE
    BY <2>4 DEF DeleteUser
  <2>5. CASE \/ UNCHANGED vars
             \/ \E u \in Users : Register(u)
    BY <2>5 DEF vars, Register
  <2>. QED
    BY <1>1, <2>1, <2>2, <2>3, <2>4, <2>5 DEF Next
<1>2. Spec => []TypeOK
  BY TypeCorrect
<1>. QED
  BY <1>1, <1>2, PTL DEF Spec, TeamStepsKeepManagers
-----------------------------------------------------------------------------
(***************************************************************************)
(* The managers of a team t, handler group by handler group.  Whoever      *)
(* takes the last one away must be the organization of the team.           *)
(***************************************************************************)
LEMMA TeamHandlersKeepTeamManagers ==
  ASSUME TypeOK, NEW a \in users, TeamHandlers(a),
         NEW t \in teams \cap teams', HasTeamManager(t)
  PROVE  HasTeamManager(t)'
<1>0. t \in Teams
  BY DEF TypeOK
<1>. USE <1>0 DEF HasTeamManager, listEffectiveTeamManagerUserIds,
                  listDirectTeamManagerUserIds, TypeOK, TeamRole
<1>1. ASSUME UNCHANGED organizationVars
      PROVE  listOrganizationTeamManagerUserIdsForTeam(t)'
               = listOrganizationTeamManagerUserIdsForTeam(t)
  BY <1>1 DEF organizationVars, listOrganizationTeamManagerUserIdsForTeam,
              getOrganizationIdForTeam
<1>2. ASSUME NEW s \in Teams, CreateTeam(a, s)
      PROVE  HasTeamManager(t)'
  BY <1>1, <1>2 DEF CreateTeam
<1>3. ASSUME NEW s \in Teams, NEW members \in SUBSET users,
             NEW roles \in [TeamRole -> SUBSET members],
             ReplaceTeamMembers(a, s, members, roles)
      PROVE  HasTeamManager(t)'
  BY <1>1, <1>3
  DEF ReplaceTeamMembers, retainsTeamManagerAfterMembershipReplace
<1>4. ASSUME NEW s \in Teams, NEW u \in users, NEW role \in TeamRole,
             GrantTeamRole(a, s, u, role)
      PROVE  HasTeamManager(t)'
  BY <1>1, <1>4 DEF GrantTeamRole
<1>5. ASSUME NEW s \in Teams, NEW u \in users, NEW role \in TeamRole,
             RevokeTeamRole(a, s, u, role)
      PROVE  HasTeamManager(t)'
  BY <1>1, <1>5 DEF RevokeTeamRole, retainsTeamManagerAfterRoleRevoke
<1>6. ASSUME NEW s \in Teams, DeleteTeam(a, s)
      PROVE  HasTeamManager(t)'
  <2>1. s # t
    BY <1>6 DEF DeleteTeam
  <2>2. listOrganizationTeamManagerUserIdsForTeam(t)'
          = listOrganizationTeamManagerUserIdsForTeam(t)
    BY <1>6, <2>1 DEF DeleteTeam, listOrganizationTeamManagerUserIdsForTeam,
       getOrganizationIdForTeam
  <2>. QED
    BY <1>6, <2>1, <2>2 DEF DeleteTeam
<1>. QED
  BY <1>2, <1>3, <1>4, <1>5, <1>6 DEF TeamHandlers

\* A request on an organization that costs a team its last manager revokes an
\* organization's team manager role.
LEMMA OrganizationHandlersAndTeamManagers ==
  ASSUME TypeOK, NEW a \in users, OrganizationHandlers(a),
         NEW t \in teams, HasTeamManager(t), ~ HasTeamManager(t)'
  PROVE  /\ users' = users
         /\ \E o \in getOrganizationIdForTeam(t) :
              ~ usersOrganizationsOrganizationRoles[o]["OTM"]
                  \subseteq usersOrganizationsOrganizationRoles'[o]["OTM"]
<1>1. UNCHANGED <<users, teamVars>>
  BY DEF OrganizationHandlers, CreateOrganization, ReplaceOrganizationUsers,
     ReplaceOrganizationProjects, AssignTeam, UnassignTeam,
     GrantOrganizationRole, RevokeOrganizationRole, DeleteOrganization,
     userVars
<1>2. listDirectTeamManagerUserIds(t)' = listDirectTeamManagerUserIds(t)
  BY <1>1 DEF teamVars, listDirectTeamManagerUserIds
<1>3. listDirectTeamManagerUserIds(t) = {}
  BY <1>2 DEF HasTeamManager, listEffectiveTeamManagerUserIds
<1>4. PICK o \in getOrganizationIdForTeam(t), u \in Users :
         u \in usersOrganizationsOrganizationRoles[o]["OTM"]
  <2>1. listOrganizationTeamManagerUserIdsForTeam(t) # {}
    BY <1>3 DEF HasTeamManager, listEffectiveTeamManagerUserIds
  <2>. QED
    BY <2>1 DEF listOrganizationTeamManagerUserIdsForTeam, TypeOK,
       getOrganizationIdForTeam, OrganizationRole
<1>5. o \in Organizations /\ t \in organizationsTeams[o]
  BY DEF getOrganizationIdForTeam
\* The team stays with its organization: it could leave only with a direct
\* manager, and an organization with a team is not deleted.
<1>6. t \in organizationsTeams'[o]
  <2>. USE <1>3, <1>5 DEF TypeOK
  <2>1. ASSUME NEW c \in Organizations, NEW s \in teams, UnassignTeam(a, c, s)
        PROVE  t \in organizationsTeams'[o]
    BY <2>1 DEF UnassignTeam
  <2>2. ASSUME NEW c \in Organizations, NEW s \in teams, AssignTeam(a, c, s)
        PROVE  t \in organizationsTeams'[o]
    BY <2>2 DEF AssignTeam
  <2>3. ASSUME NEW c \in Organizations, DeleteOrganization(a, c)
        PROVE  t \in organizationsTeams'[o]
    BY <2>3 DEF DeleteOrganization, organizationDeletionPreservesCoverage,
       listTeamIdsForOrganization
  <2>. QED
    BY <2>1, <2>2, <2>3 DEF OrganizationHandlers, CreateOrganization,
       ReplaceOrganizationUsers, ReplaceOrganizationProjects,
       GrantOrganizationRole, RevokeOrganizationRole
<1>7. u \notin usersOrganizationsOrganizationRoles'[o]["OTM"]
  BY <1>5, <1>6 DEF HasTeamManager, listEffectiveTeamManagerUserIds,
     listOrganizationTeamManagerUserIdsForTeam, getOrganizationIdForTeam
<1>. QED
  BY <1>1, <1>4, <1>7

\* A team that lives on loses its last effective manager only when its
\* organization takes a team manager role away from a user who lives on.
THEOREM TeamsLoseManagersOnlyByOrganization ==
  Spec => TeamManagersLostOnlyWithOrganizationRoles
<1>. DEFINE Blamed ==
        \A t \in teams \cap teams' :
          HasTeamManager(t) /\ ~ HasTeamManager(t)' =>
            /\ users' = users
            /\ \E o \in getOrganizationIdForTeam(t) :
                 ~ usersOrganizationsOrganizationRoles[o]["OTM"]
                     \subseteq usersOrganizationsOrganizationRoles'[o]["OTM"]
<1>1. ASSUME TypeOK, [Next]_vars
      PROVE  [Blamed]_vars
  <2>. SUFFICES ASSUME NEW t \in teams \cap teams',
                       HasTeamManager(t), ~ HasTeamManager(t)'
                PROVE  /\ users' = users
                       /\ \E o \in getOrganizationIdForTeam(t) :
                            ~ usersOrganizationsOrganizationRoles[o]["OTM"]
                                \subseteq
                                usersOrganizationsOrganizationRoles'[o]["OTM"]
    OBVIOUS
  <2>1. t \in Teams
    BY <1>1 DEF TypeOK
  <2>2. CASE UNCHANGED <<teamVars, organizationVars>>
    BY <2>2 DEF teamVars, organizationVars, HasTeamManager,
       listEffectiveTeamManagerUserIds, listDirectTeamManagerUserIds,
       listOrganizationTeamManagerUserIdsForTeam, getOrganizationIdForTeam
  <2>3. ASSUME NEW a \in users, TeamHandlers(a)
        PROVE  FALSE
    BY <1>1, <2>3, TeamHandlersKeepTeamManagers
  <2>4. ASSUME NEW a \in users, ProjectHandlers(a)
        PROVE  HasTeamManager(t)'
    <3>1. UNCHANGED <<teamVars, organizationsTeams,
                      usersOrganizationsOrganizationRoles>>
      BY <2>4 DEF ProjectHandlers, CreateProject, ReplaceProjectMembers,
         GrantProjectRole, RevokeProjectRole, DeleteProject,
         AssociateProjectTeam, AssociateProjectOrganization, organizationVars
    <3>. QED
      BY <3>1 DEF teamVars, HasTeamManager, listEffectiveTeamManagerUserIds,
         listDirectTeamManagerUserIds, getOrganizationIdForTeam,
         listOrganizationTeamManagerUserIdsForTeam
  <2>5. ASSUME NEW a \in users, OrganizationHandlers(a)
        PROVE  /\ users' = users
               /\ \E o \in getOrganizationIdForTeam(t) :
                    ~ usersOrganizationsOrganizationRoles[o]["OTM"]
                        \subseteq
                        usersOrganizationsOrganizationRoles'[o]["OTM"]
    BY <1>1, <2>5, OrganizationHandlersAndTeamManagers
  <2>6. ASSUME NEW a \in users, NEW u \in users, DeleteUser(a, u)
        PROVE  FALSE
    <3>1. u \in Users
      BY <1>1 DEF TypeOK
    <3>2. listEffectiveTeamManagerUserIds(t) \ {u} # {}
      BY <1>1, <2>1, <2>6, <3>1, ManagedTeamsAreCollected
      DEF HasTeamManager, DeleteUser, preservesTeamManagers
    <3>. QED
      BY <1>1, <2>1, <2>6, <3>2, DeletedUserLeavesOthers DEF HasTeamManager
  <2>7. CASE \/ UNCHANGED vars
             \/ \E u \in Users : Register(u)
    BY <2>2, <2>7 DEF vars, Register
  <2>. QED
    BY <1>1, <2>2, <2>3, <2>4, <2>5, <2>6, <2>7 DEF Next
<1>2. Spec => []TypeOK
  BY TypeCorrect
<1>. QED
  BY <1>1, <1>2, PTL DEF Spec, TeamManagersLostOnlyWithOrganizationRoles

\* replaceOrganizationUsers, revokeOrganizationRole and the other handlers leave
\* an organization a manager while any of its managers has an account.
THEOREM OrganizationsLoseManagersWithAccounts ==
  Spec => OrganizationManagersLostOnlyWithAccounts
<1>. DEFINE Kept ==
        \A o \in organizations \cap organizations' :
          organizationManagers(o) \cap users' # {}
            => organizationManagers(o)' # {}
<1>1. ASSUME TypeOK, [Next]_vars
      PROVE  [Kept]_vars
  <2>. SUFFICES ASSUME NEW o \in organizations \cap organizations',
                       organizationManagers(o) \cap users' # {}
                PROVE  organizationManagers(o)' # {}
    OBVIOUS
  <2>1. o \in Organizations /\ "OM" \in OrganizationRole
    BY <1>1 DEF TypeOK, OrganizationRole
  <2>. USE <2>1 DEF organizationManagers
  <2>2. CASE UNCHANGED usersOrganizationsOrganizationRoles
    BY <2>2
  <2>3. ASSUME NEW a \in users, OrganizationHandlers(a)
        PROVE  organizationManagers(o)' # {}
    <3>. USE DEF TypeOK
    <3>1. ASSUME NEW c \in Organizations, CreateOrganization(a, c)
          PROVE  organizationManagers(o)' # {}
      BY <1>1, <3>1 DEF CreateOrganization
    <3>2. ASSUME NEW c \in Organizations, NEW members \in SUBSET users,
                 ReplaceOrganizationUsers(a, c, members)
          PROVE  organizationManagers(o)' # {}
      BY <1>1, <3>2
      DEF ReplaceOrganizationUsers, retainsManagerAfterUserReplace
    <3>3. ASSUME NEW c \in Organizations, NEW u \in users,
                 NEW role \in OrganizationRole,
                 GrantOrganizationRole(a, c, u, role)
          PROVE  organizationManagers(o)' # {}
      BY <1>1, <3>3 DEF GrantOrganizationRole
    <3>4. ASSUME NEW c \in Organizations, NEW u \in users,
                 NEW role \in OrganizationRole,
                 RevokeOrganizationRole(a, c, u, role)
          PROVE  organizationManagers(o)' # {}
      BY <1>1, <3>4
      DEF RevokeOrganizationRole, retainsManagerAfterOrganizationRoleRevoke
    <3>5. ASSUME NEW c \in Organizations, DeleteOrganization(a, c)
          PROVE  organizationManagers(o)' # {}
      BY <1>1, <3>5 DEF DeleteOrganization
    <3>. QED
      BY <2>2, <2>3, <3>1, <3>2, <3>3, <3>4, <3>5
      DEF OrganizationHandlers, ReplaceOrganizationProjects, AssignTeam,
          UnassignTeam
  \* Of a deleted user nothing but the own rows go.
  <2>4. ASSUME NEW a \in users, NEW u \in users, DeleteUser(a, u)
        PROVE  organizationManagers(o)' # {}
    BY <2>4 DEF DeleteUser
  <2>5. ASSUME NEW a \in users, ProjectHandlers(a)
        PROVE  usersOrganizationsOrganizationRoles'
                 = usersOrganizationsOrganizationRoles
    <3>. USE DEF organizationVars
    <3>1. ASSUME NEW p \in Projects, DeleteProject(a, p)
          PROVE  usersOrganizationsOrganizationRoles'
                   = usersOrganizationsOrganizationRoles
      BY <3>1 DEF DeleteProject
    <3>2. ASSUME NEW p \in Projects, NEW c \in Organizations,
                 AssociateProjectOrganization(a, p, c)
          PROVE  usersOrganizationsOrganizationRoles'
                   = usersOrganizationsOrganizationRoles
      BY <3>2 DEF AssociateProjectOrganization
    <3>. QED
      BY <2>5, <3>1, <3>2, Zenon DEF ProjectHandlers, CreateProject,
         ReplaceProjectMembers, GrantProjectRole, RevokeProjectRole,
         AssociateProjectTeam
  <2>6. ASSUME NEW a \in users, TeamHandlers(a)
        PROVE  usersOrganizationsOrganizationRoles'
                 = usersOrganizationsOrganizationRoles
    <3>1. ASSUME NEW t \in Teams, DeleteTeam(a, t)
          PROVE  usersOrganizationsOrganizationRoles'
                   = usersOrganizationsOrganizationRoles
      BY <3>1 DEF DeleteTeam
    <3>. QED
      BY <2>6, <3>1, Zenon DEF TeamHandlers, CreateTeam, ReplaceTeamMembers,
         GrantTeamRole, RevokeTeamRole, organizationVars
  <2>7. CASE UNCHANGED vars \/ \E u \in Users : Register(u)
    BY <2>2, <2>7 DEF vars, Register, organizationVars
  <2>. QED
    BY <1>1, <2>2, <2>3, <2>4, <2>5, <2>6, <2>7 DEF Next
<1>2. Spec => []TypeOK
  BY TypeCorrect
<1>. QED
  BY <1>1, <1>2, PTL DEF Spec, OrganizationManagersLostOnlyWithAccounts
=============================================================================
