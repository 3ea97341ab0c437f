----------------------------- MODULE Authority -----------------------------
(***************************************************************************)
(* The authority subsystem of the backend: the membership and role tables  *)
(* of AccessControl under every request of the project, team, organization *)
(* and user routes, from any mix of users.  SQLite is one process and the  *)
(* handlers do not await, so requests interleave only as whole handlers.   *)
(***************************************************************************)
EXTENDS Projects, Teams, Organizations, Accounts

\* A freshly seeded database: the administrators and nothing else.  Seeding is
\* the only way to become one: no route grants a system role.
Init ==
    /\ users = Admins
    /\ usersSystemRoles = Admins
    /\ projects = {}
    /\ projectsUsers = [p \in Projects |-> {}]
    /\ usersProjectsProjectRoles =
         [p \in Projects |-> [r \in ProjectRole |-> {}]]
    /\ projectsTeams = [p \in Projects |-> {}]
    /\ teams = {}
    /\ teamsUsers = [t \in Teams |-> {}]
    /\ usersTeamsTeamRoles = [t \in Teams |-> [r \in TeamRole |-> {}]]
    /\ organizations = {}
    /\ usersOrganizations = [o \in Organizations |-> {}]
    /\ usersOrganizationsOrganizationRoles =
         [o \in Organizations |-> [r \in OrganizationRole |-> {}]]
    /\ organizationsTeams = [o \in Organizations |-> {}]
    /\ projectsOrganizations = [o \in Organizations |-> {}]

Next ==
    \/ \E u \in Users : Register(u)
    \/ \E actor \in users :
          \/ ProjectHandlers(actor)
          \/ TeamHandlers(actor)
          \/ OrganizationHandlers(actor)
          \/ \E u \in users : DeleteUser(actor, u)

Spec == Init /\ [][Next]_vars

-----------------------------------------------------------------------------
HasProjectManager(p) == listEffectiveProjectManagerUserIds(p) # {}

HasTeamManager(t) == listEffectiveTeamManagerUserIds(t) # {}

organizationManagers(o) == usersOrganizationsOrganizationRoles[o]["OM"]

\* Every project manager of a team is a member of the team.
TeamProjectManagersAreMembers ==
    \A t \in Teams : listTeamProjectManagerUserIds(t) \subseteq teamsUsers[t]

(***************************************************************************)
(* Invariants                                                              *)
(***************************************************************************)

\* A project always has an owner, whatever members are replaced, roles
\* revoked and users deleted: nobody else could ever delete it or manage its
\* members.
EveryProjectHasOwner ==
    \A p \in projects : listDirectProjectOwnerUserIds(p) # {}

\* A direct role on a project is held by direct members only, so the member
\* list that the routes return shows every holder.
ProjectRoleHoldersAreMembers ==
    \A p \in Projects, r \in ProjectRole :
        usersProjectsProjectRoles[p][r] \subseteq projectsUsers[p]

\* The list endpoint and the access check agree in one direction: a project a
\* user may open is never missing from that user's list.
AccessibleProjectsAreListed ==
    \A u \in users, p \in projects :
        hasProjectAccess(p, u) => p \in listProjectIdsVisibleByMembership(u)

\* The right to the shared upload pool is looked for in visible projects,
\* teams and organizations only; it is found for every owner and every
\* effective manager all the same.
ManagersAnywhereAreRecognised ==
    \A u \in users :
        \/ \E p \in projects : \/ u \in listDirectProjectOwnerUserIds(p)
                             \/ u \in listEffectiveProjectManagerUserIds(p)
        \/ \E t \in teams : u \in listEffectiveTeamManagerUserIds(t)
        \/ \E o \in organizations : hasOrganizationManagerRole(o, u)
        => hasEffectiveManagerAnywhere(u)

(***************************************************************************)
(* Action properties                                                       *)
(***************************************************************************)

\* Replacing a project's members or revoking one of its roles never takes the
\* last effective manager away, counting teams and organizations.
ProjectStepsKeepManagers ==
    [][UNCHANGED <<userVars, teamVars, organizationVars>> =>
         \A p \in projects \cap projects' :
             HasProjectManager(p) => HasProjectManager(p)']_vars

\* A change of a team leaves every linked project an effective manager, as
\* long as the project managers of the teams are members of them.
TeamStepsKeepManagers ==
    [][teamVars' # teamVars /\ users' = users /\ TeamProjectManagersAreMembers
         => \A p \in projects : HasProjectManager(p) => HasProjectManager(p)'
      ]_vars

\* Deleting an organization leaves every project and every team the managers
\* it needs.
OrganizationDeletionKeepsManagers ==
    [][~ organizations \subseteq organizations' =>
         /\ \A p \in projects : HasProjectManager(p) => HasProjectManager(p)'
         /\ \A t \in teams : HasTeamManager(t) => HasTeamManager(t)']_vars

\* Deleting a user leaves every team a manager, and every project that no
\* organization is directly linked to.
UserDeletionKeepsManagers ==
    [][~ users \subseteq users' =>
         /\ \A t \in teams : HasTeamManager(t) => HasTeamManager(t)'
         /\ \A p \in projects :
               (\A o \in Organizations : p \notin projectsOrganizations[o])
                 => (HasProjectManager(p) => HasProjectManager(p)')]_vars

\* A team that lives on loses its last effective manager only when its
\* organization takes a team manager role away from a user who lives on.
TeamManagersLostOnlyWithOrganizationRoles ==
    [][\A t \in teams \cap teams' :
         HasTeamManager(t) /\ ~ HasTeamManager(t)' =>
           /\ users' = users
           /\ \E o \in getOrganizationIdForTeam(t) :
                ~ usersOrganizationsOrganizationRoles[o]["OTM"]
                    \subseteq usersOrganizationsOrganizationRoles'[o]["OTM"]
      ]_vars

\* An organization that lives on keeps a manager as long as one of its managers
\* has an account: whoever replaces its users, revokes roles and deletes users,
\* only the deletion of the last manager leaves it to the administrators.
OrganizationManagersLostOnlyWithAccounts ==
    [][\A o \in organizations \cap organizations' :
         organizationManagers(o) \cap users' # {}
           => organizationManagers(o)' # {}]_vars
=============================================================================
