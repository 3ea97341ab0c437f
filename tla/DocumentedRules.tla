-------------------------- MODULE DocumentedRules --------------------------
(***************************************************************************)
(* A rule that docs/ states about authority and that the handlers do not   *)
(* keep: a run finds a behaviour that breaks it.                           *)
(***************************************************************************)
EXTENDS Authority

\* docs/authorization.md:41 and :45: a user cannot have an organization's
\* project manager or team manager role removed when that eliminates the last
\* effective manager of a project or a team.  The step that changes nothing but
\* organization roles is revokeOrganizationRole.
RoleRevocationKeepsManagers ==
    [][UNCHANGED <<userVars, projectVars, teamVars, organizations,
                   usersOrganizations, organizationsTeams,
                   projectsOrganizations>>
         => /\ \A p \in projects : HasProjectManager(p) => HasProjectManager(p)'
            /\ \A t \in teams : HasTeamManager(t) => HasTeamManager(t)'
      ]_vars
=============================================================================
