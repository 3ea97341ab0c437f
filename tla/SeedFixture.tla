------------------------------ MODULE SeedFixture ------------------------------
(***************************************************************************)
(* The data that test environments are seeded with: accounts, and          *)
(* organizations, projects and teams each of which one of them manages in  *)
(* a different way.  A row is named by its seed's key here; descriptions,  *)
(* e-mail addresses and the texts of charts and issues are left out.       *)
(***************************************************************************)
EXTENDS Sequences

Tables == {"Users", "Organizations", "Projects", "Teams"}

Seed(table, key) == [table |-> table, key |-> key]

SeededAccounts ==
    <<Seed("Users", "user:admin"),
      Seed("Users", "user:noRole"),
      Seed("Users", "user:orgOrganizationManager"),
      Seed("Users", "user:orgProjectManager"),
      Seed("Users", "user:orgTeamManager"),
      Seed("Users", "user:projectProjectManager"),
      Seed("Users", "user:teamProjectManager"),
      Seed("Users", "user:teamTeamManager")>>

SeededEntities ==
    <<Seed("Organizations", "organization:orgOrganizationManager"),
      Seed("Organizations", "organization:orgProjectManager"),
      Seed("Organizations", "organization:orgTeamManager"),
      Seed("Projects", "project:projectProjectManager"),
      Seed("Projects", "project:orgProjectManager"),
      Seed("Projects", "project:teamProjectManager"),
      Seed("Teams", "team:teamTeamManager"),
      Seed("Teams", "team:orgTeamManager"),
      Seed("Teams", "team:teamProjectManager")>>

\* Memberships, roles and associations: a kind and the keys of two seeds.
ScopedLinks ==
    {<<"member", "user:orgOrganizationManager",
       "organization:orgOrganizationManager">>,
     <<"organizationManager", "user:orgOrganizationManager",
       "organization:orgOrganizationManager">>,
     <<"member", "user:orgProjectManager", "organization:orgProjectManager">>,
     <<"projectManager", "user:orgProjectManager",
       "organization:orgProjectManager">>,
     <<"member", "user:orgProjectManager", "project:orgProjectManager">>,
     <<"projectOf", "project:orgProjectManager",
       "organization:orgProjectManager">>,
     <<"member", "user:orgTeamManager", "organization:orgTeamManager">>,
     <<"teamManager", "user:orgTeamManager", "organization:orgTeamManager">>,
     <<"member", "user:orgTeamManager", "team:orgTeamManager">>,
     <<"teamOf", "team:orgTeamManager", "organization:orgTeamManager">>,
     <<"member", "user:teamTeamManager", "team:teamTeamManager">>,
     <<"teamManager", "user:teamTeamManager", "team:teamTeamManager">>,
     <<"member", "user:teamProjectManager", "team:teamProjectManager">>,
     <<"projectManager", "user:teamProjectManager",
       "team:teamProjectManager">>,
     <<"projectTeam", "project:teamProjectManager",
       "team:teamProjectManager">>,
     <<"member", "user:projectProjectManager",
       "project:projectProjectManager">>,
     <<"projectManager", "user:projectProjectManager",
       "project:projectProjectManager">>}

\* The issues of each project.
ScopedIssues ==
    ({"project:orgProjectManager"} \X
        {"Org-scoped PM regression sweep",
         "Project delegation clarifications",
         "Verify org/project association seeding",
         "Document org PM backlog ordering"})
    \cup ({"project:projectProjectManager"} \X
        {"Polish direct PM issue previews",
         "Blocked UI badge alignment",
         "Complete direct PM detail acceptance",
         "Expand direct PM seeded backlog"})
    \cup ({"project:teamProjectManager"} \X
        {"Exercise team-derived PM route coverage",
         "Cross-team notification routing",
         "Validate team-derived fixture bootstrapping",
         "Seed team-derived routed work sample"})

\* The fixture holds together: seeds have keys of their own, and links and
\* issues are between seeds.
FixtureIsWhole ==
    LET seeds == SeededAccounts \o SeededEntities
        keys == {seeds[i].key : i \in DOMAIN seeds}
    IN  /\ \A i, j \in DOMAIN seeds : seeds[i].key = seeds[j].key => i = j
        /\ \A link \in ScopedLinks : {link[2], link[3]} \subseteq keys
        /\ \A issue \in ScopedIssues :
            \E i \in DOMAIN seeds : seeds[i] = Seed("Projects", issue[1])

=============================================================================
