------------------------------ MODULE Schemas ------------------------------
(* The structure of every version of the database, as db/v<n>/schema.ts     *)
(* declares it.  A table is its key, its unique indexes and its references  *)
(* to other tables; of the other columns only those a migration moves are   *)
(* named.  Types, defaults, CHECK constraints and plain indexes are left    *)
(* out; the relations(...) of the files are in the module Relations.        *)
EXTENDS SequencesExt, Integers

(* SQLite matches a reference against the key of the table it points at.    *)
reference(columns, parent, onDelete) ==
  [columns |-> columns, table |-> parent, onDelete |-> onDelete]
cascade(columns, parent) == reference(columns, parent, "cascade")
restrict(columns, parent) == reference(columns, parent, "restrict")

(* A unique index over a part of the rows (one password per user) is named  *)
(* by its columns.                                                          *)
table(key, others, unique, refs) ==
  [key |-> key,
   columns |-> ToSet(key) \cup others \cup (UNION unique)
               \cup (UNION {ToSet(r.columns) : r \in refs}),
   unique |-> unique,
   refs |-> refs]
codeTable == table(<<"code">>, {}, {}, {})

(* What either of two tables of names gives; the first, where both do.      *)
either(pair) ==
  [x \in DOMAIN pair[1] \cup DOMAIN pair[2] |->
     IF x \in DOMAIN pair[1] THEN pair[1][x] ELSE pair[2][x]]
f ++ g == either(<<f, g>>)

(* Version 1: accounts, credentials and sessions. *)
Accounts1 ==
  [Users |-> table(<<"id">>, {}, {{"email"}, {"username"}}, {}),
   Roles |-> codeTable,
   CredentialTypes |-> codeTable,
   Users_Roles |->
         table(<<"id">>, {}, {{"userId", "roleCode"}},
               {cascade(<<"userId">>, "Users"),
                restrict(<<"roleCode">>, "Roles")})]
Credentials1 ==
  [Users_CredentialTypes |->
         table(<<"id">>, {}, {{"userId"}},
               {cascade(<<"userId">>, "Users"),
                restrict(<<"credentialTypeCode">>, "CredentialTypes")}),
   Users_PasswordCredentials |->
         table(<<"id">>, {}, {{"userCredentialTypeId"}},
               {cascade(<<"userCredentialTypeId">>, "Users_CredentialTypes")}),
   Users_Sessions |->
         table(<<"id">>, {}, {{"sessionTokenHash"}},
               {cascade(<<"userId">>, "Users")})]
Snapshot1 == Accounts1 ++ Credentials1

(* Version 2: projects, teams, organizations, scoped roles, issues. *)
Entities2 ==
  [Users |-> table(<<"id">>, {}, {{"email"}, {"username"}}, {}),
   Projects |-> table(<<"id">>, {"journal"}, {}, {}),
   Teams |-> table(<<"id">>, {}, {}, {}),
   Organizations |-> table(<<"id">>, {}, {}, {}),
   SystemRoles |-> codeTable,
   ProjectRoles |-> codeTable,
   TeamRoles |-> codeTable,
   OrganizationRoles |-> codeTable,
   IssueStatuses |-> codeTable,
   ClosedReasons |-> codeTable]
Issues2 ==
  [Issues |->
         table(<<"id">>, {"journal"}, {},
               {cascade(<<"projectId">>, "Projects"),
                restrict(<<"status">>, "IssueStatuses"),
                restrict(<<"closedReason">>, "ClosedReasons")})]
Bookkeeping2 ==
  [ManagedTestDataRecords |->
         table(<<"id">>, {}, {{"entityTable", "entityId"}, {"seedKey"}},
               {}),
   CredentialTypes |-> codeTable]
Memberships2 ==
  [Projects_Users |->
         table(<<"id">>, {}, {{"projectId", "userId"}},
               {cascade(<<"userId">>, "Users"),
                cascade(<<"projectId">>, "Projects")}),
   Teams_Users |->
         table(<<"id">>, {}, {{"teamId", "userId"}},
               {cascade(<<"teamId">>, "Teams"),
                cascade(<<"userId">>, "Users")}),
   Projects_Teams |->
         table(<<"id">>, {}, {{"projectId", "teamId"}},
               {cascade(<<"teamId">>, "Teams"),
                cascade(<<"projectId">>, "Projects")}),
   Users_Organizations |->
         table(<<"id">>, {}, {{"organizationId", "userId"}},
               {cascade(<<"userId">>, "Users"),
                cascade(<<"organizationId">>, "Organizations")})]
Ownership2 ==
  [Projects_Organizations |->
         table(<<"id">>, {}, {{"organizationId", "projectId"}},
               {cascade(<<"projectId">>, "Projects"),
                cascade(<<"organizationId">>, "Organizations")}),
   Organizations_Teams |->
         table(<<"id">>, {}, {{"organizationId", "teamId"}, {"teamId"}},
               {cascade(<<"teamId">>, "Teams"),
                cascade(<<"organizationId">>, "Organizations")})]
Roles2 ==
  [Users_SystemRoles |->
         table(<<"id">>, {}, {{"userId", "roleCode"}},
               {cascade(<<"userId">>, "Users"),
                restrict(<<"roleCode">>, "SystemRoles")}),
   Users_Projects_ProjectRoles |->
         table(<<"id">>, {}, {{"userId", "projectId", "roleCode"}},
               {cascade(<<"userId">>, "Users"),
                cascade(<<"projectId">>, "Projects"),
                restrict(<<"roleCode">>, "ProjectRoles")}),
   Users_Teams_TeamRoles |->
         table(<<"id">>, {}, {{"userId", "teamId", "roleCode"}},
               {cascade(<<"teamId">>, "Teams"),
                cascade(<<"userId">>, "Users"),
                restrict(<<"roleCode">>, "TeamRoles")}),
   Users_Organizations_OrganizationRoles |->
         table(<<"id">>, {}, {{"userId", "organizationId", "roleCode"}},
               {cascade(<<"userId">>, "Users"),
                restrict(<<"roleCode">>, "OrganizationRoles"),
                cascade(<<"organizationId">>, "Organizations")})]
Credentials2 == Credentials1
Snapshot2 ==
  Entities2 ++ Issues2 ++ Bookkeeping2 ++ Memberships2 ++ Ownership2 ++
  Roles2 ++ Credentials2

(* Version 3: the tables of version 2; a project owner role joins the codes. *)
Entities3 == Entities2
Issues3 == Issues2
Bookkeeping3 == Bookkeeping2
Memberships3 == Memberships2
Ownership3 == Ownership2
Roles3 == Roles2
Credentials3 == Credentials2
Snapshot3 ==
  Entities3 ++ Issues3 ++ Bookkeeping3 ++ Memberships3 ++ Ownership3 ++
  Roles3 ++ Credentials3

(* Version 4: scoped access tokens, and the credential a session came from. *)
Entities4 == Entities3
Issues4 == Issues3
Bookkeeping4 == Bookkeeping3
Memberships4 == Memberships3
Ownership4 == Ownership3
Roles4 == Roles3
Credentials4 ==
  [Users_Sessions |->
         table(<<"id">>,
               {"authSourceCredentialTypeCode", "authSourceCredentialId"},
               {{"sessionTokenHash"}},
               {cascade(<<"userId">>, "Users")})]
  ++ Credentials3
Scopes4 ==
  [ScopedAccessObjectTypes |-> codeTable,
   Users_ScopedAccessTokenCredentials |->
         table(<<"id">>, {}, {{"tokenHash"}, {"userCredentialTypeId"}},
               {cascade(<<"ownerUserId">>, "Users"),
                cascade(<<"userCredentialTypeId">>, "Users_CredentialTypes")}),
   ScopedAccessTokenCredentials_Objects |->
         table(<<"id">>, {},
               {{"scopedAccessTokenCredentialId",
                 "scopedAccessObjectTypeCode", "scopedAccessObjectId"}},
               {restrict(<<"scopedAccessObjectTypeCode">>,
                         "ScopedAccessObjectTypes"),
                cascade(<<"scopedAccessTokenCredentialId">>,
                        "Users_ScopedAccessTokenCredentials")})]
Snapshot4 ==
  Entities4 ++ Issues4 ++ Bookkeeping4 ++ Memberships4 ++ Ownership4 ++
  Roles4 ++ Credentials4 ++ Scopes4

(* Version 5: attachments and issue comments. *)
Entities5 == Entities4
Issues5 == Issues4
Discussions5 ==
  [Attachments |->
         table(<<"id">>, {}, {},
               {restrict(<<"uploadedByUserId">>, "Users")}),
   Issues_Attachments |->
         table(<<"issueId", "attachmentId">>, {}, {},
               {cascade(<<"issueId">>, "Issues"),
                cascade(<<"attachmentId">>, "Attachments")}),
   IssueComments |->
         table(<<"id">>, {}, {},
               {cascade(<<"issueId">>, "Issues"),
                restrict(<<"createdByUserId">>, "Users")}),
   IssueComments_Attachments |->
         table(<<"issueId", "commentId", "attachmentId">>, {}, {},
               {cascade(<<"issueId">>, "Issues"),
                cascade(<<"commentId">>, "IssueComments"),
                cascade(<<"attachmentId">>, "Attachments")})]
Bookkeeping5 == Bookkeeping4
Memberships5 == Memberships4
Ownership5 == Ownership4
Roles5 == Roles4
Credentials5 == Credentials4
Scopes5 == Scopes4
Snapshot5 ==
  Entities5 ++ Issues5 ++ Discussions5 ++ Bookkeeping5 ++ Memberships5 ++
  Ownership5 ++ Roles5 ++ Credentials5 ++ Scopes5

(* Version 6: the tables about a project's tasks. *)
Entities6 == Entities5
Issues6 == Issues5
Discussions6 == Discussions5
Tasks6 ==
  [TaskMirror |->
         table(<<"projectId", "taskId">>, {}, {},
               {cascade(<<"projectId">>, "Projects")}),
   TaskAttachments |->
         table(<<"projectId", "taskId", "attachmentId">>, {}, {},
               {cascade(<<"projectId">>, "Projects"),
                cascade(<<"attachmentId">>, "Attachments"),
                cascade(<<"projectId", "taskId">>, "TaskMirror")}),
   TaskComments |->
         table(<<"id">>, {}, {},
               {cascade(<<"projectId">>, "Projects"),
                restrict(<<"createdByUserId">>, "Users"),
                cascade(<<"projectId", "taskId">>, "TaskMirror")}),
   TaskComments_Attachments |->
         table(<<"projectId", "taskId", "commentId", "attachmentId">>, {}, {},
               {cascade(<<"projectId">>, "Projects"),
                cascade(<<"commentId">>, "TaskComments"),
                cascade(<<"attachmentId">>, "Attachments"),
                cascade(<<"projectId", "taskId">>, "TaskMirror")})]
Bookkeeping6 == Bookkeeping5
Memberships6 == Memberships5
Ownership6 == Ownership5
Roles6 == Roles5
Credentials6 == Credentials5
Scopes6 == Scopes5
Snapshot6 ==
  Entities6 ++ Issues6 ++ Discussions6 ++ Tasks6 ++ Bookkeeping6 ++
  Memberships6 ++ Ownership6 ++ Roles6 ++ Credentials6 ++ Scopes6

(* Version 7: journals move to files; projects get attachments. *)
Entities7 ==
  [Projects |-> table(<<"id">>, {"reusable-v7-projects-journal"}, {}, {})]
  ++ Entities6
Issues7 ==
  [Issues |->
         table(<<"id">>, {"reusable-v7-issues-journal"}, {},
               {cascade(<<"projectId">>, "Projects"),
                restrict(<<"status">>, "IssueStatuses"),
                restrict(<<"closedReason">>, "ClosedReasons")})]
Discussions7 ==
  [Projects_Attachments |->
         table(<<"projectId", "attachmentId">>, {}, {},
               {cascade(<<"projectId">>, "Projects"),
                cascade(<<"attachmentId">>, "Attachments")})]
  ++ Discussions6
Tasks7 == Tasks6
Bookkeeping7 == Bookkeeping6
Memberships7 == Memberships6
Ownership7 == Ownership6
Roles7 == Roles6
Credentials7 == Credentials6
Scopes7 == Scopes6
Snapshot7 ==
  Entities7 ++ Issues7 ++ Discussions7 ++ Tasks7 ++ Bookkeeping7 ++
  Memberships7 ++ Ownership7 ++ Roles7 ++ Credentials7 ++ Scopes7

(* Version 8: notifications. *)
Entities8 == Entities7
Issues8 == Issues7
Discussions8 == Discussions7
Tasks8 == Tasks7
Notices8 ==
  [Notifications |->
         table(<<"id">>, {}, {},
               {cascade(<<"issueId">>, "Issues"),
                cascade(<<"projectId">>, "Projects"),
                restrict(<<"actorUserId">>, "Users"),
                cascade(<<"attachmentId">>, "Attachments")}),
   Users_Notifications |->
         table(<<"userId", "notificationId">>, {}, {},
               {cascade(<<"userId">>, "Users"),
                cascade(<<"notificationId">>, "Notifications")})]
Bookkeeping8 == Bookkeeping7
Memberships8 == Memberships7
Ownership8 == Ownership7
Roles8 == Roles7
Credentials8 == Credentials7
Scopes8 == Scopes7
Snapshot8 ==
  Entities8 ++ Issues8 ++ Discussions8 ++ Tasks8 ++ Notices8 ++
  Bookkeeping8 ++ Memberships8 ++ Ownership8 ++ Roles8 ++ Credentials8 ++
  Scopes8

(* Version 9: mentions. *)
Entities9 == Entities8
Issues9 == Issues8
Discussions9 == Discussions8
Tasks9 == Tasks8
Notices9 ==
  [Notifications |->
         table(<<"id">>, {}, {},
               {cascade(<<"issueId">>, "Issues"),
                cascade(<<"projectId">>, "Projects"),
                restrict(<<"actorUserId">>, "Users"),
                cascade(<<"mentionedUserId">>, "Users"),
                cascade(<<"attachmentId">>, "Attachments")}),
   Mentions |->
         table(<<"id">>, {"taskId", "commentId"},
               {{"mentionedUserId", "mentionContainerType", "containerKey"}},
               {cascade(<<"issueId">>, "Issues"),
                cascade(<<"projectId">>, "Projects"),
                cascade(<<"speakerUserId">>, "Users"),
                cascade(<<"mentionedUserId">>, "Users")})]
  ++ Notices8
Bookkeeping9 == Bookkeeping8
Memberships9 == Memberships8
Ownership9 == Ownership8
Roles9 == Roles8
Credentials9 == Credentials8
Scopes9 == Scopes8
Snapshot9 ==
  Entities9 ++ Issues9 ++ Discussions9 ++ Tasks9 ++ Notices9 ++
  Bookkeeping9 ++ Memberships9 ++ Ownership9 ++ Roles9 ++ Credentials9 ++
  Scopes9

(* Version 10: the tables of version 9 (see the repair that leads to it). *)
Entities10 == Entities9
Issues10 == Issues9
Discussions10 == Discussions9
Tasks10 == Tasks9
Notices10 == Notices9
Bookkeeping10 == Bookkeeping9
Memberships10 == Memberships9
Ownership10 == Ownership9
Roles10 == Roles9
Credentials10 == Credentials9
Scopes10 == Scopes9
Snapshot10 ==
  Entities10 ++ Issues10 ++ Discussions10 ++ Tasks10 ++ Notices10 ++
  Bookkeeping10 ++ Memberships10 ++ Ownership10 ++ Roles10 ++
  Credentials10 ++ Scopes10

(* Version 11: several charts per project: the task tables refer to a chart. *)
Entities11 ==
  [ProjectGanttCharts |->
         table(<<"id">>, {}, {{"projectId", "chartId"}},
               {cascade(<<"projectId">>, "Projects")})]
  ++ Entities10
Issues11 == Issues10
Discussions11 == Discussions10
Tasks11 ==
  [TaskMirror |->
         table(<<"projectGanttChartId", "taskId">>, {}, {},
               {cascade(<<"projectGanttChartId">>, "ProjectGanttCharts")}),
   TaskAttachments |->
         table(<<"projectGanttChartId", "taskId", "attachmentId">>, {}, {},
               {cascade(<<"attachmentId">>, "Attachments"),
                cascade(<<"projectGanttChartId">>, "ProjectGanttCharts"),
                cascade(<<"projectGanttChartId", "taskId">>, "TaskMirror")}),
   TaskComments |->
         table(<<"id">>, {}, {},
               {restrict(<<"createdByUserId">>, "Users"),
                cascade(<<"projectGanttChartId">>, "ProjectGanttCharts"),
                cascade(<<"projectGanttChartId", "taskId">>, "TaskMirror")}),
   TaskComments_Attachments |->
         table(<<"projectGanttChartId", "taskId", "commentId",
                 "attachmentId">>, {},
               {},
               {cascade(<<"commentId">>, "TaskComments"),
                cascade(<<"attachmentId">>, "Attachments"),
                cascade(<<"projectGanttChartId">>, "ProjectGanttCharts"),
                cascade(<<"projectGanttChartId", "taskId">>, "TaskMirror")})]
Notices11 == Notices10
Bookkeeping11 == Bookkeeping10
Memberships11 == Memberships10
Ownership11 == Ownership10
Roles11 == Roles10
Credentials11 == Credentials10
Scopes11 == Scopes10
Snapshot11 ==
  Entities11 ++ Issues11 ++ Discussions11 ++ Tasks11 ++ Notices11 ++
  Bookkeeping11 ++ Memberships11 ++ Ownership11 ++ Roles11 ++
  Credentials11 ++ Scopes11

Versions == 1..11
Declared(v) ==
  CASE v = 1 -> Snapshot1 [] v = 2 -> Snapshot2 [] v = 3 -> Snapshot3
    [] v = 4 -> Snapshot4 [] v = 5 -> Snapshot5 [] v = 6 -> Snapshot6
    [] v = 7 -> Snapshot7 [] v = 8 -> Snapshot8 [] v = 9 -> Snapshot9
    [] v = 10 -> Snapshot10 [] v = 11 -> Snapshot11

(* The codes a version's rows may name, as its schema.ts enumerates them.   *)
Codes1 ==
  [CredentialTypes |-> {"GGTC_CREDTYPE_USERNAME_PASSWORD"},
   Roles |-> {"GGTC_ROLE_ADMIN", "GGTC_ROLE_PROJECT_MANAGER"}]
Codes2 ==
  [CredentialTypes |-> {"GGTC_CREDTYPE_USERNAME_PASSWORD"},
   ProjectRoles |-> {"GGTC_PROJECTROLE_PROJECT_MANAGER"},
   SystemRoles |-> {"GGTC_SYSTEMROLE_ADMIN"},
   OrganizationRoles |->
       {"GGTC_ORGANIZATIONROLE_ORGANIZATION_MANAGER",
        "GGTC_ORGANIZATIONROLE_PROJECT_MANAGER",
        "GGTC_ORGANIZATIONROLE_TEAM_MANAGER"},
   IssueStatuses |->
       {"ISSUE_STATUS_BLOCKED", "ISSUE_STATUS_CLOSED",
        "ISSUE_STATUS_IN_PROGRESS", "ISSUE_STATUS_OPEN"},
   ClosedReasons |->
       {"ISSUE_CLOSED_REASON_CANTFIX", "ISSUE_CLOSED_REASON_RESOLVED",
        "ISSUE_CLOSED_REASON_WONTFIX"},
   TeamRoles |->
       {"GGTC_TEAMROLE_PROJECT_MANAGER", "GGTC_TEAMROLE_TEAM_MANAGER"}]
Codes3 ==
  [ProjectRoles |-> {"GGTC_PROJECTROLE_PROJECT_MANAGER",
                        "GGTC_PROJECTROLE_PROJECT_OWNER"}]
  ++ Codes2
(* The scope types are enumerated next to their table, further down.        *)
Codes4 ==
  [CredentialTypes |-> {"CREDTYPE_SCOPED_ACCESS_TOKEN",
                           "GGTC_CREDTYPE_USERNAME_PASSWORD"},
   ScopedAccessObjectTypes |->
       {"SCOPED_ACCESS_OBJECT_TYPE_ORGANIZATION",
        "SCOPED_ACCESS_OBJECT_TYPE_PROJECT",
        "SCOPED_ACCESS_OBJECT_TYPE_TEAM"}]
  ++ Codes3
Codes5 == Codes4
Codes6 == Codes5
Codes7 == Codes6
Codes8 == Codes7
Codes9 == Codes8
Codes10 == Codes9
Codes11 == Codes10
CodesOf(v) ==
  CASE v = 1 -> Codes1 [] v = 2 -> Codes2 [] v = 3 -> Codes3
    [] v = 4 -> Codes4 [] v = 5 -> Codes5 [] v = 6 -> Codes6
    [] v = 7 -> Codes7 [] v = 8 -> Codes8 [] v = 9 -> Codes9
    [] v = 10 -> Codes10 [] v = 11 -> Codes11
=============================================================================
