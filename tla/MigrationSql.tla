---------------------------- MODULE MigrationSql ----------------------------
(* The SQL of the migrations, db/migrations/v<n>--v<n+1>: for each one what *)
(* its three files do, in their order, to the database they are run on.     *)
(* The tables are read from the SQL, not from the schemas they lead to.     *)
EXTENDS Sqlite

(* v1--v2: every table of version 2; the administrators move to the system  *)
(* roles, the other roles of version 1 are given up.                        *)
Created2 ==
  [ClosedReasons |-> codeTable,
   IssueStatuses |-> codeTable,
   Issues |->
         table(<<"id">>, {"journal"}, {},
               {cascade(<<"projectId">>, "Projects"),
                restrict(<<"status">>, "IssueStatuses"),
                restrict(<<"closedReason">>, "ClosedReasons")}),
   ManagedTestDataRecords |->
         table(<<"id">>, {}, {{"entityTable", "entityId"}, {"seedKey"}},
               {}),
   Organizations |-> table(<<"id">>, {}, {}, {}),
   Organizations_Teams |->
         table(<<"id">>, {}, {{"organizationId", "teamId"}, {"teamId"}},
               {cascade(<<"teamId">>, "Teams"),
                cascade(<<"organizationId">>, "Organizations")}),
   OrganizationRoles |-> codeTable,
   ProjectRoles |-> codeTable,
   Projects |-> table(<<"id">>, {"journal"}, {}, {}),
   Projects_Organizations |->
         table(<<"id">>, {}, {{"organizationId", "projectId"}},
               {cascade(<<"projectId">>, "Projects"),
                cascade(<<"organizationId">>, "Organizations")}),
   Projects_Teams |->
         table(<<"id">>, {}, {{"projectId", "teamId"}},
               {cascade(<<"teamId">>, "Teams"),
                cascade(<<"projectId">>, "Projects")}),
   Projects_Users |->
         table(<<"id">>, {}, {{"projectId", "userId"}},
               {cascade(<<"userId">>, "Users"),
                cascade(<<"projectId">>, "Projects")}),
   TeamRoles |-> codeTable,
   Teams |-> table(<<"id">>, {}, {}, {}),
   Teams_Users |->
         table(<<"id">>, {}, {{"teamId", "userId"}},
               {cascade(<<"teamId">>, "Teams"),
                cascade(<<"userId">>, "Users")}),
   Users_Organizations |->
         table(<<"id">>, {}, {{"organizationId", "userId"}},
               {cascade(<<"userId">>, "Users"),
                cascade(<<"organizationId">>, "Organizations")}),
   Users_Organizations_OrganizationRoles |->
         table(<<"id">>, {}, {{"userId", "organizationId", "roleCode"}},
               {cascade(<<"userId">>, "Users"),
                restrict(<<"roleCode">>, "OrganizationRoles"),
                cascade(<<"organizationId">>, "Organizations")}),
   Users_Projects_ProjectRoles |->
         table(<<"id">>, {}, {{"userId", "projectId", "roleCode"}},
               {cascade(<<"userId">>, "Users"),
                cascade(<<"projectId">>, "Projects"),
                restrict(<<"roleCode">>, "ProjectRoles")}),
   Users_SystemRoles |->
         table(<<"id">>, {}, {{"userId", "roleCode"}},
               {cascade(<<"userId">>, "Users"),
                restrict(<<"roleCode">>, "SystemRoles")}),
   Users_Teams_TeamRoles |->
         table(<<"id">>, {}, {{"userId", "teamId", "roleCode"}},
               {cascade(<<"teamId">>, "Teams"),
                cascade(<<"userId">>, "Users"),
                restrict(<<"roleCode">>, "TeamRoles")})]
legacyAdmins(db) ==
  {row \in db.rows["__legacy_Users_Roles"] : row.roleCode = "GGTC_ROLE_ADMIN"}
CopyAdmins(db) ==
  LET roles == IF [code |-> "GGTC_ROLE_ADMIN"] \in db.rows["__legacy_Roles"]
               THEN {[code |-> "GGTC_SYSTEMROLE_ADMIN"]} ELSE {}
      copies == {[userId |-> row.userId, roleCode |-> "GGTC_SYSTEMROLE_ADMIN"] :
                   row \in legacyAdmins(db)}
      made == CreateTable(db, "__new_SystemRoles", codeTable)
      filled == Insert(made, "__new_SystemRoles", roles)
      named == RenameTable(filled, "__new_SystemRoles", "SystemRoles")
  IN  Insert(named, "Users_SystemRoles", copies)
From1(db) ==
  LET put == RenameTable(db, "Roles", "__legacy_Roles")
      aside == RenameTable(put, "Users_Roles", "__legacy_Users_Roles")
      made == CreateTables(aside, Created2)
      copied == CopyAdmins(made)
  IN  IF made.ok
      THEN DropTable(DropTable(copied, "__legacy_Users_Roles"), "__legacy_Roles")
      ELSE Fail(db)

(* v2--v3: nothing but the name changes.                                    *)
From2(db) == db

(* v3--v4: scoped access tokens.                                            *)
Created4 ==
  [ScopedAccessObjectTypes |-> codeTable,
   ScopedAccessTokenCredentials_Objects |->
         table(<<"id">>, {},
               {{"scopedAccessTokenCredentialId",
                 "scopedAccessObjectTypeCode", "scopedAccessObjectId"}},
               {restrict(<<"scopedAccessObjectTypeCode">>,
                         "ScopedAccessObjectTypes"),
                cascade(<<"scopedAccessTokenCredentialId">>,
                        "Users_ScopedAccessTokenCredentials")}),
   Users_ScopedAccessTokenCredentials |->
         table(<<"id">>, {}, {{"tokenHash"}, {"userCredentialTypeId"}},
               {cascade(<<"ownerUserId">>, "Users"),
                cascade(<<"userCredentialTypeId">>, "Users_CredentialTypes")})]
(* Mutant: the second column of Users_Sessions is forgotten.                *)
From3ForgetsColumn(db) ==
  AddColumn(CreateTables(db, Created4), "Users_Sessions",
            "authSourceCredentialTypeCode", {}, <<>>)

From3(db) ==
  LET made == CreateTables(db, Created4)
      typed == AddColumn(made, "Users_Sessions", "authSourceCredentialTypeCode",
                         {}, <<>>)
  IN  AddColumn(typed, "Users_Sessions", "authSourceCredentialId", {}, <<>>)

(* v4--v5, v5--v6: discussions, tasks.                                      *)
Created5 ==
  [Attachments |->
         table(<<"id">>, {}, {},
               {restrict(<<"uploadedByUserId">>, "Users")}),
   IssueComments |->
         table(<<"id">>, {}, {},
               {cascade(<<"issueId">>, "Issues"),
                restrict(<<"createdByUserId">>, "Users")}),
   IssueComments_Attachments |->
         table(<<"issueId", "commentId", "attachmentId">>, {}, {},
               {cascade(<<"issueId">>, "Issues"),
                cascade(<<"commentId">>, "IssueComments"),
                cascade(<<"attachmentId">>, "Attachments")}),
   Issues_Attachments |->
         table(<<"issueId", "attachmentId">>, {}, {},
               {cascade(<<"issueId">>, "Issues"),
                cascade(<<"attachmentId">>, "Attachments")})]
From4(db) == CreateTables(db, Created5)
Created6 ==
  [TaskAttachments |->
         table(<<"projectId", "taskId", "attachmentId">>, {}, {},
               {cascade(<<"projectId">>, "Projects"),
                cascade(<<"attachmentId">>, "Attachments"),
                cascade(<<"projectId", "taskId">>, "TaskMirror")}),
   TaskComments |->
         table(<<"id">>, {}, {},
               {cascade(<<"projectId">>, "Projects"),
                restrict(<<"createdByUserId">>, "Users"),
                cascade(<<"projectId", "taskId">>, "TaskMirror")}),
   TaskComments_Attachments |->
         table(<<"projectId", "taskId", "commentId", "attachmentId">>, {}, {},
               {cascade(<<"projectId">>, "Projects"),
                cascade(<<"commentId">>, "TaskComments"),
                cascade(<<"attachmentId">>, "Attachments"),
                cascade(<<"projectId", "taskId">>, "TaskMirror")}),
   TaskMirror |->
         table(<<"projectId", "taskId">>, {}, {},
               {cascade(<<"projectId">>, "Projects")})]
From5(db) == CreateTables(db, Created6)

(* v6--v7: the journals are in files now; their columns are put aside.      *)
Created7 ==
  [Projects_Attachments |->
         table(<<"projectId", "attachmentId">>, {}, {},
               {cascade(<<"projectId">>, "Projects"),
                cascade(<<"attachmentId">>, "Attachments")})]
From6(db) ==
  LET issues == RenameColumn(db, "Issues", "journal",
                             "reusable-v7-issues-journal")
      projects == RenameColumn(issues, "Projects", "journal",
                               "reusable-v7-projects-journal")
  IN  CreateTables(projects, Created7)

(* v7--v8, v8--v9: notifications, mentions.                                 *)
Created8 ==
  [Notifications |->
         table(<<"id">>, {}, {},
               {cascade(<<"issueId">>, "Issues"),
                cascade(<<"projectId">>, "Projects"),
                restrict(<<"actorUserId">>, "Users"),
                cascade(<<"attachmentId">>, "Attachments")}),
   Users_Notifications |->
         table(<<"userId", "notificationId">>, {}, {},
               {cascade(<<"userId">>, "Users"),
                cascade(<<"notificationId">>, "Notifications")})]
From7(db) == CreateTables(db, Created8)
Created9 ==
  [Mentions |->
         table(<<"id">>, {"taskId", "commentId"},
               {{"mentionedUserId", "mentionContainerType", "containerKey"}},
               {cascade(<<"issueId">>, "Issues"),
                cascade(<<"projectId">>, "Projects"),
                cascade(<<"speakerUserId">>, "Users"),
                cascade(<<"mentionedUserId">>, "Users")})]
From8(db) ==
  AddColumn(CreateTables(db, Created9), "Notifications", "mentionedUserId",
            {reference(<<"mentionedUserId">>, "Users", "no action")}, <<>>)

(* v9--v10: the hook does everything.                                       *)
From9(db) == db

(* v10--v11: every project gets a default chart, and the rows about a task  *)
(* refer to that chart instead of the project.  New tables are filled from  *)
(* the old ones, which are dropped before the new ones take their names.    *)
chartTable ==
  table(<<"id">>, {}, {{"projectId", "chartId"}},
        {cascade(<<"projectId">>, "Projects")})
ofChart == cascade(<<"projectGanttChartId">>, "ProjectGanttCharts")
ofTask == cascade(<<"projectGanttChartId", "taskId">>, "TaskMirror__new")
Created11 ==
  [TaskMirror__new |->
         table(<<"projectGanttChartId", "taskId">>, {}, {}, {ofChart}),
   TaskAttachments__new |->
         table(<<"projectGanttChartId", "taskId", "attachmentId">>, {}, {},
               {ofChart, ofTask, cascade(<<"attachmentId">>, "Attachments")}),
   TaskComments__new |->
         table(<<"id">>, {}, {},
               {ofChart, ofTask, restrict(<<"createdByUserId">>, "Users")}),
   TaskComments_Attachments__new |->
         table(<<"projectGanttChartId", "taskId", "commentId", "attachmentId">>,
               {}, {},
               {ofChart, ofTask, cascade(<<"attachmentId">>, "Attachments"),
                cascade(<<"commentId">>, "TaskComments__new")})]
(* An AUTOINCREMENT id is new; one chart per project gives one name each.   *)
DefaultCharts(db) ==
  InsertNew(db, "ProjectGanttCharts",
            {[id |-> p.id, projectId |-> p.id, chartId |-> 0] :
               p \in db.rows["Projects"]})
(* The table that takes the place of an old one.                            *)
NewName ==
  [TaskMirror |-> "TaskMirror__new",
   TaskAttachments |-> "TaskAttachments__new",
   TaskComments |-> "TaskComments__new",
   TaskComments_Attachments |-> "TaskComments_Attachments__new"]
(* INSERT INTO <t>__new SELECT ... FROM <t> INNER JOIN ProjectGanttCharts.  *)
onDefaultChart(row, charts) ==
  {[k \in (DOMAIN row \ {"projectId"}) \cup {"projectGanttChartId"} |->
      IF k = "projectGanttChartId" THEN c.id ELSE row[k]] :
     c \in {x \in charts : x.projectId = row.projectId /\ x.chartId = 0}}
FillNew(db, old) ==
  IF HasColumn(db, old, "projectId")
  THEN Insert(db, NewName[old],
              UNION {onDefaultChart(row, db.rows["ProjectGanttCharts"]) :
                       row \in db.rows[old]})
  ELSE Fail(db)
TakeName(db, old) == RenameTable(db, NewName[old], old)
(* Mutant: TaskMirror is dropped before its comments are copied.            *)
From10DropsMirrorFirst(db) ==
  LET charted == DefaultCharts(CreateTableIfMissing(db, "ProjectGanttCharts",
                                                    chartTable))
      mirror == FillNew(CreateTables(charted, Created11), "TaskMirror")
      copied == FillNew(FillNew(DropTable(mirror, "TaskMirror"),
                  "TaskAttachments"), "TaskComments")
      links == FillNew(copied, "TaskComments_Attachments")
      dropped == DropTable(DropTable(DropTable(links, "TaskAttachments"),
                   "TaskComments_Attachments"), "TaskComments")
  IN  TakeName(TakeName(TakeName(TakeName(dropped, "TaskMirror"),
        "TaskComments"), "TaskAttachments"), "TaskComments_Attachments")

From10(db) ==
  LET charted == DefaultCharts(CreateTableIfMissing(db, "ProjectGanttCharts",
                                                    chartTable))
      made == CreateTables(charted, Created11)
      attachments == FillNew(FillNew(made, "TaskMirror"), "TaskAttachments")
      comments == FillNew(DropTable(attachments, "TaskAttachments"),
                          "TaskComments")
      links == FillNew(comments, "TaskComments_Attachments")
      dropped == DropTable(DropTable(DropTable(links,
                   "TaskComments_Attachments"), "TaskComments"), "TaskMirror")
  IN  TakeName(TakeName(TakeName(TakeName(dropped, "TaskMirror"),
        "TaskComments"), "TaskAttachments"), "TaskComments_Attachments")

RunSql(v, db) ==
  CASE v = 1 -> From1(db) [] v = 2 -> From2(db) [] v = 3 -> From3(db)
    [] v = 4 -> From4(db) [] v = 5 -> From5(db) [] v = 6 -> From6(db)
    [] v = 7 -> From7(db) [] v = 8 -> From8(db) [] v = 9 -> From9(db)
    [] v = 10 -> From10(db)
=============================================================================
