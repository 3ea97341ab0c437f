----------------------------- MODULE Relations -----------------------------
(* The relations(...) of every version's schema.ts: which rows of other     *)
(* tables the ORM joins to a row of a table.  A `one` names the columns     *)
(* that hold the key of the other row; a `many` names only the table the    *)
(* other rows are in, and the ORM infers the columns from the `one` that    *)
(* points back.  The names of the fields the joined rows go into are left   *)
(* out.  No query of the backend joins by a relation yet.                   *)
EXTENDS Schemas

one(columns, parent) ==
  [kind |-> "one", columns |-> columns, table |-> parent, name |-> ""]
many(child) ==
  [kind |-> "many", columns |-> <<>>, table |-> child, name |-> ""]
manys(tables) == {many(t) : t \in tables}
named(name, relation) == [relation EXCEPT !.name = name]
(* A comment, the comment it answers and the comments that answer it. *)
thread(name, comments) ==
  {named(name, one(<<"parentCommentId">>, comments)),
   named(name, many(comments))}

(* Version 1: accounts, credentials and sessions. *)
EntityRelations1 ==
  [Users |->
         manys({"Users_Roles", "Users_CredentialTypes", "Users_Sessions"}),
   Roles |-> manys({"Users_Roles"}),
   CredentialTypes |-> manys({"Users_CredentialTypes"})]
MembershipRelations1 ==
  [Users_Roles |->
         {one(<<"userId">>, "Users"), one(<<"roleCode">>, "Roles")}]
CredentialRelations1 ==
  [Users_CredentialTypes |->
         {one(<<"userId">>, "Users"),
          one(<<"credentialTypeCode">>, "CredentialTypes")}
         \cup manys({"Users_PasswordCredentials"}),
   Users_PasswordCredentials |->
         {one(<<"userCredentialTypeId">>, "Users_CredentialTypes")},
   Users_Sessions |-> {one(<<"userId">>, "Users")}]
Relations1 ==
  EntityRelations1 ++ MembershipRelations1 ++ CredentialRelations1

(* Version 2: projects, teams, organizations, scoped roles, issues. *)
EntityRelations2 ==
  [Users |->
         manys({"Users_CredentialTypes", "Users_Organizations",
                "Users_Organizations_OrganizationRoles", "Projects_Users",
                "Users_Projects_ProjectRoles", "Users_Sessions",
                "Users_SystemRoles", "Teams_Users", "Users_Teams_TeamRoles"}),
   Projects |->
         manys({"Issues", "Projects_Organizations", "Projects_Teams",
                "Projects_Users", "Users_Projects_ProjectRoles"}),
   Teams |->
         manys({"Organizations_Teams", "Projects_Teams", "Teams_Users",
                "Users_Teams_TeamRoles"}),
   Organizations |->
         manys({"Projects_Organizations", "Organizations_Teams",
                "Users_Organizations",
                "Users_Organizations_OrganizationRoles"}),
   SystemRoles |-> manys({"Users_SystemRoles"}),
   ProjectRoles |-> manys({"Users_Projects_ProjectRoles"}),
   TeamRoles |-> manys({"Users_Teams_TeamRoles"}),
   OrganizationRoles |->
         manys({"Users_Organizations_OrganizationRoles"}),
   IssueStatuses |-> manys({"Issues"}),
   ClosedReasons |-> manys({"Issues"}),
   CredentialTypes |-> manys({"Users_CredentialTypes"})]
MembershipRelations2 ==
  [Projects_Users |->
         {one(<<"projectId">>, "Projects"), one(<<"userId">>, "Users")},
   Teams_Users |->
         {one(<<"teamId">>, "Teams"), one(<<"userId">>, "Users")},
   Projects_Teams |->
         {one(<<"projectId">>, "Projects"), one(<<"teamId">>, "Teams")},
   Users_Organizations |->
         {one(<<"organizationId">>, "Organizations"),
          one(<<"userId">>, "Users")},
   Projects_Organizations |->
         {one(<<"organizationId">>, "Organizations"),
          one(<<"projectId">>, "Projects")},
   Organizations_Teams |->
         {one(<<"organizationId">>, "Organizations"),
          one(<<"teamId">>, "Teams")},
   Users_SystemRoles |->
         {one(<<"roleCode">>, "SystemRoles"), one(<<"userId">>, "Users")},
   Users_Projects_ProjectRoles |->
         {one(<<"projectId">>, "Projects"),
          one(<<"roleCode">>, "ProjectRoles"), one(<<"userId">>, "Users")},
   Users_Teams_TeamRoles |->
         {one(<<"roleCode">>, "TeamRoles"), one(<<"teamId">>, "Teams"),
          one(<<"userId">>, "Users")},
   Users_Organizations_OrganizationRoles |->
         {one(<<"organizationId">>, "Organizations"),
          one(<<"roleCode">>, "OrganizationRoles"),
          one(<<"userId">>, "Users")}]
CredentialRelations2 == CredentialRelations1
DiscussionRelations2 ==
  [Issues |->
         {one(<<"closedReason">>, "ClosedReasons"),
          one(<<"projectId">>, "Projects"),
          one(<<"status">>, "IssueStatuses")}]
Relations2 ==
  EntityRelations2 ++ MembershipRelations2 ++ CredentialRelations2 ++
  DiscussionRelations2

(* Version 3: those of version 2. *)
EntityRelations3 == EntityRelations2
MembershipRelations3 == MembershipRelations2
CredentialRelations3 == CredentialRelations2
DiscussionRelations3 == DiscussionRelations2
Relations3 ==
  EntityRelations3 ++ MembershipRelations3 ++ CredentialRelations3 ++
  DiscussionRelations3

(* Version 4: scoped access tokens. *)
EntityRelations4 ==
  [EntityRelations3 EXCEPT
       !["Users"] = @ \cup manys({"Users_ScopedAccessTokenCredentials"})]
MembershipRelations4 == MembershipRelations3
CredentialRelations4 ==
  [CredentialRelations3 EXCEPT
       !["Users_CredentialTypes"] =
           @ \cup manys({"Users_ScopedAccessTokenCredentials"})]
ScopeRelations4 ==
  [ScopedAccessObjectTypes |->
         manys({"ScopedAccessTokenCredentials_Objects"}),
   Users_ScopedAccessTokenCredentials |->
         {one(<<"ownerUserId">>, "Users"),
          one(<<"userCredentialTypeId">>, "Users_CredentialTypes")}
         \cup manys({"ScopedAccessTokenCredentials_Objects"}),
   ScopedAccessTokenCredentials_Objects |->
         {one(<<"scopedAccessObjectTypeCode">>, "ScopedAccessObjectTypes"),
          one(<<"scopedAccessTokenCredentialId">>,
              "Users_ScopedAccessTokenCredentials")}]
DiscussionRelations4 == DiscussionRelations3
Relations4 ==
  EntityRelations4 ++ MembershipRelations4 ++ CredentialRelations4 ++
  ScopeRelations4 ++ DiscussionRelations4

(* Version 5: attachments and issue comments. *)
EntityRelations5 == EntityRelations4
MembershipRelations5 == MembershipRelations4
CredentialRelations5 == CredentialRelations4
ScopeRelations5 == ScopeRelations4
DiscussionRelations5 ==
  [Attachments |->
         {one(<<"uploadedByUserId">>, "Users")}
         \cup manys({"Issues_Attachments", "IssueComments_Attachments"}),
   Issues_Attachments |->
         {one(<<"issueId">>, "Issues"),
          one(<<"attachmentId">>, "Attachments")},
   IssueComments |->
         {one(<<"issueId">>, "Issues"), one(<<"createdByUserId">>, "Users")}
         \cup thread("issueCommentParent", "IssueComments")
         \cup manys({"IssueComments_Attachments"}),
   IssueComments_Attachments |->
         {one(<<"issueId">>, "Issues"), one(<<"commentId">>, "IssueComments"),
          one(<<"attachmentId">>, "Attachments")}]
  ++ [DiscussionRelations4 EXCEPT
       !["Issues"] = @ \cup manys({"IssueComments", "Issues_Attachments"})]
Relations5 ==
  EntityRelations5 ++ MembershipRelations5 ++ CredentialRelations5 ++
  ScopeRelations5 ++ DiscussionRelations5

(* Version 6: the tables about a project's tasks. *)
EntityRelations6 ==
  [EntityRelations5 EXCEPT
       !["Users"] = @ \cup manys({"TaskComments"}),
       !["Projects"] = @ \cup manys({"TaskMirror"})]
MembershipRelations6 == MembershipRelations5
CredentialRelations6 == CredentialRelations5
ScopeRelations6 == ScopeRelations5
DiscussionRelations6 ==
  [DiscussionRelations5 EXCEPT
       !["Attachments"] = @ \cup manys({"TaskAttachments",
                                          "TaskComments_Attachments"})]
TaskRelations6 ==
  [TaskMirror |->
         {one(<<"projectId">>, "Projects")}
         \cup manys({"TaskAttachments", "TaskComments",
                     "TaskComments_Attachments"}),
   TaskAttachments |->
         {one(<<"attachmentId">>, "Attachments"),
          one(<<"projectId", "taskId">>, "TaskMirror")},
   TaskComments |->
         {one(<<"createdByUserId">>, "Users"),
          one(<<"projectId", "taskId">>, "TaskMirror")}
         \cup thread("taskCommentParent", "TaskComments")
         \cup manys({"TaskComments_Attachments"}),
   TaskComments_Attachments |->
         {one(<<"attachmentId">>, "Attachments"),
          one(<<"commentId">>, "TaskComments"),
          one(<<"projectId", "taskId">>, "TaskMirror")}]
Relations6 ==
  EntityRelations6 ++ MembershipRelations6 ++ CredentialRelations6 ++
  ScopeRelations6 ++ DiscussionRelations6 ++ TaskRelations6

(* Version 7: the attachments of a project. *)
EntityRelations7 ==
  [EntityRelations6 EXCEPT
       !["Projects"] = @ \cup manys({"Projects_Attachments"})]
MembershipRelations7 == MembershipRelations6
CredentialRelations7 == CredentialRelations6
ScopeRelations7 == ScopeRelations6
DiscussionRelations7 ==
  [Projects_Attachments |->
         {one(<<"attachmentId">>, "Attachments"),
          one(<<"projectId">>, "Projects")}]
  ++ [DiscussionRelations6 EXCEPT
       !["Attachments"] = @ \cup manys({"Projects_Attachments"})]
TaskRelations7 == TaskRelations6
Relations7 ==
  EntityRelations7 ++ MembershipRelations7 ++ CredentialRelations7 ++
  ScopeRelations7 ++ DiscussionRelations7 ++ TaskRelations7

(* Version 8: notifications. *)
EntityRelations8 ==
  [EntityRelations7 EXCEPT
       !["Users"] = @ \cup {named("notificationActor", many("Notifications"))}
           \cup manys({"Users_Notifications"}),
       !["Projects"] = @ \cup manys({"Notifications"})]
MembershipRelations8 == MembershipRelations7
CredentialRelations8 == CredentialRelations7
ScopeRelations8 == ScopeRelations7
DiscussionRelations8 ==
  [DiscussionRelations7 EXCEPT
       !["Issues"] = @ \cup manys({"Notifications"}),
       !["Attachments"] = @ \cup manys({"Notifications"})]
TaskRelations8 == TaskRelations7
NoticeRelations8 ==
  [Notifications |->
         {named("notificationActor", one(<<"actorUserId">>, "Users")),
          one(<<"attachmentId">>, "Attachments"),
          one(<<"issueId">>, "Issues"), one(<<"projectId">>, "Projects")}
         \cup manys({"Users_Notifications"}),
   Users_Notifications |->
         {one(<<"notificationId">>, "Notifications"),
          one(<<"userId">>, "Users")}]
Relations8 ==
  EntityRelations8 ++ MembershipRelations8 ++ CredentialRelations8 ++
  ScopeRelations8 ++ DiscussionRelations8 ++ TaskRelations8 ++
  NoticeRelations8

(* Version 9: mentions. *)
EntityRelations9 == EntityRelations8
MembershipRelations9 == MembershipRelations8
CredentialRelations9 == CredentialRelations8
ScopeRelations9 == ScopeRelations8
DiscussionRelations9 == DiscussionRelations8
TaskRelations9 == TaskRelations8
NoticeRelations9 ==
  [Mentions |->
         {one(<<"projectId">>, "Projects"), one(<<"issueId">>, "Issues"),
          named("mentionSpeakerUser", one(<<"speakerUserId">>, "Users")),
          named("mentionMentionedUser", one(<<"mentionedUserId">>, "Users"))}]
  ++ [NoticeRelations8 EXCEPT
       !["Notifications"] =
           @ \cup {named("notificationMentionedUser",
                         one(<<"mentionedUserId">>, "Users"))}]
Relations9 ==
  EntityRelations9 ++ MembershipRelations9 ++ CredentialRelations9 ++
  ScopeRelations9 ++ DiscussionRelations9 ++ TaskRelations9 ++
  NoticeRelations9

(* Version 10: those of version 9. *)
EntityRelations10 == EntityRelations9
MembershipRelations10 == MembershipRelations9
CredentialRelations10 == CredentialRelations9
ScopeRelations10 == ScopeRelations9
DiscussionRelations10 == DiscussionRelations9
TaskRelations10 == TaskRelations9
NoticeRelations10 == NoticeRelations9
Relations10 ==
  EntityRelations10 ++ MembershipRelations10 ++ CredentialRelations10 ++
  ScopeRelations10 ++ DiscussionRelations10 ++ TaskRelations10 ++
  NoticeRelations10

(* Version 11: the charts of a project. *)
EntityRelations11 ==
  [ProjectGanttCharts |->
         {one(<<"projectId">>, "Projects")}
         \cup manys({"TaskMirror"})]
  ++ [EntityRelations10 EXCEPT
       !["Projects"] = @ \cup manys({"ProjectGanttCharts"})]
MembershipRelations11 == MembershipRelations10
CredentialRelations11 == CredentialRelations10
ScopeRelations11 == ScopeRelations10
DiscussionRelations11 == DiscussionRelations10
TaskRelations11 ==
  [TaskMirror |->
         {one(<<"projectGanttChartId">>, "ProjectGanttCharts")}
         \cup manys({"TaskAttachments", "TaskComments",
                     "TaskComments_Attachments"}),
   TaskAttachments |->
         {one(<<"attachmentId">>, "Attachments"),
          one(<<"projectGanttChartId", "taskId">>, "TaskMirror")},
   TaskComments |->
         {one(<<"createdByUserId">>, "Users"),
          one(<<"projectGanttChartId", "taskId">>, "TaskMirror")}
         \cup thread("taskCommentParent", "TaskComments")
         \cup manys({"TaskComments_Attachments"}),
   TaskComments_Attachments |->
         {one(<<"attachmentId">>, "Attachments"),
          one(<<"commentId">>, "TaskComments"),
          one(<<"projectGanttChartId", "taskId">>, "TaskMirror")}]
NoticeRelations11 == NoticeRelations10
Relations11 ==
  EntityRelations11 ++ MembershipRelations11 ++ CredentialRelations11 ++
  ScopeRelations11 ++ DiscussionRelations11 ++ TaskRelations11 ++
  NoticeRelations11

Related(v) ==
  CASE v = 1 -> Relations1 [] v = 2 -> Relations2 [] v = 3 -> Relations3
    [] v = 4 -> Relations4 [] v = 5 -> Relations5 [] v = 6 -> Relations6
    [] v = 7 -> Relations7 [] v = 8 -> Relations8 [] v = 9 -> Relations9
    [] v = 10 -> Relations10 [] v = 11 -> Relations11

(* The relations the ORM finds on the other side of a `many` of table t: by *)
(* its name when it has one, else those that point at t.                    *)
Opposites(v, t, m) ==
  {r \in Related(v)[m.table] :
     IF m.name /= "" THEN r.name = m.name /\ r /= m ELSE r.table = t}
Inferred(v, t, m) == \E r \in Opposites(v, t, m) :
  r.kind = "one" /\ Opposites(v, t, m) = {r}

(* Every `one` follows a reference of its table, so a row it leads to       *)
(* exists; only the parent of a comment is no declared reference.           *)
ASSUME OnesFollowReferences ==
  \A v \in Versions : \A t \in DOMAIN Related(v) :
    \A r \in {r \in Related(v)[t] : r.kind = "one"} :
      \/ \E f \in Declared(v)[t].refs :
           f.columns = r.columns /\ f.table = r.table
      \/ r.columns = <<"parentCommentId">> /\ r.table = t

(* Every `many` has the one opposite the ORM needs, except that version 11, *)
(* where a task refers to a chart and no longer to a project, still gives a *)
(* project its mirrored tasks: a query that joined them would fail.         *)
ASSUME ManysAreInferred ==
  \A v \in Versions : \A t \in DOMAIN Related(v) :
    {m \in Related(v)[t] : m.kind = "many" /\ ~Inferred(v, t, m)} =
      IF v = 11 /\ t = "Projects" THEN {many("TaskMirror")} ELSE {}
=============================================================================
