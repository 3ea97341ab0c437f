---------------------------- MODULE MCMigrations ----------------------------
(* Rows for a database of each version: two projects, one with a journal,   *)
(* an issue, tasks with comments and attachments, and one mention.          *)
EXTENDS DocumentedUpgradeRules, Relations

users == "Users" :> {[id |-> "admin"], [id |-> "pm"]}
rows1 ==
  users
  @@ "Roles" :> {[code |-> "GGTC_ROLE_ADMIN"],
                 [code |-> "GGTC_ROLE_PROJECT_MANAGER"]}
  @@ "Users_Roles" :>
       {[userId |-> "admin", roleCode |-> "GGTC_ROLE_ADMIN"],
        [userId |-> "pm", roleCode |-> "GGTC_ROLE_PROJECT_MANAGER"]}
rows2 ==
  users
  @@ "SystemRoles" :> {[code |-> "GGTC_SYSTEMROLE_ADMIN"]}
  @@ "Users_SystemRoles" :>
       {[userId |-> "admin", roleCode |-> "GGTC_SYSTEMROLE_ADMIN"]}
  @@ "IssueStatuses" :> {[code |-> "ISSUE_STATUS_OPEN"]}
  @@ "Projects" :> {[id |-> "p", journal |-> "kept"], [id |-> "q"]}
  @@ "Issues" :> {[id |-> "i", projectId |-> "p", journal |-> "kept",
                   status |-> "ISSUE_STATUS_OPEN"]}
task(p, t) == [projectId |-> p, taskId |-> t]
rows6 ==
  "Attachments" :> {[id |-> "a", uploadedByUserId |-> "pm"]}
  @@ "TaskMirror" :> {task("p", "t1"), task("p", "t2"), task("q", "t1")}
  @@ "TaskAttachments" :> {task("p", "t1") @@ [attachmentId |-> "a"]}
  @@ "TaskComments" :> {task("p", "t1") @@ [id |-> "c", createdByUserId |-> "pm"],
                        task("q", "t1") @@ [id |-> "d", createdByUserId |-> "pm"]}
  @@ "TaskComments_Attachments" :>
       {task("p", "t1") @@ [commentId |-> "c", attachmentId |-> "a"]}
  @@ rows2
onFile(row) == [c \in DOMAIN row \ {"journal"} |-> row[c]]
rows7 == [rows6 EXCEPT !["Projects"] = {onFile(row) : row \in @},
                       !["Issues"] = {onFile(row) : row \in @}]
mention(id) ==
  [id |-> id, speakerUserId |-> "pm", mentionedUserId |-> "admin",
   projectId |-> "p", issueId |-> "i",
   mentionContainerType |-> "MENTION_CONTAINER_ISSUE_JOURNAL"]
rows9 ==
  "Mentions" :> {mention("m") @@ [containerKey |-> <<"p", "i", "-", "-">>]}
  @@ "Notifications" :> {[id |-> "n", actorUserId |-> "pm", projectId |-> "p",
                          issueId |-> "i"]}
  @@ "Users_Notifications" :> {[userId |-> "admin", notificationId |-> "n"]}
  @@ rows7
Rows == <<rows1, rows2, rows2, rows2, rows2, rows6, rows7, rows7, rows9, rows9,
          <<>>>>
NoRows == {}
Paths == {<<"p">>, <<"p", "i">>}
LegacyRows == {[rows9 EXCEPT !["Mentions"] = {mention("m")}],
               [rows9 EXCEPT !["Mentions"] = {mention("m"), mention("m2")}]}
=============================================================================
