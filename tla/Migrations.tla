----------------------------- MODULE Migrations -----------------------------
(* The life of the production database: created from a snapshot, migrated   *)
(* version by version, tried on a copy first, prepared for the server.      *)
(* One attempt of db:migrate opens the database and checks its version,     *)
(* runs the hook of the migration outside any transaction, then runs the    *)
(* SQL, the new version and the record of the migration in one transaction. *)
(* Between BEGIN and the first statement the transaction holds no lock, so  *)
(* the SQL runs on what the database is by then.                            *)
EXTENDS MigrationSql, ReferenceData

CONSTANTS
  Operators,      \* who runs the tools, each one command at a time
  StartVersions,  \* versions the production database may start from
  NewVersions,    \* versions db:createfrom is asked for
  Fixture,        \* the rows a database starts with, by version
  LegacyFixture,  \* the rows of databases made by an older version 9
  JournalKeys     \* the paths of the journals of projects and issues

ASSUME VersionsExist ==
  StartVersions \subseteq Versions /\ NewVersions \subseteq Versions

Targets == {"prod", "proddev"}
Unset == 0
Missing == [schemaName |-> Unset, applied |-> {}, ok |-> FALSE,
            tables |-> <<>>, rows |-> <<>>, preparedFor |-> Unset]

VARIABLES
  databases,  \* the database files, Missing when there is none
  journals,   \* the journal files below untrusted-content
  attempts,   \* per operator: the migration it is running
  origins     \* history: the database each file was before its migrations
upgradeVars == <<databases, journals, attempts, origins>>

atRest == [step |-> "idle", target |-> "prod", from |-> 1, hook |-> <<>>,
         files |-> <<>>]

newDatabase(v, tables, rows) ==
  [schemaName |-> v, applied |-> {}, ok |-> TRUE, preparedFor |-> Unset,
   tables |-> tables,
   rows |-> [t \in DOMAIN tables |->
               IF t \in DOMAIN rows THEN rows[t] ELSE {}]]

(* What a database keeps whatever its version: rows with an id, and up to    *)
(* version 10 rows about the tasks of a project.                            *)
IdentifiedTables ==
  {"Users", "Projects", "Issues", "Attachments", "Mentions", "Notifications"}
TaskTables ==
  {"TaskMirror", "TaskAttachments", "TaskComments", "TaskComments_Attachments"}
(* The columns of a primary key hold something, a row about a task is about *)
(* a project that is there, and version 1 has no system roles.              *)
holdsKeys(rows) ==
  /\ \A t \in IdentifiedTables \cap DOMAIN rows :
       \A row \in rows[t] : "id" \in DOMAIN row
  /\ \A t \in TaskTables \cap DOMAIN rows : \A row \in rows[t] :
       /\ {"projectId", "taskId"} \subseteq DOMAIN row
       /\ "Projects" \in DOMAIN rows
       /\ \E p \in rows["Projects"] : p.id = row.projectId
ASSUME RowsHaveTheirKeys ==
  /\ \A v \in StartVersions \cap 1..10 : holdsKeys(Fixture[v])
  /\ \A rows \in LegacyFixture : holdsKeys(rows)
  /\ 1 \in StartVersions /\ "Users_Roles" \in DOMAIN Fixture[1] =>
       \A row \in Fixture[1]["Users_Roles"] :
         row.roleCode # "GGTC_SYSTEMROLE_ADMIN"

(* Databases made by a version 9 whose Mentions had no container keys yet.  *)
userReference(onDelete) ==
  reference(<<"mentionedUserId">>, "Users", onDelete)
legacyMentions(tables) ==
  [tables EXCEPT !["Mentions"].columns = @ \ {"containerKey"},
                 !["Mentions"].unique = {}]
legacyTables ==
  {[legacyMentions(Snapshot9) EXCEPT
      !["Notifications"] = Snapshot8["Notifications"]],
   [legacyMentions(Snapshot9) EXCEPT
      !["Notifications"].refs = (@ \ {userReference("cascade")})
                                \cup {userReference("no action")}]}
startDatabases ==
  {newDatabase(v, Declared(v), Fixture[v]) : v \in StartVersions}
  \cup {newDatabase(9, tables, rows) :
           tables \in legacyTables, rows \in LegacyFixture}
(* Up to version 6 the journals are in the database only.                   *)
UpgradeInit ==
  \E db \in startDatabases :
    /\ databases = [t \in Targets |-> IF t = "prod" THEN db ELSE Missing]
    /\ origins = databases
    /\ journals = [k \in JournalKeys |->
                     IF db.schemaName < 7 THEN "none" ELSE "kept"]
    /\ attempts = [o \in Operators |-> atRest]

become(o, attempt) == attempts' = [attempts EXCEPT ![o] = attempt]
end(o) == become(o, atRest)
at(o, step) == attempts[o].step = step
database(o) == databases[attempts[o].target]
(* Mutant: whatever the target, the production file is opened.              *)
commitToProd(o, db) == databases' = [databases EXCEPT !["prod"] = db]

commit(o, db) == databases' = [databases EXCEPT ![attempts[o].target] = db]

(* db:migrate --on t --with v<v>--v<v+1>.  A trial needs a production       *)
(* database and copies it unless a copy is already there.                   *)
copied == databases["proddev"].ok
CopyProduction ==
  /\ databases' = [databases EXCEPT !["proddev"] = databases["prod"]]
  /\ origins' = [origins EXCEPT !["proddev"] = origins["prod"]]
StartMigration(o, t, v) ==
  /\ at(o, "idle") /\ (t = "prod" => databases["prod"].ok)
  /\ IF t = "proddev" /\ ~copied
     THEN databases["prod"].ok /\ CopyProduction
     ELSE UNCHANGED <<databases, origins>>
  /\ become(o, [atRest EXCEPT !.step = "open", !.target = t, !.from = v])
  /\ UNCHANGED journals

(* Mutant: the hook of v6--v7 exports the journals of projects only.        *)
hookOfForgetsIssues(v) ==
  CASE v = 6 -> <<"Projects">>
    [] v = 7 -> <<"Projects", "Issues">>
    [] v = 9 -> <<"key", "backfill", "unique", "user">>
    [] OTHER -> <<>>

hookOf(v) == CASE v \in {6, 7} -> <<"Projects", "Issues">>
               [] v = 9 -> <<"key", "backfill", "unique", "user">>
               [] OTHER -> <<>>
OpenDatabase(o) ==
  /\ at(o, "open")
  /\ IF database(o).schemaName = attempts[o].from
     THEN become(o, [attempts[o] EXCEPT !.step = "hook",
                                        !.hook = hookOf(attempts[o].from)])
     ELSE end(o)
  /\ UNCHANGED <<databases, journals, origins>>

(* The hooks of v6--v7 and v7--v8 write the journals found in the database  *)
(* to the files of the server, one file at a time.                          *)
journalColumn(v, t) ==
  CASE v = 6 -> "journal"
    [] v = 7 /\ t = "Projects" -> "reusable-v7-projects-journal"
    [] v = 7 /\ t = "Issues" -> "reusable-v7-issues-journal"
pathOf(t, row) ==
  IF t = "Projects" THEN <<row.id>> ELSE <<row.projectId, row.id>>
(* A journal of the database is a text, and its path is one of those.       *)
fileColumns == {"reusable-v7-projects-journal", "reusable-v7-issues-journal"}
holdsTexts(rows) ==
  \A t \in {"Projects", "Issues"} \cap DOMAIN rows :
    /\ IsFiniteSet(rows[t])
    /\ \A row \in rows[t] :
         /\ "journal" \in DOMAIN row => pathOf(t, row) \in JournalKeys
         /\ \A c \in DOMAIN row \cap (fileColumns \cup {"journal"}) :
              row[c] # "none"
ASSUME JournalsAreTexts ==
  /\ \A v \in StartVersions : holdsTexts(Fixture[v])
  /\ \A rows \in LegacyFixture : holdsTexts(rows)
  /\ \A v \in StartVersions \cap 1..6 :
       \A t \in {"Projects", "Issues"} \cap DOMAIN Fixture[v] :
         \A row \in Fixture[v][t] : DOMAIN row \cap fileColumns = {}
exports(db, v, t) ==
  {<<pathOf(t, row), row[journalColumn(v, t)]>> :
     row \in {r \in db.rows[t] : journalColumn(v, t) \in DOMAIN r}}
ReadJournals(o) ==
  LET a == attempts[o]
      t == Head(a.hook)
  IN  /\ at(o, "hook") /\ a.from \in {6, 7} /\ a.hook # <<>> /\ a.files = <<>>
      /\ IF HasColumn(database(o), t, journalColumn(a.from, t))
         THEN become(o, [a EXCEPT !.hook = Tail(@),
                        !.files = SetToSeq(exports(database(o), a.from, t))])
         ELSE end(o)
      /\ UNCHANGED <<databases, journals, origins>>
WriteJournalFile(o) ==
  LET a == attempts[o]
      file == Head(a.files)
  IN  /\ at(o, "hook") /\ a.files # <<>>
      /\ journals' = [journals EXCEPT ![file[1]] = file[2]]
      /\ become(o, [a EXCEPT !.files = Tail(@)])
      /\ UNCHANGED <<databases, origins>>

(* The hook of v9--v10 repairs what an older version 9 lacks.  Each of its  *)
(* statements commits by itself.                                            *)
column(row, c) == IF c \in DOMAIN row THEN row[c] ELSE "-"
containerKeyOf(row) ==
  <<column(row, "projectId"), column(row, "issueId"), column(row, "taskId"),
    column(row, "commentId")>>
(* From version 9 on the server writes the key of every mention it adds.    *)
ASSUME MentionsAreKeyed ==
  \A v \in StartVersions \cap 9..11 : "Mentions" \in DOMAIN Fixture[v] =>
    \A row \in Fixture[v]["Mentions"] :
      "containerKey" \in DOMAIN row /\ row.containerKey = containerKeyOf(row)
EnsureContainerKey(db) ==
  IF HasColumn(db, "Mentions", "containerKey") THEN db
  ELSE AddColumn(db, "Mentions", "containerKey", {},
                 [containerKey |-> <<"-", "-", "-", "-">>])
(* Mutant: only mentions without a key are filled, and all have the default. *)
BackfillMissingKeys(db) ==
  Update(db, "Mentions",
         {IF "containerKey" \in DOMAIN row THEN row
          ELSE row ++ [containerKey |-> containerKeyOf(row)] :
            row \in db.rows["Mentions"]})

BackfillContainerKeys(db) ==
  Update(db, "Mentions", {[row EXCEPT !.containerKey = containerKeyOf(row)] :
                            row \in db.rows["Mentions"]})
mentionIndex == {"mentionedUserId", "mentionContainerType", "containerKey"}
EnsureMentionIndex(db) ==
  IF mentionIndex \in db.tables["Mentions"].unique THEN db
  ELSE AddUniqueIndex(db, "Mentions", mentionIndex)
EnsureMentionedUser(db) ==
  IF HasColumn(db, "Notifications", "mentionedUserId") THEN db
  ELSE AddColumn(db, "Notifications", "mentionedUserId",
                 {userReference("no action")}, <<>>)
Repair(o) ==
  LET a == attempts[o]
      db == CASE Head(a.hook) = "key" -> EnsureContainerKey(database(o))
              [] Head(a.hook) = "backfill" -> BackfillContainerKeys(database(o))
              [] Head(a.hook) = "unique" -> EnsureMentionIndex(database(o))
              [] Head(a.hook) = "user" -> EnsureMentionedUser(database(o))
  IN  /\ at(o, "hook") /\ a.from = 9 /\ a.hook # <<>>
      /\ IF db.ok
         THEN commit(o, db) /\ become(o, [a EXCEPT !.hook = Tail(@)])
         ELSE end(o) /\ UNCHANGED databases
      /\ UNCHANGED <<journals, origins>>

(* The transaction: the SQL, writeCurrentSchemaName, recordAppliedMigration *)
(* and COMMIT follow one another without an await; a failure rolls back.    *)
RunMigration(o) ==
  LET v == attempts[o].from
      db == RunSql(v, database(o))
  IN  /\ at(o, "hook") /\ attempts[o].hook = <<>> /\ attempts[o].files = <<>>
      /\ IF db.ok
         THEN commit(o, [db EXCEPT !.schemaName = v + 1, !.preparedFor = Unset,
                                   !.applied = @ \cup {v}])
         ELSE UNCHANGED databases
      /\ end(o)
      /\ UNCHANGED <<journals, origins>>
(* A file cannot be read or written, or the process is killed.              *)
MigrationFails(o) ==
  /\ ~at(o, "idle") /\ end(o)
  /\ UNCHANGED <<databases, journals, origins>>

(* db:createfrom --on prod --schema v<v>, over an older file or not: the    *)
(* statements of the snapshot commit one by one, the version comes last.    *)
create(db) ==
  /\ databases' = [databases EXCEPT !["prod"] = db]
  /\ origins' = [origins EXCEPT !["prod"] = db]
  /\ UNCHANGED <<journals, attempts>>
CreateFromSchema(o, v) ==
  at(o, "idle") /\ create(newDatabase(v, Declared(v), <<>>))
CreationInterrupted(o, v) ==
  /\ at(o, "idle")
  /\ \E tables \in {<<>>, Declared(v)} :
       create(newDatabase(Unset, tables, <<>>))

(* db:prepare with the server set to version v.                             *)
PrepareDatabase(o, t, v) ==
  LET db == EnsureReferenceData(v, databases[t])
  IN  /\ at(o, "idle") /\ databases[t].ok /\ databases[t].schemaName = v
      /\ db.ok
      /\ databases' = [databases EXCEPT ![t] = [db EXCEPT !.preparedFor = v]]
      /\ UNCHANGED <<journals, attempts, origins>>

(* The server of version 11 writes a journal of the production database.    *)
EditJournal(k) ==
  /\ databases["prod"].schemaName = 11
  /\ \E p \in databases["prod"].rows["Projects"] : p.id = k[1]
  /\ journals' = [journals EXCEPT ![k] = "edited"]
  /\ UNCHANGED <<databases, attempts, origins>>

UpgradeNext ==
  \/ \E o \in Operators :
       \/ \E t \in Targets, v \in 1..10 : StartMigration(o, t, v)
       \/ OpenDatabase(o) \/ ReadJournals(o) \/ WriteJournalFile(o)
       \/ Repair(o) \/ RunMigration(o) \/ MigrationFails(o)
       \/ \E v \in NewVersions :
            CreateFromSchema(o, v) \/ CreationInterrupted(o, v)
       \/ \E t \in Targets, v \in Versions : PrepareDatabase(o, t, v)
  \/ \E k \in JournalKeys : EditJournal(k)
UpgradeSpec == UpgradeInit /\ [][UpgradeNext]_upgradeVars

-----------------------------------------------------------------------------
(* Every variable has its type.                                             *)
UpgradeTypeOK ==
  /\ DOMAIN databases = Targets /\ DOMAIN origins = Targets
  /\ \A t \in Targets :
       /\ databases[t].schemaName \in Versions \cup {Unset}
       /\ databases[t].applied \subseteq 1..10
       /\ DOMAIN databases[t].rows = DOMAIN databases[t].tables
  /\ journals \in [JournalKeys -> {"none", "kept", "edited"}]
  /\ \A o \in Operators :
       /\ attempts[o].step \in {"idle", "open", "hook"}
       /\ attempts[o].target \in Targets /\ attempts[o].from \in 1..10

(* migrations/README.md calls each schema.ts the canonical snapshot of its  *)
(* version.  However a database came to a version, it has exactly the       *)
(* tables, keys and references of the snapshot: only the reference of a     *)
(* notification to the user it mentions may differ in what a deletion does, *)
(* and an older version 9 has its two tables until v9--v10 repairs them.    *)
leniently(def) ==
  [def EXCEPT !.refs = {IF r.columns = <<"mentionedUserId">>
                        THEN userReference("cascade") ELSE r : r \in @}]
sameTable(db, t) ==
  \/ db.tables[t] = Declared(db.schemaName)[t]
  \/ /\ t = "Notifications" /\ db.schemaName >= 9
     /\ leniently(db.tables[t]) = Declared(db.schemaName)[t]
  \/ t \in {"Mentions", "Notifications"} /\ db.schemaName = 9
SnapshotsAreReached ==
  \A t \in Targets :
    LET db == databases[t]
    IN  db.schemaName # Unset =>
          /\ DOMAIN db.tables = DOMAIN Declared(db.schemaName)
          /\ \A name \in DOMAIN db.tables : sameTable(db, name)

(* What the database says of its owners, projects, tasks, comments and      *)
(* mentions, whatever the version it says it in.                            *)
rowsOf(db, t) == IF t \in DOMAIN db.rows THEN db.rows[t] ELSE {}
projectOf(db, row) ==
  IF "projectId" \in DOMAIN row THEN {row.projectId}
  ELSE {c.projectId : c \in {x \in rowsOf(db, "ProjectGanttCharts") :
                                x.id = row.projectGanttChartId}}
aboutTask(db, t) ==
  {<<projectOf(db, row), row.taskId, column(row, "id"),
     column(row, "commentId"), column(row, "attachmentId")>> :
     row \in rowsOf(db, t)}
adminCodes == {"GGTC_ROLE_ADMIN", "GGTC_SYSTEMROLE_ADMIN"}
content(db) ==
  [ids |-> [t \in IdentifiedTables |-> {row.id : row \in rowsOf(db, t)}],
   admins |-> {row.userId : row \in {r \in rowsOf(db, "Users_Roles")
                                      \cup rowsOf(db, "Users_SystemRoles") :
                                    r.roleCode \in adminCodes}},
   tasks |-> [t \in TaskTables |-> aboutTask(db, t)]]
(* No migration loses or invents an administrator, a project, an issue, a   *)
(* task, a task comment, one of their attachments or a mention: dropping    *)
(* the old task tables takes none of the new rows with it.                  *)
RowsSurvive ==
  \A t \in Targets : content(databases[t]) = content(origins[t])

(* From version 10 on every mention has the key of the place it was made in *)
(* and that key is unique, also after a repair that was interrupted between *)
(* two of its statements and started again.                                 *)
RepairedMentionsNameTheirContainer ==
  \A t \in Targets :
    databases[t].schemaName >= 10 =>
      /\ mentionIndex \in databases[t].tables["Mentions"].unique
      /\ \A row \in databases[t].rows["Mentions"] :
           row.containerKey = containerKeyOf(row)

(* A database that reached version 7 has a file for every journal its       *)
(* projects and issues had.                                                 *)
journalsIn(db) ==
  {pathOf(t, row) : t \in {"Projects"}, row \in {r \in rowsOf(db, "Projects") :
                                              "journal" \in DOMAIN r}}
  \cup {pathOf("Issues", row) : row \in {r \in rowsOf(db, "Issues") :
                                       "journal" \in DOMAIN r}}
JournalsReachTheirFiles ==
  databases["prod"].schemaName >= 7 =>
    \A k \in journalsIn(origins["prod"]) : journals[k] # "none"

(* A prepared database holds every code its schema enumerates, so that no   *)
(* role, status or credential the server writes is refused.                 *)
PreparedDatabasesKnowTheirCodes ==
  \A t \in Targets :
    LET db == databases[t]
    IN  db.preparedFor # Unset /\ db.preparedFor = db.schemaName =>
          \A c \in DOMAIN CodesOf(db.schemaName) :
            CodesOf(db.schemaName)[c] \subseteq {row.code : row \in db.rows[c]}

(* An attempt changes its own database only: by one whole migration from    *)
(* the version it was asked for, recorded as applied, or by the repair.     *)
migrated(old, new, v) ==
  /\ old.schemaName = v /\ new.schemaName = v + 1
  /\ new.applied = old.applied \cup {v}
repaired(old, new) ==
  /\ old.schemaName = 9 /\ new.schemaName = 9 /\ new.applied = old.applied
  /\ \A t \in DOMAIN old.tables \ {"Mentions", "Notifications"} :
       old.tables[t] = new.tables[t] /\ old.rows[t] = new.rows[t]
AttemptsMoveOneVersion ==
  [][\A o \in Operators : ~at(o, "idle") /\ attempts'[o] # attempts[o] =>
       \A t \in Targets : databases'[t] # databases[t] =>
         /\ t = attempts[o].target
         /\ \/ migrated(databases[t], databases'[t], attempts[o].from)
            \/ attempts[o].from = 9 /\ repaired(databases[t], databases'[t])]_upgradeVars
=============================================================================
