# Verification of giganttic

TLA+ models of the giganttic project management server, TLC configurations
that check them on small instances, and TLAPS proofs about them.

The program is a TypeScript system: a NestJS backend over one SQLite database
(better-sqlite3 through drizzle) and a directory of content files, and a React
frontend. Everything below refers to the repository by path.

## 1. The system

### Where steps interleave

Node runs one thread. A handler runs without interruption from its start to its
first `await`, and from one `await` to the next; better-sqlite3 is synchronous,
so a query or a transaction never suspends. A handler that does not await is
therefore one atomic step however many queries it makes. The handlers that do
await (password hashing, content files, the notification fan-out) are the
places where another request can come between a check and the write that relies
on it. Row ids are `AUTOINCREMENT` and are never used twice.

### Components

| component | state | operations | what makes it correct |
|---|---|---|---|
| access control queries (`access-control/access-control.utils.ts`) | none; reads 14 membership, role and link tables | effective managers, access, visible ids | the queries agree with one another |
| projects (`projects/projects.service.ts`) | `Projects`, `Projects_Users`, `Users_Projects_ProjectRoles`, `Projects_Teams` | create, replace members, grant and revoke roles, link teams and organizations, delete | a project always has an owner and keeps an effective manager |
| teams (`teams/teams.service.ts`) | `Teams`, `Teams_Users`, `Users_Teams_TeamRoles` | the same | a team keeps a manager; a change of a team never strands a linked project |
| organizations (`organizations/organizations.service.ts`) | `Organizations`, members, roles, links to teams and projects | the same, and the links | deleting one never strands a project or a team; it keeps a manager as long as one has an account |
| accounts (`auth/auth.service.ts`, `users/users.service.ts`) | `Users`, `Users_SystemRoles`, credentials, `Users_Sessions` | register, login, change of password, session revocation, deletion | the deletion strands nothing; nothing outlives its user; a session ends only for a reason |
| scoped access tokens (`scoped-access/`) | tokens and their scopes | create, revoke, add and remove scopes, redeem | a redeemed session reaches no more than token and owner allow |
| issues, issue comments (`issues/`) | rows, comment body files, journal files | create, update, close, delete | a row and its file come and go together; the fields of a closed issue go with its status |
| tasks, task comments, task mirror (`tasks/`) | mirror of the chart's tasks, rows and files | mirror, journal, comments, removal of stale data | what is kept about a task in the chart is never removed, what is removed is removed wholly |
| charts (`project-charts/`) | chart rows, chart files | create, update, list | the mirror follows the chart |
| attachments (`discussion/`, `issues/attachment.service.ts`) | attachment rows, link rows, files | upload, link, unlink, orphan sweep | a linked attachment has its file; no file is lost to the sweep |
| notifications (`notifications/`) | notifications, recipients, mentions | events of issues, tasks and charts; acknowledge | what is written is announced, to those who may read it, and a mention once |
| manager uploads (`uploads/`) | files in a directory | upload, list, delete | an upload never replaces another |
| schemas and migrations (`db/v1` ... `db/v11`, `db/migrate.mjs`, `db/migrations/`) | the schema version, the database file, journals on disk | copy for a trial, hook, SQL, record | every path leads to the snapshot of a version, loses nothing, and can be taken up again after a crash |
| database tooling (`db/create-from-schema.mjs`, `db/prepare.mjs`) | the same | create, prepare with reference data | a prepared database knows every code of its version |
| test data (`test-data/`, `db/sqlite-test-data-manager.mjs`) | `ManagedTestDataRecords` and the rows they name, files | ensure, purge | the whole fixture, or none of it; rows of users are left alone |
| frontend session (`frontend/src/common/session/`) | a token in local storage, the session shown | initialize, login, logout | the token stored is the one shown |
| frontend chart editor (`spas/project-manager/hooks`, `components/GanttChart.tsx`) | editor, baseline, dirty flag, a cache shared by the pages | load, edit, save, switch chart | what is saved is what was edited, in the chart it was edited in; milestones follow their tasks |
| boards and task lists (`spas/project-manager/pages`) | what they show | load, move a card | they show the project they are opened for |

The rest holds no state of its own (contracts, other pages), is generated or is
vendored; `PROJECT.json` lists each with its reason.

### Interactions

Every route goes through `AuthService.authenticateBearerToken` and then through
the access control queries, which read the tables that the projects, teams,
organizations and users services write. Those four services therefore share
state without calling one another: the guard in one service is about rows that
the other three change. Content handlers check access first, then await file
operations, then write rows, while any of the four services may delete the
project underneath them. Charts drive the task mirror, which owns comments,
attachments and journals of tasks. Issues, tasks and charts call notifications
at the end of their handlers. In the browser the Gantt page, the page of a task,
the board and the task list share one cache of charts, which outlives each of
them. Migrations, preparation and the seeding script work on the same file as
the server, and the migration to version 7 writes the journals the server reads.

### What is hard

1. *Authority without referees.* Four services guard the same promise ("a
   project keeps a manager") from four sides, each with its own query and its
   own idea of which rows are about to go. A test covers one request on one
   prepared database; the promise is about every sequence of requests.
2. *Awaits between check and write* in every content handler and in the
   password handlers.
3. *Two stores, one operation:* a row and a file that no transaction joins.
4. *Cascades:* which rows go with a deleted parent is split between explicit
   deletes and `ON DELETE CASCADE` clauses.
5. *Crash points* in a migration, whose hook runs before its transaction, and
   in the seeding tools, whose files are written after theirs.
6. *Late answers* in the browser: a request is answered on a page, a chart or a
   project the user has left.
7. *Ten migrations* that were written one after another, each against the
   schema of its time, and that run with foreign keys on.

`PROJECT.json` lists these as hazards, each at the line where it bites.

## 2. Modules

| module | models |
|---|---|
| `AccessControl` | the 14 membership, role and link tables as variables, `TypeOK`, and every query of `access-control.utils.ts` as an operator of the same name |
| `Projects`, `Teams`, `Organizations`, `Accounts` | the authority handlers of one service each, one action per handler |
| `Authority` | composes the four: `Init`, `Next`, `Spec`, the invariants and the action properties |
| `Sessions` | credentials, sessions and scoped access tokens: `auth.service`, `scoped-access.service`, the password handlers and the deletion of `users.service` |
| `Attachments` | `discussion-attachment.service`: rows, links, blobs, and the requests that work on them |
| `Issues` | extends `Attachments` with the containers attachments hang on: a project, its issues, their comments, and the files of journals and comment bodies |
| `IssueStates` | the status of an issue and the fields that depend on it: what a request may ask, what the update computes, and what the board and the form of the frontend ask for; pure operators |
| `Tasks` | extends `Attachments` for one chart of a project: the mirror of its tasks, their journals, comments and attachments, and what a save of the chart removes |
| `Notifications` | the announcement of comments and journals, statement by statement |
| `ToldOnce` | what notifications promise of mentions; `Notifications` implements it |
| `Schemas` | the structure of each of the eleven versions of the database |
| `Relations` | the `relations(...)` the eleven `schema.ts` declare over them |
| `Sqlite` | what the statements of a migration do to tables, rows, indexes and references |
| `MigrationSql` | the ten migrations in those statements |
| `ReferenceData` | the codes each version is prepared with |
| `Migrations` | composes them: production database and trial copy, operators who migrate, are interrupted, prepare, create; journals on disk |
| `Milestones` | a chart as the pages read it, and the inference of the status of milestones |
| `ChartEditor` | a window of the project manager: pages, editor, cache, calls to the server |
| `SeedFixture` | the accounts, entities, memberships and issues of the test data |
| `TestData` | the service and the script that seed and purge them, and users who change the data in between |
| `DocumentedRules`, `DocumentedSessionRules`, `DocumentedUpgradeRules`, `DocumentedChartRules` | what `docs/` and the tests state and the code does not keep |
| `MC...` | the instances and their symmetry |
| `AttachmentProofs` | lemmas about `Attachments` that the proofs of `Issues` and of `Tasks` share |
| `AuthorityProofs`, `TestDataProofs`, `IssueProofs`, `NotificationProofs`, `TaskProofs` | theorems of one module each (`IssueProofs` also of `IssueStates`) |
| `ChartEditorProofs` | theorems of `Milestones` and `ChartEditor` |
| `DatabaseProofs` | theorems of `Migrations` and of `Sessions`, two parts that share no state |

**Atomicity.** An action is what a handler does between two awaits. Authority
handlers do not await: one action each. In the other modules a handler that
awaits is a request that keeps its place in `pending` or `requests`, with one
action per stretch of code; between two of them any other request may run, and
what the first stretch read (a hash, a count, a set of ids) is carried along.
In `Notifications` the stretch after the last file operation is cut further,
statement by statement, because its statements are no transaction and a crash
may fall between them; `thread` keeps other requests out meanwhile. In
`Migrations` an action is a statement of the hook, a file, or a transaction; in
`TestData` a transaction or a file; in `ChartEditor` what runs in the browser
until it waits for the server.

**Tables.** A join table is a function from one key to the set of the other key
(`projectsUsers[p]`); a role table has the role in between
(`usersTeamsTeamRoles[t]["TM"]`). An action takes the acting user and the
parameters of its route; its first conjuncts are the handler's assertions in
order, its primed conjuncts the statements of its transaction, cascades of the
deleted rows included. A handler that throws rolls back, and is no step. In the
modules about migrations a table is data: its key, its columns, its unique
indexes, its references, and its rows as functions from columns to values.

**Ids.** The database never uses an id twice. `Sessions`, `Issues`, `Tasks` (but
for task ids, which come from the chart file), `Notifications` and `TestData` do
the same. `Authority` uses the id of a deleted entity again, which keeps it
finite: the link and role rows of a deleted entity go by the cascades of
`db/v11/schema.ts:610-882`, which the actions take along, so a reused id behaves
as a fresh one (the lemma `ReusedIdsAreFresh` of `AuthorityProofs`).

**Administrators** exist by seeding only (`test-data.service.ts`): no route
grants a system role, so `Init` holds them and `Admins` is a constant.

**History.** `failed` (a file operation failed or the server crashed) is in
several modules the condition under which a promise is made. `overtaken` in
`Tasks` records the tasks of which a removal met another request, `announced` in
`Notifications` the texts that were announced, `origins`
in `Migrations` the databases that were there, `own` in `TestData` the rows
users made.

**Slips.** A definition whose comment begins with "Slip:" or "Mutant:" is not
part of the model. It is an operator written as a plausible mistake would have
it, kept beside the definition it imitates; each property was seen to fail with
one of them in place, which shows that the property depends on that code.

### Abstractions

* `Authority`: names, descriptions, timestamps and row ids are left out. The
  deletion of a user also fails while content of that user exists (`ON DELETE
  RESTRICT`); the model lets such users be ones without content.
* `Sessions`: a hash is the number of changes so far, so equal hashes are the
  same password; whether a submitted password matches is decided when the
  request begins, because the hash it is compared with is read then. Time is
  the action that lets a session or token expire. `reach` is the set of objects
  a user may open, changed freely by `changeAccess`: how it comes about is
  `Authority`. Token strings, IP ranges and profile fields are left out.
* `Attachments`, `Issues`, `Tasks`: who asks is left out (every guard here is
  about rows); every request is one the access checks let through. A file is
  present or absent. A failing file operation may leave its file in either
  state; a crash loses the requests and keeps rows and files. `SweepElsewhere`
  is the sweep that handlers of other projects end with. One project and one
  chart are enough: no query of these services relates two.
* `Notifications`: a text is the set of users it mentions. Who may open the
  project is a set, changed freely. Events whose fan-out is that of a comment
  (issues, attachments, changes of status) are left out.
* `Schemas`, `Sqlite`, `MigrationSql`: types, defaults, CHECK constraints and
  plain indexes are left out, and of the columns those are named that are keys,
  references, unique, or moved by a migration. A row lacks the columns that are
  NULL. A statement that fails makes every later one fail.
* `Relations`: the names of the fields that joined rows go into are left out.
* `ChartEditor`, `Milestones`: a task is its type and its status, a chart its
  tasks and links and the chart they were made in. Dates, texts, selections and
  the widget are left out. No other window saves charts.
* `TestData`: names are the seeds' keys or one other name; the contents of files
  are left out; users change data while no transaction of the script is open.

## 3. Runs

| run | instance | question |
|---|---|---|
| `WholeAuthority` | 2 users, a project, a team, an organization | do the tables keep their shape, does a project keep an owner and a manager, do list and access agree, is every manager recognised by the upload pool, does a deletion strand anything, how can a team or an organization lose its last manager |
| `AccountsAndTokens` | an administrator and 2 users, 2 sessions, a token, an object, a password request under way, 2 hashes | does anything outlive its user, can a session end without a reason, can a redeemed session come to reach more |
| `IssueContent` | a project, an issue, a comment and its reply, 2 attachments, 3 requests at once, limit 1; every request for a change of status | do rows and files stay together under concurrent uploads, deletes, sweeps, failures and crashes |
| `TaskContent` | a chart with 2 tasks, a comment and its reply, an attachment, 2 requests at once | does a save remove all it should and nothing else, around every await |
| `Announcements` | an issue with a comment, the project's journal, 3 users, 2 requests | is what is written announced, once, and to readers only |
| `Upgrade` | databases of version 1 and 6 and four older forms of version 9, to version 11 on a copy and for real, with interruptions | does every path lead to the snapshots and keep the content |
| `ChartEditor` | 3 charts of 2 projects, 2 calls under way, 2 moves, 1 change | do editor, cache, baseline and milestones stay together under late answers |
| `TestData` | 6 seeds and an issue, 3 runs of the tools, 2 changes of users | do the tools complete, repeat and undo the fixture, and leave users' rows alone |

Four more runs, each of one rule that the docs or the tests state, end in a
violation (section 6).

**Bounds.** *Authority:* a coverage guard compares the managers before a request
with those after it, so what matters is that every *source* of authority
(direct, by team, by organization directly, by organization through a team) can
be the only one left, and that the last holder can be someone other than the
acting user. Two users and one object of each kind give every combination; the
administrators' override, and a second team or organization, are covered by the
proofs, which have no bound.
*Sessions:* one request under way beside every other request gives the races of
a login or a change with a deletion or a revocation; a race of two password
requests is the subject of `OvertakenByChange`, which has two. An administrator and two
users give "own" sessions, "somebody else's", and somebody who is neither.
One token and one object give every order of redeem, revoke, expire, share and
delete, and a redeemed session beside a password session needs two sessions.
`MaxHashes` bounds the changes of a password. *Issues:* a race has two requests
and a third to sweep after them; a comment and its reply give both outcomes of
the reply check; two attachments give a sweep over a set. *Tasks:* a removal
and a request that meets it; two tasks so that one stays and one goes.
*Announcements:* two requests that write one text, or a text and a deletion;
of three users one speaks, and two are mentioned, together or one after the
other. *Upgrade:* one operator, since the documents ask for one; version 1 takes
every migration, version 6 begins with the rows that tasks and journals have,
and the older forms of version 9 are those its hook repairs. *ChartEditor:* a
late answer needs two calls; the mix-ups of two charts need a page opened and a
chart switched; one change, since editing twice adds nothing to the flag, and
three task ids of which one is not allowed. *TestData:* three runs are what it
takes for one to stop, one to repair and one to repeat, with changes between.

**Symmetry.** Ordinary users, ids of the same kind and request slots are
interchangeable. No liveness is checked with symmetry.

**Deadlock** is checked in the runs of `Authority`, `Issues`, `Tasks`,
`Notifications` and `Migrations`. In the session runs it is off: ids are never
used again, so a bounded instance ends when every user was deleted or every id
spent; the real system has always one more id. In `ChartEditor` and `TestData`
the instance ends when its moves, changes and runs are spent.

**Fairness.** `Notifications` assumes weak fairness of `Continue(id)`, what the
event loop does of a request that has begun: a file operation is answered and
the thread goes on. Nothing is assumed of users: no request need come, and
failures, crashes and deletions may come at any time. `ChartEditor` assumes weak
fairness of every call under way: the server answers or fails, and the browser
runs what awaits the answer. The other properties are safety properties, and
their specifications state no fairness: a request comes or it does not.

## 4. What the passing runs show

Authority:

* `EveryProjectHasOwner`: replacement, revocation and user deletion each guard
  the last owner, and together leave no gap.
* `AccessibleProjectsAreListed`, `ManagersAnywhereAreRecognised`: pairs of
  queries, written separately, agree.
* `ProjectStepsKeepManagers`, `TeamStepsKeepManagers`,
  `OrganizationDeletionKeepsManagers`, `UserDeletionKeepsManagers`: each group
  of handlers keeps the coverage it guards. The hypotheses of two of them are
  exactly what is missing: team changes count the project managers of other
  teams without asking whether they are still members, and user deletion does
  not look at projects linked directly to an organization.
* `TeamManagersLostOnlyWithOrganizationRoles`: the one way left for a team to
  lose its last manager.
* `OrganizationManagersLostOnlyWithAccounts`: members are replaced and roles
  revoked in any order, and accounts deleted in between; as long as one of an
  organization's managers has an account, the organization has a manager. The
  deletion of that account is the way left, against the documents (section 6).

Accounts and tokens:

* `NothingOutlivesItsUser`: a login that finishes after its user was deleted
  finds the user gone and inserts nothing; credentials, sessions, tokens and
  scopes go with the user.
* `SessionsEndForAReason`: a usable session stops only by time, with its token,
  by a change of password that asks for it, or by the request of its user or of
  an administrator, also when one request names sessions of several users.
* `ScopedReachGrowsOnlyByGrant`: a scope has no foreign key to its object and
  stays when the object goes; since ids are not used again, and a session whose
  token is gone resolves to nothing, no session comes to reach more without a
  new scope or access regained by the owner.

Issues and attachments:

* `LinkedAttachmentsAreStored`: an attachment that is listed has its row, its
  blob and its container, through concurrent sweeps, failing files and crashes.
* `UnnamedBlobsAreTransient`: unless a file operation failed or the server
  crashed, a blob without a row belongs to an upload under way: the sweep,
  which finds blobs by their rows, misses none.
* `SettledContentIsStored`: under the same condition a comment has its body and
  an issue its journal, except while the request that writes it, or the one
  that deletes the issue, is under way.
* The assumption `RequestsAreRefusedForAReason` of `MCIssues`, evaluated over
  every state and every request: an update is refused exactly when it would
  leave a closed issue without a reason or an open one with a closed field
  (tests/issues-crud.test.ts:492).

What the issue model also shows without a property, since the code promises
nothing about it: a body file written after its comment was deleted stays for
good (no row names it, and its id is never used again), and deleting a project
leaves the bodies and journals of its issues on disk.

Tasks:

* `TaskContentIsStored`: what is listed with a task can be read, attachments
  always and bodies while nothing failed.
* `RemovedTasksLeaveNothing`: a task that a save leaves out keeps nothing that
  would come back when it is put into the chart again. Bodies and journals go
  over several awaits before the row, so this holds of tasks no other request
  worked on meanwhile; `overtaken` names the others, and for them it does not.
* `KeptTasksKeepTheirData`: a step takes neither its row, nor its journal, nor
  the bodies of its comments from a task that stays in the chart. This includes
  tasks that removals met before, as soon as those have ended. The exceptions
  are what the code does, and no document speaks of: a task put back while its
  removal is under way loses its row, and a first journal whose write fails takes
  the mirror row with it, comments made meanwhile included.

Notifications:

* `MentionsAreToldOnce`: `Notifications` implements `ToldOnce`. The mapping
  (`newsOfMentions`) reads "told" off the notifications that reached a user,
  and "gone" off deleted issues, projects and users. Texts written again, by
  others, through crashes between any two statements, tell nobody twice.
* `RecordedMentionsAreTold`: a mention is recorded before its notification is
  inserted, and silences later ones. No deletion and no other request parts the
  two. A failure or a crash in between can, and then the user is never told:
  that hazard is in the code, and this property excuses it.
* `OnlyReadersAreTold`: recipients are those who may open the project when it
  is announced, not when the request was authorized.
* `JournalTextsAreAnnounced`: what a journal says was announced at some time, or
  is about to be, unless a failure or a deletion came first. A request is silent
  when it leaves the text it had read, and others may have written since: then
  the text comes back, and is not announced a second time.
* `CommentsAreAnnounced`: a new comment is announced in the end (liveness).

Migrations:

* `SnapshotsAreReached`: eleven `schema.ts` files and ten migrations agree,
  whichever version a database started from, but for one reference (section 6).
* `RowsSurvive`: the rebuilt tables lose no administrator, project, issue,
  task, comment, attachment or mention. Foreign keys are on during a migration,
  so the order in which v10--v11 drops the old task tables matters.
* `RepairedMentionsNameTheirContainer`: the hook of v9--v10, which repairs older
  databases statement by statement outside the transaction, can be interrupted
  anywhere and started again.
* `JournalsReachTheirFiles`: the journals that version 7 drops from the database
  are on disk by then.
* `PreparedDatabasesKnowTheirCodes`: the codes of `reference-seed-data.mjs`
  suffice for the enumerations of every version.
* `AttemptsMoveOneVersion`: an interrupted attempt leaves a version that can be
  migrated again, and touches the database it was asked to touch.

Chart editor:

* `WarningsAreTrue`: the flag for unsaved changes and the baseline are set by
  edits, loads, saves and mountings, and agree on what the editor shows.
* `MilestonesFollowTheirTasks`: after every edit, load or answer, and by the
  assumption `InferenceFollowsTheDocument` of `MCChartEditor` for every chart
  of three tasks, the recursive inference gives what
  docs/gant-chart-milestones.md states.
* `CacheFollowsTheEditor`: the other pages render what the editor holds, unless
  a page that was left is answered.
* `TaskListsAreOfTheirProject`: a task list drops answers of another project.
* `ButtonsComeBack`: no load or save leaves a page busy for good (liveness).

Test data:

* `EnsuringCompletes`, `EnsuringIsIdempotent`: whatever users did to seeded rows
  and however earlier runs ended, a run that succeeds leaves the whole fixture,
  and a second one changes nothing (service) or only ids (script).
* `UsersRowsStay`: no tool takes a row for a seed's that never bore its name,
  through stale records and records read before the transaction.
* `PurgesEmpty`: a purge that ends leaves neither rows nor links, records or
  journals of what it knew.

## 5. Proofs

Every property of the runs of `Authority`, `Sessions`, `Issues`, `Tasks`,
`Migrations` and `TestData` and every safety property of `Notifications` and
`ChartEditor` are theorems for every value of the constants: users, projects,
teams, organizations, issues, tasks, comments, attachments, texts, tokens,
requests, charts, fixtures, and the rows a database starts with.

*Assumptions.* Those the modules declare, which TLC evaluates in every run:
administrators are users, kinds of ids do not mix, bounds are positive, a
comment has an issue or a task; task ids are finitely many and the server holds
charts whose links are between their tasks; the seeds are a sequence of rows of
known tables with one name each, and the links and issues of the fixture are of
seeds; a database starts from a known version (`VersionsExist`), with journals
that are texts (`JournalsAreTexts`) and, from version 9 on, with mentions under
their key (`MentionsAreKeyed`), but for the older databases of version 9 that
the hook is there to repair. Its rows have the ids that are their primary key,
up to version 10 a row about a task names a project that is there, and in
version 1 nobody holds a system role (`RowsHaveTheirKeys`): what NOT NULL, the
foreign keys of the schemas and the role codes of version 1 guarantee. The
theorems of `Migrations` add `OneOperator` as a hypothesis. It is needed: two
operators can check the version, and then both run.

Authority, accounts, content, tasks and notifications:

* `TypeCorrect`: `TypeOK` is inductive; one lemma per group of handlers.
* `ProjectsHaveOwners`, `RoleHoldersAreMembers`: each is inductive with
  `TypeOK`, with one step per handler that can disturb it. The second, which no
  run needs, says that who holds a role on a project is its member: true of
  projects, where granting a role makes a member, and not of teams and
  organizations, where it does not.
* `AccessibleAreListed`, `ManagersAreRecognised`: follow from `TypeOK` alone.
  Every disjunct of the access check is found among the disjuncts of the
  visibility queries.
* `UserDeletionIsCovered`: `ManagedTeamsAreCollected` and
  `ManagedProjectsAreAffected` show that the collection code of
  `users.service.ts` finds every team the user manages and every project that no
  organization is directly linked to; the guard is then applied to all of them,
  and removing one user from the tables removes at most that user from a set of
  managers.
* `OrganizationDeletionIsCovered`, `ProjectStepsAreCovered`,
  `TeamStepsAreCovered`, `TeamsLoseManagersOnlyByOrganization`: the managers
  that the guard counts before the change are managers after it.
* `OrganizationsLoseManagersWithAccounts`: by cases on the step. The handlers of
  organizations that take a manager away are the two with a guard, and the
  deletion of a user takes that user alone.
* `NothingOutlives`, `SessionTypes`: `TypeOK` and `NothingOutlivesItsUser` are
  inductive together only: a type correct step may rely on the user of a live
  session being a user.
* `EndsHaveReasons`: by cases on the step. Each handler that removes a session
  is one of the reasons the property admits, and the others leave `authSessions`
  alone.
* `ScopedReachIsGranted`: needs `ScopesAreOfUsedIds`, that a scope only names
  objects whose id was handed out. Ids are not handed out twice, so an object
  made by a step is in no scope that a step did not just grant.
* `LinkedAreStored`: `LinkedAttachmentsAreStored` is not inductive. A sweep
  carries ids from the step that selected them to the step that unlinks the
  blob; that it never unlinks a linked one needs `HeldAreUnlinked` (an id held
  by a sweep, or by an upload that failed, has no link), which in turn needs
  `UploadsOwnTheirId` (an id that an upload is about to link is in no other
  request) and `attachments \subseteq used` (so a fresh id is in no table).
  `AttachmentInv` is the conjunction. That every step of `Attachments` keeps it
  is proved once, in `AttachmentProofs`, of steps alone; `IssueProofs` and
  `TaskProofs` add the steps of their containers, the types (`IssueTypes`,
  `TaskTypes`) and the temporal argument.
* `UnnamedAreTransient`: an upload holds the name of a blob until the row does,
  and a sweep gives up the row only after the blob: `SweptBlobsAreGone`, which
  no step disturbs because an id an upload writes is in no sweep
  (`UploadsOwnTheirId` again).
* `SettledIsStored`: a file is only unlinked for a row that is gone or going
  (`UnlinkedAreGone`), and ids are not used again (`live \subseteq used`), so no
  row made meanwhile comes to miss it.
* `TaskContentStored`, `NothingIsLeft`, `KeptTasksKeep`: one invariant,
  `TaskInv`, for the three, since each leans on parts of the others. A removal
  names what it has yet to unlink (`RemovalsInv`, `UnlinksInv`). Whoever meets it
  is in `overtaken`: by putting a task back into the chart (`PutBackInv`), or by
  working on it (`OneAtATime`). So a task that is removed and not overtaken is
  out of the chart and nobody else's, and since requests begin on tasks of the
  chart only (`RequestsAreOnChart`), none writes what was unlinked. The rest says
  between any two awaits what is written to whom: files have their row, or a
  request that takes them away (`StoredInv`), comments have their body, or one
  that writes or removes it (`BodiesInv`), and before the project there is
  nothing (`AbsentInv`). Steps that remove nothing share one lemma (`CalmStep`),
  and each removing step has one of its own.
* `IssuesStayConsistent`, `EveryStateIsOneRequestAway`: whatever sequence of
  partial updates an issue gets, it is closed exactly when it has a reason, and
  there is a request from every such state to every other.
  `CardsDoNotCrossClosed`, `FormsKeepIssuesClosed`: what the frontend asks for is
  less than that (section 6).
* `MentionsImplementToldOnce`: the refinement of `ToldOnce`, over the invariant
  `TellInv`. Those the thread is about to tell are recorded as mentioned, still
  exist and were not told yet (`ThreadTells`); what was told of a live text is
  recorded with who said it, by one notification (`ToldIsRecorded`). Without the
  first the step that writes the rows could tell somebody twice.
* `RecordedMentionsTold` (`MentionInv`), `JournalTextsAnnounced`
  (`AnnounceInv`): both hold between requests, and in the middle of one the
  invariant says which request it is and at which statement it stands. The
  second needs more: a request that is silent relies on what it read before its
  await, so `AnnounceInv` says of every text a request has read that it was
  announced (`hasReadKnown`), and that nothing takes this back (`KnownStays`).
* `ReadersAreTold` (`NumberInv`): requests have numbers of their own, and a row
  names the actor of the request whose number it carries.
* `NotificationTypes`: `TypeOK`, which the four above rest on.

Chart editor:

* `ResolvesAsDocumented`: the recursion of `createStatusResolver` gives,
  for every chart, what docs/gant-chart-milestones.md states of the tasks a
  milestone depends on, directly or through others. The function carries the
  milestones it is resolving and stops at one it meets again, so its result
  depends on the path; the rule does not. The proof takes a counterexample with
  the fewest milestones left to visit, and shows that what a cut path leaves out
  is found from the milestone it was cut at.
* `RememberedStatusesAreRight`: with the table of resolved statuses passed
  along, every entry is what resolving that milestone by itself would give.
  `InferredMilestonesFollow` is the consequence for a chart.
* `TypeCorrect`, `WarningsStayTrue`, `MilestonesKeepFollowing`,
  `TaskListsKeepToTheirProject`, `CacheKeepsFollowing`: one invariant, `IInv`.
  It adds to the properties `AnswersAreOfTheirProject`: the calls a task list
  waits for were made for the project it shows. An answer of another page
  changes the cache only, and every step that changes the editor ends in one of
  three ways of showing a chart (`ShowFollows`, `InitializeFollows`,
  `EditedFollows`), each of which keeps the flag, the baseline, the
  milestones and the cache in step.

Test data:

* `EnsuringIsComplete`, `PurgesAreComplete`, `UsersRowsAreKept`, `TypeCorrect`:
  the tools run one step per seed over the whole list, which the model writes as
  folds. Each fold is unrolled into the sequence of databases it goes through
  (`AreStates`), and what holds of all of them is shown from the first that
  would fail. `OwnRowsAreForeign` says that no record is of a row users made; it
  is inductive only with `RecordsFit` (a record is of a row of its seed's table)
  and with `PurgeIsFaithful`, which says that what a purge has read is still
  what there is when it deletes, and that afterwards nothing brings it back.

* `EnsuringAgainChangesNothing`: over a seeded database with one row and one
  issue of each name the service stands still, step by step: it finds the row
  its record names (`SeededRowStays`), no link that is missing
  (`SeededLinksStay`) and an issue that is already there (`SeededIssueStays`), so
  each fold returns what it was given (`StandingStill`). The script deletes what
  the records name and inserts it anew. `PurgedOfSeeds` says that just the rows
  of seeds went; `Grown` says of every database in between that it has the rows
  the purge left and one row for each seed so far; and two tables whose other
  rows match one by one by name have the same size (`SameSizes`).

Migrations:

* What each SQL statement keeps, adds and drops is a lemma (`CreatingTables`,
  `DroppingTable`, `RenamingTable` and so on), and what a migration does is the
  composition of the lemmas of its statements.
* `VersionsMoveOneAtATime`: from `Inv1`, whose point is `HooksFindTheirVersion`:
  while the hook of an attempt runs, the database is at the version the attempt
  checked before. Nothing else would keep a hook of one version and the SQL of
  another apart.
* `CodesAreKnown` (`CodesInv`): no statement of a migration takes a code from a
  database, and preparing adds all of those `reference-seed-data.mjs` lists,
  which by `SeedsCoverCodes` are all that the version enumerates.
* `MentionsAreRepaired` (`MentionsInv`): after each statement of the repair, what
  the statements before it brought about still holds (`RepairsAreKept`), however
  often the repair is begun again.
* `JournalsAreExported` (`JournalsInv`): up to version 6 the journals of the
  database it came from are still in the database; in the hook each that was
  read has its file or is in the list of those to be written
  (`ExportsAreKept`); from version 7 on each has its file.
* `UpgradesReachTheirSnapshots` (`TablesInv`): up to version 8 a database has
  just the tables its version declares; at version 9, those but for mentions and
  notifications, which have one of the forms the repair knows (`MentionsForms`,
  `ToldForms`); from version 10 on, those but for the reference of section 6.
  The invariant is needed because `SnapshotsAreReached` says nothing of the two
  tables at version 9, and what version 10 finds depends on the repair
  (`UsersAreKept`). Per migration one lemma (`FirstMigrationArrives` to
  `TenthMigrationArrives`) leads from the tables of one version to those of the
  next. Where a migration renames tables, references follow the name
  (`RenamingKeeps`, `SettledTables`); nothing else may move with them, which is
  what `IsLasting` says of every table that stays.
* `UpgradesKeepTheirRows` (`SurvivalInv`): a database says the same as the one it
  came from (`SaysTheSame`), and its rows still have the keys the next migration
  reads (`RowsFit`). The second is needed twice. v1--v2 makes system
  administrators of those who hold the role of an administrator, which adds
  nobody if nobody held a system role before. And v10--v11 copies the rows about
  tasks with an INNER JOIN on the default chart of their project: a row whose
  project had no chart would be lost without an error. The script that runs
  first gives every project one, so each row whose project is there is copied
  once and says of its task what it said (`ChartedRows`,
  `ChartedRowsSayTheSame`). Between the copies the old tables are dropped, and
  what refers to a dropped row by a cascading reference goes with it, and what
  refers to that. The proof shows that this recursion has a solution and ends
  where nothing refers to what goes (`WithReferringIsDefined`), and that in the
  order of the file no table that is left ever refers to the one that is dropped
  (`DroppedInOrder`); `From10DropsMirrorFirst` is the order that would lose rows.

Model-checked only:

* `CommentsAreAnnounced` and `ButtonsComeBack`, which are liveness properties,
  and out of the prover's reach.
* the assumptions of `MCIssues`, `MCChartEditor` and `Relations`, which TLC
  evaluates, and the four violated rules, which no proof is about.

## 6. Where docs or tests and code disagree

| run | the docs or tests say | the code |
|---|---|---|
| `OrganizationRoleStrandsManagers` | a role is not revoked when that removes the last effective manager of a project or team | `revokeOrganizationRole` checks the organization's own managers only |
| `OvertakenByChange` | a login with the old password is refused after a change; a change needs the current password | both compare with the hash read before an await |
| `EditsOutliveTrials` | a trial migration works on a fresh copy of the production database | a copy that is there is kept, and the hook of v6--v7 then writes its old journals over those edited since |
| `ChartsKeepTheirOwnTasks` | the editor switches between charts | a late load fills the chart that is selected when it comes, and a mounted editor stores the old chart under the new one's id |

Met while modelling, without a run of their own:

*Authority.* User deletion does not check organizations' managers
(docs/data-model.md:319, docs/authorization.md:37), the one exception
`OrganizationManagersLostOnlyWithAccounts` makes, nor projects linked directly
to an organization (docs/data-model.md:322). Team deletion counts managers of
other teams who are no longer members of them (docs/deletion-cascade.md:50).
docs/scoped-access-tokens.md:133 says revoking a token sets `revokedAt`, and
`revokeToken` deletes the row (every later use fails either way).
docs/deletion-cascade.md:163 asks for effective manager authority to delete a
project, and the code, with docs/authorization.md:104, asks for ownership.

*Content.* The limit on attachments (tests/issue-comments-attachments.test.ts:489
and :541) is counted before the file is written and the link inserted after, so
two uploads at once exceed it.

*Issue states.* A card dragged on the board sends a status only, so a drag that
closes an issue, or opens a closed one, is always refused
(`CardsDoNotCrossClosed`). The edit form keeps the reason in its disabled field
when the status is changed from closed, and is refused too, unless the reason is
cleared first while the status still is closed (`FormsKeepIssuesClosed`). Every
update of a closed issue moves its `closedAt` to now.

*Migrations.* v8--v9 adds the reference of a notification to the user it
mentions without the cascade that `db/v9/schema.ts:451` declares, against
`db/migrations/README.md:3` and `:14`. A container key has four parts in
versions 9 and 10 and five in 11, and v10--v11 does not rewrite the old ones, so
people mentioned before are told again. An older version 9 that holds one mention
twice cannot be migrated: the unique index fails every time. The version is
checked before the transaction begins. In `db/v11/schema.ts` a project still
declares its mirrored tasks (`many(taskMirror)`), though a task refers to a
chart by then, so the ORM finds no columns to join them by: a query that asked
for them would fail, and none does (`ManysAreInferred` of `Relations`).

*Chart editor.* A change of the display mode or of the permission mounts the
editor again from the source, and unsaved edits are gone; a chart shown from the
cache is not dirty although it was never saved
(ProjectManagerGanttPage.test.tsx:1134 has it so); a load answered "not found"
after a switch offers to create a chart that exists, over it; an answer to a
page that was left overwrites newer edits in the cache; edits made while a save
is under way are lost when it is answered; overlapping reloads of the board are
applied in the order they come in; an error of one task on the board is never
cleared. docs/gant-chart-milestones.md:13 speaks of a computed status, and the
editor writes it into the file.

*Test data.* The script reads ids back by name, and so records, and later
deletes, a user's row of a seed's name (tests/db-lifecycle.test.ts:784 is about
rows of other names); the service adopts such rows. Comments or attachments by a
seeded user make a purge of the script fail after it deleted the chart files. A
team moved to another organization is not moved back. Charts that users added,
and journals of earlier generations, stay on disk; files written by a run that
stopped wait for ids that another project may get. A renamed seed can make a
run of the service fail on the unique record of its row.

## 7. Not modelled

`PROJECT.json` lists every component with its status. Left out for good: pages
that render answers, contracts, parsing of arguments and configuration, the
generator of migrations (its output is checked in and modelled), the checks of
uploaded bytes, vendored code. `IssueStates` is checked apart from `Issues`,
since no query of the content handlers looks at the status.

Left out, and worth a model: the pool of manager uploads, a directory in which
a name is checked and then written over an await (uploads.service.ts:200); the
token of the frontend session under overlapping initialize and login
(AuthSessionContext.tsx:92); more than one chart of a project on the server,
with `createProjectChart`; a second browser window; two operators who migrate one
file. `PROJECT.json` keeps the first two among the hazards, without a property.

## 8. Plan

1. `Uploads` and `SessionStore`, the two hazards without a property.
2. A composition: `Accounts.DeleteUser` and `Sessions.deleteUser` are two views
   of one transaction; an abstract module of "who exists", refined by both, ties
   them together. `Attachments` refines an abstract store of linked files in
   which upload and unlink are single steps.
3. Proofs of the two modules of item 1, and of the refinements of item 2.
