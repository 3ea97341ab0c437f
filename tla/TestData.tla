------------------------------- MODULE TestData -------------------------------
(***************************************************************************)
(* The two tools that seed a database with the fixture, or purge it: a     *)
(* service of the server and a script.  Both remember in                   *)
(* ManagedTestDataRecords which row each seed was given, and work on what  *)
(* users have made of the database since: rows renamed, deleted, added     *)
(* with the name of a seed, associated elsewhere.                          *)
(*                                                                         *)
(* Ids come from AUTOINCREMENT.  A transaction takes effect in one step,   *)
(* but its files are written and deleted one by one, before or after it;   *)
(* the process may stop in between.  The service finds the row of a seed   *)
(* by its record, then by its name; the script deletes all rows it has     *)
(* records of and inserts new ones.                                        *)
(*                                                                         *)
(* Users change the data while no transaction of the script is open, and   *)
(* one tool runs at a time.  Left out: the contents of files, schemas      *)
(* before v11, where the script is the same but for journals, and rows no  *)
(* tool touches but by deleting what they hang on.                         *)
(***************************************************************************)
EXTENDS SeedFixture, Integers, FiniteSetsExt, Functions, SequencesExt

CONSTANTS
    Seeds,          \* the seeds considered, in the order they are seeded
    SeededLinks, SeededIssues,
    Other,          \* a name no seed has
    MaxRuns,        \* bounds the runs of the tools
    MaxChanges      \* bounds the changes of users

SeedKeys == {s.key : s \in Range(Seeds)}

ASSUME BoundsAreNatural == {MaxRuns, MaxChanges} \subseteq Nat
ASSUME SeedsAreRows == Seeds \in Seq([table : Tables, key : STRING])
ASSUME KeysAreUnique ==
    \A i, j \in DOMAIN Seeds : Seeds[i].key = Seeds[j].key => i = j
ASSUME OtherIsAName == Other \in STRING \ SeedKeys
ASSUME LinksAreBetweenSeeds ==
    \A l \in SeededLinks : {l[2], l[3]} \subseteq SeedKeys
ASSUME IssuesAreOfSeeds ==
    /\ IsFiniteSet(SeededIssues)
    /\ \A i \in SeededIssues :
        \E seed \in Range(Seeds) : seed = Seed("Projects", i[1])
    /\ \A i \in SeededIssues : i[2] \in STRING

VARIABLES
    db,         \* the database
    files,      \* journals and charts on disk
    run,        \* the tool that runs
    own,        \* the rows that users made and that never bore a seed's name
    runs, changes

vars == <<db, files, run, own, runs, changes>>

idle == [step |-> "idle", tracked |-> {}, targets |-> {}, left |-> {}]

\* next is sqlite_sequence; accounts are the users that sign in as seeded;
\* ok is FALSE once a statement of the transaction failed.
EmptyDatabase ==
    [rows |-> [t \in Tables |-> <<>>],
     next |-> [t \in Tables |-> 1], nextIssue |-> 1,
     links |-> {}, issues |-> {}, comments |-> {}, accounts |-> {},
     tracked |-> <<>>, ok |-> TRUE]

Init ==
    /\ db = EmptyDatabase
    /\ files = {} /\ run = idle /\ own = {}
    /\ runs = 0 /\ changes = 0

-----------------------------------------------------------------------------
(* The database *)

Put(f, x, value) ==
    [y \in DOMAIN f \cup {x} |-> IF y = x THEN value ELSE f[y]]

Exists(d, ref) == ref[2] \in DOMAIN d.rows[ref[1]]

Named(d, table, name) ==
    {id \in DOMAIN d.rows[table] : d.rows[table][id] = name}

\* The column of usernames is unique, those of names are not.
NameIsFree(d, table, id, name) ==
    table = "Users" => Named(d, table, name) \subseteq {id}

UpdateRow(d, table, id, name) ==
    [d EXCEPT !.rows[table] =
                [i \in DOMAIN @ |-> IF i = id THEN name ELSE @[i]],
              !.ok = @ /\ NameIsFree(d, table, id, name)]

\* A mutant of NewId: without AUTOINCREMENT, ids are used again.
SmallestFreeId(d, table) ==
    CHOOSE id \in 1 .. Cardinality(DOMAIN d.rows[table]) + 1 :
        /\ id \notin DOMAIN d.rows[table]
        /\ \A lower \in 1 .. id - 1 : lower \in DOMAIN d.rows[table]

NewId(d, table) == d.next[table]

InsertRow(d, table, name) ==
    [d EXCEPT !.next[table] = @ + 1,
              !.rows[table] = Put(@, NewId(d, table), name),
              !.ok = @ /\ NameIsFree(d, table, NewId(d, table), name)]

\* An issue takes the next id, with the values of its seed or others.
InsertIssue(d, project, name, seeded) ==
    [d EXCEPT !.nextIssue = @ + 1,
              !.issues = @ \cup {[id |-> d.nextIssue, project |-> project,
                                  name |-> name, seeded |-> seeded]}]

IssuesNamed(d, project, name) ==
    {i \in d.issues : i.project = project /\ i.name = name}

\* A query for one row of a name gives the oldest.
FirstIssue(d, project, name) ==
    CHOOSE i \in IssuesNamed(d, project, name) :
        \A j \in IssuesNamed(d, project, name) : i.id <= j.id

\* A team is of one organization at most.
LinkIsFree(d, link) ==
    /\ link \notin d.links
    /\ link[1] = "teamOf" =>
        ~ \E l \in d.links : l[1] = "teamOf" /\ l[2] = link[2]

\* Deletes rows and what hangs on them.  Comments hang on the project they are
\* in, and keep their author from being deleted.
DeleteRows(d, gone) ==
    LET comments == {c \in d.comments : <<"Projects", c[2]>> \notin gone}
    IN  [d EXCEPT
            !.rows = [t \in Tables |->
                        Restrict(@[t], {id \in DOMAIN @[t] :
                                            <<t, id>> \notin gone})],
            !.links = {l \in @ : {l[2], l[3]} \cap gone = {}},
            !.issues = {i \in @ : <<"Projects", i.project>> \notin gone},
            !.comments = comments,
            !.accounts = {u \in @ : <<"Users", u>> \notin gone},
            !.ok = @ /\ \A c \in comments : <<"Users", c[1]>> \notin gone]

Refs(d) == UNION {{<<t, id>> : id \in DOMAIN d.rows[t]} : t \in Tables}

-----------------------------------------------------------------------------
(* The records of what was seeded *)

TrackedEntityIds(d) == Range(d.tracked)

HasTestData(d) == DOMAIN d.tracked # {}

\* One record for a seed, and one for a row.
UpsertTrackedEntity(d, key, ref) ==
    [d EXCEPT !.tracked = Put(@, key, ref),
              !.ok = @ /\ \A k \in DOMAIN d.tracked \ {key} :
                            d.tracked[k] # ref]

\* The rows a seed is, or may be by its name.
CandidatesWithoutRepair(d, seed) ==
    IF seed.key \in DOMAIN d.tracked THEN {d.tracked[seed.key][2]}
    ELSE Named(d, seed.table, seed.key)

FindEntity(d, seed) ==
    IF seed.key \in DOMAIN d.tracked /\ Exists(d, d.tracked[seed.key])
    THEN {d.tracked[seed.key][2]}
    ELSE Named(d, seed.table, seed.key)

SeedsOf(d, key) == d.tracked[key]

\* The links and issues of the fixture between the rows of its seeds.
LinksOf(d) ==
    {<<l[1], SeedsOf(d, l[2]), SeedsOf(d, l[3])>> : l \in SeededLinks}

IssuesOf(d) == {<<SeedsOf(d, i[1])[2], i[2]>> : i \in SeededIssues}

ProjectsAmong(refs) == {ref[2] : ref \in {r \in refs : r[1] = "Projects"}}

SeededProjects(d) == ProjectsAmong(TrackedEntityIds(d))

ProjectJournals(projects) == {<<"projectJournal", p>> : p \in projects}

Charts(projects) == {<<"chart", p, 0>> : p \in projects}

IssueJournals(d, projects) ==
    {<<"issueJournal", i.project, i.id>> :
        i \in {j \in d.issues : j.project \in projects}}

-----------------------------------------------------------------------------
(* The service *)

\* A user gets the password, the system role and the status of the seed back.
EnsureAccount(d, seed, id) ==
    [d EXCEPT !.accounts = IF seed.table = "Users" THEN @ \cup {id} ELSE @]

EnsureSeedRow(d, seed) ==
    LET found == FindEntity(d, seed)
        id == IF found = {} THEN NewId(d, seed.table) ELSE Min(found)
        written == IF found = {} THEN InsertRow(d, seed.table, seed.key)
                   ELSE UpdateRow(d, seed.table, id, seed.key)
    IN  UpsertTrackedEntity(EnsureAccount(written, seed, id),
                            seed.key, <<seed.table, id>>)

EnsureLinks(d) ==
    [d EXCEPT !.links = @ \cup {l \in LinksOf(d) : LinkIsFree(d, l)}]

InsertSeededIssue(d, issue) == InsertIssue(d, issue[1], issue[2], TRUE)

EnsureIssue(d, issue) ==
    IF IssuesNamed(d, issue[1], issue[2]) = {}
    THEN InsertSeededIssue(d, issue)
    ELSE LET i == FirstIssue(d, issue[1], issue[2])
         IN  [d EXCEPT !.issues = (@ \ {i}) \cup {[i EXCEPT !.seeded = TRUE]}]

EnsureIssues(d) ==
    FoldLeft(EnsureIssue, d, SetToSeq(IssuesOf(d)))

Ensured(d) == EnsureIssues(EnsureLinks(FoldLeft(EnsureSeedRow, d, Seeds)))

\* The transaction; the journals follow.
ServiceEnsures ==
    LET d == Ensured(db)
    IN  /\ run = idle /\ runs < MaxRuns /\ runs' = runs + 1
        /\ d.ok
        /\ db' = d
        /\ run' = [idle EXCEPT !.step = "write",
                    !.left = ProjectJournals(SeededProjects(d)) \cup
                        {<<"seededIssue", i[1], i[2]>> : i \in IssuesOf(d)}]
        /\ UNCHANGED <<files, own, changes>>

Go(left) == run' = IF left = {} THEN idle ELSE [run EXCEPT !.left = left]

\* The journals of projects come first; an issue is looked up when its journal
\* is written, and may be gone.
WriteJournal(file) ==
    /\ run.step = "write" /\ file \in run.left
    /\ \/ /\ file[1] = "projectJournal"
          /\ files' = files \cup {file}
       \/ /\ file[1] = "seededIssue"
          /\ run.left \cap ProjectJournals(SeededProjects(db)) = {}
          /\ files' = files \cup
                IF IssuesNamed(db, file[2], file[3]) = {} THEN {}
                ELSE {<<"issueJournal", file[2],
                        FirstIssue(db, file[2], file[3]).id>>}
    /\ Go(run.left \ {file})
    /\ UNCHANGED <<db, own, runs, changes>>

\* A mutant of Purged: the records of rows that users deleted stay.
PurgedButStale(d, tracked) ==
    [DeleteRows(d, tracked) EXCEPT
        !.tracked = Restrict(@, {k \in DOMAIN @ : ~ Exists(d, @[k])})]

\* All records go, and the rows of those that were read.
Purged(d, tracked) == [DeleteRows(d, tracked) EXCEPT !.tracked = <<>>]

JournalTargets(d) ==
    ProjectJournals(SeededProjects(d)) \cup IssueJournals(d, SeededProjects(d))

\* What follows the transaction of a purge.
Unlinking(tracked, targets) ==
    IF targets = {} THEN idle
    ELSE [idle EXCEPT !.step = "unlink", !.tracked = tracked,
                      !.targets = targets, !.left = targets]

ServicePurges ==
    LET d == Purged(db, TrackedEntityIds(db))
    IN  /\ run = idle /\ runs < MaxRuns /\ runs' = runs + 1
        /\ d.ok
        /\ db' = d
        /\ run' = Unlinking(TrackedEntityIds(db), JournalTargets(db))
        /\ UNCHANGED <<files, own, changes>>

DeleteJournal(file) ==
    /\ run.step = "unlink" /\ file \in run.left
    /\ files' = files \ {file}
    /\ Go(run.left \ {file})
    /\ UNCHANGED <<db, own, runs, changes>>

-----------------------------------------------------------------------------
(* The script *)

\* The id of a row is read back by its name.
InsertSeed(d, seed) ==
    LET inserted == InsertRow(d, seed.table, seed.key)
        ref == <<seed.table, Min(Named(inserted, seed.table, seed.key))>>
    IN  UpsertTrackedEntity(EnsureAccount(inserted, seed, ref[2]), seed.key, ref)

InsertLinks(d) ==
    [d EXCEPT !.links = @ \cup LinksOf(d),
              !.ok = @ /\ \A l \in LinksOf(d) : LinkIsFree(d, l)]

InsertIssues(d) ==
    FoldLeft(InsertSeededIssue, d, SetToSeq(IssuesOf(d)))

Created(d) == InsertIssues(InsertLinks(FoldLeft(InsertSeed, d, Seeds)))

Reseeded(d) == Created(Purged(d, TrackedEntityIds(d)))

\* The charts of the rows that are tracked go first.
ScriptEnsureBegins ==
    /\ run = idle /\ runs < MaxRuns /\ runs' = runs + 1
    /\ run' = [idle EXCEPT !.step = "begun"]
    /\ files' = files \ Charts(SeededProjects(db))
    /\ UNCHANGED <<db, own, changes>>

\* A statement that fails rolls the database back.
ScriptEnsureFails ==
    /\ run.step = "begun" /\ ~ Reseeded(db).ok
    /\ run' = idle
    /\ UNCHANGED <<db, files, own, runs, changes>>

\* Journals are written as rows are inserted, and then the charts.
ScriptInserts ==
    LET d == Reseeded(db)
    IN  /\ run.step = "begun" /\ d.ok
        /\ files' = files
            \cup ProjectJournals(SeededProjects(d))
            \cup Charts(SeededProjects(d))
            \cup {<<"issueJournal", i[1], FirstIssue(d, i[1], i[2]).id>> :
                    i \in IssuesOf(d)}
        /\ run' = [run EXCEPT !.step = "inserted"]
        /\ UNCHANGED <<db, own, runs, changes>>

ScriptEnsureCommits ==
    /\ run.step = "inserted"
    /\ db' = Reseeded(db)
    /\ run' = idle
    /\ UNCHANGED <<files, own, runs, changes>>

\* What is tracked is read before the transaction begins.
ScriptPurgeReads ==
    /\ run = idle /\ runs < MaxRuns /\ runs' = runs + 1
    /\ run' = [idle EXCEPT !.step = "read", !.tracked = TrackedEntityIds(db),
                           !.targets = JournalTargets(db)]
    /\ UNCHANGED <<db, files, own, changes>>

ScriptPurgeBegins ==
    /\ run.step = "read"
    /\ files' = files \ Charts(ProjectsAmong(run.tracked))
    /\ run' = [run EXCEPT !.step = "purging"]
    /\ UNCHANGED <<db, own, runs, changes>>

ScriptPurgeFails ==
    /\ run.step = "purging" /\ ~ Purged(db, run.tracked).ok
    /\ run' = idle
    /\ UNCHANGED <<db, files, own, runs, changes>>

ScriptPurgeCommits ==
    LET d == Purged(db, run.tracked)
    IN  /\ run.step = "purging" /\ d.ok
        /\ db' = d
        /\ run' = Unlinking(run.tracked, run.targets)
        /\ UNCHANGED <<files, own, runs, changes>>

\* The process that runs a tool stops.
Stop ==
    /\ run # idle /\ run' = idle
    /\ UNCHANGED <<db, files, own, runs, changes>>

-----------------------------------------------------------------------------
(* Users, through the server *)

UsersChange(d) ==
    /\ run.step \notin {"begun", "inserted", "purging"}
    /\ changes < MaxChanges /\ changes' = changes + 1
    /\ d.ok /\ db' = d
    /\ UNCHANGED <<run, runs>>

CreateRow(table, name) ==
    /\ UsersChange(InsertRow(db, table, name))
    /\ own' = own \cup IF name # Other THEN {}
                       ELSE {<<table, NewId(db, table)>>}
    /\ files' = IF table = "Projects"
                THEN files \cup {<<"projectJournal", NewId(db, table)>>}
                ELSE files

RenameRow(ref, name) ==
    /\ Exists(db, ref) /\ db.rows[ref[1]][ref[2]] # name
    /\ UsersChange(UpdateRow(db, ref[1], ref[2], name))
    /\ own' = own \ {ref}
    /\ UNCHANGED files

\* Journals of issues are left.
DeleteRow(ref) ==
    /\ Exists(db, ref)
    /\ UsersChange(DeleteRows(db, {ref}))
    /\ own' = own \ {ref}
    /\ files' = IF ref[1] = "Projects"
                THEN files \ (ProjectJournals({ref[2]}) \cup Charts({ref[2]}))
                ELSE files

AddLink(link) ==
    /\ Exists(db, link[2]) /\ Exists(db, link[3])
    /\ LinkIsFree(db, link)
    /\ UsersChange([db EXCEPT !.links = @ \cup {link}])
    /\ UNCHANGED <<files, own>>

RemoveLink(link) ==
    /\ link \in db.links
    /\ UsersChange([db EXCEPT !.links = @ \ {link}])
    /\ UNCHANGED <<files, own>>

CreateIssue(project, name) ==
    /\ Exists(db, <<"Projects", project>>)
    /\ UsersChange(InsertIssue(db, project, name, FALSE))
    /\ files' = files \cup {<<"issueJournal", project, db.nextIssue>>}
    /\ UNCHANGED own

EditIssue(issue) ==
    /\ issue \in db.issues /\ issue.seeded
    /\ UsersChange([db EXCEPT !.issues =
                        (@ \ {issue}) \cup {[issue EXCEPT !.seeded = FALSE]}])
    /\ UNCHANGED <<files, own>>

WriteComment(user, project) ==
    /\ Exists(db, <<"Users", user>>) /\ Exists(db, <<"Projects", project>>)
    /\ <<user, project>> \notin db.comments
    /\ UsersChange([db EXCEPT !.comments = @ \cup {<<user, project>>}])
    /\ UNCHANGED <<files, own>>

\* A new password, other roles, a deactivation.
ChangeAccount(user) ==
    /\ user \in db.accounts
    /\ UsersChange([db EXCEPT !.accounts = @ \ {user}])
    /\ UNCHANGED <<files, own>>

-----------------------------------------------------------------------------

TableOf(key) == (CHOOSE s \in Range(Seeds) : s.key = key).table

KindsOfLinks == {<<l[1], TableOf(l[2]), TableOf(l[3])>> : l \in SeededLinks}

SeedTables == {s.table : s \in Range(Seeds)}

NamesIn(table) ==
    {Other} \cup {s.key : s \in {r \in Range(Seeds) : r.table = table}}

User ==
    \/ \E t \in SeedTables : \E name \in NamesIn(t) : CreateRow(t, name)
    \/ \E ref \in Refs(db) :
        DeleteRow(ref) \/ \E name \in NamesIn(ref[1]) : RenameRow(ref, name)
    \/ \E k \in KindsOfLinks :
        \E a \in DOMAIN db.rows[k[2]], b \in DOMAIN db.rows[k[3]] :
            AddLink(<<k[1], <<k[2], a>>, <<k[3], b>>>>)
    \/ \E link \in db.links : RemoveLink(link)
    \/ \E i \in SeededIssues, p \in DOMAIN db.rows["Projects"] :
        CreateIssue(p, i[2])
    \/ \E issue \in db.issues : EditIssue(issue)
    \/ \E u \in DOMAIN db.rows["Users"], p \in DOMAIN db.rows["Projects"] :
        WriteComment(u, p)
    \/ \E u \in db.accounts : ChangeAccount(u)

Tool ==
    \/ ServiceEnsures \/ ServicePurges
    \/ \E file \in run.left : WriteJournal(file) \/ DeleteJournal(file)
    \/ ScriptEnsureBegins \/ ScriptEnsureFails \/ ScriptInserts
    \/ ScriptEnsureCommits
    \/ ScriptPurgeReads \/ ScriptPurgeBegins \/ ScriptPurgeFails
    \/ ScriptPurgeCommits
    \/ Stop

Next == User \/ Tool

Spec == Init /\ [][Next]_vars

-----------------------------------------------------------------------------
(* Properties *)

\* An id that was given to a row once is given to no other.
WasGiven(d, ref) ==
    /\ ref = <<ref[1], ref[2]>>
    /\ ref[1] \in Tables /\ ref[2] \in 1 .. d.next[ref[1]] - 1

IsDatabase(d) ==
    /\ d \in [rows : {d.rows}, next : [Tables -> Nat \ {0}],
              nextIssue : Nat \ {0},
              links : {d.links}, issues : {d.issues}, comments : {d.comments},
              accounts : {d.accounts}, tracked : {d.tracked}, ok : BOOLEAN]
    /\ d.rows = [t \in Tables |-> d.rows[t]]
    /\ \A t \in Tables :
        /\ d.rows[t] \in [DOMAIN d.rows[t] -> STRING]
        /\ DOMAIN d.rows[t] \subseteq 1 .. d.next[t] - 1
    /\ \A l \in d.links : \A ref \in {l[2], l[3]} :
        ref = <<ref[1], ref[2]>> /\ ref[1] \in Tables /\ Exists(d, ref)
    /\ \A i \in d.issues :
        /\ i \in [id : 1 .. d.nextIssue - 1,
                  project : DOMAIN d.rows["Projects"],
                  name : STRING, seeded : BOOLEAN]
    /\ \A c \in d.comments : Exists(d, <<"Users", c[1]>>)
    /\ d.tracked = [key \in DOMAIN d.tracked |-> d.tracked[key]]
    /\ DOMAIN d.tracked \subseteq SeedKeys
    /\ \A key \in DOMAIN d.tracked : WasGiven(d, d.tracked[key])
    /\ IsInjective(d.tracked)

TypeOK ==
    /\ IsDatabase(db) /\ db.ok
    /\ run \in [step : {"idle", "write", "unlink", "begun", "inserted",
                        "read", "purging"},
                tracked : {run.tracked}, targets : {run.targets},
                left : {run.left}]
    /\ \A ref \in run.tracked \cup own : WasGiven(db, ref)
    /\ runs \in 0 .. MaxRuns /\ changes \in 0 .. MaxChanges

Ensuring ==
    \/ run.step = "idle" /\ run'.step = "write"
    \/ run.step = "inserted" /\ db' # db

\* Every seed has a row of its own, the fixture's links and issues are there,
\* and the accounts sign in as seeded.  A team that is of another organization
\* stays there.
SeedsAreIn(d) ==
    /\ DOMAIN d.tracked = SeedKeys
    /\ IsInjective(d.tracked)
    /\ \A seed \in Range(Seeds) :
        LET ref == d.tracked[seed.key]
        IN  /\ ref[1] = seed.table
            /\ Exists(d, ref) /\ d.rows[ref[1]][ref[2]] = seed.key
            /\ ref[1] = "Users" => ref[2] \in d.accounts
    /\ \A l \in LinksOf(d) : ~ LinkIsFree(d, l)
    /\ \A i \in IssuesOf(d) : \E j \in IssuesNamed(d, i[1], i[2]) : j.seeded

\* Whatever users did to seeded rows, and however earlier runs ended, a run of
\* either tool that succeeds leaves the whole fixture in the database, and a
\* record of every seed.
EnsuringCompletes == [][Ensuring => SeedsAreIn(db')]_vars

\* No row or issue bears the name of a seed, but those of the seeds.
Unrivalled(d) ==
    /\ \A seed \in Range(Seeds) :
        Cardinality(Named(d, seed.table, seed.key)) <= 1
    /\ \A i \in IssuesOf(d) : Cardinality(IssuesNamed(d, i[1], i[2])) <= 1

SizesOf(d) == [t \in Tables |-> Cardinality(DOMAIN d.rows[t])]

\* Seeding what is seeded changes nothing (the service) or gives the same rows
\* other ids (the script).
EnsuringIsIdempotent ==
    [][Ensuring /\ SeedsAreIn(db) /\ Unrivalled(db) =>
        /\ SizesOf(db') = SizesOf(db) /\ Unrivalled(db')
        /\ run'.step = "write" => db' = db]_vars

\* A row that users made, and that never bore the name of a seed, goes only
\* when users delete it: no tool takes it for a seed's, through stale records
\* and records read before the transaction.
UsersRowsStay == own \subseteq Refs(db)

\* When a purge ends, the rows it had records of are gone with their links and
\* journals, and so are the records, although users went on and files are
\* deleted after the rows.
PurgesEmpty ==
    [][run.step = "unlink" /\ run'.step = "idle"
            /\ Cardinality(run.left) = 1 /\ files' = files \ run.left =>
        /\ ~ HasTestData(db')
        /\ \A ref \in run.tracked :
            /\ ~ Exists(db', ref)
            /\ \A l \in db'.links : ref \notin {l[2], l[3]}
            /\ ref[1] = "Projects" => <<"projectJournal", ref[2]>> \notin files'
        /\ files' \cap run.targets = {}]_vars

=============================================================================
