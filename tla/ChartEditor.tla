----------------------------- MODULE ChartEditor -----------------------------
(***************************************************************************)
(* One browser window of the project manager: the editor of charts, the    *)
(* page of a task, the board and the task list, with the cache of charts   *)
(* they share and the calls of the server's API.                           *)
(*                                                                         *)
(* The window shows a chart of a project on a page.  A call is begun,      *)
(* served and answered in three steps; meanwhile the user goes on.  What   *)
(* answers to a page that was left only reaches the cache, which outlives  *)
(* the pages.  An editor that is mounted anew parses the chart the hook    *)
(* holds, infers its milestones and hands the result back as the baseline  *)
(* that edits are compared with.                                           *)
(*                                                                         *)
(* The user may edit the projects shown; one who may not takes fewer       *)
(* steps.  Left out: the list of charts and who may edit, whose answers    *)
(* change nothing here but to mount the editor again, messages,            *)
(* selections, and the journal and the counts on the page of a task.  No   *)
(* other window saves charts.                                              *)
(***************************************************************************)
EXTENDS Milestones, Integers

CONSTANTS
    Scopes,         \* the charts there are: a project, an id within it
    TaskIds,
    ReservedIds,    \* task ids no chart may use
    DefaultTask,    \* the task of the chart a project without one gets
    NewStatuses,    \* the statuses users give to tasks
    Calls,          \* bounds the calls under way at once
    None,
    ServerCharts,   \* the charts the server may start with
    MaxMoves,       \* bounds the pages opened and the charts switched to
    MaxEdits        \* bounds the changes made to charts

ASSUME ReservedAreIds == ReservedIds \subseteq TaskIds
ASSUME DefaultIsValid == DefaultTask \in TaskIds \ ReservedIds
ASSUME TaskIdsAreFinite == IsFiniteSet(TaskIds)
ASSUME ScopesArePairs == \A s \in Scopes : s = <<s[1], s[2]>>
ASSUME NewAreStatuses == NewStatuses \subseteq Statuses
ASSUME NoneIsNoCall == None \notin Calls
ASSUME BoundsAreNatural == {MaxMoves, MaxEdits} \subseteq Nat

\* Charts whose tasks may come from any chart: a chart without a file has None.
IsHeld(chart) == chart = None \/ IsChart(chart, Scopes \cup {None}, TaskIds)

\* A chart, or None, for every key.
HoldsCharts(charts, keys) ==
    /\ charts = [key \in keys |-> charts[key]]
    /\ \A key \in keys : IsHeld(charts[key])

ASSUME ServerHoldsCharts ==
    \A charts \in ServerCharts : HoldsCharts(charts, Scopes)

ChartsOf(project) == {s[2] : s \in {r \in Scopes : r[1] = project}}

HookPages == {"gantt", "task"}
BoardPages == {"kanban", "tasks"}
Pages == HookPages \cup BoardPages

DefaultChart ==
    ChartOf(None, [id \in {DefaultTask} |->
                      [type |-> "task", status |-> Unset]], {})

VARIABLES
    page,       \* the page shown
    scope,      \* the project and chart of its route
    hook,       \* the state of useGanttChartFileManager on this page
    editor,     \* the chart in the mounted GanttChart, or None
    cache,      \* runtimeChartCacheByScopeKey
    invalid,    \* the keys of runtimeChartValidationErrorByScopeKey
    server,     \* the chart files of the server
    calls,      \* the calls under way
    board,      \* what the board or the task list shows
    moves, edits

shown == <<page, scope>>
counters == <<moves, edits>>
vars == <<shown, hook, editor, cache, invalid, server, calls, board, counters>>

\* lastSeenProjectIdRef is the project of scope, or of the move under way.
FreshHook ==
    [source |-> None, baseline |-> None, dirty |-> FALSE, loading |-> TRUE,
     persisting |-> FALSE, hasChart |-> FALSE, failed |-> FALSE]

EmptyBoard(loading, failed) ==
    [project |-> None, charts |-> <<>>,
     loading |-> loading, failed |-> failed]

Call(kind, s, chart) ==
    [kind |-> kind, scope |-> s, chart |-> chart, alive |-> TRUE,
     stage |-> "sent", failed |-> FALSE]

\* The window is opened on a page: nothing is cached.
Init ==
    /\ page \in Pages /\ scope \in Scopes
    /\ hook = FreshHook /\ editor = None
    /\ cache = [s \in Scopes |-> None] /\ invalid = {}
    /\ server \in ServerCharts
    /\ calls = [c \in Calls |->
                    IF c # CHOOSE first \in Calls : TRUE THEN None
                    ELSE Call(IF page \in HookPages THEN "load" ELSE "board",
                              scope, None)]
    /\ board = EmptyBoard(page = "tasks", FALSE)
    /\ moves = 0 /\ edits = 0

-----------------------------------------------------------------------------
(* The cache *)

\* The cache and the keys with an error, as a pair.
\* A chart with bad ids leaves the cache as it was, and an error.
TrySet(stored, s, chart) ==
    IF ValidTaskIds(chart, ReservedIds)
    THEN <<[stored[1] EXCEPT ![s] = chart], stored[2] \ {s}>>
    ELSE <<stored[1], stored[2] \cup {s}>>

Clear(stored, s) == <<[stored[1] EXCEPT ![s] = None], stored[2] \ {s}>>

Cached == <<cache, invalid>>

Store(stored) == cache' = stored[1] /\ invalid' = stored[2]

-----------------------------------------------------------------------------
(* The editor *)

\* The page renders the editor of a chart that is there.
Rendered(h) == ~h.loading /\ ~h.failed /\ h.source # None

\* A mutant of Parsed.
ParsedWithoutInference(chart) == chart

Parsed(chart) == InferMilestones(chart)

\* setInitialBaseline
Baselined(h, chart) == [h EXCEPT !.baseline = chart, !.dirty = FALSE]

\* A mutant of Show.
ShowAndKeepDirty(p, s, h, stored) ==
    IF p = "gantt" /\ Rendered(h)
    THEN LET chart == Parsed(h.source)
         IN  /\ editor' = chart
             /\ hook' = [h EXCEPT !.baseline = chart]
             /\ Store(TrySet(stored, s, chart))
    ELSE /\ editor' = None
         /\ hook' = h
         /\ Store(stored)

\* The mount effect of GanttChart ends with onBaselineReady.
Show(p, s, h, stored) ==
    IF p = "gantt" /\ Rendered(h)
    THEN LET chart == Parsed(h.source)
         IN  /\ editor' = chart
             /\ hook' = Baselined(h, chart)
             /\ Store(TrySet(stored, s, chart))
    ELSE /\ editor' = None
         /\ hook' = h
         /\ Store(stored)

SetDirtyFromEditor(chart) == [hook EXCEPT !.dirty = chart # hook.baseline]

\* The event itself is heard by pages that are not there while the editor is.
EmitChartUpdated(chart) == Store(TrySet(Cached, scope, chart))

\* A mutant of Edited: the event of the editor is not emitted.
EditedInSilence(chart) ==
    LET result == Parsed(chart)
    IN  /\ editor # None /\ edits < MaxEdits
        /\ edits' = edits + 1
        /\ editor' = [result EXCEPT !.of = IF @ = None THEN scope ELSE @]
        /\ hook' = SetDirtyFromEditor(editor')
        /\ UNCHANGED <<shown, cache, invalid, server, calls, board, moves>>

\* The events of the editor: dirty is set again after the inference, whose
\* updates of tasks are events too, and the cache follows.
Edited(chart) ==
    LET result == Parsed(chart)
    IN  /\ editor # None /\ edits < MaxEdits
        /\ edits' = edits + 1
        /\ editor' = [result EXCEPT !.of = IF @ = None THEN scope ELSE @]
        /\ hook' = SetDirtyFromEditor(editor')
        /\ EmitChartUpdated(editor')
        /\ UNCHANGED <<shown, server, calls, board, moves>>

\* The menus of actions are disabled while the page is busy.  A task that is
\* added or changed gets the attributes it misses.
Busy == hook.loading \/ hook.persisting

CreateNewTask(type) ==
    EnsureTaskObjectAttrs([type |-> type, status |-> Unset])

AddTask(id, type) ==
    /\ editor # None /\ ~Busy
    /\ id \notin DOMAIN editor.tasks \cup ReservedIds
    /\ Edited([editor EXCEPT !.tasks =
                    [task \in DOMAIN @ \cup {id} |->
                        IF task = id THEN CreateNewTask(type) ELSE @[task]]])

\* Conversion of a task to a milestone, or back.
UpdateTaskType(id, type) ==
    /\ editor # None /\ ~Busy
    /\ id \in DOMAIN editor.tasks
    /\ editor.tasks[id].type # type
    /\ Edited([editor EXCEPT !.tasks[id] =
                    EnsureTaskObjectAttrs([@ EXCEPT !.type = type])])

\* The lightbox is the editor's own: a call under way does not close it.
SaveLightbox(id, status) ==
    /\ editor # None
    /\ id \in DOMAIN editor.tasks
    /\ Edited([editor EXCEPT !.tasks[id].status = status])

AddLink(source, target) ==
    /\ editor # None
    /\ {source, target} \subseteq DOMAIN editor.tasks
    /\ source # target /\ <<source, target>> \notin editor.links
    /\ Edited([editor EXCEPT !.links = @ \cup {<<source, target>>}])

DeleteLink(link) ==
    /\ editor # None
    /\ link \in editor.links
    /\ Edited([editor EXCEPT !.links = @ \ {link}])

DeleteTask(id) ==
    /\ editor # None
    /\ id \in DOMAIN editor.tasks
    /\ LET left == DOMAIN editor.tasks \ {id}
       IN  Edited([editor EXCEPT !.tasks = [t \in left |-> @[t]],
                                 !.links = @ \cap (left \X left)])

\* Another layout, and an answer that changes who may edit, mount the editor
\* again, from the chart the hook holds.
ChangeDisplayMode ==
    /\ editor # None /\ moves < MaxMoves
    /\ moves' = moves + 1
    /\ Show(page, scope, hook, Cached)
    /\ UNCHANGED <<shown, server, calls, board, edits>>

-----------------------------------------------------------------------------
(* Calls *)

Begin(pending, call) ==
    \E id \in Calls : pending[id] = None
                      /\ calls' = [pending EXCEPT ![id] = call]

\* A mutant of Abandoned: effects are not cleaned up.
StillAwaited == calls

\* Calls of a page that was left: their answers find no page.
Abandoned ==
    [id \in Calls |->
        IF calls[id] = None THEN None ELSE [calls[id] EXCEPT !.alive = FALSE]]

\* The cache is not asked after a change of project.
InitializeChart(h, p, s, stored, pending, isProjectSwitch) ==
    IF ~isProjectSwitch /\ stored[1][s] # None
    THEN /\ Show(p, s,
                 [h EXCEPT !.source = stored[1][s], !.hasChart = TRUE,
                           !.failed = FALSE, !.dirty = FALSE,
                           !.loading = FALSE],
                 stored)
         /\ calls' = pending
    ELSE /\ Show(p, s,
                 [h EXCEPT !.source = None, !.failed = FALSE, !.loading = TRUE,
                           !.baseline = None, !.dirty = FALSE],
                 stored)
         /\ Begin(pending, Call("load", s, None))

PersistChart ==
    /\ page = "gantt" /\ ~Busy /\ ~hook.failed
    /\ hook' = [hook EXCEPT !.persisting = TRUE]
    /\ Begin(calls, Call("save", scope,
                         IF editor = None THEN DefaultChart ELSE editor))
    /\ UNCHANGED <<shown, editor, cache, invalid, server, board, counters>>

\* Refresh, once confirmed.
InvalidateAndReload ==
    /\ page = "gantt" /\ ~Busy /\ ~hook.failed
    /\ moves < MaxMoves /\ moves' = moves + 1
    /\ InitializeChart([hook EXCEPT !.hasChart = FALSE], page, scope,
                       Clear(Cached, scope), calls, FALSE)
    /\ UNCHANGED <<shown, server, board, edits>>

Serve(id) ==
    LET call == calls[id]
        Answer(chart, failed) ==
            calls' = [calls EXCEPT ![id].stage = "served",
                                   ![id].chart = chart, ![id].failed = failed]
    IN  /\ call # None /\ call.stage = "sent" /\ call.kind \in {"load", "save"}
        /\ \/ /\ call.kind = "load"
              /\ Answer(server[call.scope], FALSE)
              /\ UNCHANGED server
           \/ /\ call.kind = "save" /\ ValidTaskIds(call.chart, ReservedIds)
              /\ server' = [server EXCEPT ![call.scope] = call.chart]
              /\ Answer(call.chart, FALSE)
           \/ /\ Answer(call.chart, TRUE)
              /\ UNCHANGED server
        /\ UNCHANGED <<shown, hook, editor, cache, invalid, board, counters>>

Served(id, kind, alive) ==
    /\ calls[id] # None /\ calls[id].stage = "served"
    /\ calls[id].kind = kind /\ calls[id].alive = alive
    /\ calls' = [calls EXCEPT ![id] = None]

\* What a load leaves in the cache, under the chart it was for.
Loaded(call) ==
    IF call.failed THEN Cached
    ELSE IF call.chart = None THEN Clear(Cached, call.scope)
    ELSE TrySet(Cached, call.scope, NormalizeTasks(call.chart))

\* The source becomes what was loaded, whichever chart is shown by now.
AnswerLoad(id) ==
    LET call == calls[id]
        h == [hook EXCEPT !.loading = FALSE]
    IN  /\ Served(id, "load", TRUE)
        /\ Show(page, scope,
                IF call.failed THEN [h EXCEPT !.failed = TRUE, !.source = None]
                ELSE IF call.chart = None
                THEN [h EXCEPT !.hasChart = FALSE, !.source = None]
                ELSE [h EXCEPT !.hasChart = TRUE,
                               !.source = NormalizeTasks(call.chart)],
                Loaded(call))
        /\ UNCHANGED <<shown, server, board, counters>>

\* A mutant of AnswerSave: a failed save leaves the page busy.
AnswerSaveOnSuccess(id) ==
    LET call == calls[id]
        h == [hook EXCEPT !.persisting = FALSE]
    IN  /\ Served(id, "save", TRUE)
        /\ IF call.failed
           THEN UNCHANGED <<hook, editor, cache, invalid>>
           ELSE Show(page, scope,
                     [h EXCEPT !.baseline = call.chart, !.dirty = FALSE,
                               !.hasChart = TRUE, !.source = call.chart],
                     TrySet(Cached, call.scope, call.chart))
        /\ UNCHANGED <<shown, server, board, counters>>

\* The baseline, the cache of the chart that was saved, and the source become
\* what was sent.
AnswerSave(id) ==
    LET call == calls[id]
        h == [hook EXCEPT !.persisting = FALSE]
    IN  /\ Served(id, "save", TRUE)
        /\ IF call.failed
           THEN /\ hook' = h
                /\ UNCHANGED <<editor, cache, invalid>>
           ELSE Show(page, scope,
                     [h EXCEPT !.baseline = call.chart, !.dirty = FALSE,
                               !.hasChart = TRUE, !.source = call.chart],
                     TrySet(Cached, call.scope, call.chart))
        /\ UNCHANGED <<shown, server, board, counters>>

\* The page that asked is gone.
AnswerLeftPage(id) ==
    LET call == calls[id]
    IN  /\ \/ Served(id, "load", FALSE) /\ Store(Loaded(call))
           \/ /\ Served(id, "save", FALSE)
              /\ Store(IF call.failed THEN Cached
                       ELSE TrySet(Cached, call.scope, call.chart))
           \/ Served(id, "board", FALSE) /\ UNCHANGED <<cache, invalid>>
        /\ UNCHANGED <<shown, hook, editor, server, board, counters>>

-----------------------------------------------------------------------------
(* The board and the task list, which aggregate the charts of a project *)

\* The list of charts has come: those cached are taken from the cache.
ReadCached(id) ==
    /\ calls[id] # None
    /\ calls[id].kind = "board" /\ calls[id].stage = "sent"
    /\ calls' = [calls EXCEPT ![id].stage = "listed",
                    ![id].chart = [c \in ChartsOf(calls[id].scope[1]) |->
                                    cache[<<calls[id].scope[1], c>>]]]
    /\ UNCHANGED <<shown, hook, editor, cache, invalid, server, board,
                   counters>>

\* The others are read from the server; any call may fail.
ReadOthers(id) ==
    LET call == calls[id]
        Fill(c) == IF call.chart[c] = None THEN server[<<call.scope[1], c>>]
                   ELSE call.chart[c]
    IN  /\ call # None /\ call.kind = "board" /\ call.stage = "listed"
        /\ \E failed \in BOOLEAN :
            calls' = [calls EXCEPT ![id].stage = "served",
                        ![id].failed = failed,
                        ![id].chart = [c \in DOMAIN call.chart |-> Fill(c)]]
        /\ UNCHANGED <<shown, hook, editor, cache, invalid, server, board,
                       counters>>

\* Tasks of charts whose ids are bad fail the task list as a whole.
TaskListFails(charts) ==
    \E c \in DOMAIN charts :
        charts[c] # None /\ ~ValidTaskIds(charts[c], ReservedIds)

\* A board that failed once stays so: a later answer does not clear its message.
AnswerBoard(id) ==
    LET call == calls[id]
    IN  /\ Served(id, "board", TRUE)
        /\ board' =
            IF call.failed \/ (page = "tasks" /\ TaskListFails(call.chart))
            THEN EmptyBoard(FALSE, TRUE)
            ELSE [project |-> call.scope[1], charts |-> call.chart,
                  loading |-> FALSE,
                  failed |-> board.failed /\ page = "kanban"]
        /\ UNCHANGED <<shown, hook, editor, cache, invalid, server, counters>>

\* A card dragged to another column: the chart is taken from the cache, or
\* from what the board last read, and changed in the cache alone.
MoveCard(chart, id, status) ==
    LET s == <<scope[1], chart>>
        xml == IF cache[s] # None THEN cache[s] ELSE board.charts[chart]
        stored == TrySet(Cached, s, UpdateTaskStatusInChart(xml, id, status))
    IN  /\ page = "kanban" /\ ~board.failed /\ edits < MaxEdits
        /\ chart \in DOMAIN board.charts /\ s \in Scopes
        /\ board.charts[chart] # None
        /\ id \in DOMAIN ParseProjectKanbanTasks(board.charts[chart])
        /\ ParseProjectKanbanTasks(board.charts[chart])[id] # status
        /\ Store(stored)
        /\ edits' = edits + 1
        /\ IF s \in stored[2] THEN UNCHANGED calls
           ELSE Begin(calls, Call("board", scope, None))
        /\ UNCHANGED <<shown, hook, editor, server, board, moves>>

-----------------------------------------------------------------------------
(* Moves *)

OpenPage(p, s) ==
    /\ p # page
    /\ moves < MaxMoves /\ moves' = moves + 1
    /\ page' = p /\ scope' = s
    /\ board' = EmptyBoard(p = "tasks", FALSE)
    /\ IF p \in HookPages
       THEN InitializeChart(FreshHook, p, s, Cached, Abandoned, FALSE)
       ELSE /\ hook' = FreshHook /\ editor' = None
            /\ Begin(Abandoned, Call("board", s, None))
            /\ UNCHANGED <<cache, invalid>>
    /\ UNCHANGED <<server, edits>>

\* A board that is shown for another project still hears the calls made for
\* the last one; the task list does not.
SwitchProject(s) ==
    /\ page \in BoardPages /\ s[1] # scope[1]
    /\ moves < MaxMoves /\ moves' = moves + 1
    /\ scope' = s
    /\ Begin(IF page = "kanban" THEN calls ELSE Abandoned,
             Call("board", s, None))
    /\ board' = [board EXCEPT !.loading = page = "tasks"]
    /\ UNCHANGED <<page, hook, editor, cache, invalid, server, edits>>

\* The editor's effect runs before that of the hook: a mounted editor is
\* mounted again for the new chart, with the source of the old one.
SwitchChart(s) ==
    LET mounted ==
            IF page = "gantt" /\ Rendered(hook)
            THEN TrySet(Cached, s, Parsed(hook.source)) ELSE Cached
    IN  /\ page \in HookPages /\ s # scope
        /\ moves < MaxMoves /\ moves' = moves + 1
        /\ scope' = s
        /\ InitializeChart(hook, page, s, mounted, calls, s[1] # scope[1])
        /\ UNCHANGED <<page, server, board, edits>>

Change ==
    \/ \E id \in TaskIds, type \in Types :
        AddTask(id, type) \/ UpdateTaskType(id, type)
    \/ \E id \in TaskIds, status \in NewStatuses : SaveLightbox(id, status)
    \/ \E source, target \in TaskIds :
        AddLink(source, target) \/ DeleteLink(<<source, target>>)
    \/ \E id \in TaskIds : DeleteTask(id)
    \/ \E chart \in {s[2] : s \in Scopes}, id \in TaskIds,
          status \in NewStatuses :
        MoveCard(chart, id, status)

Answer(id) ==
    AnswerLoad(id) \/ AnswerSave(id) \/ AnswerBoard(id) \/ AnswerLeftPage(id)

Next ==
    \/ Change
    \/ ChangeDisplayMode \/ PersistChart \/ InvalidateAndReload
    \/ \E s \in Scopes :
        \/ SwitchChart(s) \/ SwitchProject(s)
        \/ \E p \in Pages : OpenPage(p, s)
    \/ \E id \in Calls :
        Serve(id) \/ ReadCached(id) \/ ReadOthers(id) \/ Answer(id)

\* Requests are answered or fail, and the browser runs what awaits them.
Fairness ==
    \A id \in Calls :
        WF_vars(Serve(id) \/ ReadCached(id) \/ ReadOthers(id) \/ Answer(id))

Spec == Init /\ [][Next]_vars /\ Fairness

-----------------------------------------------------------------------------
(* Properties *)

IsHook(h) ==
    /\ h \in [source : {h.source}, baseline : {h.baseline},
              dirty : BOOLEAN, loading : BOOLEAN, persisting : BOOLEAN,
              hasChart : BOOLEAN, failed : BOOLEAN]
    /\ IsHeld(h.source) /\ IsHeld(h.baseline)

\* A save sends a chart; a board asks for all charts of a project.
IsCall(call) ==
    /\ call \in [kind : {"load", "save", "board"}, scope : Scopes,
                 chart : {call.chart}, alive : BOOLEAN,
                 stage : {"sent", "listed", "served"}, failed : BOOLEAN]
    /\ call.kind = "load" => IsHeld(call.chart)
    /\ call.kind = "save" => IsChart(call.chart, Scopes \cup {None}, TaskIds)
    /\ call.kind = "board" /\ call.stage # "sent" =>
            HoldsCharts(call.chart, ChartsOf(call.scope[1]))

IsBoard(b) ==
    /\ b \in [project : {b.project}, charts : {b.charts},
              loading : BOOLEAN, failed : BOOLEAN]
    /\ HoldsCharts(b.charts, DOMAIN b.charts)

TypeOK ==
    /\ page \in Pages /\ scope \in Scopes
    /\ IsHook(hook) /\ IsHeld(editor) /\ IsBoard(board)
    /\ editor # None => page = "gantt"
    /\ HoldsCharts(cache, Scopes) /\ HoldsCharts(server, Scopes)
    /\ invalid \subseteq Scopes
    /\ calls = [id \in Calls |-> calls[id]]
    /\ \A id \in Calls : calls[id] = None \/ IsCall(calls[id])
    /\ moves \in 0 .. MaxMoves /\ edits \in 0 .. MaxEdits

\* The page warns of unsaved changes exactly while the editor differs from
\* what it was loaded with or last saved: the flag and the baseline are set by
\* edits, loads, answers to saves and the editor's own mounting, in any order.
WarningsAreTrue == editor # None => (hook.dirty <=> editor # hook.baseline)

\* The milestones in a mounted editor follow the tasks they depend on, by the
\* rules of the document, through loads, edits, saves and late answers.
MilestonesFollowTheirTasks == editor # None => MilestonesFollow(editor)

\* The cache, from which the other pages render, follows the editor: whatever
\* changes either leaves the cache of the chart shown with what the editor
\* holds, unless its ids are bad, or an answer to a page that was left arrives.
CacheFollowsTheEditor ==
    [][editor' # None =>
        \/ cache'[scope'] = editor'
        \/ scope' \in invalid'
        \/ \E id \in Calls : AnswerLeftPage(id)]_<<editor, cache, scope>>

\* A task list never shows tasks that were asked for another project, although
\* answers come in any order.
TaskListsAreOfTheirProject ==
    page = "tasks" /\ ~board.loading => board.project \in {scope[1], None}

\* However the user moves about, the buttons come back: no load or save leaves
\* the page busy for good.
ButtonsComeBack == page \in HookPages /\ Busy ~> ~(page \in HookPages /\ Busy)
=============================================================================
