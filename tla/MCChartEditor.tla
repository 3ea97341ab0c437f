---------------------------- MODULE MCChartEditor ----------------------------
(***************************************************************************)
(* An instance of ChartEditor for TLC: a project with two charts, of which *)
(* one has a file, and one whose chart has an id that is not allowed.      *)
(***************************************************************************)
EXTENDS DocumentedChartRules, TLC

CONSTANTS p1, p2, t, m, zero

ChartsOfProjects == {<<p1, 0>>, <<p1, 1>>, <<p2, 0>>}

OnlyClosed == {Closed}

Plain == [type |-> "task", status |-> Unset]

Milestone == [type |-> "milestone", status |-> Open]

FirstChart == ChartOf(<<p1, 0>>, (t :> Plain) @@ (m :> Milestone), {<<t, m>>})

BadChart == ChartOf(<<p2, 0>>, zero :> Plain, {})

ChartsOfServer ==
    {[s \in Scopes |-> IF s = <<p1, 0>> THEN FirstChart
                       ELSE IF s = <<p2, 0>> THEN BadChart ELSE None]}

\* The inference computes what the document says, for the charts of three
\* tasks.
Three == {"a", "b", "c"}

ChartsOfThree ==
    {ChartOf(None,
             [id \in Three |-> [type |-> type[id], status |-> status[id]]],
             links) :
        type \in [Three -> Types],
        status \in [Three -> {Blocked, Closed, Unset}],
        links \in SUBSET {l \in Three \X Three : l[1] # l[2]}}

ASSUME InferenceFollowsTheDocument ==
    \A chart \in ChartsOfThree : MilestonesFollow(InferMilestones(chart))

=============================================================================
