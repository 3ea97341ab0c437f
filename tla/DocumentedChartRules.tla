------------------------- MODULE DocumentedChartRules -------------------------
(***************************************************************************)
(* A promise of the documents that the editor of charts does not keep.     *)
(***************************************************************************)
EXTENDS ChartEditor

\* docs/prompts/multi-gantt-chart.md has the editor switch "between charts
\* when the user switches with the dropdown": what is cached or saved under a
\* chart was made in that chart, or is the default one.  A late
\* answer for the chart of before becomes the source of the new one; and an
\* editor that is mounted is mounted again with the chart of before and the id
\* of the new one, which caches the one under the other.
ChartsKeepTheirOwnTasks ==
    \A s \in Scopes : \A chart \in {cache[s], server[s]} \ {None} :
        chart.of \in {s, None}

=============================================================================
