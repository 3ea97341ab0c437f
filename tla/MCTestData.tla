------------------------------ MODULE MCTestData ------------------------------
(***************************************************************************)
(* An instance of TestData for TLC: the part of the fixture about a team   *)
(* that manages a project, and an organization the team is of.             *)
(***************************************************************************)
EXTENDS TestData

CONSTANT Part

SeedsOfPart ==
    SelectSeq(SeededAccounts \o SeededEntities, LAMBDA s : s.key \in Part)

LinksOfPart == {l \in ScopedLinks : {l[2], l[3]} \subseteq Part}

OneIssue ==
    {<<"project:teamProjectManager", "Cross-team notification routing">>}

ASSUME WholeFixture == FixtureIsWhole

=============================================================================
