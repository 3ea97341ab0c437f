------------------------- MODULE ChartEditorProofs -------------------------
(***************************************************************************)
(* The inference of milestones computes what the document says, for every  *)
(* chart.  The walk over the tasks before a milestone finds those the      *)
(* transitive closure of the links holds, and the recursive resolution,    *)
(* which keeps track of the milestones it is resolving, is the rule of the *)
(* document.                                                               *)
(*                                                                         *)
(* Then the window of the project manager, for all charts, all numbers of  *)
(* calls under way, and all moves and edits.                               *)
(***************************************************************************)
EXTENDS ChartEditor, FiniteSetTheorems, WellFoundedInduction, TLAPS

\* A chart with finitely many tasks, whose links are between them.
IsWhole(chart) ==
  /\ IsFiniteSet(DOMAIN chart.tasks)
  /\ chart.links \subseteq (DOMAIN chart.tasks) \X (DOMAIN chart.tasks)

-----------------------------------------------------------------------------
(* Sets that grow within a finite set *)

LEMMA MaximalSubset ==
  ASSUME NEW D, IsFiniteSet(D), NEW T, T \subseteq SUBSET D, T # {}
  PROVE  \E x \in T : \A y \in T : x \subseteq y => y = x
<1>. DEFINE C == {D \ x : x \in T}
            R == StrictSubsetOrdering(D)
<1>1. IsWellFoundedOn(R, SUBSET D)
  BY FS_StrictSubsetOrderingWellFounded, FS_FiniteSubsetsOfFinite
<1>2. C \subseteq SUBSET D /\ C # {}
  <2>1. PICK x : x \in T
    OBVIOUS
  <2>2. D \ x \in C
    BY <2>1
  <2>3. ASSUME NEW c \in C
        PROVE  c \in SUBSET D
    <3>1. PICK y \in T : c = D \ y
      BY <2>3
    <3>. QED
      BY <3>1
  <2>. HIDE DEF C
  <2>. QED
    BY <2>2, <2>3
<1>3. PICK c \in C : \A y \in C : <<y, c>> \notin R
  <2>. HIDE DEF C, R
  <2>. QED  BY <1>1, <1>2, WFMin, Zenon
<1>4. PICK x \in T : c = D \ x
  BY <1>3
<1>5. ASSUME NEW y \in T, x \subseteq y, y # x
      PROVE  FALSE
  <2>1. D \ y \in C /\ <<D \ y, D \ x>> \in R
    BY <1>5 DEF StrictSubsetOrdering
  <2>. QED
    BY <2>1, <1>3, <1>4
<1>. QED
  BY <1>5

\* A walk that adds to a set until nothing is new, as a recursive function,
\* returns the least set that holds the first one and has nothing to add.
Closure(D, N, v) == {q \in D : \A S \in SUBSET D : v \subseteq S /\ N[S] = S => q \in S}

Grows(D, N) ==
  /\ N \in [SUBSET D -> SUBSET D]
  /\ \A v \in SUBSET D : v \subseteq N[v]
  /\ \A v, w \in SUBSET D : v \subseteq w => N[v] \subseteq N[w]

LEMMA WalkIsDefined ==
  ASSUME NEW D, NEW N, Grows(D, N)
  PROVE  \A v \in SUBSET D :
           Closure(D, N, v) = IF N[v] = v THEN v ELSE Closure(D, N, N[v])
<1>1. ASSUME NEW v \in SUBSET D, N[v] = v
      PROVE  Closure(D, N, v) = v
  BY <1>1 DEF Closure
<1>2. ASSUME NEW v \in SUBSET D
      PROVE  Closure(D, N, N[v]) = Closure(D, N, v)
  <2>1. N[v] \in SUBSET D
    BY DEF Grows
  <2>2. ASSUME NEW S \in SUBSET D, N[S] = S
        PROVE  v \subseteq S <=> N[v] \subseteq S
    BY <2>1, <2>2 DEF Grows
  <2>. QED
    BY <2>2 DEF Closure
<1>. QED
  BY <1>1, <1>2

LEMMA WalkIsClosure ==
  ASSUME NEW D, IsFiniteSet(D), NEW N, Grows(D, N), NEW f,
         \A v \in SUBSET D : f[v] = IF N[v] = v THEN v ELSE f[N[v]]
  PROVE  \A v \in SUBSET D : f[v] = Closure(D, N, v)
<1>. DEFINE T == {v \in SUBSET D : f[v] # Closure(D, N, v)}
<1>1. \A v \in SUBSET D :
        Closure(D, N, v) = IF N[v] = v THEN v ELSE Closure(D, N, N[v])
  BY WalkIsDefined
<1>2. SUFFICES ASSUME T # {}
               PROVE  FALSE
  OBVIOUS
<1>3. PICK v \in T : \A w \in T : v \subseteq w => w = v
  <2>1. T \subseteq SUBSET D
    OBVIOUS
  <2>. HIDE DEF T
  <2>. QED  BY <1>2, <2>1, MaximalSubset
<1>4. v \in SUBSET D /\ N[v] \in SUBSET D /\ v \subseteq N[v]
  BY DEF Grows
<1>5. f[v] = IF N[v] = v THEN v ELSE f[N[v]]
  BY <1>4
<1>6. N[v] # v => f[N[v]] = Closure(D, N, N[v])
  BY <1>3, <1>4
<1>. QED
  BY <1>1, <1>4, <1>5, <1>6

-----------------------------------------------------------------------------
(* The tasks before a milestone *)

LEMMA IdsOfWhole ==
  ASSUME NEW chart, IsWhole(chart)
  PROVE  IdsOf(chart) = DOMAIN chart.tasks
BY DEF IdsOf, IsWhole

\* Each round of collectTransitivePredecessorIds adds to what was visited.
Round(chart, id) ==
  [v \in SUBSET DOMAIN chart.tasks |->
     v \cup (CollectIncomingDependencies(chart, v) \ {id})]

LEMMA RoundGrows ==
  ASSUME NEW chart, IsWhole(chart), NEW id
  PROVE  Grows(DOMAIN chart.tasks, Round(chart, id))
BY DEF Grows, Round, CollectIncomingDependencies, IsWhole

LEMMA CollectIsClosure ==
  ASSUME NEW chart, IsWhole(chart), NEW id
  PROVE  CollectTransitivePredecessorIds(chart, id) =
           Closure(DOMAIN chart.tasks, Round(chart, id),
                   CollectIncomingDependencies(chart, {id}) \ {id})
<1>. DEFINE D == DOMAIN chart.tasks
            N == Round(chart, id)
            start == CollectIncomingDependencies(chart, {id}) \ {id}
            body(f, visited) ==
                LET known == visited \cap DOMAIN chart.tasks
                    next == visited \cup
                            (CollectIncomingDependencies(chart, known) \ {id})
                IN  IF next = visited THEN visited ELSE f[next]
            Visit[visited \in SUBSET IdsOf(chart)] == body(Visit, visited)
            g == [v \in SUBSET D |-> Closure(D, N, v)]
<1>1. CollectTransitivePredecessorIds(chart, id) = Visit[start]
  BY DEF CollectTransitivePredecessorIds
<1>2. start \in SUBSET D
  BY DEF CollectIncomingDependencies, IsWhole
<1>3. Grows(D, N) /\ IsFiniteSet(D) /\ IdsOf(chart) = D
  BY RoundGrows, IdsOfWhole DEF IsWhole
<1>4. \A v \in SUBSET D :
        /\ v \cap DOMAIN chart.tasks = v
        /\ N[v] = v \cup (CollectIncomingDependencies(chart, v) \ {id})
        /\ N[v] \in SUBSET D
  BY <1>3 DEF Round, Grows
<1>5. ASSUME NEW f, NEW v \in SUBSET D
      PROVE  body(f, v) = IF N[v] = v THEN v ELSE f[N[v]]
  <2>. HIDE DEF N
  <2>. QED  BY <1>4
<1>6. g = [visited \in SUBSET IdsOf(chart) |-> body(g, visited)]
  <2>1. \A v \in SUBSET D : g[v] = IF N[v] = v THEN v ELSE g[N[v]]
    <3>. HIDE DEF N, body, Visit
    <3>. QED  BY <1>3, <1>4, WalkIsDefined
  <2>2. \A v \in SUBSET D : g[v] = body(g, v)
    <3>. HIDE DEF g, N, body
    <3>. QED  BY <2>1, <1>5
  <2>3. g = [v \in SUBSET D |-> g[v]]
    OBVIOUS
  <2>. HIDE DEF g, N, body
  <2>. QED  BY <2>2, <2>3, <1>3
<1>7. Visit = [visited \in SUBSET IdsOf(chart) |-> body(Visit, visited)]
  <2>. HIDE DEF g, body
  <2>. QED  BY <1>6
<1>8. \A v \in SUBSET D : Visit[v] = IF N[v] = v THEN v ELSE Visit[N[v]]
  <2>. HIDE DEF Visit, N, body
  <2>. QED  BY <1>3, <1>5, <1>7
<1>9. Visit[start] = Closure(D, N, start)
  <2>. HIDE DEF Visit, N, start
  <2>. QED  BY <1>2, <1>3, <1>8, WalkIsClosure
<1>. QED
  BY <1>1, <1>9

\* The walk finds the tasks that come before the milestone, and no other.
LEMMA CollectIsBefore ==
  ASSUME NEW chart, IsWhole(chart), NEW id
  PROVE  CollectTransitivePredecessorIds(chart, id) = Before(chart, id)
<1>. DEFINE D == DOMAIN chart.tasks
            N == Round(chart, id)
            start == CollectIncomingDependencies(chart, {id}) \ {id}
            closed(ids) == \A link \in chart.links :
                             link[2] \in ids \cup {id} => link[1] \in ids
<1>1. /\ start \in SUBSET D
      /\ \A v \in SUBSET D : CollectIncomingDependencies(chart, v) \in SUBSET D
  BY DEF CollectIncomingDependencies, IsWhole
<1>2. \A v \in SUBSET D :
        N[v] = v \cup (CollectIncomingDependencies(chart, v) \ {id})
  BY DEF Round
<1>3. ASSUME NEW q \in Closure(D, N, start)
      PROVE  q \in Before(chart, id)
  <2>1. q \in D
    BY DEF Closure
  <2>2. q # id
    <3>1. D \ {id} \in SUBSET D /\ start \subseteq D \ {id}
      BY <1>1
    <3>2. N[D \ {id}] = D \ {id}
      BY <1>1, <1>2, <3>1
    <3>. QED
      BY <3>1, <3>2 DEF Closure
  <2>3. ASSUME NEW ids \in SUBSET D, closed(ids)
        PROVE  q \in ids
    <3>1. start \subseteq ids
      BY <2>3 DEF CollectIncomingDependencies
    <3>2. CollectIncomingDependencies(chart, ids) \subseteq ids
      BY <2>3 DEF CollectIncomingDependencies
    <3>3. N[ids] = ids
      BY <1>2, <3>2
    <3>. QED
      BY <3>1, <3>3 DEF Closure
  <2>. QED
    BY <2>1, <2>2, <2>3, IdsOfWhole DEF Before
<1>4. ASSUME NEW q \in Before(chart, id)
      PROVE  q \in Closure(D, N, start)
  <2>1. q \in D /\ q # id
    BY IdsOfWhole DEF Before
  <2>2. ASSUME NEW S \in SUBSET D, start \subseteq S, N[S] = S
        PROVE  q \in S
    <3>1. CollectIncomingDependencies(chart, S) \ {id} \subseteq S
      BY <1>2, <2>2
    <3>2. closed((S \cup {id}) \cap D)
      BY <2>2, <3>1 DEF CollectIncomingDependencies, IsWhole
    <3>3. q \in (S \cup {id}) \cap D
      BY <3>2, IdsOfWhole DEF Before
    <3>. QED
      BY <2>1, <3>3
  <2>. QED
    BY <2>1, <2>2 DEF Closure
<1>. QED
  BY <1>3, <1>4, CollectIsClosure

\* What comes before a task before p comes before p, or is p.
LEMMA BeforeIsTransitive ==
  ASSUME NEW chart, IsWhole(chart)
  PROVE  \A p, q \in DOMAIN chart.tasks :
           /\ Before(chart, p) \subseteq DOMAIN chart.tasks \ {p}
           /\ p \in Before(chart, q) =>
                Before(chart, p) \subseteq Before(chart, q) \cup {q}
<1>. DEFINE D == DOMAIN chart.tasks
<1>1. ASSUME NEW p \in D
      PROVE  Before(chart, p) \subseteq D \ {p}
  BY IdsOfWhole DEF Before
<1>2. ASSUME NEW p \in D, NEW q \in D, p \in Before(chart, q),
             NEW r \in Before(chart, p), r # q
      PROVE  r \in Before(chart, q)
  <2>1. ASSUME NEW ids \in SUBSET D,
               \A link \in chart.links :
                 link[2] \in ids \cup {q} => link[1] \in ids
        PROVE  r \in ids
    <3>1. p \in ids
      BY <2>1, <1>2, IdsOfWhole DEF Before
    <3>2. \A link \in chart.links : link[2] \in ids \cup {p} => link[1] \in ids
      BY <2>1, <3>1
    <3>. QED
      BY <3>2, IdsOfWhole DEF Before
  <2>. QED
    BY <1>1, <1>2, <2>1, IdsOfWhole DEF Before
<1>. QED
  BY <1>1, <1>2

-----------------------------------------------------------------------------
(* The resolution of statuses *)

\* M are the milestones among the tasks D, before[p] what comes before p, and
\* st[p] the status that is set.
IsOrder(D, M, before) ==
  /\ M \subseteq D
  /\ \A p \in D : before[p] \subseteq D \ {p}
  /\ \A p, q \in D : p \in before[q] => before[p] \subseteq before[q] \cup {q}

\* A task that is blocked comes before p; p is closed, when none of the tasks
\* of visiting comes before it.
IsBlocked(M, before, st, p) == \E q \in before[p] \ M : st[q] = Blocked
IsClosed(M, before, st, p, visiting) ==
  /\ \A q \in (before[p] \cup {p}) \cap M : before[q] # {}
  /\ \A q \in before[p] \ M : st[q] = Closed
  /\ before[p] \cap M \cap visiting = {}
  /\ \A q, r \in (before[p] \cup {p}) \cap M :
       ~(q \in before[r] /\ r \in before[q])

\* The status that the resolution computes while it resolves visiting.
Resolved(M, before, st, p, visiting) ==
  IF p \notin M THEN st[p]
  ELSE IF p \in visiting THEN InProgress
  ELSE IF IsBlocked(M, before, st, p) THEN Blocked
  ELSE IF IsClosed(M, before, st, p, visiting) THEN Closed
  ELSE InProgress

LEMMA StatusesDiffer ==
  /\ Blocked # Closed /\ Blocked # InProgress /\ Closed # InProgress
BY DEF Blocked, Closed, InProgress

LEMMA ResolvedIsInferred ==
  ASSUME NEW D, NEW M, NEW before, IsOrder(D, M, before), NEW st,
         NEW visiting \in SUBSET M, NEW p \in M \ visiting
  PROVE  Resolved(M, before, st, p, visiting) =
           InferMilestoneStatus(
             {Resolved(M, before, st, q, visiting \cup {p}) : q \in before[p]})
<1>. DEFINE B == before[p]
            R(q) == Resolved(M, before, st, q, visiting \cup {p})
            statuses == {R(q) : q \in B}
<1>0. /\ p \in D /\ p \in M /\ p \notin visiting /\ M \subseteq D
      /\ B \subseteq D /\ p \notin B
      /\ \A q \in B : before[q] \subseteq B \cup {p}
      /\ \A q \in D : before[q] \subseteq D /\ q \notin before[q]
  BY DEF IsOrder
<1>1. CASE IsBlocked(M, before, st, p)
  <2>1. PICK q \in B \ M : st[q] = Blocked
    BY <1>1 DEF IsBlocked
  <2>2. R(q) = Blocked
    BY <2>1 DEF Resolved
  <2>3. Blocked \in statuses
    BY <2>1, <2>2
  <2>4. InferMilestoneStatus(statuses) = Blocked
    BY <2>3 DEF InferMilestoneStatus
  <2>. QED
    BY <1>0, <1>1, <2>4 DEF Resolved
<1>2. CASE ~IsBlocked(M, before, st, p)
  <2>1. \A q \in B \cap M : ~IsBlocked(M, before, st, q)
    BY <1>0, <1>2 DEF IsBlocked
  <2>2. \A q \in B : R(q) # Blocked
    BY <2>1, <1>2, StatusesDiffer DEF Resolved, IsBlocked
  <2>3. Blocked \notin statuses
    BY <2>2
  <2>4. ASSUME IsClosed(M, before, st, p, visiting)
        PROVE  statuses = {Closed}
    <3>1. B # {}
      BY <2>4, <1>0 DEF IsClosed
    <3>2. ASSUME NEW q \in B \ M
          PROVE  R(q) = Closed
      BY <3>2, <2>4 DEF IsClosed, Resolved
    <3>3. ASSUME NEW q \in B \cap M
          PROVE  R(q) = Closed
      <4>1. q \notin visiting \cup {p}
        BY <3>3, <2>4, <1>0 DEF IsClosed
      <4>2. before[q] \subseteq B \cup {p}
        BY <1>0
      <4>3. p \notin before[q]
        BY <3>3, <2>4, <1>0 DEF IsClosed
      <4>4. IsClosed(M, before, st, q, visiting \cup {p})
        BY <2>4, <1>0, <4>2, <4>3 DEF IsClosed
      <4>. QED
        BY <3>3, <4>1, <4>4, <2>1 DEF Resolved
    <3>. QED
      BY <3>1, <3>2, <3>3
  <2>5. ASSUME statuses = {Closed}
        PROVE  IsClosed(M, before, st, p, visiting)
    <3>1. B # {} /\ \A q \in B : R(q) = Closed
      BY <2>5
    <3>2. \A q \in B \ M : st[q] = Closed
      BY <3>1 DEF Resolved
    <3>3. ASSUME NEW q \in B \cap M
          PROVE  /\ q \notin visiting
                 /\ IsClosed(M, before, st, q, visiting \cup {p})
      BY <3>1, <3>3, StatusesDiffer DEF Resolved
    <3>4. \A q \in (B \cup {p}) \cap M : before[q] # {}
      BY <3>1, <3>3 DEF IsClosed
    <3>5. ASSUME NEW q \in (B \cup {p}) \cap M, NEW r \in (B \cup {p}) \cap M,
                 q \in before[r], r \in before[q]
          PROVE  FALSE
      <4>1. q # r
        BY <1>0, <3>5
      <4>2. CASE q = p
        <5>1. r \in B \cap M /\ p \in before[r]
          BY <4>1, <4>2, <3>5
        <5>. QED
          BY <5>1, <3>3, <1>0 DEF IsClosed
      <4>3. CASE q # p
        <5>1. q \in B \cap M
          BY <4>3
        <5>2. r \in (before[q] \cup {q}) \cap M /\ q \in (before[q] \cup {q}) \cap M
          BY <3>5, <5>1
        <5>. QED
          BY <5>1, <5>2, <3>3, <3>5 DEF IsClosed
      <4>. QED
        BY <4>2, <4>3
    <3>. QED
      BY <3>2, <3>3, <3>4, <3>5 DEF IsClosed
  <2>. HIDE DEF statuses
  <2>6. Resolved(M, before, st, p, visiting) =
          IF IsClosed(M, before, st, p, visiting) THEN Closed ELSE InProgress
    BY <1>0, <1>2 DEF Resolved
  <2>7. InferMilestoneStatus(statuses) =
          IF IsClosed(M, before, st, p, visiting) THEN Closed ELSE InProgress
    BY <2>3, <2>4, <2>5 DEF InferMilestoneStatus
  <2>. QED
    BY <2>6, <2>7 DEF statuses
<1>. QED
  BY <1>1, <1>2

Order(chart) == [p \in DOMAIN chart.tasks |-> Before(chart, p)]
SetStatus(chart) ==
  [p \in DOMAIN chart.tasks |-> ParseTaskStatus(chart.tasks[p].status)]
ResolvedOf(chart, p, visiting) ==
  Resolved(Milestones(chart), Order(chart), SetStatus(chart), p, visiting)

LEMMA OrderOfWhole ==
  ASSUME NEW chart, IsWhole(chart)
  PROVE  /\ IsOrder(DOMAIN chart.tasks, Milestones(chart), Order(chart))
         /\ IsFiniteSet(Milestones(chart))
<1>1. IsOrder(DOMAIN chart.tasks, Milestones(chart), Order(chart))
  BY BeforeIsTransitive DEF IsOrder, Milestones, Order
<1>2. Milestones(chart) \subseteq DOMAIN chart.tasks
  BY DEF Milestones
<1>. QED
  BY <1>1, <1>2, FS_Subset DEF IsWhole

\* One step of createStatusResolver: a task is resolved, and what comes before
\* it by f, while it is one of those visited.
Step(chart, f, p, visiting) ==
  IF p \notin Milestones(chart) THEN SetStatus(chart)[p]
  ELSE IF p \in visiting THEN InProgress
  ELSE InferMilestoneStatus({f[visiting \cup {p}][q] : q \in Before(chart, p)})

LEMMA ResolvedIsStep ==
  ASSUME NEW chart, IsWhole(chart), NEW p \in DOMAIN chart.tasks,
         NEW visiting \in SUBSET Milestones(chart), NEW f,
         p \in Milestones(chart) \ visiting =>
           \A q \in Before(chart, p) :
             f[visiting \cup {p}][q] = ResolvedOf(chart, q, visiting \cup {p})
  PROVE  Step(chart, f, p, visiting) = ResolvedOf(chart, p, visiting)
<1>1. CASE p \notin Milestones(chart) \/ p \in visiting
  BY <1>1 DEF ResolvedOf, Resolved, Step
<1>2. CASE p \in Milestones(chart) \ visiting
  <2>1. Order(chart)[p] = Before(chart, p)
    BY DEF Order
  <2>2. ResolvedOf(chart, p, visiting) =
          InferMilestoneStatus(
            {ResolvedOf(chart, q, visiting \cup {p}) : q \in Order(chart)[p]})
    <3>1. IsOrder(DOMAIN chart.tasks, Milestones(chart), Order(chart))
      BY OrderOfWhole
    <3>. QED
      BY <1>2, <3>1, ResolvedIsInferred DEF ResolvedOf
  <2>3. {f[visiting \cup {p}][q] : q \in Before(chart, p)} =
          {ResolvedOf(chart, q, visiting \cup {p}) : q \in Before(chart, p)}
    BY <1>2
  <2>. QED
    BY <1>2, <2>1, <2>2, <2>3 DEF Step
<1>. QED
  BY <1>1, <1>2

LEMMA ResolverSteps ==
  ASSUME NEW chart, IsWhole(chart)
  PROVE  \A visiting \in SUBSET Milestones(chart), p \in DOMAIN chart.tasks :
           CreateStatusResolver(chart)[visiting][p] =
             Step(chart, CreateStatusResolver(chart), p, visiting)
<1>. DEFINE D == DOMAIN chart.tasks
            M == Milestones(chart)
            body(f, visiting) ==
              [p \in IdsOf(chart) |->
                IF p \notin DOMAIN chart.tasks THEN InProgress
                ELSE IF p \notin Milestones(chart)
                THEN ParseTaskStatus(chart.tasks[p].status)
                ELSE IF p \in visiting THEN InProgress
                ELSE InferMilestoneStatus(
                        {f[visiting \cup {p}][q] :
                            q \in CollectTransitivePredecessorIds(chart, p)})]
            Resolve[visiting \in SUBSET Milestones(chart)] == body(Resolve, visiting)
            g == [visiting \in SUBSET M |-> [p \in D |-> ResolvedOf(chart, p, visiting)]]
<1>1. CreateStatusResolver(chart) = Resolve
  BY DEF CreateStatusResolver
<1>2. IdsOf(chart) = D /\ M \subseteq D
  BY IdsOfWhole DEF Milestones
<1>3. ASSUME NEW f, NEW visiting \in SUBSET M
      PROVE  body(f, visiting) = [p \in D |-> Step(chart, f, p, visiting)]
  <2>1. \A p \in D : CollectTransitivePredecessorIds(chart, p) = Before(chart, p)
    BY CollectIsBefore
  <2>2. \A p \in D : SetStatus(chart)[p] = ParseTaskStatus(chart.tasks[p].status)
    BY DEF SetStatus
  <2>. QED
    BY <1>2, <2>1, <2>2 DEF Step
<1>4. ASSUME NEW visiting \in SUBSET M, NEW p \in D
      PROVE  Step(chart, g, p, visiting) = ResolvedOf(chart, p, visiting)
  <2>1. Before(chart, p) \subseteq D
    BY BeforeIsTransitive
  <2>2. p \in M \ visiting =>
          \A q \in Before(chart, p) :
            g[visiting \cup {p}][q] = ResolvedOf(chart, q, visiting \cup {p})
    BY <2>1
  <2>. HIDE DEF g
  <2>. QED
    BY <2>2, ResolvedIsStep
<1>. HIDE DEF body
<1>5. g = [visiting \in SUBSET Milestones(chart) |-> body(g, visiting)]
  <2>1. ASSUME NEW visiting \in SUBSET M
        PROVE  body(g, visiting) = [p \in D |-> ResolvedOf(chart, p, visiting)]
    <3>1. body(g, visiting) = [p \in D |-> Step(chart, g, p, visiting)]
      BY <1>3
    <3>. HIDE DEF g
    <3>. QED  BY <3>1, <1>4
  <2>2. g = [visiting \in SUBSET M |-> g[visiting]]
    OBVIOUS
  <2>3. \A visiting \in SUBSET M : g[visiting] = body(g, visiting)
    BY <2>1
  <2>. HIDE DEF g
  <2>. QED  BY <2>2, <2>3
<1>6. Resolve = [visiting \in SUBSET Milestones(chart) |-> body(Resolve, visiting)]
  <2>. HIDE DEF g
  <2>. QED  BY <1>5
<1>7. ASSUME NEW visiting \in SUBSET M, NEW p \in D
      PROVE  Resolve[visiting][p] = Step(chart, Resolve, p, visiting)
  <2>1. Resolve[visiting] = body(Resolve, visiting)
    <3>. HIDE DEF Resolve
    <3>. QED  BY <1>6
  <2>2. body(Resolve, visiting) = [q \in D |-> Step(chart, Resolve, q, visiting)]
    <3>. HIDE DEF Resolve
    <3>. QED  BY <1>3
  <2>. HIDE DEF Resolve
  <2>. QED  BY <2>1, <2>2
<1>. QED
  <2>. HIDE DEF Resolve
  <2>. QED  BY <1>1, <1>7

LEMMA ResolverResolves ==
  ASSUME NEW chart, IsWhole(chart)
  PROVE  \A visiting \in SUBSET Milestones(chart), p \in DOMAIN chart.tasks :
           CreateStatusResolver(chart)[visiting][p] = ResolvedOf(chart, p, visiting)
<1>. DEFINE D == DOMAIN chart.tasks
            M == Milestones(chart)
            f == CreateStatusResolver(chart)
            T == {visiting \in SUBSET M :
                    \E p \in D : f[visiting][p] # ResolvedOf(chart, p, visiting)}
<1>1. SUFFICES ASSUME T # {}
               PROVE  FALSE
  OBVIOUS
<1>2. PICK visiting \in T : \A w \in T : visiting \subseteq w => w = visiting
  <2>1. T \subseteq SUBSET M /\ IsFiniteSet(M)
    BY OrderOfWhole
  <2>. HIDE DEF T, M
  <2>. QED  BY <1>1, <2>1, MaximalSubset
<1>3. visiting \in SUBSET M
  OBVIOUS
<1>4. PICK p \in D : f[visiting][p] # ResolvedOf(chart, p, visiting)
  OBVIOUS
<1>5. f[visiting][p] = Step(chart, f, p, visiting)
  BY <1>3, ResolverSteps
<1>6. p \in M \ visiting =>
        \A q \in Before(chart, p) :
          f[visiting \cup {p}][q] = ResolvedOf(chart, q, visiting \cup {p})
  <2>1. Before(chart, p) \subseteq D
    BY BeforeIsTransitive
  <2>. QED
    BY <2>1, <1>2, <1>3
<1>. HIDE DEF f
<1>. QED
  BY <1>3, <1>4, <1>5, <1>6, ResolvedIsStep

-----------------------------------------------------------------------------
(* What the inference computes *)

\* The recursive resolution of a milestone's status, along whatever circles the
\* links make, is the rule of the document on milestones: blocked if a task
\* before it is, closed if all those before it are, and in progress otherwise.
THEOREM ResolvesAsDocumented ==
  ASSUME NEW chart, IsWhole(chart), NEW m \in Milestones(chart)
  PROVE  ResolveTaskStatus(chart, m) = DocumentedStatus(chart, m)
<1>. DEFINE D == DOMAIN chart.tasks
            M == Milestones(chart)
            st == SetStatus(chart)
            before == Order(chart)
<1>1. m \in D /\ M \subseteq D /\ {} \in SUBSET M
  BY DEF Milestones
<1>2. ResolveTaskStatus(chart, m) = ResolvedOf(chart, m, {})
  BY <1>1, ResolverResolves DEF ResolveTaskStatus
<1>3. \A p \in D : /\ st[p] = ParseTaskStatus(chart.tasks[p].status)
                   /\ before[p] = Before(chart, p)
                   /\ Before(chart, p) \subseteq D
  BY BeforeIsTransitive DEF SetStatus, Order
<1>4. IsBlocked(M, before, st, m) <=>
        \E p \in {q \in D \ M : q \in Before(chart, m)} : st[p] = Blocked
  BY <1>1, <1>3 DEF IsBlocked
<1>5. (before[m] \cup {m}) \cap M = {p \in M : p \in Before(chart, m) \cup {m}}
  BY <1>1, <1>3
<1>6. before[m] \ M = {q \in D \ M : q \in Before(chart, m)}
  BY <1>1, <1>3
<1>. HIDE DEF M, st, before
<1>7. IsClosed(M, before, st, m, {}) <=>
        /\ \A p \in {q \in M : q \in Before(chart, m) \cup {m}} :
             /\ Before(chart, p) # {}
             /\ Before(chart, p) \subseteq D
        /\ \A p \in {q \in D \ M : q \in Before(chart, m)} : st[p] = Closed
        /\ ~\E p, q \in {r \in M : r \in Before(chart, m) \cup {m}} :
             p \in Before(chart, q) /\ q \in Before(chart, p)
  BY <1>1, <1>3, <1>5, <1>6 DEF IsClosed
<1>8. ResolvedOf(chart, m, {}) =
        IF IsBlocked(M, before, st, m) THEN Blocked
        ELSE IF IsClosed(M, before, st, m, {}) THEN Closed ELSE InProgress
  BY DEF ResolvedOf, Resolved, M, st, before
<1>9. \A p \in D : st[p] = ParseTaskStatus(chart.tasks[p].status)
  BY <1>3
<1>. QED
  BY <1>1, <1>2, <1>4, <1>7, <1>8, <1>9 DEF DocumentedStatus, M

\* Remembering what was resolved, as createStatusResolver does, changes no
\* result: a milestone that is reached while others are being resolved gets
\* the status it would get by itself.
THEOREM RememberedStatusesAreRight ==
  ASSUME NEW chart, IsWhole(chart), NEW visiting \in SUBSET Milestones(chart),
         NEW id \in Milestones(chart) \ visiting,
         \A v \in visiting : id \in Before(chart, v)
  PROVE  CreateStatusResolver(chart)[visiting][id] = ResolveTaskStatus(chart, id)
<1>. DEFINE M == Milestones(chart)
            before == Order(chart)
            st == SetStatus(chart)
<1>1. /\ id \in DOMAIN chart.tasks /\ M \subseteq DOMAIN chart.tasks
      /\ {} \in SUBSET M
  BY DEF Milestones
<1>2. /\ CreateStatusResolver(chart)[visiting][id] = ResolvedOf(chart, id, visiting)
      /\ ResolveTaskStatus(chart, id) = ResolvedOf(chart, id, {})
  BY <1>1, ResolverResolves DEF ResolveTaskStatus
<1>3. \A v \in visiting : id \in before[v]
  BY <1>1 DEF Order
<1>. HIDE DEF before, st
<1>4. IsClosed(M, before, st, id, visiting) <=> IsClosed(M, before, st, id, {})
  BY <1>3 DEF IsClosed
<1>. QED
  BY <1>2, <1>4 DEF ResolvedOf, Resolved, before, st

LEMMA ChartsAreWhole ==
  ASSUME NEW chart, NEW owners, NEW ids, IsFiniteSet(ids), IsChart(chart, owners, ids)
  PROVE  IsWhole(chart)
BY FS_Subset DEF IsChart, IsWhole

\* Charts that differ in the statuses of milestones only.
LEMMA StatusesOfMilestonesDoNotMatter ==
  ASSUME NEW chart, NEW other,
         other.links = chart.links,
         DOMAIN other.tasks = DOMAIN chart.tasks,
         \A p \in DOMAIN chart.tasks :
           /\ other.tasks[p].type = chart.tasks[p].type
           /\ p \notin Milestones(chart) =>
                other.tasks[p].status = chart.tasks[p].status
  PROVE  /\ Milestones(other) = Milestones(chart)
         /\ \A m : DocumentedStatus(other, m) = DocumentedStatus(chart, m)
<1>1. Milestones(other) = Milestones(chart)
  BY DEF Milestones
<1>2. IdsOf(other) = IdsOf(chart)
  BY DEF IdsOf
<1>3. \A p : Before(other, p) = Before(chart, p)
  BY <1>2 DEF Before
<1>4. ASSUME NEW m
      PROVE  DocumentedStatus(other, m) = DocumentedStatus(chart, m)
  <2>. DEFINE D == DOMAIN chart.tasks
              M == Milestones(chart)
              Plain == {p \in D \ M : p \in Before(chart, m)}
  <2>1. \A p \in Plain : ParseTaskStatus(other.tasks[p].status) =
                           ParseTaskStatus(chart.tasks[p].status)
    OBVIOUS
  <2>. QED
    BY <1>1, <1>3, <2>1 DEF DocumentedStatus
<1>. QED
  BY <1>1, <1>4

\* What the editor writes after every change: the chart is the same but for the
\* statuses of its milestones, which follow the tasks they depend on.
THEOREM InferredMilestonesFollow ==
  ASSUME NEW chart, NEW owners, NEW ids, IsFiniteSet(ids), IsChart(chart, owners, ids)
  PROVE  /\ MilestonesFollow(InferMilestones(chart))
         /\ IsChart(InferMilestones(chart), owners, ids)
<1>. DEFINE D == DOMAIN chart.tasks
            M == Milestones(chart)
            other == InferMilestones(chart)
<1>1. IsWhole(chart)
  BY ChartsAreWhole
<1>2. chart = [of |-> chart.of, tasks |-> chart.tasks, links |-> chart.links]
  BY DEF IsChart, ChartOf
<1>3. other = [of |-> chart.of,
               tasks |-> [id \in D |->
                            IF id \in M
                            THEN [chart.tasks[id] EXCEPT
                                    !.status = ResolveTaskStatus(chart, id)]
                            ELSE chart.tasks[id]],
               links |-> chart.links]
  BY <1>2 DEF InferMilestones
<1>4. \A p \in M : ResolveTaskStatus(chart, p) = DocumentedStatus(chart, p)
  BY <1>1, ResolvesAsDocumented
<1>5. \A p : DocumentedStatus(chart, p) \in Statuses
  BY DEF DocumentedStatus, Statuses
<1>6. \A p \in D : chart.tasks[p] \in [type : Types, status : Statuses \cup {Unset}]
  BY DEF IsChart
<1>7. \A p \in D : /\ other.tasks[p] = IF p \in M
                        THEN [chart.tasks[p] EXCEPT !.status = DocumentedStatus(chart, p)]
                        ELSE chart.tasks[p]
                   /\ other.tasks[p] \in [type : Types, status : Statuses \cup {Unset}]
                   /\ other.tasks[p].type = chart.tasks[p].type
                   /\ p \in M => other.tasks[p].status = DocumentedStatus(chart, p)
                   /\ p \notin M => other.tasks[p].status = chart.tasks[p].status
  <2>. HIDE DEF M, other
  <2>. SUFFICES ASSUME NEW p \in D
                PROVE  /\ other.tasks[p] = IF p \in M
                            THEN [chart.tasks[p] EXCEPT !.status = DocumentedStatus(chart, p)]
                            ELSE chart.tasks[p]
                       /\ other.tasks[p] \in [type : Types, status : Statuses \cup {Unset}]
                       /\ other.tasks[p].type = chart.tasks[p].type
                       /\ p \in M => other.tasks[p].status = DocumentedStatus(chart, p)
                       /\ p \notin M => other.tasks[p].status = chart.tasks[p].status
    OBVIOUS
  <2>1. other.tasks[p] = IF p \in M
          THEN [chart.tasks[p] EXCEPT !.status = DocumentedStatus(chart, p)]
          ELSE chart.tasks[p]
    BY <1>3, <1>4
  <2>. QED
    BY <2>1, <1>5, <1>6
<1>8. DOMAIN other.tasks = D /\ other.links = chart.links
  BY <1>3
<1>. HIDE DEF other
<1>9. /\ Milestones(other) = M
      /\ \A p : DocumentedStatus(other, p) = DocumentedStatus(chart, p)
  <2>1. \A p \in DOMAIN chart.tasks :
          /\ other.tasks[p].type = chart.tasks[p].type
          /\ p \notin Milestones(chart) =>
               other.tasks[p].status = chart.tasks[p].status
    BY <1>7
  <2>. HIDE DEF D, M
  <2>2. Milestones(other) = Milestones(chart)
    BY <1>8, <2>1, StatusesOfMilestonesDoNotMatter DEF D
  <2>3. \A p : DocumentedStatus(other, p) = DocumentedStatus(chart, p)
    BY <1>8, <2>1, StatusesOfMilestonesDoNotMatter DEF D
  <2>. QED
    BY <2>2, <2>3 DEF M
<1>10. MilestonesFollow(other)
  <2>1. M \subseteq D
    BY DEF Milestones
  <2>. QED
    BY <1>7, <1>9, <2>1 DEF MilestonesFollow
<1>11. other = ChartOf(other.of, other.tasks, other.links) /\ other.of = chart.of
  BY <1>3 DEF ChartOf
<1>12. other.tasks = [id \in DOMAIN other.tasks |-> other.tasks[id]]
  BY <1>3
<1>13. IsChart(other, owners, ids)
  BY <1>7, <1>8, <1>11, <1>12 DEF IsChart
<1>. QED
  BY <1>10, <1>13 DEF other
-----------------------------------------------------------------------------
Fits(chart) == IsChart(chart, Scopes \cup {None}, TaskIds)

\* The pair of the cache and the keys with an error.
IsStore(stored) ==
  /\ stored = <<stored[1], stored[2]>>
  /\ HoldsCharts(stored[1], Scopes)
  /\ stored[2] \subseteq Scopes

CallsFit(pending) ==
  /\ pending = [id \in Calls |-> pending[id]]
  /\ \A id \in Calls : pending[id] = None \/ IsCall(pending[id])

-----------------------------------------------------------------------------
(* Charts *)

LEMMA HeldIsChart ==
  ASSUME NEW chart, IsHeld(chart), chart # None
  PROVE  Fits(chart)
BY DEF IsHeld, Fits

LEMMA FitsIsHeld ==
  ASSUME NEW chart, Fits(chart)
  PROVE  IsHeld(chart)
BY DEF IsHeld, Fits

\* A chart from parts.
LEMMA FromParts ==
  ASSUME NEW of \in Scopes \cup {None}, NEW D \in SUBSET TaskIds,
         NEW tasks \in [D -> [type : Types, status : Statuses \cup {Unset}]],
         NEW links \in SUBSET (D \X D)
  PROVE  Fits([of |-> of, tasks |-> tasks, links |-> links])
BY DEF Fits, IsChart, ChartOf

LEMMA Parts ==
  ASSUME NEW chart, Fits(chart)
  PROVE  /\ chart = [of |-> chart.of, tasks |-> chart.tasks, links |-> chart.links]
         /\ chart.of \in Scopes \cup {None}
         /\ DOMAIN chart.tasks \in SUBSET TaskIds
         /\ chart.tasks \in [DOMAIN chart.tasks ->
                               [type : Types, status : Statuses \cup {Unset}]]
         /\ chart.links \in SUBSET ((DOMAIN chart.tasks) \X (DOMAIN chart.tasks))
BY DEF Fits, IsChart, ChartOf

LEMMA AttributesAreValid ==
  ASSUME NEW task \in [type : Types, status : Statuses \cup {Unset}]
  PROVE  EnsureTaskObjectAttrs(task) \in [type : Types, status : Statuses \cup {Unset}]
<1>1. ParseTaskStatus(task.status) \in Statuses
  BY DEF ParseTaskStatus, Statuses
<1>. QED
  BY <1>1 DEF EnsureTaskObjectAttrs

LEMMA NormalizedFits ==
  ASSUME NEW chart, Fits(chart)
  PROVE  Fits(NormalizeTasks(chart))
<1>. DEFINE D == DOMAIN chart.tasks
            T == [type : Types, status : Statuses \cup {Unset}]
            tasks == [id \in D |-> EnsureTaskObjectAttrs(chart.tasks[id])]
<1>0. chart = [of |-> chart.of, tasks |-> chart.tasks, links |-> chart.links]
  BY Parts
<1>1. NormalizeTasks(chart) = [of |-> chart.of, tasks |-> tasks, links |-> chart.links]
  BY <1>0 DEF NormalizeTasks
<1>2. tasks \in [D -> T]
  <2>1. \A id \in D : EnsureTaskObjectAttrs(chart.tasks[id]) \in T
    BY Parts, AttributesAreValid
  <2>. QED
    BY <2>1
<1>. HIDE DEF tasks
<1>7. Fits([of |-> chart.of, tasks |-> tasks, links |-> chart.links])
  BY <1>2, Parts, FromParts
<1>. QED
  BY <1>1, <1>7

LEMMA DefaultFits == Fits(DefaultChart)
<1>. DEFINE task == [type |-> "task", status |-> Unset]
            tasks == [id \in {DefaultTask} |-> task]
<1>1. DefaultChart = [of |-> None, tasks |-> tasks, links |-> {}]
  BY DEF DefaultChart, ChartOf
<1>2. tasks \in [{DefaultTask} -> [type : Types, status : Statuses \cup {Unset}]]
  BY DEF Types
<1>. HIDE DEF tasks
<1>. QED
  BY <1>1, <1>2, DefaultIsValid, FromParts

LEMMA ParsedFits ==
  ASSUME NEW chart, Fits(chart)
  PROVE  Fits(Parsed(chart)) /\ MilestonesFollow(Parsed(chart))
BY TaskIdsAreFinite, InferredMilestonesFollow DEF Fits, Parsed

\* The status of a task is set.
LEMMA RestatusedFits ==
  ASSUME NEW chart, Fits(chart), NEW id \in DOMAIN chart.tasks,
         NEW status \in Statuses
  PROVE  Fits([chart EXCEPT !.tasks[id].status = status])
<1>. DEFINE D == DOMAIN chart.tasks
            T == [type : Types, status : Statuses \cup {Unset}]
            tasks == [chart.tasks EXCEPT ![id].status = status]
<1>0. chart = [of |-> chart.of, tasks |-> chart.tasks, links |-> chart.links]
  BY Parts
<1>1. [chart EXCEPT !.tasks[id].status = status] =
        [of |-> chart.of, tasks |-> tasks, links |-> chart.links]
  BY <1>0
<1>2. tasks \in [D -> T]
  <2>1. chart.tasks \in [D -> T]
    BY Parts
  <2>2. [chart.tasks[id] EXCEPT !.status = status] \in T
    BY <2>1
  <2>. QED
    BY <2>1, <2>2
<1>. HIDE DEF tasks
<1>7. Fits([of |-> chart.of, tasks |-> tasks, links |-> chart.links])
  BY <1>2, Parts, FromParts
<1>. QED
  BY <1>1, <1>7

LEMMA UpdatedFits ==
  ASSUME NEW chart, Fits(chart), NEW id, NEW status \in Statuses
  PROVE  Fits(UpdateTaskStatusInChart(chart, id, status))
BY RestatusedFits, ParsedFits DEF UpdateTaskStatusInChart, Parsed

LEMMA AddedFits ==
  ASSUME NEW chart, Fits(chart), NEW id \in TaskIds, NEW type \in Types
  PROVE  Fits([chart EXCEPT !.tasks =
                [task \in DOMAIN @ \cup {id} |->
                   IF task = id THEN CreateNewTask(type) ELSE @[task]]])
<1>. DEFINE D == DOMAIN chart.tasks
            T == [type : Types, status : Statuses \cup {Unset}]
            tasks == [task \in D \cup {id} |->
                        IF task = id THEN CreateNewTask(type) ELSE chart.tasks[task]]
<1>0. chart = [of |-> chart.of, tasks |-> chart.tasks, links |-> chart.links]
  BY Parts
<1>1. [chart EXCEPT !.tasks =
                [task \in DOMAIN @ \cup {id} |->
                   IF task = id THEN CreateNewTask(type) ELSE @[task]]] =
        [of |-> chart.of, tasks |-> tasks, links |-> chart.links]
  BY <1>0
<1>2. tasks \in [D \cup {id} -> T]
  <2>1. chart.tasks \in [D -> T]
    BY Parts
  <2>2. CreateNewTask(type) \in T
    BY AttributesAreValid DEF CreateNewTask
  <2>. QED
    BY <2>1, <2>2
<1>3. chart.links \in SUBSET ((D \cup {id}) \X (D \cup {id}))
  BY Parts
<1>4. D \cup {id} \in SUBSET TaskIds
  BY Parts
<1>. HIDE DEF tasks
<1>7. Fits([of |-> chart.of, tasks |-> tasks, links |-> chart.links])
  BY <1>2, <1>3, <1>4, Parts, FromParts
<1>. QED
  BY <1>1, <1>7

LEMMA RetypedFits ==
  ASSUME NEW chart, Fits(chart), NEW id \in DOMAIN chart.tasks, NEW type \in Types
  PROVE  Fits([chart EXCEPT !.tasks[id] =
                 EnsureTaskObjectAttrs([@ EXCEPT !.type = type])])
<1>. DEFINE D == DOMAIN chart.tasks
            T == [type : Types, status : Statuses \cup {Unset}]
            task == EnsureTaskObjectAttrs([chart.tasks[id] EXCEPT !.type = type])
            tasks == [chart.tasks EXCEPT ![id] = task]
<1>0. chart = [of |-> chart.of, tasks |-> chart.tasks, links |-> chart.links]
  BY Parts
<1>1. [chart EXCEPT !.tasks[id] =
         EnsureTaskObjectAttrs([@ EXCEPT !.type = type])] =
        [of |-> chart.of, tasks |-> tasks, links |-> chart.links]
  BY <1>0
<1>2. tasks \in [D -> T]
  <2>1. chart.tasks \in [D -> T]
    BY Parts
  <2>2. task \in T
    BY <2>1, AttributesAreValid
  <2>. HIDE DEF task
  <2>. QED
    BY <2>1, <2>2
<1>. HIDE DEF tasks
<1>7. Fits([of |-> chart.of, tasks |-> tasks, links |-> chart.links])
  BY <1>2, Parts, FromParts
<1>. QED
  BY <1>1, <1>7

LEMMA RelinkedFits ==
  ASSUME NEW chart, Fits(chart),
         NEW links \in SUBSET ((DOMAIN chart.tasks) \X (DOMAIN chart.tasks))
  PROVE  Fits([chart EXCEPT !.links = links])
<1>0. chart = [of |-> chart.of, tasks |-> chart.tasks, links |-> chart.links]
  BY Parts
<1>1. [chart EXCEPT !.links = links] =
        [of |-> chart.of, tasks |-> chart.tasks, links |-> links]
  BY <1>0
<1>. QED
  BY <1>1, Parts, FromParts

LEMMA PrunedFits ==
  ASSUME NEW chart, Fits(chart), NEW left \in SUBSET DOMAIN chart.tasks
  PROVE  Fits([chart EXCEPT !.tasks = [t \in left |-> @[t]],
                            !.links = @ \cap (left \X left)])
<1>. DEFINE T == [type : Types, status : Statuses \cup {Unset}]
            tasks == [t \in left |-> chart.tasks[t]]
            links == chart.links \cap (left \X left)
<1>0. chart = [of |-> chart.of, tasks |-> chart.tasks, links |-> chart.links]
  BY Parts
<1>1. [chart EXCEPT !.tasks = [t \in left |-> @[t]],
                    !.links = @ \cap (left \X left)] =
        [of |-> chart.of, tasks |-> tasks, links |-> links]
  <2>1. ASSUME NEW x, NEW y
        PROVE  [chart EXCEPT !.tasks = x, !.links = y] =
                 [of |-> chart.of, tasks |-> x, links |-> y]
    <3>. DEFINE other == [chart EXCEPT !.tasks = x, !.links = y]
    <3>1. other \in [of : {chart.of}, tasks : {x}, links : {y}]
      BY <1>0
    <3>. HIDE DEF other
    <3>2. other = [of |-> chart.of, tasks |-> x, links |-> y]
      BY <3>1
    <3>. QED
      BY <3>2 DEF other
  <2>. QED
    BY <2>1
<1>2. tasks \in [left -> T] /\ links \in SUBSET (left \X left)
  BY Parts
<1>3. left \in SUBSET TaskIds
  BY Parts
<1>. HIDE DEF tasks, links
<1>7. Fits([of |-> chart.of, tasks |-> tasks, links |-> links])
  BY <1>2, <1>3, Parts, FromParts
<1>. QED
  BY <1>1, <1>7

\* The chart a task was made in does not matter to its milestones.
LEMMA OwnedFits ==
  ASSUME NEW chart, Fits(chart), NEW of \in Scopes \cup {None}
  PROVE  /\ Fits([chart EXCEPT !.of = of])
         /\ MilestonesFollow(chart) => MilestonesFollow([chart EXCEPT !.of = of])
<1>. DEFINE other == [chart EXCEPT !.of = of]
<1>0. chart = [of |-> chart.of, tasks |-> chart.tasks, links |-> chart.links]
  BY Parts
<1>1. other = [of |-> of, tasks |-> chart.tasks, links |-> chart.links]
  BY <1>0
<1>2. other.links = chart.links /\ other.tasks = chart.tasks
  BY <1>1
<1>3. Fits(other)
  BY <1>1, Parts, FromParts
<1>. HIDE DEF other
<1>4. Milestones(other) = Milestones(chart)
  BY <1>2, StatusesOfMilestonesDoNotMatter
<1>5. \A m : DocumentedStatus(other, m) = DocumentedStatus(chart, m)
  BY <1>2, StatusesOfMilestonesDoNotMatter
<1>. QED
  BY <1>2, <1>3, <1>4, <1>5 DEF MilestonesFollow, other

-----------------------------------------------------------------------------
(* The cache *)

LEMMA TrySetFits ==
  ASSUME NEW stored, IsStore(stored), NEW s \in Scopes, NEW chart, Fits(chart)
  PROVE  /\ IsStore(TrySet(stored, s, chart))
         /\ \/ TrySet(stored, s, chart)[1][s] = chart
            \/ s \in TrySet(stored, s, chart)[2]
<1>1. [stored[1] EXCEPT ![s] = chart] =
        [key \in Scopes |-> IF key = s THEN chart ELSE stored[1][key]]
  BY DEF IsStore, HoldsCharts
<1>2. HoldsCharts([stored[1] EXCEPT ![s] = chart], Scopes)
  BY <1>1, FitsIsHeld DEF HoldsCharts, IsStore
<1>3. [stored[1] EXCEPT ![s] = chart][s] = chart
  BY <1>1
<1>. QED
  BY <1>2, <1>3 DEF TrySet, IsStore

LEMMA ClearFits ==
  ASSUME NEW stored, IsStore(stored), NEW s \in Scopes
  PROVE  IsStore(Clear(stored, s))
<1>1. [stored[1] EXCEPT ![s] = None] =
        [key \in Scopes |-> IF key = s THEN None ELSE stored[1][key]]
  BY DEF IsStore, HoldsCharts
<1>2. HoldsCharts([stored[1] EXCEPT ![s] = None], Scopes)
  BY <1>1 DEF HoldsCharts, IsStore, IsHeld
<1>. QED
  BY <1>2 DEF Clear, IsStore

LEMMA CachedFits ==
  ASSUME TypeOK
  PROVE  IsStore(Cached) /\ CallsFit(calls)
BY DEF TypeOK, Cached, IsStore, CallsFit

LEMMA LoadedFits ==
  ASSUME TypeOK, NEW STATE call, IsCall(call), call.kind = "load"
  PROVE  IsStore(Loaded(call))
<1>1. CASE call.failed \/ call.chart = None
  BY <1>1, CachedFits, ClearFits DEF Loaded, IsCall
<1>2. CASE ~call.failed /\ call.chart # None
  <2>1. Fits(call.chart) /\ call.scope \in Scopes
    BY <1>2, HeldIsChart DEF IsCall
  <2>2. Fits(NormalizeTasks(call.chart))
    BY <2>1, NormalizedFits
  <2>. QED
    BY <1>2, <2>1, <2>2, CachedFits, TrySetFits DEF Loaded
<1>. QED
  BY <1>1, <1>2

-----------------------------------------------------------------------------
(* The editor *)

\* What is left of the editor, the hook and the cache by a step that ends in
\* a page p for the chart s.
Follows(p, s) ==
  /\ IsHook(hook') /\ IsHeld(editor')
  /\ HoldsCharts(cache', Scopes) /\ invalid' \subseteq Scopes
  /\ editor' # None =>
       /\ p = "gantt"
       /\ hook'.dirty <=> editor' # hook'.baseline
       /\ MilestonesFollow(editor')
       /\ cache'[s] = editor' \/ s \in invalid'

LEMMA StoreFits ==
  ASSUME NEW STATE stored, IsStore(stored), Store(stored)
  PROVE  /\ HoldsCharts(cache', Scopes) /\ invalid' \subseteq Scopes
         /\ cache' = stored[1] /\ invalid' = stored[2]
BY DEF IsStore, Store

LEMMA ShowFollows ==
  ASSUME NEW STATE p, NEW STATE s, s \in Scopes, NEW STATE h, IsHook(h),
         NEW STATE stored, IsStore(stored), Show(p, s, h, stored)
  PROVE  Follows(p, s)
<1>1. CASE p = "gantt" /\ Rendered(h)
  <2>. DEFINE chart == Parsed(h.source)
  <2>1. Fits(chart) /\ MilestonesFollow(chart)
    BY <1>1, HeldIsChart, ParsedFits DEF Rendered, IsHook
  <2>2. editor' = chart /\ hook' = Baselined(h, chart) /\ Store(TrySet(stored, s, chart))
    BY <1>1 DEF Show
  <2>. HIDE DEF chart
  <2>3. IsHook(Baselined(h, chart)) /\ Baselined(h, chart).baseline = chart
        /\ Baselined(h, chart).dirty = FALSE
    BY <2>1, FitsIsHeld DEF IsHook, Baselined
  <2>4. /\ IsStore(TrySet(stored, s, chart))
        /\ \/ TrySet(stored, s, chart)[1][s] = chart
           \/ s \in TrySet(stored, s, chart)[2]
    BY <2>1, TrySetFits
  <2>5. /\ HoldsCharts(cache', Scopes) /\ invalid' \subseteq Scopes
        /\ cache'[s] = chart \/ s \in invalid'
    BY <2>2, <2>4, StoreFits
  <2>. QED
    BY <1>1, <2>1, <2>2, <2>3, <2>5, FitsIsHeld DEF Follows
<1>2. CASE ~(p = "gantt" /\ Rendered(h))
  <2>1. editor' = None /\ hook' = h /\ Store(stored)
    BY <1>2 DEF Show
  <2>. QED
    BY <2>1, StoreFits DEF Follows, IsHeld
<1>. QED
  BY <1>1, <1>2

LEMMA EditedFollows ==
  ASSUME TypeOK, NEW STATE chart, Fits(chart), Edited(chart)
  PROVE  Follows(page, scope)
<1>. DEFINE result == Parsed(chart)
            of == IF result.of = None THEN scope ELSE result.of
            next == [result EXCEPT !.of = of]
<1>1. Fits(result) /\ MilestonesFollow(result)
  BY ParsedFits
<1>2. editor' = next /\ editor # None /\ hook' = SetDirtyFromEditor(editor')
      /\ EmitChartUpdated(editor')
  BY DEF Edited
<1>3. Fits(next) /\ MilestonesFollow(next)
  <2>1. of \in Scopes \cup {None}
    BY <1>1, Parts DEF TypeOK
  <2>. HIDE DEF result, of
  <2>. QED
    BY <1>1, <2>1, OwnedFits
<1>. HIDE DEF next
<1>4. IsHook(SetDirtyFromEditor(next)) /\ SetDirtyFromEditor(next).dirty = (next # hook.baseline)
      /\ SetDirtyFromEditor(next).baseline = hook.baseline
  BY DEF TypeOK, IsHook, SetDirtyFromEditor
<1>5. /\ IsStore(TrySet(Cached, scope, next))
      /\ \/ TrySet(Cached, scope, next)[1][scope] = next
         \/ scope \in TrySet(Cached, scope, next)[2]
  BY <1>3, CachedFits, TrySetFits DEF TypeOK
<1>6. Store(TrySet(Cached, scope, next))
  BY <1>2 DEF EmitChartUpdated
<1>7. /\ HoldsCharts(cache', Scopes) /\ invalid' \subseteq Scopes
      /\ cache'[scope] = next \/ scope \in invalid'
  BY <1>5, <1>6, StoreFits
<1>. QED
  BY <1>2, <1>3, <1>4, <1>7, FitsIsHeld DEF Follows, TypeOK

-----------------------------------------------------------------------------
(* Calls *)

LEMMA BeginFits ==
  ASSUME NEW STATE pending, CallsFit(pending), NEW STATE call, IsCall(call),
         Begin(pending, call)
  PROVE  /\ CallsFit(calls')
         /\ \A id \in Calls : calls'[id] = pending[id] \/ calls'[id] = call
<1>1. PICK id \in Calls : calls' = [pending EXCEPT ![id] = call]
  BY DEF Begin
<1>. QED
  BY <1>1 DEF CallsFit

LEMMA NewCallFits ==
  ASSUME NEW s \in Scopes
  PROVE  /\ IsCall(Call("load", s, None)) /\ IsCall(Call("board", s, None))
         /\ \A chart : Fits(chart) => IsCall(Call("save", s, chart))
         /\ \A kind, chart : Call(kind, s, chart).scope = s
BY DEF Call, IsCall, IsHeld, Fits

LEMMA AbandonedFits ==
  ASSUME CallsFit(calls)
  PROVE  /\ CallsFit(Abandoned)
         /\ \A id \in Calls : Abandoned[id] # None => ~Abandoned[id].alive
<1>1. ASSUME NEW id \in Calls, calls[id] # None
      PROVE  IsCall([calls[id] EXCEPT !.alive = FALSE])
             /\ [calls[id] EXCEPT !.alive = FALSE].alive = FALSE
  BY <1>1 DEF CallsFit, IsCall
<1>. QED
  BY <1>1 DEF CallsFit, Abandoned

LEMMA InitializeFollows ==
  ASSUME NEW STATE h, IsHook(h), NEW STATE p, NEW STATE s, s \in Scopes,
         NEW STATE stored, IsStore(stored),
         NEW STATE pending, CallsFit(pending), NEW STATE isProjectSwitch,
         InitializeChart(h, p, s, stored, pending, isProjectSwitch)
  PROVE  /\ Follows(p, s)
         /\ CallsFit(calls')
         /\ \A id \in Calls : \/ calls'[id] = pending[id]
                              \/ calls'[id] = Call("load", s, None)
<1>1. CASE ~isProjectSwitch /\ stored[1][s] # None
  <2>. DEFINE loaded == [h EXCEPT !.source = stored[1][s], !.hasChart = TRUE,
                                  !.failed = FALSE, !.dirty = FALSE,
                                  !.loading = FALSE]
  <2>1. IsHook(loaded)
    BY DEF IsHook, IsStore, HoldsCharts
  <2>2. Show(p, s, loaded, stored) /\ calls' = pending
    BY <1>1 DEF InitializeChart
  <2>. HIDE DEF loaded
  <2>. QED
    BY <2>1, <2>2, ShowFollows
<1>2. CASE ~(~isProjectSwitch /\ stored[1][s] # None)
  <2>. DEFINE begun == [h EXCEPT !.source = None, !.failed = FALSE,
                                 !.loading = TRUE, !.baseline = None,
                                 !.dirty = FALSE]
  <2>1. IsHook(begun)
    BY DEF IsHook, IsHeld
  <2>2. Show(p, s, begun, stored) /\ Begin(pending, Call("load", s, None))
    BY <1>2 DEF InitializeChart
  <2>. HIDE DEF begun
  <2>3. Follows(p, s)
    BY <2>1, <2>2, ShowFollows
  <2>4. IsCall(Call("load", s, None))
    BY NewCallFits
  <2>. QED
    BY <2>2, <2>3, <2>4, BeginFits
<1>. QED
  BY <1>1, <1>2

-----------------------------------------------------------------------------
(* The inductive invariant *)

\* The calls a task list still awaits were made for the project it shows.
AnswersAreOfTheirProject ==
  page = "tasks" =>
    /\ ~board.loading => board.project \in {scope[1], None}
    /\ \A id \in Calls :
         calls[id] # None /\ calls[id].alive /\ calls[id].kind = "board" =>
           calls[id].scope[1] = scope[1]

IInv ==
  /\ TypeOK
  /\ WarningsAreTrue /\ MilestonesFollowTheirTasks
  /\ AnswersAreOfTheirProject

CacheFollows ==
  editor' # None =>
    \/ cache'[scope'] = editor'
    \/ scope' \in invalid'
    \/ \E id \in Calls : AnswerLeftPage(id)

\* What an action owes.
Keeps == IInv' /\ (CacheFollows \/ UNCHANGED <<editor, cache, scope>>)

Rest ==
  /\ IsBoard(board) /\ HoldsCharts(server, Scopes) /\ CallsFit(calls)
  /\ moves \in 0 .. MaxMoves /\ edits \in 0 .. MaxEdits
  /\ AnswersAreOfTheirProject

LEMMA IInvHasRest ==
  ASSUME IInv
  PROVE  /\ Rest /\ IsStore(Cached)
         /\ page \in Pages /\ scope \in Scopes /\ IsHook(hook)
         /\ editor # None => Fits(editor) /\ page = "gantt"
BY CachedFits, HeldIsChart DEF IInv, Rest, TypeOK

LEMMA FollowsKeeps ==
  ASSUME NEW STATE p, p \in Pages, NEW STATE s, s \in Scopes, Follows(p, s),
         page' = p, scope' = s, Rest'
  PROVE  Keeps
<1>1. TypeOK'
  BY DEF TypeOK, Follows, Rest, CallsFit
<1>2. WarningsAreTrue' /\ MilestonesFollowTheirTasks'
  BY DEF Follows, WarningsAreTrue, MilestonesFollowTheirTasks
<1>3. CacheFollows
  BY DEF CacheFollows, Follows
<1>. QED
  BY <1>1, <1>2, <1>3 DEF Keeps, IInv, Rest

\* Steps that leave the editor as it is.
LEMMA OthersKeep ==
  ASSUME IInv, UNCHANGED editor, page' \in Pages, scope' \in Scopes, IsHook(hook'),
         hook'.dirty = hook.dirty, hook'.baseline = hook.baseline,
         page' = page \/ editor = None,
         HoldsCharts(cache', Scopes), invalid' \subseteq Scopes, Rest',
         CacheFollows \/ UNCHANGED <<cache, scope>>
  PROVE  Keeps
<1>1. TypeOK'
  BY DEF TypeOK, IInv, Rest, CallsFit
<1>2. WarningsAreTrue' /\ MilestonesFollowTheirTasks'
  BY DEF IInv, WarningsAreTrue, MilestonesFollowTheirTasks
<1>. QED
  BY <1>1, <1>2 DEF Keeps, IInv, Rest

-----------------------------------------------------------------------------
(* Edits *)

LEMMA EditedKeeps ==
  ASSUME IInv, NEW STATE chart, Fits(chart), Edited(chart)
  PROVE  Keeps
<1>1. Follows(page, scope)
  BY EditedFollows DEF IInv
<1>2. page' = page /\ scope' = scope /\ page \in Pages /\ scope \in Scopes
  BY DEF Edited, shown, IInv, TypeOK
<1>3. Rest'
  BY IInvHasRest, BoundsAreNatural
     DEF Rest, Edited, shown, AnswersAreOfTheirProject
<1>. QED
  BY <1>1, <1>2, <1>3, FollowsKeeps

LEMMA AddTaskKeeps ==
  ASSUME IInv, NEW id \in TaskIds, NEW type \in Types, AddTask(id, type)
  PROVE  Keeps
<1>. DEFINE chart == [editor EXCEPT !.tasks =
                        [task \in DOMAIN @ \cup {id} |->
                           IF task = id THEN CreateNewTask(type) ELSE @[task]]]
<1>1. Fits(editor) /\ Edited(chart)
  BY IInvHasRest DEF AddTask
<1>2. Fits(chart)
  BY <1>1, AddedFits
<1>. HIDE DEF chart
<1>. QED
  BY <1>1, <1>2, EditedKeeps

LEMMA UpdateTaskTypeKeeps ==
  ASSUME IInv, NEW id \in TaskIds, NEW type \in Types, UpdateTaskType(id, type)
  PROVE  Keeps
<1>. DEFINE chart == [editor EXCEPT !.tasks[id] =
                        EnsureTaskObjectAttrs([@ EXCEPT !.type = type])]
<1>1. Fits(editor) /\ Edited(chart) /\ id \in DOMAIN editor.tasks
  BY IInvHasRest DEF UpdateTaskType
<1>2. Fits(chart)
  BY <1>1, RetypedFits
<1>. HIDE DEF chart
<1>. QED
  BY <1>1, <1>2, EditedKeeps

LEMMA SaveLightboxKeeps ==
  ASSUME IInv, NEW id \in TaskIds, NEW status \in NewStatuses, SaveLightbox(id, status)
  PROVE  Keeps
<1>. DEFINE chart == [editor EXCEPT !.tasks[id].status = status]
<1>1. Fits(editor) /\ Edited(chart) /\ id \in DOMAIN editor.tasks /\ status \in Statuses
  BY IInvHasRest, NewAreStatuses DEF SaveLightbox
<1>2. Fits(chart)
  BY <1>1, RestatusedFits
<1>. HIDE DEF chart
<1>. QED
  BY <1>1, <1>2, EditedKeeps

LEMMA AddLinkKeeps ==
  ASSUME IInv, NEW source \in TaskIds, NEW target \in TaskIds, AddLink(source, target)
  PROVE  Keeps
<1>. DEFINE links == editor.links \cup {<<source, target>>}
            chart == [editor EXCEPT !.links = links]
<1>1. Fits(editor) /\ Edited(chart) /\ source \in DOMAIN editor.tasks
      /\ target \in DOMAIN editor.tasks
  BY IInvHasRest DEF AddLink
<1>2. links \in SUBSET ((DOMAIN editor.tasks) \X (DOMAIN editor.tasks))
  BY <1>1, Parts
<1>. HIDE DEF links
<1>3. Fits(chart)
  BY <1>1, <1>2, RelinkedFits
<1>. HIDE DEF chart
<1>. QED
  BY <1>1, <1>3, EditedKeeps

LEMMA DeleteLinkKeeps ==
  ASSUME IInv, NEW link, DeleteLink(link)
  PROVE  Keeps
<1>. DEFINE links == editor.links \ {link}
            chart == [editor EXCEPT !.links = links]
<1>1. Fits(editor) /\ Edited(chart)
  BY IInvHasRest DEF DeleteLink
<1>2. links \in SUBSET ((DOMAIN editor.tasks) \X (DOMAIN editor.tasks))
  BY <1>1, Parts
<1>. HIDE DEF links
<1>3. Fits(chart)
  BY <1>1, <1>2, RelinkedFits
<1>. HIDE DEF chart
<1>. QED
  BY <1>1, <1>3, EditedKeeps

LEMMA DeleteTaskKeeps ==
  ASSUME IInv, NEW id \in TaskIds, DeleteTask(id)
  PROVE  Keeps
<1>. DEFINE left == DOMAIN editor.tasks \ {id}
            chart == [editor EXCEPT !.tasks = [t \in left |-> @[t]],
                                    !.links = @ \cap (left \X left)]
<1>1. Fits(editor) /\ Edited(chart)
  BY IInvHasRest DEF DeleteTask
<1>2. left \in SUBSET DOMAIN editor.tasks
  OBVIOUS
<1>. HIDE DEF left
<1>3. Fits(chart)
  BY <1>1, <1>2, PrunedFits
<1>. HIDE DEF chart
<1>. QED
  BY <1>1, <1>3, EditedKeeps

LEMMA MoveCardKeeps ==
  ASSUME IInv, NEW chart, NEW id \in TaskIds, NEW status \in NewStatuses,
         MoveCard(chart, id, status)
  PROVE  Keeps
<1>. DEFINE s == <<scope[1], chart>>
            xml == IF cache[s] # None THEN cache[s] ELSE board.charts[chart]
            moved == UpdateTaskStatusInChart(xml, id, status)
            stored == TrySet(Cached, s, moved)
<1>1. /\ page = "kanban" /\ s \in Scopes /\ edits < MaxEdits /\ edits' = edits + 1
      /\ chart \in DOMAIN board.charts /\ board.charts[chart] # None
      /\ Store(stored)
      /\ UNCHANGED calls \/ Begin(calls, Call("board", scope, None))
      /\ UNCHANGED <<shown, hook, editor, server, board, moves>>
  BY DEF MoveCard
<1>2. Fits(xml)
  <2>1. IsHeld(cache[s]) /\ IsHeld(board.charts[chart])
    BY <1>1 DEF IInv, TypeOK, HoldsCharts, IsBoard
  <2>. QED
    BY <1>1, <2>1, HeldIsChart
<1>. HIDE DEF xml
<1>3. Fits(moved)
  BY <1>2, UpdatedFits, NewAreStatuses
<1>. HIDE DEF moved
<1>4. IsStore(stored)
  BY <1>1, <1>3, IInvHasRest, TrySetFits
<1>. HIDE DEF stored, s
<1>5. HoldsCharts(cache', Scopes) /\ invalid' \subseteq Scopes
  BY <1>1, <1>4, StoreFits
<1>6. CallsFit(calls')
  BY <1>1, IInvHasRest, NewCallFits, BeginFits DEF Rest
<1>7. Rest'
  BY <1>1, <1>6, IInvHasRest, BoundsAreNatural
     DEF Rest, shown, AnswersAreOfTheirProject
<1>8. editor = None /\ CacheFollows
  BY <1>1, IInvHasRest DEF CacheFollows
<1>9. page' \in Pages /\ scope' \in Scopes /\ hook' = hook /\ IsHook(hook') /\ editor' = editor
  BY <1>1, IInvHasRest DEF shown
<1>. QED
  BY <1>5, <1>7, <1>8, <1>9, OthersKeep

-----------------------------------------------------------------------------
(* Moves *)

LEMMA ChangeDisplayModeKeeps ==
  ASSUME IInv, ChangeDisplayMode
  PROVE  Keeps
<1>1. Show(page, scope, hook, Cached) /\ page' = page /\ scope' = scope
  BY DEF ChangeDisplayMode, shown
<1>2. Follows(page, scope)
  BY <1>1, IInvHasRest, ShowFollows
<1>3. Rest'
  BY IInvHasRest, BoundsAreNatural
     DEF Rest, ChangeDisplayMode, shown, AnswersAreOfTheirProject
<1>. QED
  BY <1>1, <1>2, <1>3, IInvHasRest, FollowsKeeps

LEMMA PersistChartKeeps ==
  ASSUME IInv, PersistChart
  PROVE  Keeps
<1>. DEFINE chart == IF editor = None THEN DefaultChart ELSE editor
            call == Call("save", scope, chart)
<1>1. /\ page = "gantt" /\ hook' = [hook EXCEPT !.persisting = TRUE]
      /\ Begin(calls, call)
      /\ UNCHANGED <<shown, editor, cache, invalid, server, board, counters>>
  BY DEF PersistChart
<1>2. Fits(chart)
  BY IInvHasRest, DefaultFits
<1>3. IsCall(call)
  BY <1>2, IInvHasRest, NewCallFits
<1>. HIDE DEF call
<1>4. CallsFit(calls')
  BY <1>1, <1>3, IInvHasRest, BeginFits DEF Rest
<1>5. Rest'
  BY <1>1, <1>4, IInvHasRest DEF Rest, shown, counters, AnswersAreOfTheirProject
<1>6. IsHook(hook') /\ hook'.dirty = hook.dirty /\ hook'.baseline = hook.baseline
  BY <1>1, IInvHasRest DEF IsHook
<1>. QED
  BY <1>1, <1>5, <1>6, IInvHasRest, OthersKeep DEF shown, IInv, TypeOK

LEMMA InvalidateAndReloadKeeps ==
  ASSUME IInv, InvalidateAndReload
  PROVE  Keeps
<1>. DEFINE h == [hook EXCEPT !.hasChart = FALSE]
            stored == Clear(Cached, scope)
<1>1. /\ page = "gantt" /\ moves < MaxMoves /\ moves' = moves + 1
      /\ InitializeChart(h, page, scope, stored, calls, FALSE)
      /\ UNCHANGED <<shown, server, board, edits>>
  BY DEF InvalidateAndReload
<1>2. IsHook(h) /\ IsStore(stored)
  BY IInvHasRest, ClearFits DEF IsHook
<1>. HIDE DEF h, stored
<1>3. Follows(page, scope) /\ CallsFit(calls')
  BY <1>1, <1>2, IInvHasRest, InitializeFollows DEF Rest
<1>4. Rest'
  BY <1>1, <1>3, IInvHasRest, BoundsAreNatural DEF Rest, shown, AnswersAreOfTheirProject
<1>. QED
  BY <1>1, <1>3, <1>4, IInvHasRest, FollowsKeeps DEF shown

LEMMA SwitchChartKeeps ==
  ASSUME IInv, NEW s \in Scopes, SwitchChart(s)
  PROVE  Keeps
<1>. DEFINE mounted ==
              IF page = "gantt" /\ Rendered(hook)
              THEN TrySet(Cached, s, Parsed(hook.source)) ELSE Cached
<1>1. /\ page \in HookPages /\ moves < MaxMoves /\ moves' = moves + 1
      /\ scope' = s
      /\ InitializeChart(hook, page, s, mounted, calls, s[1] # scope[1])
      /\ UNCHANGED <<page, server, board, edits>>
  BY DEF SwitchChart
<1>2. IsStore(mounted)
  <2>1. Rendered(hook) => Fits(Parsed(hook.source))
    BY IInvHasRest, HeldIsChart, ParsedFits DEF Rendered, IsHook
  <2>. QED
    BY <2>1, IInvHasRest, TrySetFits
<1>. HIDE DEF mounted
<1>3. Follows(page, s) /\ CallsFit(calls')
  BY <1>1, <1>2, IInvHasRest, InitializeFollows DEF Rest
<1>4. Rest'
  BY <1>1, <1>3, IInvHasRest, BoundsAreNatural
     DEF Rest, AnswersAreOfTheirProject, HookPages
<1>. QED
  BY <1>1, <1>3, <1>4, IInvHasRest, FollowsKeeps

LEMMA SwitchProjectKeeps ==
  ASSUME IInv, NEW s \in Scopes, SwitchProject(s)
  PROVE  Keeps
<1>. DEFINE pending == IF page = "kanban" THEN calls ELSE Abandoned
            call == Call("board", s, None)
<1>1. /\ page \in BoardPages /\ moves < MaxMoves /\ moves' = moves + 1
      /\ scope' = s /\ Begin(pending, call)
      /\ board' = [board EXCEPT !.loading = page = "tasks"]
      /\ UNCHANGED <<page, hook, editor, cache, invalid, server, edits>>
  BY DEF SwitchProject
<1>2. CallsFit(pending) /\ IsCall(call) /\ call.scope = s
  BY IInvHasRest, AbandonedFits, NewCallFits DEF Rest
<1>3. page = "tasks" => \A id \in Calls : pending[id] # None => ~pending[id].alive
  BY IInvHasRest, AbandonedFits DEF Rest
<1>. HIDE DEF pending, call
<1>4. /\ CallsFit(calls')
      /\ \A id \in Calls : calls'[id] = pending[id] \/ calls'[id] = call
  BY <1>1, <1>2, BeginFits
<1>5. IsBoard(board') /\ (page = "tasks" => board'.loading)
  BY <1>1, IInvHasRest DEF Rest, IsBoard
<1>6. AnswersAreOfTheirProject'
  BY <1>1, <1>2, <1>3, <1>4, <1>5 DEF AnswersAreOfTheirProject
<1>7. Rest'
  BY <1>1, <1>4, <1>5, <1>6, IInvHasRest, BoundsAreNatural DEF Rest
<1>8. editor = None /\ CacheFollows
  BY <1>1, IInvHasRest DEF CacheFollows, BoardPages
<1>. QED
  BY <1>1, <1>7, <1>8, IInvHasRest, OthersKeep DEF IInv, TypeOK

LEMMA OpenPageKeeps ==
  ASSUME IInv, NEW p \in Pages, NEW s \in Scopes, OpenPage(p, s)
  PROVE  Keeps
<1>1. /\ moves < MaxMoves /\ moves' = moves + 1
      /\ page' = p /\ scope' = s
      /\ server' = server /\ edits' = edits
  BY DEF OpenPage
<1>2. IsHook(FreshHook) /\ FreshHook.source = None
  BY DEF FreshHook, IsHook, IsHeld
<1>3. IsBoard(board') /\ board'.project = None
  BY DEF OpenPage, EmptyBoard, IsBoard, HoldsCharts
<1>4. CallsFit(Abandoned) /\ \A id \in Calls : Abandoned[id] # None => ~Abandoned[id].alive
  BY IInvHasRest, AbandonedFits DEF Rest
<1>5. CASE p \in HookPages
  <2>1. InitializeChart(FreshHook, p, s, Cached, Abandoned, FALSE)
    BY <1>5 DEF OpenPage
  <2>2. Follows(p, s) /\ CallsFit(calls')
    BY <1>2, <1>4, <2>1, IInvHasRest, InitializeFollows
  <2>3. Rest'
    BY <1>1, <1>3, <1>5, <2>2, IInvHasRest, BoundsAreNatural
       DEF Rest, AnswersAreOfTheirProject, HookPages
  <2>. QED
    BY <1>1, <2>2, <2>3, FollowsKeeps
<1>6. CASE p \notin HookPages
  <2>. DEFINE call == Call("board", s, None)
  <2>1. hook' = FreshHook /\ editor' = None /\ cache' = cache /\ invalid' = invalid
        /\ Begin(Abandoned, call)
    BY <1>6 DEF OpenPage
  <2>2. IsCall(call) /\ call.scope = s
    BY NewCallFits
  <2>. HIDE DEF call
  <2>3. /\ CallsFit(calls')
        /\ \A id \in Calls : calls'[id] = Abandoned[id] \/ calls'[id] = call
    BY <1>4, <2>1, <2>2, BeginFits
  <2>4. AnswersAreOfTheirProject'
    BY <1>1, <1>3, <1>4, <2>2, <2>3 DEF AnswersAreOfTheirProject
  <2>5. Rest'
    BY <1>1, <1>3, <2>3, <2>4, IInvHasRest, BoundsAreNatural DEF Rest
  <2>6. Follows(p, s)
    BY <1>2, <2>1 DEF Follows, IsHeld, IInv, TypeOK
  <2>. QED
    BY <1>1, <2>5, <2>6, FollowsKeeps
<1>. QED
  BY <1>5, <1>6

-----------------------------------------------------------------------------
(* Answers *)

\* A call that is replaced by another, or is over.
LEMMA ReplacedFits ==
  ASSUME CallsFit(calls), NEW id \in Calls, NEW STATE call,
         call = None \/ IsCall(call),
         calls' = [calls EXCEPT ![id] = call]
  PROVE  /\ CallsFit(calls')
         /\ calls'[id] = call
         /\ \A other \in Calls \ {id} : calls'[other] = calls[other]
BY DEF CallsFit

\* What the server does with a call leaves its kind and what it is about.
LEMMA RepliedFits ==
  ASSUME CallsFit(calls), AnswersAreOfTheirProject, NEW id \in Calls,
         calls[id] # None, NEW STATE call, IsCall(call),
         call.kind = calls[id].kind, call.scope = calls[id].scope,
         call.alive = calls[id].alive,
         calls' = [calls EXCEPT ![id] = call],
         UNCHANGED <<page, scope, board>>
  PROVE  CallsFit(calls') /\ AnswersAreOfTheirProject'
<1>1. /\ CallsFit(calls') /\ calls'[id] = call
      /\ \A other \in Calls \ {id} : calls'[other] = calls[other]
  BY ReplacedFits
<1>. QED
  BY <1>1 DEF AnswersAreOfTheirProject

LEMMA OverFits ==
  ASSUME CallsFit(calls), NEW id \in Calls,
         calls' = [calls EXCEPT ![id] = None]
  PROVE  /\ CallsFit(calls')
         /\ \A other \in Calls : calls'[other] = None \/ calls'[other] = calls[other]
BY DEF CallsFit

LEMMA ServerKeeps ==
  ASSUME IInv, UNCHANGED <<shown, hook, editor, cache, invalid, board, counters>>,
         HoldsCharts(server', Scopes), CallsFit(calls'), AnswersAreOfTheirProject'
  PROVE  Keeps
<1>1. Rest'
  BY IInvHasRest DEF Rest, counters
<1>. QED
  BY <1>1, IInvHasRest, OthersKeep DEF shown, IInv, TypeOK

LEMMA ServeKeeps ==
  ASSUME IInv, NEW id \in Calls, Serve(id)
  PROVE  Keeps
<1>. DEFINE call == calls[id]
            reply(chart, failed) ==
              [call EXCEPT !.stage = "served", !.chart = chart, !.failed = failed]
<1>1. /\ call # None /\ call.stage = "sent" /\ call.kind \in {"load", "save"}
      /\ IsCall(call) /\ CallsFit(calls)
      /\ UNCHANGED <<shown, hook, editor, cache, invalid, board, counters>>
  BY IInvHasRest DEF Serve, Rest, CallsFit
<1>2. ASSUME NEW chart, NEW failed \in BOOLEAN,
             call.kind = "load" => IsHeld(chart),
             call.kind = "save" => Fits(chart)
      PROVE  /\ IsCall(reply(chart, failed))
             /\ reply(chart, failed).kind = call.kind
             /\ reply(chart, failed).scope = call.scope
             /\ reply(chart, failed).alive = call.alive
  BY <1>1, <1>2 DEF IsCall, Fits
<1>3. ASSUME NEW STATE chart, NEW STATE failed, failed \in BOOLEAN,
             call.kind = "load" => IsHeld(chart),
             call.kind = "save" => Fits(chart),
             calls' = [calls EXCEPT ![id].stage = "served",
                                    ![id].chart = chart, ![id].failed = failed]
      PROVE  CallsFit(calls') /\ AnswersAreOfTheirProject'
  <2>1. calls' = [calls EXCEPT ![id] = reply(chart, failed)]
    BY <1>1, <1>3 DEF CallsFit
  <2>2. /\ IsCall(reply(chart, failed))
        /\ reply(chart, failed).kind = call.kind
        /\ reply(chart, failed).scope = call.scope
        /\ reply(chart, failed).alive = call.alive
    BY <1>2, <1>3
  <2>3. AnswersAreOfTheirProject /\ UNCHANGED <<page, scope, board>>
    BY <1>1 DEF IInv, shown
  <2>. HIDE DEF reply
  <2>. QED
    BY <1>1, <2>1, <2>2, <2>3, RepliedFits
<1>. DEFINE Told(chart, failed) ==
              calls' = [calls EXCEPT ![id].stage = "served",
                                     ![id].chart = chart, ![id].failed = failed]
<1>4. CASE call.kind = "load" /\ Told(server[call.scope], FALSE) /\ UNCHANGED server
  <2>1. IsHeld(server[call.scope]) /\ HoldsCharts(server', Scopes)
    BY <1>1, <1>4 DEF IInv, TypeOK, HoldsCharts, IsCall
  <2>2. CallsFit(calls') /\ AnswersAreOfTheirProject'
    BY <1>3, <1>4, <2>1
  <2>. QED
    BY <1>1, <2>1, <2>2, ServerKeeps
<1>5. CASE /\ call.kind = "save" /\ Told(call.chart, FALSE)
           /\ server' = [server EXCEPT ![call.scope] = call.chart]
  <2>1. Fits(call.chart) /\ call.scope \in Scopes
    BY <1>1, <1>5 DEF IsCall, Fits
  <2>2. HoldsCharts(server', Scopes)
    BY <1>5, <2>1, FitsIsHeld DEF IInv, TypeOK, HoldsCharts
  <2>3. CallsFit(calls') /\ AnswersAreOfTheirProject'
    BY <1>3, <1>5, <2>1
  <2>. QED
    BY <1>1, <2>2, <2>3, ServerKeeps
<1>6. CASE Told(call.chart, TRUE) /\ UNCHANGED server
  <2>1. HoldsCharts(server', Scopes)
    BY <1>6 DEF IInv, TypeOK
  <2>2. CallsFit(calls') /\ AnswersAreOfTheirProject'
    BY <1>1, <1>3, <1>6 DEF IsCall, Fits
  <2>. QED
    BY <1>1, <2>1, <2>2, ServerKeeps
<1>. HIDE DEF call, reply
<1>7. \/ call.kind = "load" /\ Told(server[call.scope], FALSE) /\ UNCHANGED server
      \/ /\ call.kind = "save" /\ Told(call.chart, FALSE)
         /\ server' = [server EXCEPT ![call.scope] = call.chart]
      \/ Told(call.chart, TRUE) /\ UNCHANGED server
  BY DEF Serve, call
<1>. QED
  BY <1>4, <1>5, <1>6, <1>7

LEMMA ReadCachedKeeps ==
  ASSUME IInv, NEW id \in Calls, ReadCached(id)
  PROVE  Keeps
<1>. DEFINE charts == [c \in ChartsOf(calls[id].scope[1]) |->
                         cache[<<calls[id].scope[1], c>>]]
            call == [calls[id] EXCEPT !.stage = "listed", !.chart = charts]
<1>1. /\ calls[id] # None /\ calls[id].kind = "board" /\ calls[id].stage = "sent"
      /\ IsCall(calls[id]) /\ CallsFit(calls) /\ AnswersAreOfTheirProject
      /\ UNCHANGED <<shown, hook, editor, cache, invalid, server, board, counters>>
  BY IInvHasRest DEF ReadCached, Rest, CallsFit
<1>2. calls' = [calls EXCEPT ![id].stage = "listed", ![id].chart = charts]
  BY DEF ReadCached
<1>3. calls' = [calls EXCEPT ![id] = call]
  <2>. HIDE DEF charts
  <2>. QED  BY <1>1, <1>2 DEF CallsFit
<1>4. HoldsCharts(charts, ChartsOf(calls[id].scope[1]))
  <2>1. ASSUME NEW project, NEW c \in ChartsOf(project)
        PROVE  IsHeld(cache[<<project, c>>])
    <3>1. <<project, c>> \in Scopes
      BY <2>1, ScopesArePairs DEF ChartsOf
    <3>. QED
      BY <3>1 DEF IInv, TypeOK, HoldsCharts
  <2>. QED
    BY <2>1 DEF HoldsCharts
<1>. HIDE DEF charts
<1>5. /\ IsCall(call)
      /\ call.kind = calls[id].kind /\ call.scope = calls[id].scope
      /\ call.alive = calls[id].alive
  BY <1>1, <1>4 DEF IsCall
<1>. HIDE DEF call
<1>6. CallsFit(calls') /\ AnswersAreOfTheirProject'
  BY <1>1, <1>3, <1>5, RepliedFits DEF shown
<1>. QED
  BY <1>1, <1>6, ServerKeeps DEF IInv, TypeOK

LEMMA ReadOthersKeeps ==
  ASSUME IInv, NEW id \in Calls, ReadOthers(id)
  PROVE  Keeps
<1>. DEFINE keys == ChartsOf(calls[id].scope[1])
            Fill(c) == IF calls[id].chart[c] = None
                       THEN server[<<calls[id].scope[1], c>>]
                       ELSE calls[id].chart[c]
            charts == [c \in DOMAIN calls[id].chart |-> Fill(c)]
<1>1. /\ calls[id] # None /\ calls[id].kind = "board" /\ calls[id].stage = "listed"
      /\ IsCall(calls[id]) /\ CallsFit(calls) /\ AnswersAreOfTheirProject
      /\ UNCHANGED <<shown, hook, editor, cache, invalid, server, board, counters>>
  BY IInvHasRest DEF ReadOthers, Rest, CallsFit
<1>2. PICK failed \in BOOLEAN :
        calls' = [calls EXCEPT ![id].stage = "served", ![id].failed = failed,
                               ![id].chart = charts]
  BY DEF ReadOthers
<1>. DEFINE call == [calls[id] EXCEPT !.stage = "served", !.failed = failed,
                                      !.chart = charts]
<1>3. calls' = [calls EXCEPT ![id] = call]
  <2>. HIDE DEF charts
  <2>. QED  BY <1>1, <1>2 DEF CallsFit
<1>4. HoldsCharts(charts, keys)
  <2>1. ASSUME NEW project, NEW c \in ChartsOf(project)
        PROVE  IsHeld(server[<<project, c>>])
    <3>1. <<project, c>> \in Scopes
      BY <2>1, ScopesArePairs DEF ChartsOf
    <3>. QED
      BY <3>1 DEF IInv, TypeOK, HoldsCharts
  <2>2. HoldsCharts(calls[id].chart, keys)
    BY <1>1 DEF IsCall
  <2>3. DOMAIN calls[id].chart = keys
    BY <2>2 DEF HoldsCharts
  <2>4. \A c \in keys : IsHeld(Fill(c))
    BY <2>1, <2>2 DEF HoldsCharts
  <2>. HIDE DEF keys, Fill
  <2>. QED
    BY <2>3, <2>4 DEF HoldsCharts
<1>. HIDE DEF charts
<1>5. /\ IsCall(call)
      /\ call.kind = calls[id].kind /\ call.scope = calls[id].scope
      /\ call.alive = calls[id].alive
  BY <1>1, <1>4 DEF IsCall
<1>. HIDE DEF call
<1>6. CallsFit(calls') /\ AnswersAreOfTheirProject'
  BY <1>1, <1>3, <1>5, RepliedFits DEF shown
<1>. QED
  BY <1>1, <1>6, ServerKeeps DEF IInv, TypeOK

\* A call that was answered is over, and its page heard it or not.
LEMMA ServedFits ==
  ASSUME IInv, NEW id \in Calls, NEW kind, NEW alive, Served(id, kind, alive)
  PROVE  /\ IsCall(calls[id]) /\ calls[id].kind = kind /\ calls[id].alive = alive
         /\ calls[id].stage = "served" /\ calls[id] # None
         /\ CallsFit(calls')
         /\ \A other \in Calls : calls'[other] = None \/ calls'[other] = calls[other]
BY IInvHasRest, OverFits DEF Served, Rest, CallsFit

LEMMA ServedRest ==
  ASSUME IInv, NEW id \in Calls, NEW kind, NEW alive, Served(id, kind, alive),
         UNCHANGED <<shown, server, board, counters>>
  PROVE  Rest'
<1>1. AnswersAreOfTheirProject'
  BY ServedFits DEF IInv, shown, AnswersAreOfTheirProject
<1>. QED
  BY <1>1, ServedFits, IInvHasRest DEF Rest, counters

LEMMA AnswerLoadKeeps ==
  ASSUME IInv, NEW id \in Calls, AnswerLoad(id)
  PROVE  Keeps
<1>. DEFINE call == calls[id]
            h == [hook EXCEPT !.loading = FALSE]
            loaded == IF call.failed THEN [h EXCEPT !.failed = TRUE, !.source = None]
                      ELSE IF call.chart = None
                      THEN [h EXCEPT !.hasChart = FALSE, !.source = None]
                      ELSE [h EXCEPT !.hasChart = TRUE,
                                     !.source = NormalizeTasks(call.chart)]
<1>1. /\ Served(id, "load", TRUE) /\ Show(page, scope, loaded, Loaded(call))
      /\ UNCHANGED <<shown, server, board, counters>>
  BY DEF AnswerLoad
<1>2. IsCall(call) /\ call.kind = "load"
  BY <1>1, ServedFits
<1>3. IsHook(loaded)
  <2>1. IsHook(h)
    BY IInvHasRest DEF IsHook
  <2>. HIDE DEF h
  <2>2. call.chart # None => IsHeld(NormalizeTasks(call.chart))
    BY <1>2, HeldIsChart, NormalizedFits, FitsIsHeld DEF IsCall
  <2>3. IsHeld(None)
    BY DEF IsHeld
  <2>4. IsHook([h EXCEPT !.failed = TRUE, !.source = None])
    BY <2>1, <2>3 DEF IsHook
  <2>5. IsHook([h EXCEPT !.hasChart = FALSE, !.source = None])
    BY <2>1, <2>3 DEF IsHook
  <2>6. call.chart # None =>
          IsHook([h EXCEPT !.hasChart = TRUE, !.source = NormalizeTasks(call.chart)])
    BY <2>1, <2>2 DEF IsHook
  <2>. QED
    BY <2>4, <2>5, <2>6
<1>. HIDE DEF loaded
<1>4. IsStore(Loaded(call))
  BY <1>2, LoadedFits DEF IInv
<1>5. Follows(page, scope)
  BY <1>1, <1>3, <1>4, IInvHasRest, ShowFollows
<1>6. Rest'
  BY <1>1, ServedRest
<1>. QED
  BY <1>1, <1>5, <1>6, IInvHasRest, FollowsKeeps DEF shown

LEMMA AnswerSaveKeeps ==
  ASSUME IInv, NEW id \in Calls, AnswerSave(id)
  PROVE  Keeps
<1>. DEFINE call == calls[id]
            h == [hook EXCEPT !.persisting = FALSE]
            saved == [h EXCEPT !.baseline = call.chart, !.dirty = FALSE,
                               !.hasChart = TRUE, !.source = call.chart]
            stored == TrySet(Cached, call.scope, call.chart)
<1>1. /\ Served(id, "save", TRUE)
      /\ UNCHANGED <<shown, server, board, counters>>
  BY DEF AnswerSave
<1>2. Fits(call.chart) /\ call.scope \in Scopes
  BY <1>1, ServedFits DEF IsCall, Fits
<1>3. IsHook(h) /\ h.dirty = hook.dirty /\ h.baseline = hook.baseline
  BY IInvHasRest DEF IsHook
<1>4. Rest'
  BY <1>1, ServedRest
<1>5. CASE call.failed
  <2>1. hook' = h /\ UNCHANGED <<editor, cache, invalid>>
    BY <1>5 DEF AnswerSave
  <2>. HIDE DEF h
  <2>. QED
    BY <1>1, <1>3, <1>4, <2>1, OthersKeep DEF shown, IInv, TypeOK
<1>6. CASE ~call.failed
  <2>1. Show(page, scope, saved, stored)
    BY <1>6 DEF AnswerSave
  <2>. HIDE DEF h
  <2>2. IsHook(saved)
    BY <1>2, <1>3, FitsIsHeld DEF IsHook
  <2>3. IsStore(stored)
    BY <1>2, IInvHasRest, TrySetFits
  <2>. HIDE DEF saved, stored
  <2>4. Follows(page, scope)
    BY <2>1, <2>2, <2>3, IInvHasRest, ShowFollows
  <2>. QED
    BY <1>1, <1>4, <2>4, IInvHasRest, FollowsKeeps DEF shown
<1>. QED
  BY <1>5, <1>6

LEMMA AnswerLeftPageKeeps ==
  ASSUME IInv, NEW id \in Calls, AnswerLeftPage(id)
  PROVE  Keeps
<1>. DEFINE call == calls[id]
<1>1. PICK kind \in {"load", "save", "board"} : Served(id, kind, FALSE)
  BY DEF AnswerLeftPage
<1>2. UNCHANGED <<shown, hook, editor, server, board, counters>>
  BY DEF AnswerLeftPage
<1>3. Rest'
  BY <1>1, <1>2, ServedRest
<1>4. HoldsCharts(cache', Scopes) /\ invalid' \subseteq Scopes
  <2>1. CASE Served(id, "load", FALSE) /\ Store(Loaded(call))
    <3>1. IsStore(Loaded(call))
      BY <2>1, ServedFits, LoadedFits DEF IInv
    <3>. QED
      BY <2>1, <3>1, StoreFits
  <2>2. CASE /\ Served(id, "save", FALSE)
             /\ Store(IF call.failed THEN Cached
                      ELSE TrySet(Cached, call.scope, call.chart))
    <3>1. Fits(call.chart) /\ call.scope \in Scopes
      BY <2>2, ServedFits DEF IsCall, Fits
    <3>2. IsStore(TrySet(Cached, call.scope, call.chart)) /\ IsStore(Cached)
      BY <3>1, IInvHasRest, TrySetFits
    <3>3. CASE call.failed
      BY <2>2, <3>2, <3>3, StoreFits
    <3>4. CASE ~call.failed
      BY <2>2, <3>2, <3>4, StoreFits
    <3>. QED
      BY <3>3, <3>4
  <2>3. CASE UNCHANGED <<cache, invalid>>
    BY <2>3 DEF IInv, TypeOK
  <2>. QED
    BY <2>1, <2>2, <2>3 DEF AnswerLeftPage
<1>5. CacheFollows
  BY DEF CacheFollows
<1>. QED
  BY <1>2, <1>3, <1>4, <1>5, OthersKeep DEF shown, IInv, TypeOK

LEMMA AnswerBoardKeeps ==
  ASSUME IInv, NEW id \in Calls, AnswerBoard(id)
  PROVE  Keeps
<1>. DEFINE call == calls[id]
            fails == call.failed \/ (page = "tasks" /\ TaskListFails(call.chart))
<1>1. /\ Served(id, "board", TRUE)
      /\ UNCHANGED <<shown, hook, editor, cache, invalid, server, counters>>
      /\ board' = IF fails THEN EmptyBoard(FALSE, TRUE)
                  ELSE [project |-> call.scope[1], charts |-> call.chart,
                        loading |-> FALSE,
                        failed |-> board.failed /\ page = "kanban"]
  BY DEF AnswerBoard
<1>2. /\ IsCall(call) /\ call.kind = "board" /\ call.alive /\ call # None
      /\ HoldsCharts(call.chart, ChartsOf(call.scope[1]))
      /\ CallsFit(calls')
      /\ \A other \in Calls : calls'[other] = None \/ calls'[other] = calls[other]
  BY <1>1, ServedFits DEF IsCall
<1>. HIDE DEF fails
<1>3. IsBoard(board') /\ (board'.project = None \/ board'.project = call.scope[1])
  <2>1. CASE fails
    BY <1>1, <2>1 DEF EmptyBoard, IsBoard, HoldsCharts
  <2>2. CASE ~fails
    <3>1. HoldsCharts(call.chart, DOMAIN call.chart)
      BY <1>2 DEF HoldsCharts
    <3>. QED
      BY <1>1, <2>2, <3>1 DEF IsBoard
  <2>. QED
    BY <2>1, <2>2
<1>4. page = "tasks" => call.scope[1] = scope[1]
  BY <1>2 DEF IInv, AnswersAreOfTheirProject
<1>5. AnswersAreOfTheirProject'
  <2>1. AnswersAreOfTheirProject /\ page' = page /\ scope' = scope
    BY <1>1 DEF IInv, shown
  <2>2. \A other \in Calls : calls'[other] = None \/ calls'[other] = calls[other]
    BY <1>2
  <2>. HIDE DEF call
  <2>. QED
    BY <1>3, <1>4, <2>1, <2>2 DEF AnswersAreOfTheirProject
<1>6. Rest'
  <2>1. UNCHANGED <<server, moves, edits>>
    BY <1>1 DEF counters
  <2>. QED
    BY <2>1, <1>2, <1>3, <1>5, IInvHasRest DEF Rest
<1>7. page' = page /\ UNCHANGED <<hook, editor, cache, scope, invalid>>
  BY <1>1 DEF shown
<1>. QED
  BY <1>6, <1>7, OthersKeep DEF IInv, TypeOK

-----------------------------------------------------------------------------
(* The theorems *)

LEMMA ChangeKeeps ==
  ASSUME IInv, Change
  PROVE  Keeps
BY AddTaskKeeps, UpdateTaskTypeKeeps, SaveLightboxKeeps, AddLinkKeeps,
   DeleteLinkKeeps, DeleteTaskKeeps, MoveCardKeeps
   DEF Change

LEMMA NextKeeps ==
  ASSUME IInv, Next
  PROVE  Keeps
<1>1. CASE \E s \in Scopes :
             \/ SwitchChart(s) \/ SwitchProject(s)
             \/ \E p \in Pages : OpenPage(p, s)
  BY <1>1, SwitchChartKeeps, SwitchProjectKeeps, OpenPageKeeps
<1>2. CASE \E id \in Calls :
             Serve(id) \/ ReadCached(id) \/ ReadOthers(id) \/ Answer(id)
  BY <1>2, ServeKeeps, ReadCachedKeeps, ReadOthersKeeps, AnswerLoadKeeps,
     AnswerSaveKeeps, AnswerBoardKeeps, AnswerLeftPageKeeps
     DEF Answer
<1>. QED
  BY <1>1, <1>2, ChangeKeeps, ChangeDisplayModeKeeps, PersistChartKeeps,
     InvalidateAndReloadKeeps
     DEF Next

LEMMA InitFits ==
  ASSUME Init
  PROVE  IInv
<1>1. /\ page \in Pages /\ scope \in Scopes /\ hook = FreshHook /\ editor = None
      /\ cache = [s \in Scopes |-> None] /\ invalid = {} /\ server \in ServerCharts
      /\ moves = 0 /\ edits = 0
  BY DEF Init
<1>2. IsHook(hook) /\ IsHeld(editor) /\ HoldsCharts(cache, Scopes)
  BY <1>1 DEF FreshHook, IsHook, IsHeld, HoldsCharts
<1>3. IsBoard(board) /\ board.project = None
  BY DEF Init, EmptyBoard, IsBoard, HoldsCharts
<1>4. /\ CallsFit(calls)
      /\ \A id \in Calls : calls[id] # None => calls[id].scope = scope
  <2>. DEFINE call == Call(IF page \in HookPages THEN "load" ELSE "board", scope, None)
  <2>1. IsCall(call) /\ call.scope = scope
    BY <1>1, NewCallFits
  <2>2. calls = [c \in Calls |-> IF c # CHOOSE first \in Calls : TRUE THEN None ELSE call]
    BY DEF Init
  <2>. HIDE DEF call
  <2>. QED
    BY <2>1, <2>2 DEF CallsFit
<1>5. TypeOK
  BY <1>1, <1>2, <1>3, <1>4, ServerHoldsCharts, BoundsAreNatural DEF TypeOK, CallsFit
<1>6. AnswersAreOfTheirProject
  BY <1>3, <1>4 DEF AnswersAreOfTheirProject
<1>. QED
  BY <1>1, <1>5, <1>6 DEF IInv, WarningsAreTrue, MilestonesFollowTheirTasks

LEMMA StutteringKeeps ==
  ASSUME IInv, UNCHANGED vars
  PROVE  IInv'
BY DEF IInv, TypeOK, WarningsAreTrue, MilestonesFollowTheirTasks,
       AnswersAreOfTheirProject, vars, shown, counters

LEMMA IInvHolds == Spec => []IInv
<1>1. Init => IInv
  BY InitFits
<1>2. IInv /\ [Next]_vars => IInv'
  BY NextKeeps, StutteringKeeps DEF Keeps
<1>. QED
  BY <1>1, <1>2, PTL DEF Spec

\* What the window holds has its type throughout: what is cached, shown, sent
\* and answered are charts, whose links are between their tasks.
THEOREM TypeCorrect == Spec => []TypeOK
BY IInvHolds, PTL DEF IInv

\* The page warns of unsaved changes exactly while the editor differs from its
\* baseline, whatever is saved, loaded and answered meanwhile.
THEOREM WarningsStayTrue == Spec => []WarningsAreTrue
BY IInvHolds, PTL DEF IInv

\* The milestones in the editor have the status the document gives them, for
\* every chart and through every edit, load, save and late answer.
THEOREM MilestonesKeepFollowing == Spec => []MilestonesFollowTheirTasks
BY IInvHolds, PTL DEF IInv

\* A task list shows no tasks that were asked for another project: the answers
\* it still awaits were asked for its own.
THEOREM TaskListsKeepToTheirProject == Spec => []TaskListsAreOfTheirProject
<1>1. IInv => TaskListsAreOfTheirProject
  BY DEF IInv, AnswersAreOfTheirProject, TaskListsAreOfTheirProject
<1>. QED
  BY <1>1, IInvHolds, PTL

\* Whatever changes the editor, the cache or the chart shown, the cache of the
\* chart shown holds what the editor does.
THEOREM CacheKeepsFollowing == Spec => CacheFollowsTheEditor
<1>1. IInv /\ [Next]_vars =>
        [CacheFollows]_<<editor, cache, scope>>
  BY NextKeeps DEF Keeps, vars, shown
<1>2. [CacheFollows]_<<editor, cache, scope>> =>
        [editor' # None =>
           \/ cache'[scope'] = editor'
           \/ scope' \in invalid'
           \/ \E id \in Calls : AnswerLeftPage(id)]_<<editor, cache, scope>>
  BY DEF CacheFollows
<1>. QED
  BY <1>1, <1>2, IInvHolds, PTL DEF Spec, CacheFollowsTheEditor

=============================================================================
