--------------------------- MODULE TestDataProofs ---------------------------
(***************************************************************************)
(* What holds of the seeding tools for every fixture, whatever users do to *)
(* the database and wherever a run stops.                                  *)
(*                                                                         *)
(* A tool folds a step over its seeds: the sequence of the databases in    *)
(* between is made explicit, and induction over it shows that a fold that  *)
(* succeeds gives every seed a row and a record of its own and leaves the  *)
(* others.  Of runs, the invariant says that rows users made bear no name  *)
(* of a seed and are in no record, and that what a purge has read covers   *)
(* what it deletes, and nothing else, until its last file is gone.         *)
(***************************************************************************)
EXTENDS TestData, FiniteSetTheorems, WellFoundedInduction, TLAPS

-----------------------------------------------------------------------------
(* Sequences of steps *)

\* The four steps that the tools fold over a sequence.
Step(kind, d, x) ==
    CASE kind = "ensureRow" -> EnsureSeedRow(d, x)
      [] kind = "insertRow" -> InsertSeed(d, x)
      [] kind = "ensureIssue" -> EnsureIssue(d, x)
      [] kind = "insertIssue" -> InsertSeededIssue(d, x)

LEMMA LeastNatural ==
  ASSUME NEW T, T \subseteq Nat, T # {}
  PROVE  \E n \in T : \A m \in T : n <= m
<1>. DEFINE R == OpToRel(<, Nat)
<1>1. \A m, n \in Nat : m < n => <<m, n>> \in R
  BY Zenon DEF OpToRel
<1>2. IsWellFoundedOn(R, Nat)
  BY NatLessThanWellFounded
<1>. HIDE DEF R
<1>3. PICK n \in T : \A m \in T : <<m, n>> \notin R
  BY <1>2, WFMin, Zenon
<1>4. ASSUME NEW m \in T
      PROVE  n <= m
  <2>1. m \in Nat /\ n \in Nat
    OBVIOUS
  <2>2. ~(m < n)
    BY <1>1, <1>3, <2>1
  <2>. QED
    BY <2>1, <2>2
<1>. QED
  BY <1>4

LEMMA MaxOfSegment ==
  /\ \A N \in Nat : \A s \in SUBSET (1 .. N + 1) :
       N + 1 \in s => Max(s) = N + 1 /\ s \ {Max(s)} \in SUBSET (1 .. N)
  /\ \A n \in Nat : n # 0 => Max(1 .. n) = n /\ (1 .. n) \ {n} = 1 .. n - 1
<1>1. ASSUME NEW N \in Nat, NEW s \in SUBSET (1 .. N + 1), N + 1 \in s
      PROVE  Max(s) = N + 1
  <2>1. \A y \in s : N + 1 >= y
    OBVIOUS
  <2>2. \A x \in s : (\A y \in s : x >= y) => x = N + 1
    BY <1>1
  <2>. QED
    BY <1>1, <2>1, <2>2 DEF Max
<1>2. ASSUME NEW N \in Nat, NEW s \in SUBSET (1 .. N + 1), N + 1 \in s
      PROVE  s \ {N + 1} \in SUBSET (1 .. N)
  OBVIOUS
<1>3. ASSUME NEW n \in Nat, n # 0
      PROVE  Max(1 .. n) = n /\ (1 .. n) \ {n} = 1 .. n - 1
  <2>1. n - 1 \in Nat /\ 1 .. n \in SUBSET (1 .. (n - 1) + 1) /\ (n - 1) + 1 \in 1 .. n /\ (n - 1) + 1 = n
    BY <1>3
  <2>2. Max(1 .. n) = (n - 1) + 1
    BY <1>1, <2>1
  <2>. QED
    BY <2>1, <2>2
<1>. QED
  BY <1>1, <1>2, <1>3

IsFold(kind, d, seq, N, f) ==
  f = [s \in SUBSET (1 .. N) |->
         IF s = {} THEN d ELSE Step(kind, f[s \ {Max(s)}], seq[Max(s)])]

LEMMA FoldsAreDefined ==
  ASSUME NEW kind, NEW d, NEW seq
  PROVE  \A N \in Nat : \E f : IsFold(kind, d, seq, N, f)
<1>. DEFINE Fold(f, N) == IsFold(kind, d, seq, N, f)
            T == {N \in Nat : ~\E f : Fold(f, N)}
<1>1. SUFFICES ASSUME T # {}
               PROVE  FALSE
  OBVIOUS
<1>2. PICK N \in T : \A m \in T : N <= m
  <2>. HIDE DEF T
  <2>1. T \subseteq Nat
    BY DEF T
  <2>. QED
    BY <1>1, <2>1, LeastNatural
<1>3. N # 0
  <2>1. Fold([s \in {{}} |-> d], 0)
    <3>1. SUBSET (1 .. 0) = {{}}
      OBVIOUS
    <3>. QED  BY <3>1 DEF IsFold
  <2>. HIDE DEF Fold
  <2>. QED  BY <2>1
<1>4. PICK M \in Nat : N = M + 1
  BY <1>3
<1>5. PICK f : Fold(f, M)
  <2>1. M \notin T
    <3>. HIDE DEF T
    <3>. QED  BY <1>2, <1>4
  <2>. HIDE DEF Fold
  <2>. QED
    BY <2>1
<1>. DEFINE g == [s \in SUBSET (1 .. N) |->
                    IF N \in s THEN Step(kind, f[s \ {N}], seq[N]) ELSE f[s]]
<1>6. Fold(g, N)
  <2>1. ASSUME NEW s \in SUBSET (1 .. N), N \in s
        PROVE  g[s] = Step(kind, g[s \ {Max(s)}], seq[Max(s)]) /\ s # {}
    <3>1. Max(s) = N /\ s \ {N} \in SUBSET (1 .. M) /\ s \ {N} \in SUBSET (1 .. N)
      BY <1>4, <2>1, MaxOfSegment
    <3>2. g[s \ {N}] = f[s \ {N}] /\ g[s] = Step(kind, f[s \ {N}], seq[N])
      BY <2>1, <3>1
    <3>. QED
      BY <2>1, <3>1, <3>2
  <2>2. ASSUME NEW s \in SUBSET (1 .. N), N \notin s, s # {}
        PROVE  g[s] = Step(kind, g[s \ {Max(s)}], seq[Max(s)])
    <3>1. \A x \in s : x \in 1 .. M
      BY <1>4, <2>2
    <3>. HIDE DEF g
    <3>1a. s \in SUBSET (1 .. M) /\ s \ {Max(s)} \in SUBSET (1 .. N)
      BY <3>1
    <3>. USE DEF g
    <3>2. g[s] = f[s] /\ g[s \ {Max(s)}] = f[s \ {Max(s)}]
      BY <2>2, <3>1a
    <3>3. f[s] = Step(kind, f[s \ {Max(s)}], seq[Max(s)])
      BY <1>5, <2>2, <3>1a DEF IsFold
    <3>. QED
      BY <3>2, <3>3
  <2>3. g[{}] = d
    BY <1>5 DEF IsFold
  <2>4. g = [s \in SUBSET (1 .. N) |-> g[s]]
    OBVIOUS
  <2>. HIDE DEF g
  <2>. QED  BY <2>1, <2>2, <2>3, <2>4 DEF IsFold
<1>. HIDE DEF Fold
<1>. QED
  BY <1>6

\* The states that steps lead through.
AreStates(kind, d, seq, N, s) ==
    /\ s[0] = d
    /\ \A n \in 1 .. N : s[n] = Step(kind, s[n - 1], seq[n])

LEMMA StatesOfFold ==
  ASSUME NEW kind, NEW d, NEW seq, NEW N \in Nat, NEW f,
         IsFold(kind, d, seq, N, f)
  PROVE  \E s : AreStates(kind, d, seq, N, s) /\ s[N] = f[1 .. N]
<1>. DEFINE s == [n \in 0 .. N |-> f[1 .. n]]
<1>1. ASSUME NEW n \in 1 .. N
      PROVE  s[n] = Step(kind, s[n - 1], seq[n])
  <2>1. n \in Nat /\ n # 0 /\ n \in 1 .. n /\ 1 .. n \in SUBSET (1 .. N)
    OBVIOUS
  <2>2. Max(1 .. n) = n /\ (1 .. n) \ {n} = 1 .. n - 1
    BY <2>1, MaxOfSegment
  <2>3. f[1 .. n] = Step(kind, f[1 .. n - 1], seq[n])
    BY <2>1, <2>2 DEF IsFold
  <2>. QED
    BY <2>3
<1>2. s[0] = d /\ s[N] = f[1 .. N]
  <2>1. 1 .. 0 = {} /\ {} \in SUBSET (1 .. N) /\ 0 \in 0 .. N /\ N \in 0 .. N
    OBVIOUS
  <2>2. f[{}] = d
    BY <2>1 DEF IsFold
  <2>. QED
    BY <2>1, <2>2
<1>. HIDE DEF s
<1>. QED
  BY <1>1, <1>2 DEF AreStates

\* What a fold computes is reached step by step.
LEMMA StatesOfEnsuredRows ==
  ASSUME NEW d, NEW seq, NEW N \in Nat, DOMAIN seq = 1 .. N
  PROVE  \E s : /\ AreStates("ensureRow", d, seq, N, s)
                /\ s[N] = FoldLeft(EnsureSeedRow, d, seq)
<1>. DEFINE iter[s \in SUBSET DOMAIN seq] ==
              IF s = {} THEN d
              ELSE EnsureSeedRow(iter[s \ {Max(s)}], seq[Max(s)])
<1>1. FoldLeft(EnsureSeedRow, d, seq) = iter[DOMAIN seq]
  BY DEF FoldLeft, MapThenFoldSet
<1>2. iter = [s \in SUBSET DOMAIN seq |->
                IF s = {} THEN d
                ELSE EnsureSeedRow(iter[s \ {Max(s)}], seq[Max(s)])]
  <2>1. \A e, x : Step("ensureRow", e, x) = EnsureSeedRow(e, x)
    BY DEF Step
  <2>2. PICK f : IsFold("ensureRow", d, seq, N, f)
    BY FoldsAreDefined
  <2>3. f = [s \in SUBSET DOMAIN seq |->
               IF s = {} THEN d
               ELSE EnsureSeedRow(f[s \ {Max(s)}], seq[Max(s)])]
    BY <2>1, <2>2 DEF IsFold
  <2>. QED
    BY <2>3
<1>. HIDE DEF iter
<1>3. IsFold("ensureRow", d, seq, N, iter)
  BY <1>2 DEF IsFold, Step
<1>. QED
  BY <1>1, <1>3, StatesOfFold

LEMMA StatesOfInsertedRows ==
  ASSUME NEW d, NEW seq, NEW N \in Nat, DOMAIN seq = 1 .. N
  PROVE  \E s : /\ AreStates("insertRow", d, seq, N, s)
                /\ s[N] = FoldLeft(InsertSeed, d, seq)
<1>. DEFINE iter[s \in SUBSET DOMAIN seq] ==
              IF s = {} THEN d
              ELSE InsertSeed(iter[s \ {Max(s)}], seq[Max(s)])
<1>1. FoldLeft(InsertSeed, d, seq) = iter[DOMAIN seq]
  BY DEF FoldLeft, MapThenFoldSet
<1>2. iter = [s \in SUBSET DOMAIN seq |->
                IF s = {} THEN d
                ELSE InsertSeed(iter[s \ {Max(s)}], seq[Max(s)])]
  <2>1. \A e, x : Step("insertRow", e, x) = InsertSeed(e, x)
    BY DEF Step
  <2>2. PICK f : IsFold("insertRow", d, seq, N, f)
    BY FoldsAreDefined
  <2>3. f = [s \in SUBSET DOMAIN seq |->
               IF s = {} THEN d
               ELSE InsertSeed(f[s \ {Max(s)}], seq[Max(s)])]
    BY <2>1, <2>2 DEF IsFold
  <2>. QED
    BY <2>3
<1>. HIDE DEF iter
<1>3. IsFold("insertRow", d, seq, N, iter)
  BY <1>2 DEF IsFold, Step
<1>. QED
  BY <1>1, <1>3, StatesOfFold

LEMMA StatesOfEnsuredIssues ==
  ASSUME NEW d, NEW seq, NEW N \in Nat, DOMAIN seq = 1 .. N
  PROVE  \E s : /\ AreStates("ensureIssue", d, seq, N, s)
                /\ s[N] = FoldLeft(EnsureIssue, d, seq)
<1>. DEFINE iter[s \in SUBSET DOMAIN seq] ==
              IF s = {} THEN d
              ELSE EnsureIssue(iter[s \ {Max(s)}], seq[Max(s)])
<1>1. FoldLeft(EnsureIssue, d, seq) = iter[DOMAIN seq]
  BY DEF FoldLeft, MapThenFoldSet
<1>2. iter = [s \in SUBSET DOMAIN seq |->
                IF s = {} THEN d
                ELSE EnsureIssue(iter[s \ {Max(s)}], seq[Max(s)])]
  <2>1. \A e, x : Step("ensureIssue", e, x) = EnsureIssue(e, x)
    BY DEF Step
  <2>2. PICK f : IsFold("ensureIssue", d, seq, N, f)
    BY FoldsAreDefined
  <2>3. f = [s \in SUBSET DOMAIN seq |->
               IF s = {} THEN d
               ELSE EnsureIssue(f[s \ {Max(s)}], seq[Max(s)])]
    BY <2>1, <2>2 DEF IsFold
  <2>. QED
    BY <2>3
<1>. HIDE DEF iter
<1>3. IsFold("ensureIssue", d, seq, N, iter)
  BY <1>2 DEF IsFold, Step
<1>. QED
  BY <1>1, <1>3, StatesOfFold

LEMMA StatesOfInsertedIssues ==
  ASSUME NEW d, NEW seq, NEW N \in Nat, DOMAIN seq = 1 .. N
  PROVE  \E s : /\ AreStates("insertIssue", d, seq, N, s)
                /\ s[N] = FoldLeft(InsertSeededIssue, d, seq)
<1>. DEFINE iter[s \in SUBSET DOMAIN seq] ==
              IF s = {} THEN d
              ELSE InsertSeededIssue(iter[s \ {Max(s)}], seq[Max(s)])
<1>1. FoldLeft(InsertSeededIssue, d, seq) = iter[DOMAIN seq]
  BY DEF FoldLeft, MapThenFoldSet
<1>2. iter = [s \in SUBSET DOMAIN seq |->
                IF s = {} THEN d
                ELSE InsertSeededIssue(iter[s \ {Max(s)}], seq[Max(s)])]
  <2>1. \A e, x : Step("insertIssue", e, x) = InsertSeededIssue(e, x)
    BY DEF Step
  <2>2. PICK f : IsFold("insertIssue", d, seq, N, f)
    BY FoldsAreDefined
  <2>3. f = [s \in SUBSET DOMAIN seq |->
               IF s = {} THEN d
               ELSE InsertSeededIssue(f[s \ {Max(s)}], seq[Max(s)])]
    BY <2>1, <2>2 DEF IsFold
  <2>. QED
    BY <2>3
<1>. HIDE DEF iter
<1>3. IsFold("insertIssue", d, seq, N, iter)
  BY <1>2 DEF IsFold, Step
<1>. QED
  BY <1>1, <1>3, StatesOfFold

\* Induction along the states, up and down.
LEMMA Upward ==
  ASSUME NEW N \in Nat, NEW Good \in SUBSET (0 .. N), 0 \in Good,
         \A n \in 1 .. N : n - 1 \in Good => n \in Good
  PROVE  \A n \in 0 .. N : n \in Good
<1>. DEFINE Bad == (0 .. N) \ Good
<1>1. SUFFICES ASSUME Bad # {}
               PROVE  FALSE
  OBVIOUS
<1>2. PICK n \in Bad : \A m \in Bad : n <= m
  <2>1. Bad \subseteq Nat
    OBVIOUS
  <2>. HIDE DEF Bad
  <2>. QED  BY <1>1, <2>1, LeastNatural
<1>3. n \in 1 .. N /\ n - 1 \in 0 .. N /\ ~(n <= n - 1)
  OBVIOUS
<1>4. n - 1 \in Good
  BY <1>2, <1>3
<1>. QED
  BY <1>3, <1>4

LEMMA Downward ==
  ASSUME NEW N \in Nat, NEW Good \in SUBSET (0 .. N), N \in Good,
         \A n \in 1 .. N : n \in Good => n - 1 \in Good
  PROVE  \A n \in 0 .. N : n \in Good
<1>. DEFINE Mirror == {n \in 0 .. N : N - n \in Good}
<1>1. 0 \in Mirror /\ Mirror \in SUBSET (0 .. N)
  OBVIOUS
<1>2. ASSUME NEW n \in 1 .. N, n - 1 \in Mirror
      PROVE  n \in Mirror
  <2>1. N - (n - 1) \in 1 .. N /\ N - (n - 1) \in Good
    BY <1>2
  <2>2. (N - (n - 1)) - 1 = N - n
    OBVIOUS
  <2>3. (N - (n - 1)) - 1 \in Good
    BY <2>1
  <2>. QED
    BY <2>2, <2>3
<1>. HIDE DEF Mirror
<1>3. \A n \in 0 .. N : n \in Mirror
  BY <1>1, <1>2, Upward
<1>4. ASSUME NEW n \in 0 .. N
      PROVE  n \in Good
  <2>1. N - n \in 0 .. N /\ N - (N - n) = n
    OBVIOUS
  <2>. QED
    BY <1>3, <2>1 DEF Mirror
<1>. QED
  BY <1>4

\* The sequence of a finite set lists its elements.
LEMMA SetsAreListed ==
  ASSUME NEW S, IsFiniteSet(S)
  PROVE  /\ Cardinality(S) \in Nat
         /\ SetToSeq(S) \in [1 .. Cardinality(S) -> S]
         /\ \A x \in S : \E n \in 1 .. Cardinality(S) : SetToSeq(S)[n] = x
         /\ \A m, n \in 1 .. Cardinality(S) :
              SetToSeq(S)[m] = SetToSeq(S)[n] => m = n
<1>1. Cardinality(S) \in Nat /\ ExistsBijection(1 .. Cardinality(S), S)
  BY FS_CardinalityType
<1>2. \E f \in [1 .. Cardinality(S) -> S] : IsInjective(f)
  BY <1>1 DEF ExistsBijection, Bijection, Injection, IsInjective
<1>3. /\ SetToSeq(S) \in [1 .. Cardinality(S) -> S]
      /\ IsInjective(SetToSeq(S))
  BY <1>2 DEF SetToSeq
<1>4. SetToSeq(S) \in Injection(1 .. Cardinality(S), S)
  BY <1>3 DEF Injection, IsInjective
<1>5. Cardinality(1 .. Cardinality(S)) = Cardinality(S)
  BY <1>1, FS_Interval
<1>6. SetToSeq(S) \in Surjection(1 .. Cardinality(S), S)
  BY <1>4, <1>5, FS_Injection
<1>. QED
  BY <1>1, <1>3, <1>6 DEF Surjection, IsInjective

-----------------------------------------------------------------------------
(* Databases *)

\* The parts of IsDatabase.
IsShaped(d) ==
    /\ d \in [rows : {d.rows}, next : [Tables -> Nat \ {0}],
              nextIssue : Nat \ {0},
              links : {d.links}, issues : {d.issues}, comments : {d.comments},
              accounts : {d.accounts}, tracked : {d.tracked}, ok : BOOLEAN]
    /\ d.rows = [t \in Tables |-> d.rows[t]]

RowsAreTyped(d) ==
    \A t \in Tables :
        /\ d.rows[t] \in [DOMAIN d.rows[t] -> STRING]
        /\ DOMAIN d.rows[t] \subseteq 1 .. d.next[t] - 1

LinksAreTyped(d) ==
    \A l \in d.links : \A ref \in {l[2], l[3]} :
        ref = <<ref[1], ref[2]>> /\ ref[1] \in Tables /\ Exists(d, ref)

IssuesAreTyped(d) ==
    \A i \in d.issues :
        i \in [id : 1 .. d.nextIssue - 1,
               project : DOMAIN d.rows["Projects"],
               name : STRING, seeded : BOOLEAN]

CommentsAreTyped(d) == \A c \in d.comments : Exists(d, <<"Users", c[1]>>)

RecordsAreTyped(d) ==
    /\ d.tracked = [key \in DOMAIN d.tracked |-> d.tracked[key]]
    /\ DOMAIN d.tracked \subseteq SeedKeys
    /\ \A key \in DOMAIN d.tracked : WasGiven(d, d.tracked[key])
    /\ IsInjective(d.tracked)

LEMMA PartsOfDatabase ==
  \A d : IsDatabase(d) <=>
           /\ IsShaped(d) /\ RowsAreTyped(d) /\ LinksAreTyped(d)
           /\ IssuesAreTyped(d) /\ CommentsAreTyped(d) /\ RecordsAreTyped(d)
BY Zenon DEF IsDatabase, IsShaped, RowsAreTyped, LinksAreTyped, IssuesAreTyped,
       CommentsAreTyped, RecordsAreTyped

\* A record of a seed is of a row of the seed's table.
RecordsAreOfTheirTable(d) ==
    \A seed \in Range(Seeds) :
        seed.key \in DOMAIN d.tracked => d.tracked[seed.key][1] = seed.table

LEMMA SeedsAreTyped ==
  /\ Len(Seeds) \in Nat /\ DOMAIN Seeds = 1 .. Len(Seeds)
  /\ \A n \in 1 .. Len(Seeds) : Seeds[n] \in Range(Seeds)
  /\ \A seed \in Range(Seeds) :
       /\ seed.table \in Tables /\ seed.key \in STRING
       /\ seed.key \in SeedKeys /\ seed.key # Other
  /\ \A seed, other \in Range(Seeds) : seed.key = other.key => seed = other
  /\ \A key \in SeedKeys : \E seed \in Range(Seeds) : key = seed.key
<1>1. Len(Seeds) \in Nat /\ DOMAIN Seeds = 1 .. Len(Seeds)
  BY SeedsAreRows
<1>2. Range(Seeds) = {Seeds[n] : n \in DOMAIN Seeds}
  BY DEF Range
<1>3. \A n \in DOMAIN Seeds : Seeds[n] \in [table : Tables, key : STRING]
  <2>. DEFINE Row == [table : Tables, key : STRING]
  <2>1. Seeds \in Seq(Row)
    BY SeedsAreRows
  <2>. HIDE DEF Row
  <2>2. \A n \in 1 .. Len(Seeds) : Seeds[n] \in Row
    BY <2>1
  <2>. QED
    BY <1>1, <2>2 DEF Row
<1>4. \A key \in SeedKeys : \E seed \in Range(Seeds) : key = seed.key
  BY DEF SeedKeys
<1>5. \A seed \in Range(Seeds) : seed.key \in SeedKeys
  BY DEF SeedKeys
<1>6. \A seed, other \in Range(Seeds) : seed.key = other.key => seed = other
  BY <1>2, KeysAreUnique
<1>. QED
  BY <1>1, <1>2, <1>3, <1>4, <1>5, <1>6, OtherIsAName

LEMMA MinOfIds ==
  ASSUME NEW S, S \subseteq Nat, S # {}
  PROVE  Min(S) \in S /\ \A id \in S : Min(S) <= id
BY LeastNatural DEF Min

Renamed(f, id, name) == [i \in DOMAIN f |-> IF i = id THEN name ELSE f[i]]

LEMMA RowIsUpdated ==
  ASSUME NEW d, IsShaped(d), NEW u \in Tables, NEW id, NEW name, NEW e,
         e = UpdateRow(d, u, id, name)
  PROVE  /\ IsShaped(e)
         /\ e.rows[u] = Renamed(d.rows[u], id, name)
         /\ \A t \in Tables \ {u} : e.rows[t] = d.rows[t]
         /\ e.next = d.next /\ e.nextIssue = d.nextIssue
         /\ e.links = d.links /\ e.issues = d.issues
         /\ e.comments = d.comments /\ e.accounts = d.accounts
         /\ e.tracked = d.tracked
         /\ e.ok => d.ok
         /\ e.ok => NameIsFree(d, u, id, name)
<1>. DEFINE rows == [t \in Tables |->
                       IF t = u
                       THEN Renamed(d.rows[u], id, name)
                       ELSE d.rows[t]]
            free == NameIsFree(d, u, id, name)
<1>1. free \in BOOLEAN
  BY DEF NameIsFree
<1>2. [d.rows EXCEPT ![u] = [i \in DOMAIN @ |-> IF i = id THEN name ELSE @[i]]]
        = rows
  BY DEF IsShaped, Renamed
<1>3. e = [d EXCEPT !.rows = rows, !.ok = d.ok /\ free]
  BY <1>2 DEF UpdateRow, IsShaped
<1>4. rows = [t \in Tables |-> rows[t]]
  OBVIOUS
<1>. HIDE DEF rows, free
<1>5. e \in [rows : {rows}, next : [Tables -> Nat \ {0}],
             nextIssue : Nat \ {0},
             links : {d.links}, issues : {d.issues}, comments : {d.comments},
             accounts : {d.accounts}, tracked : {d.tracked}, ok : BOOLEAN]
  BY <1>1, <1>3 DEF IsShaped
<1>6. /\ e.next = d.next /\ e.nextIssue = d.nextIssue /\ e.rows = rows
      /\ e.ok = (d.ok /\ free)
  BY <1>1, <1>3 DEF IsShaped
<1>7. IsShaped(e)
  BY <1>4, <1>5 DEF IsShaped
<1>. QED
  BY <1>5, <1>6, <1>7 DEF rows, free

LEMMA RowIsInserted ==
  ASSUME NEW d, IsShaped(d), NEW u \in Tables, NEW name, NEW e,
         e = InsertRow(d, u, name)
  PROVE  /\ IsShaped(e)
         /\ e.rows[u] = Put(d.rows[u], d.next[u], name)
         /\ e.next[u] = d.next[u] + 1
         /\ \A t \in Tables \ {u} :
              e.rows[t] = d.rows[t] /\ e.next[t] = d.next[t]
         /\ e.nextIssue = d.nextIssue
         /\ e.links = d.links /\ e.issues = d.issues
         /\ e.comments = d.comments /\ e.accounts = d.accounts
         /\ e.tracked = d.tracked
         /\ e.ok => d.ok
<1>. DEFINE rows == [t \in Tables |->
                       IF t = u THEN Put(d.rows[u], d.next[u], name)
                       ELSE d.rows[t]]
            next == [t \in Tables |->
                       IF t = u THEN d.next[t] + 1 ELSE d.next[t]]
            free == NameIsFree(d, u, NewId(d, u), name)
<1>1. free \in BOOLEAN
  BY DEF NameIsFree
<1>2. [d.rows EXCEPT ![u] = Put(@, NewId(d, u), name)] = rows
  BY DEF IsShaped, NewId
<1>3. [d.next EXCEPT ![u] = @ + 1] = next
  BY DEF IsShaped
<1>4. e = [d EXCEPT !.next = next, !.rows = rows, !.ok = d.ok /\ free]
  BY <1>2, <1>3 DEF InsertRow, IsShaped
<1>5. rows = [t \in Tables |-> rows[t]] /\ next \in [Tables -> Nat \ {0}]
  BY DEF IsShaped
<1>. HIDE DEF rows, next, free
<1>6. e \in [rows : {rows}, next : {next},
             nextIssue : Nat \ {0},
             links : {d.links}, issues : {d.issues}, comments : {d.comments},
             accounts : {d.accounts}, tracked : {d.tracked}, ok : BOOLEAN]
  BY <1>1, <1>4 DEF IsShaped
<1>7. e.nextIssue = d.nextIssue /\ e.ok = (d.ok /\ free)
  BY <1>1, <1>4 DEF IsShaped
<1>8. IsShaped(e)
  BY <1>5, <1>6 DEF IsShaped
<1>. QED
  BY <1>6, <1>7, <1>8 DEF rows, next, free

\* What a step of seeding leaves and adds: the row id of the seed's table bears
\* its name and is the one that is recorded; all others stay.
Seeds1(d, e, seed, id) ==
    /\ e.rows[seed.table][id] = seed.key
    /\ id \in DOMAIN e.rows[seed.table]
    /\ e.tracked = Put(d.tracked, seed.key, <<seed.table, id>>)
    /\ seed.table = "Users" => id \in e.accounts
    /\ d.accounts \subseteq e.accounts
    /\ e.links = d.links /\ e.issues = d.issues /\ e.comments = d.comments
    /\ e.nextIssue = d.nextIssue
    /\ \A t \in Tables :
        /\ d.next[t] <= e.next[t]
        /\ DOMAIN d.rows[t] \subseteq DOMAIN e.rows[t]
        /\ \A i \in DOMAIN d.rows[t] :
            <<t, i>> # <<seed.table, id>> => e.rows[t][i] = d.rows[t][i]
    /\ \/ id \notin DOMAIN d.rows[seed.table]
       \/ d.rows[seed.table][id] = seed.key
       \/ /\ seed.key \in DOMAIN d.tracked
          /\ d.tracked[seed.key] = <<seed.table, id>>

\* Recording a row.
LEMMA RowIsRecorded ==
  ASSUME NEW d, IsShaped(d), NEW key, NEW ref, NEW e,
         e = UpsertTrackedEntity(d, key, ref)
  PROVE  /\ IsShaped(e)
         /\ e.tracked = Put(d.tracked, key, ref)
         /\ e.rows = d.rows /\ e.next = d.next /\ e.nextIssue = d.nextIssue
         /\ e.links = d.links /\ e.issues = d.issues
         /\ e.comments = d.comments /\ e.accounts = d.accounts
         /\ e.ok => d.ok
         /\ e.ok => \A k \in DOMAIN d.tracked \ {key} : d.tracked[k] # ref
<1>. DEFINE tracked == Put(d.tracked, key, ref)
            free == \A k \in DOMAIN d.tracked \ {key} : d.tracked[k] # ref
<1>1. free \in BOOLEAN
  OBVIOUS
<1>2. e = [d EXCEPT !.tracked = tracked, !.ok = d.ok /\ free]
  BY DEF UpsertTrackedEntity, IsShaped
<1>. HIDE DEF tracked, free
<1>3. e \in [rows : {d.rows}, next : {d.next}, nextIssue : {d.nextIssue},
             links : {d.links}, issues : {d.issues}, comments : {d.comments},
             accounts : {d.accounts}, tracked : {tracked}, ok : BOOLEAN]
  BY <1>1, <1>2 DEF IsShaped
<1>4. e.ok = (d.ok /\ free)
  BY <1>1, <1>2 DEF IsShaped
<1>5. IsShaped(e)
  BY <1>3 DEF IsShaped
<1>. QED
  BY <1>3, <1>4, <1>5 DEF tracked, free

LEMMA AccountIsEnsured ==
  ASSUME NEW d, IsShaped(d), NEW seed, NEW id, NEW e,
         e = EnsureAccount(d, seed, id)
  PROVE  /\ IsShaped(e)
         /\ d.accounts \subseteq e.accounts
         /\ seed.table = "Users" => id \in e.accounts
         /\ e.tracked = d.tracked
         /\ e.rows = d.rows /\ e.next = d.next /\ e.nextIssue = d.nextIssue
         /\ e.links = d.links /\ e.issues = d.issues
         /\ e.comments = d.comments
         /\ e.ok = d.ok
<1>. DEFINE accounts == IF seed.table = "Users" THEN d.accounts \cup {id}
                        ELSE d.accounts
<1>1. e = [d EXCEPT !.accounts = accounts]
  BY DEF EnsureAccount, IsShaped
<1>2. /\ d.accounts \subseteq accounts
      /\ seed.table = "Users" => id \in accounts
  OBVIOUS
<1>. HIDE DEF accounts
<1>3. e \in [rows : {d.rows}, next : {d.next}, nextIssue : {d.nextIssue},
             links : {d.links}, issues : {d.issues}, comments : {d.comments},
             accounts : {accounts}, tracked : {d.tracked}, ok : BOOLEAN]
  BY <1>1 DEF IsShaped
<1>4. e.ok = d.ok
  BY <1>1 DEF IsShaped
<1>5. IsShaped(e)
  BY <1>3 DEF IsShaped
<1>. QED
  BY <1>2, <1>3, <1>4, <1>5

\* A record replaced by one of a row that is of no other seed.
LEMMA RecordsStayTyped ==
  ASSUME NEW d, NEW e, RecordsAreTyped(d), RecordsAreOfTheirTable(d),
         NEW seed \in Range(Seeds), NEW id, WasGiven(e, <<seed.table, id>>),
         \A k \in DOMAIN d.tracked \ {seed.key} :
            d.tracked[k] # <<seed.table, id>>,
         e.tracked = Put(d.tracked, seed.key, <<seed.table, id>>),
         \A t \in Tables : d.next[t] <= e.next[t],
         IsShaped(d), IsShaped(e)
  PROVE  RecordsAreTyped(e) /\ RecordsAreOfTheirTable(e)
<1>. DEFINE ref == <<seed.table, id>>
<1>1. /\ DOMAIN e.tracked = DOMAIN d.tracked \cup {seed.key}
      /\ \A k \in DOMAIN d.tracked \ {seed.key} : e.tracked[k] = d.tracked[k]
      /\ e.tracked[seed.key] = ref
      /\ e.tracked = [k \in DOMAIN e.tracked |-> e.tracked[k]]
  BY DEF Put
<1>2. DOMAIN e.tracked \subseteq SeedKeys
  BY <1>1, SeedsAreTyped DEF RecordsAreTyped
<1>3. ASSUME NEW key \in DOMAIN e.tracked
      PROVE  WasGiven(e, e.tracked[key])
  <2>1. CASE key = seed.key
    BY <1>1, <2>1
  <2>2. CASE key # seed.key
    <3>1. key \in DOMAIN d.tracked /\ e.tracked[key] = d.tracked[key]
      BY <1>1, <2>2
    <3>2. WasGiven(d, d.tracked[key])
      BY <3>1 DEF RecordsAreTyped
    <3>. QED
      BY <3>1, <3>2 DEF WasGiven, IsShaped
  <2>. QED
    BY <2>1, <2>2
<1>4. IsInjective(e.tracked)
  <2>1. IsInjective(d.tracked)
    BY DEF RecordsAreTyped
  <2>. QED
    BY <1>1, <2>1 DEF IsInjective
<1>5. RecordsAreOfTheirTable(e)
  <2>1. ASSUME NEW other \in Range(Seeds), other.key \in DOMAIN e.tracked
        PROVE  e.tracked[other.key][1] = other.table
    <3>1. CASE other.key = seed.key
      BY <1>1, <3>1, SeedsAreTyped
    <3>2. CASE other.key # seed.key
      BY <1>1, <2>1, <3>2 DEF RecordsAreOfTheirTable
    <3>. QED
      BY <3>1, <3>2
  <2>. QED
    BY <2>1 DEF RecordsAreOfTheirTable
<1>. QED
  BY <1>1, <1>2, <1>3, <1>4, <1>5 DEF RecordsAreTyped

\* Rows that are added or renamed keep what hangs on rows.
LEMMA HangersStayTyped ==
  ASSUME NEW d, NEW e, IsShaped(d), IsShaped(e),
         \A t \in Tables : DOMAIN d.rows[t] \subseteq DOMAIN e.rows[t],
         e.links = d.links, e.issues = d.issues, e.comments = d.comments,
         e.nextIssue = d.nextIssue,
         LinksAreTyped(d), IssuesAreTyped(d), CommentsAreTyped(d)
  PROVE  LinksAreTyped(e) /\ IssuesAreTyped(e) /\ CommentsAreTyped(e)
<1>1. LinksAreTyped(e)
  BY DEF LinksAreTyped, Exists
<1>2. CommentsAreTyped(e)
  <2>1. "Users" \in Tables
    BY DEF Tables
  <2>. QED
    BY <2>1 DEF CommentsAreTyped, Exists
<1>3. IssuesAreTyped(e)
  <2>1. "Projects" \in Tables
    BY DEF Tables
  <2>. QED
    BY <2>1 DEF IssuesAreTyped
<1>. QED
  BY <1>1, <1>2, <1>3

-----------------------------------------------------------------------------
(* Seeding rows *)

LEMMA EnsuredRowIsShaped ==
  ASSUME NEW d, IsShaped(d), NEW seed \in Range(Seeds), NEW e,
         e = EnsureSeedRow(d, seed)
  PROVE  IsShaped(e) /\ (e.ok => d.ok)
<1>. DEFINE found == FindEntity(d, seed)
            id == IF found = {} THEN NewId(d, seed.table) ELSE Min(found)
            written == IF found = {} THEN InsertRow(d, seed.table, seed.key)
                       ELSE UpdateRow(d, seed.table, id, seed.key)
            signed == EnsureAccount(written, seed, id)
<1>1. e = UpsertTrackedEntity(signed, seed.key, <<seed.table, id>>)
  BY DEF EnsureSeedRow
<1>2. seed.table \in Tables
  BY SeedsAreTyped
<1>3. IsShaped(written) /\ (written.ok => d.ok)
  <2>1. CASE found = {}
    <3>. HIDE DEF found, id
    <3>1. written = InsertRow(d, seed.table, seed.key)
      BY <2>1
    <3>. QED
      BY <1>2, <3>1, RowIsInserted
  <2>2. CASE found # {}
    <3>. HIDE DEF found, id
    <3>1. written = UpdateRow(d, seed.table, id, seed.key)
      BY <2>2
    <3>. QED
      BY <1>2, <3>1, RowIsUpdated
  <2>. QED
    BY <2>1, <2>2
<1>. HIDE DEF written, id
<1>4. IsShaped(signed) /\ signed.ok = written.ok
  BY <1>3, AccountIsEnsured
<1>. HIDE DEF signed
<1>5. IsShaped(e) /\ (e.ok => signed.ok)
  BY <1>1, <1>4, RowIsRecorded
<1>. QED
  BY <1>3, <1>4, <1>5

LEMMA InsertedSeedIsShaped ==
  ASSUME NEW d, IsShaped(d), NEW seed \in Range(Seeds), NEW e,
         e = InsertSeed(d, seed)
  PROVE  IsShaped(e) /\ (e.ok => d.ok)
<1>. DEFINE written == InsertRow(d, seed.table, seed.key)
            ref == <<seed.table, Min(Named(written, seed.table, seed.key))>>
            signed == EnsureAccount(written, seed, ref[2])
<1>1. e = UpsertTrackedEntity(signed, seed.key, ref)
  BY DEF InsertSeed
<1>2. seed.table \in Tables
  BY SeedsAreTyped
<1>3. IsShaped(written) /\ (written.ok => d.ok)
  <2>. HIDE DEF ref
  <2>. QED
    BY <1>2, RowIsInserted
<1>. HIDE DEF written, ref
<1>4. IsShaped(signed) /\ signed.ok = written.ok
  BY <1>3, AccountIsEnsured
<1>. HIDE DEF signed
<1>5. IsShaped(e) /\ (e.ok => signed.ok)
  BY <1>1, <1>4, RowIsRecorded
<1>. QED
  BY <1>3, <1>4, <1>5

\* Signing in and recording, after the row is there.
LEMMA RowIsSeeded ==
  ASSUME NEW d, IsDatabase(d), RecordsAreOfTheirTable(d),
         NEW seed \in Range(Seeds), NEW written, NEW id, NEW e,
         e = UpsertTrackedEntity(EnsureAccount(written, seed, id),
                                 seed.key, <<seed.table, id>>),
         e.ok,
         IsShaped(written), RowsAreTyped(written),
         written.tracked = d.tracked, written.accounts = d.accounts,
         written.links = d.links, written.issues = d.issues,
         written.comments = d.comments, written.nextIssue = d.nextIssue,
         id \in DOMAIN written.rows[seed.table],
         written.rows[seed.table][id] = seed.key,
         \A t \in Tables :
            /\ d.next[t] <= written.next[t]
            /\ DOMAIN d.rows[t] \subseteq DOMAIN written.rows[t]
            /\ \A i \in DOMAIN d.rows[t] :
                <<t, i>> # <<seed.table, id>> =>
                    written.rows[t][i] = d.rows[t][i],
         \/ id \notin DOMAIN d.rows[seed.table]
         \/ d.rows[seed.table][id] = seed.key
         \/ /\ seed.key \in DOMAIN d.tracked
            /\ d.tracked[seed.key] = <<seed.table, id>>
  PROVE  /\ IsDatabase(e) /\ RecordsAreOfTheirTable(e)
         /\ Seeds1(d, e, seed, id)
<1>. DEFINE ref == <<seed.table, id>>
            signed == EnsureAccount(written, seed, id)
<1>1. seed.table \in Tables
  BY SeedsAreTyped
<1>2. /\ IsShaped(signed) /\ written.accounts \subseteq signed.accounts
      /\ seed.table = "Users" => id \in signed.accounts
      /\ signed.tracked = written.tracked
      /\ signed.rows = written.rows /\ signed.next = written.next
      /\ signed.nextIssue = written.nextIssue
      /\ signed.links = written.links /\ signed.issues = written.issues
      /\ signed.comments = written.comments
  BY AccountIsEnsured
<1>. HIDE DEF signed
<1>3. e = UpsertTrackedEntity(signed, seed.key, ref)
  BY DEF signed
<1>4. /\ IsShaped(e)
      /\ e.tracked = Put(signed.tracked, seed.key, ref)
      /\ e.rows = signed.rows /\ e.next = signed.next
      /\ e.nextIssue = signed.nextIssue
      /\ e.links = signed.links /\ e.issues = signed.issues
      /\ e.comments = signed.comments /\ e.accounts = signed.accounts
      /\ \A k \in DOMAIN signed.tracked \ {seed.key} : signed.tracked[k] # ref
  BY <1>2, <1>3, RowIsRecorded
<1>5. RowsAreTyped(e)
  BY <1>2, <1>4 DEF RowsAreTyped
<1>6. WasGiven(e, ref)
  BY <1>1, <1>2, <1>4, <1>5 DEF WasGiven, RowsAreTyped
<1>7. /\ IsShaped(d) /\ RecordsAreTyped(d) /\ LinksAreTyped(d)
      /\ IssuesAreTyped(d) /\ CommentsAreTyped(d)
  BY PartsOfDatabase
<1>8. RecordsAreTyped(e) /\ RecordsAreOfTheirTable(e)
  <2>1. \A k \in DOMAIN d.tracked \ {seed.key} : d.tracked[k] # ref
    BY <1>2, <1>4
  <2>2. e.tracked = Put(d.tracked, seed.key, ref)
    BY <1>2, <1>4
  <2>3. \A t \in Tables : d.next[t] <= e.next[t]
    BY <1>2, <1>4
  <2>. QED
    BY <1>4, <1>6, <1>7, <2>1, <2>2, <2>3, RecordsStayTyped
<1>9. LinksAreTyped(e) /\ IssuesAreTyped(e) /\ CommentsAreTyped(e)
  BY <1>2, <1>4, <1>7, HangersStayTyped
<1>10. IsDatabase(e)
  BY <1>4, <1>5, <1>8, <1>9, PartsOfDatabase
<1>11. Seeds1(d, e, seed, id)
  BY <1>2, <1>4 DEF Seeds1
<1>. QED
  BY <1>8, <1>10, <1>11

\* What inserting and renaming a row leave.
AddsRow(d, e, u, name) ==
    /\ d.next[u] \notin DOMAIN d.rows[u]
    /\ d.next[u] \in DOMAIN e.rows[u]
    /\ e.rows[u][d.next[u]] = name
    /\ \A t \in Tables :
         /\ d.next[t] <= e.next[t]
         /\ DOMAIN d.rows[t] \subseteq DOMAIN e.rows[t]
         /\ \A i \in DOMAIN d.rows[t] : e.rows[t][i] = d.rows[t][i]
    /\ \A t \in Tables : \A i \in DOMAIN e.rows[t] :
         i \in DOMAIN d.rows[t] \/ <<t, i>> = <<u, d.next[u]>>

RenamesRow(d, e, u, id, name) ==
    /\ e.rows[u][id] = name
    /\ \A t \in Tables :
         /\ DOMAIN e.rows[t] = DOMAIN d.rows[t]
         /\ \A i \in DOMAIN d.rows[t] :
              <<t, i>> # <<u, id>> => e.rows[t][i] = d.rows[t][i]

LEMMA IdsAreNatural ==
  ASSUME NEW d, IsShaped(d), RowsAreTyped(d), NEW t \in Tables
  PROVE  DOMAIN d.rows[t] \subseteq Nat /\ d.next[t] \in Nat \ {0}
BY DEF IsShaped, RowsAreTyped

LEMMA InsertedRow ==
  ASSUME NEW d, IsDatabase(d), NEW u \in Tables, NEW name \in STRING, NEW e,
         e = InsertRow(d, u, name)
  PROVE  /\ RowsAreTyped(e)
         /\ AddsRow(d, e, u, name)
<1>1. IsShaped(d) /\ RowsAreTyped(d)
  BY PartsOfDatabase
<1>2. /\ IsShaped(e)
      /\ e.rows[u] = Put(d.rows[u], d.next[u], name)
      /\ e.next[u] = d.next[u] + 1
      /\ \A t \in Tables \ {u} :
           e.rows[t] = d.rows[t] /\ e.next[t] = d.next[t]
  BY <1>1, RowIsInserted
<1>3. d.next \in [Tables -> Nat \ {0}]
  BY <1>1 DEF IsShaped
<1>4. d.next[u] \notin DOMAIN d.rows[u]
  BY <1>1, <1>3 DEF RowsAreTyped
<1>5. ASSUME NEW t \in Tables
      PROVE  /\ d.next[t] <= e.next[t]
             /\ DOMAIN e.rows[t] \subseteq 1 .. e.next[t] - 1
             /\ e.rows[t] \in [DOMAIN e.rows[t] -> STRING]
             /\ DOMAIN d.rows[t] \subseteq DOMAIN e.rows[t]
             /\ \A i \in DOMAIN d.rows[t] : e.rows[t][i] = d.rows[t][i]
             /\ \A i \in DOMAIN e.rows[t] :
                  i \in DOMAIN d.rows[t] \/ <<t, i>> = <<u, d.next[u]>>
  <2>1. /\ d.rows[t] \in [DOMAIN d.rows[t] -> STRING]
        /\ DOMAIN d.rows[t] \subseteq 1 .. d.next[t] - 1
    BY <1>1 DEF RowsAreTyped
  <2>2. CASE t # u
    BY <1>2, <1>3, <2>1, <2>2
  <2>3. CASE t = u
    <3>1. /\ e.rows[t] = Put(d.rows[t], d.next[t], name)
          /\ e.next[t] = d.next[t] + 1
      BY <1>2, <2>3
    <3>. QED
      BY <1>3, <1>4, <2>1, <2>3, <3>1 DEF Put
  <2>. QED
    BY <2>2, <2>3
<1>6. /\ d.next[u] \in DOMAIN e.rows[u]
      /\ e.rows[u][d.next[u]] = name
  BY <1>2 DEF Put
<1>. QED
  BY <1>4, <1>5, <1>6 DEF RowsAreTyped, AddsRow

LEMMA UpdatedRow ==
  ASSUME NEW d, IsDatabase(d), NEW u \in Tables, NEW name \in STRING,
         NEW id \in DOMAIN d.rows[u], NEW e,
         e = UpdateRow(d, u, id, name)
  PROVE  /\ RowsAreTyped(e)
         /\ RenamesRow(d, e, u, id, name)
<1>1. IsShaped(d) /\ RowsAreTyped(d)
  BY PartsOfDatabase
<1>2. /\ e.rows[u] = Renamed(d.rows[u], id, name)
      /\ \A t \in Tables \ {u} : e.rows[t] = d.rows[t]
      /\ e.next = d.next
  BY <1>1, RowIsUpdated
<1>3. ASSUME NEW t \in Tables
      PROVE  /\ DOMAIN e.rows[t] \subseteq 1 .. e.next[t] - 1
             /\ e.rows[t] \in [DOMAIN e.rows[t] -> STRING]
             /\ DOMAIN e.rows[t] = DOMAIN d.rows[t]
             /\ \A i \in DOMAIN d.rows[t] :
                  <<t, i>> # <<u, id>> => e.rows[t][i] = d.rows[t][i]
  <2>1. /\ d.rows[t] \in [DOMAIN d.rows[t] -> STRING]
        /\ DOMAIN d.rows[t] \subseteq 1 .. d.next[t] - 1
    BY <1>1 DEF RowsAreTyped
  <2>. QED
    BY <1>2, <2>1 DEF Renamed
<1>4. e.rows[u][id] = name
  BY <1>2 DEF Renamed
<1>. QED
  BY <1>3, <1>4 DEF RowsAreTyped, RenamesRow

LEMMA SeedIsEnsured ==
  ASSUME NEW d, IsDatabase(d), RecordsAreOfTheirTable(d),
         NEW seed \in Range(Seeds), NEW e, e = EnsureSeedRow(d, seed), e.ok
  PROVE  /\ IsDatabase(e) /\ RecordsAreOfTheirTable(e)
         /\ \E id : Seeds1(d, e, seed, id)
<1>. DEFINE found == FindEntity(d, seed)
            id == IF found = {} THEN NewId(d, seed.table) ELSE Min(found)
            written == IF found = {} THEN InsertRow(d, seed.table, seed.key)
                       ELSE UpdateRow(d, seed.table, id, seed.key)
<1>1. e = UpsertTrackedEntity(EnsureAccount(written, seed, id),
                              seed.key, <<seed.table, id>>)
  BY DEF EnsureSeedRow
<1>2. seed.table \in Tables /\ seed.key \in STRING
  BY SeedsAreTyped
<1>3. IsShaped(d) /\ RowsAreTyped(d) /\ RecordsAreTyped(d)
  BY PartsOfDatabase
<1>4. CASE found = {}
  <2>1. written = InsertRow(d, seed.table, seed.key) /\ id = d.next[seed.table]
    BY <1>4 DEF NewId
  <2>. HIDE DEF written, id, found
  <2>2. /\ IsShaped(written) /\ written.tracked = d.tracked
        /\ written.accounts = d.accounts /\ written.links = d.links
        /\ written.issues = d.issues /\ written.comments = d.comments
        /\ written.nextIssue = d.nextIssue
    BY <1>2, <1>3, <2>1, RowIsInserted
  <2>3. /\ RowsAreTyped(written)
        /\ id \notin DOMAIN d.rows[seed.table]
        /\ id \in DOMAIN written.rows[seed.table]
        /\ written.rows[seed.table][id] = seed.key
        /\ \A t \in Tables :
             /\ d.next[t] <= written.next[t]
             /\ DOMAIN d.rows[t] \subseteq DOMAIN written.rows[t]
             /\ \A i \in DOMAIN d.rows[t] : written.rows[t][i] = d.rows[t][i]
    <3>1. RowsAreTyped(written) /\ AddsRow(d, written, seed.table, seed.key)
      BY <1>2, <2>1, InsertedRow
    <3>. QED
      BY <2>1, <3>1 DEF AddsRow
  <2>. QED
    BY <1>1, <2>2, <2>3, RowIsSeeded
<1>5. CASE found # {}
  <2>1. written = UpdateRow(d, seed.table, id, seed.key) /\ id = Min(found)
    BY <1>5
  <2>2. /\ found \subseteq DOMAIN d.rows[seed.table]
        /\ \A i \in found : \/ d.rows[seed.table][i] = seed.key
                            \/ /\ seed.key \in DOMAIN d.tracked
                               /\ d.tracked[seed.key] = <<seed.table, i>>
    <3>1. CASE seed.key \in DOMAIN d.tracked /\ Exists(d, d.tracked[seed.key])
      <4>1. d.tracked[seed.key][1] = seed.table
        BY <3>1 DEF RecordsAreOfTheirTable
      <4>2. WasGiven(d, d.tracked[seed.key])
        BY <3>1, <1>3 DEF RecordsAreTyped
      <4>. QED
        BY <3>1, <4>1, <4>2 DEF FindEntity, Exists, WasGiven
    <3>2. CASE ~(seed.key \in DOMAIN d.tracked /\ Exists(d, d.tracked[seed.key]))
      BY <3>2 DEF FindEntity, Named
    <3>. QED
      BY <3>1, <3>2
  <2>3. id \in found
    <3>1. DOMAIN d.rows[seed.table] \subseteq Nat
      BY <1>2, <1>3, IdsAreNatural
    <3>. HIDE DEF found
    <3>2. Min(found) \in found
      BY <1>5, <2>2, <3>1, MinOfIds
    <3>. QED
      BY <2>1, <3>2
  <2>. HIDE DEF written, id, found
  <2>4. /\ IsShaped(written) /\ written.tracked = d.tracked
        /\ written.accounts = d.accounts /\ written.links = d.links
        /\ written.issues = d.issues /\ written.comments = d.comments
        /\ written.nextIssue = d.nextIssue /\ written.next = d.next
    BY <1>2, <1>3, <2>1, RowIsUpdated
  <2>5. id \in DOMAIN d.rows[seed.table]
    BY <2>2, <2>3
  <2>6. /\ RowsAreTyped(written)
        /\ written.rows[seed.table][id] = seed.key
        /\ \A t \in Tables :
             /\ DOMAIN written.rows[t] = DOMAIN d.rows[t]
             /\ \A i \in DOMAIN d.rows[t] :
                  <<t, i>> # <<seed.table, id>> =>
                    written.rows[t][i] = d.rows[t][i]
    <3>1. /\ RowsAreTyped(written)
          /\ RenamesRow(d, written, seed.table, id, seed.key)
      BY <1>2, <2>1, <2>5, UpdatedRow
    <3>. QED
      BY <3>1 DEF RenamesRow
  <2>7. \A t \in Tables : d.next[t] <= written.next[t]
    <3>1. \A t \in Tables : d.next[t] \in Nat \ {0}
      BY <1>3, IdsAreNatural
    <3>2. \A n \in Nat \ {0} : n <= n
      OBVIOUS
    <3>. QED
      BY <2>4, <3>1, <3>2
  <2>8. id \in DOMAIN written.rows[seed.table]
    BY <1>2, <2>5, <2>6
  <2>. QED
    BY <1>1, <2>2, <2>3, <2>4, <2>6, <2>7, <2>8, RowIsSeeded
<1>. QED
  BY <1>4, <1>5

LEMMA SeedIsInserted ==
  ASSUME NEW d, IsDatabase(d), RecordsAreOfTheirTable(d),
         NEW seed \in Range(Seeds), NEW e, e = InsertSeed(d, seed), e.ok
  PROVE  /\ IsDatabase(e) /\ RecordsAreOfTheirTable(e)
         /\ \E id : Seeds1(d, e, seed, id)
<1>. DEFINE written == InsertRow(d, seed.table, seed.key)
            named == Named(written, seed.table, seed.key)
            id == Min(named)
<1>1. e = UpsertTrackedEntity(EnsureAccount(written, seed, id),
                              seed.key, <<seed.table, id>>)
  BY DEF InsertSeed
<1>2. seed.table \in Tables /\ seed.key \in STRING
  BY SeedsAreTyped
<1>3. IsShaped(d) /\ RowsAreTyped(d)
  BY PartsOfDatabase
<1>. HIDE DEF id
<1>3a. written = InsertRow(d, seed.table, seed.key)
  OBVIOUS
<1>. HIDE DEF written
<1>4. /\ IsShaped(written) /\ written.tracked = d.tracked
      /\ written.accounts = d.accounts /\ written.links = d.links
      /\ written.issues = d.issues /\ written.comments = d.comments
      /\ written.nextIssue = d.nextIssue
  BY <1>2, <1>3, <1>3a, RowIsInserted
<1>5. /\ RowsAreTyped(written)
      /\ d.next[seed.table] \in DOMAIN written.rows[seed.table]
      /\ written.rows[seed.table][d.next[seed.table]] = seed.key
      /\ d.next[seed.table] \notin DOMAIN d.rows[seed.table]
      /\ \A t \in Tables :
           /\ d.next[t] <= written.next[t]
           /\ DOMAIN d.rows[t] \subseteq DOMAIN written.rows[t]
           /\ \A i \in DOMAIN d.rows[t] : written.rows[t][i] = d.rows[t][i]
  <2>1. RowsAreTyped(written) /\ AddsRow(d, written, seed.table, seed.key)
    BY <1>2, <1>3a, InsertedRow
  <2>. QED
    BY <2>1 DEF AddsRow
<1>6. id \in named
  <2>1. named # {} /\ named \subseteq DOMAIN written.rows[seed.table]
    BY <1>5 DEF Named
  <2>2. DOMAIN written.rows[seed.table] \subseteq Nat
    BY <1>2, <1>4, <1>5, IdsAreNatural
  <2>. HIDE DEF named
  <2>. QED
    BY <2>1, <2>2, MinOfIds DEF id
<1>7. /\ id \in DOMAIN written.rows[seed.table]
      /\ written.rows[seed.table][id] = seed.key
  BY <1>6 DEF Named
<1>8. id \notin DOMAIN d.rows[seed.table] \/ d.rows[seed.table][id] = seed.key
  BY <1>2, <1>5, <1>7
<1>. QED
  BY <1>1, <1>4, <1>5, <1>7, <1>8, RowIsSeeded

\* The row of a seed, as SeedsAreIn has it.
HasRow(d, seed) ==
    /\ seed.key \in DOMAIN d.tracked
    /\ d.tracked[seed.key][1] = seed.table
    /\ Exists(d, d.tracked[seed.key])
    /\ d.rows[seed.table][d.tracked[seed.key][2]] = seed.key
    /\ seed.table = "Users" => d.tracked[seed.key][2] \in d.accounts

\* A row of users that no tool knows.
IsForeign(d, ref) ==
    /\ ref = <<ref[1], ref[2]>> /\ ref[1] \in Tables
    /\ Exists(d, ref) /\ d.rows[ref[1]][ref[2]] = Other
    /\ ref \notin TrackedEntityIds(d)

\* What seeding rows leaves as it is.
HangersStay(d, e) ==
    /\ e.links = d.links /\ e.issues = d.issues /\ e.comments = d.comments
    /\ e.nextIssue = d.nextIssue
    /\ \A t \in Tables : d.next[t] <= e.next[t]

LEMMA SeedingKeeps ==
  ASSUME NEW d, NEW e, NEW seed \in Range(Seeds), NEW id,
         Seeds1(d, e, seed, id),
         IsDatabase(d), IsDatabase(e), RecordsAreOfTheirTable(d)
  PROVE  /\ HasRow(e, seed)
         /\ \A other \in Range(Seeds) \ {seed} :
              HasRow(d, other) => HasRow(e, other)
         /\ \A ref : IsForeign(d, ref) => IsForeign(e, ref)
         /\ HangersStay(d, e)
<1>1. seed.table \in Tables /\ seed.key \in STRING /\ seed.key # Other
  BY SeedsAreTyped
<1>2. RecordsAreTyped(d) /\ RecordsAreTyped(e)
  BY PartsOfDatabase
<1>3. /\ DOMAIN e.tracked = DOMAIN d.tracked \cup {seed.key}
      /\ e.tracked[seed.key] = <<seed.table, id>>
      /\ \A key \in DOMAIN d.tracked \ {seed.key} :
           e.tracked[key] = d.tracked[key]
  BY DEF Seeds1, Put
<1>4. HasRow(e, seed)
  BY <1>3 DEF Seeds1, HasRow, Exists
<1>5. ASSUME NEW other \in Range(Seeds), other # seed, HasRow(d, other)
      PROVE  HasRow(e, other)
  <2>. DEFINE ref == d.tracked[other.key]
  <2>1. other.key # seed.key /\ other.table \in Tables
    BY <1>5, SeedsAreTyped
  <2>2. other.key \in DOMAIN e.tracked /\ e.tracked[other.key] = ref
    BY <1>3, <1>5, <2>1 DEF HasRow
  <2>3. ref # <<seed.table, id>>
    <3>1. IsInjective(e.tracked)
      BY <1>2 DEF RecordsAreTyped
    <3>. QED
      BY <1>3, <2>1, <2>2, <3>1 DEF IsInjective
  <2>4. ref = <<other.table, ref[2]>>
    <3>1. WasGiven(d, ref)
      BY <1>2, <1>5 DEF RecordsAreTyped, HasRow
    <3>. QED
      BY <1>5, <3>1 DEF WasGiven, HasRow
  <2>5. /\ ref[1] = other.table /\ ref[2] \in DOMAIN d.rows[other.table]
        /\ d.rows[other.table][ref[2]] = other.key
        /\ other.table = "Users" => ref[2] \in d.accounts
    BY <1>5 DEF HasRow, Exists
  <2>. HIDE DEF ref
  <2>6. /\ ref[2] \in DOMAIN e.rows[other.table]
        /\ e.rows[other.table][ref[2]] = other.key
        /\ other.table = "Users" => ref[2] \in e.accounts
    BY <2>1, <2>3, <2>4, <2>5 DEF Seeds1
  <2>. QED
    BY <2>2, <2>5, <2>6 DEF HasRow, Exists
<1>6. ASSUME NEW ref, IsForeign(d, ref)
      PROVE  IsForeign(e, ref)
  <2>1. /\ ref = <<ref[1], ref[2]>> /\ ref[1] \in Tables
        /\ ref[2] \in DOMAIN d.rows[ref[1]]
        /\ d.rows[ref[1]][ref[2]] = Other
        /\ \A key \in DOMAIN d.tracked : d.tracked[key] # ref
    BY <1>6 DEF IsForeign, Exists, TrackedEntityIds, Range
  <2>2. ref # <<seed.table, id>>
    BY <1>1, <2>1 DEF Seeds1
  <2>3. /\ ref[2] \in DOMAIN e.rows[ref[1]]
        /\ e.rows[ref[1]][ref[2]] = Other
    BY <2>1, <2>2 DEF Seeds1
  <2>4. \A key \in DOMAIN e.tracked : e.tracked[key] # ref
    BY <1>3, <2>1, <2>2
  <2>. QED
    BY <2>1, <2>3, <2>4 DEF IsForeign, Exists, TrackedEntityIds, Range
<1>7. HangersStay(d, e)
  BY DEF Seeds1, HangersStay
<1>. QED
  BY <1>4, <1>5, <1>6, <1>7

\* Either tool's seeding of rows.
IsSeeding(kind) == kind \in {"ensureRow", "insertRow"}

LEMMA SeedingStep ==
  ASSUME NEW kind, IsSeeding(kind), NEW d, NEW seed \in Range(Seeds), NEW e,
         e = Step(kind, d, seed)
  PROVE  /\ IsShaped(d) => IsShaped(e) /\ (e.ok => d.ok)
         /\ IsDatabase(d) /\ RecordsAreOfTheirTable(d) /\ e.ok =>
              /\ IsDatabase(e) /\ RecordsAreOfTheirTable(e)
              /\ HasRow(e, seed)
              /\ \A other \in Range(Seeds) \ {seed} :
                   HasRow(d, other) => HasRow(e, other)
              /\ \A ref : IsForeign(d, ref) => IsForeign(e, ref)
              /\ HangersStay(d, e)
<1>1. e = EnsureSeedRow(d, seed) \/ e = InsertSeed(d, seed)
  BY DEF Step, IsSeeding
<1>2. IsShaped(d) => IsShaped(e) /\ (e.ok => d.ok)
  BY <1>1, EnsuredRowIsShaped, InsertedSeedIsShaped
<1>3. ASSUME IsDatabase(d), RecordsAreOfTheirTable(d), e.ok
      PROVE  /\ IsDatabase(e) /\ RecordsAreOfTheirTable(e)
             /\ \E id : Seeds1(d, e, seed, id)
  BY <1>1, <1>3, SeedIsEnsured, SeedIsInserted
<1>. QED
  BY <1>2, <1>3, SeedingKeeps

LEMMA SeedingIsOk ==
  ASSUME NEW kind, IsSeeding(kind), NEW d, IsShaped(d),
         NEW s, AreStates(kind, d, Seeds, Len(Seeds), s)
  PROVE  /\ \A n \in 0 .. Len(Seeds) : IsShaped(s[n])
         /\ s[Len(Seeds)].ok => \A n \in 0 .. Len(Seeds) : s[n].ok
<1>. DEFINE N == Len(Seeds)
            Shaped == {n \in 0 .. N : IsShaped(s[n])}
            Ok == {n \in 0 .. N : s[n].ok}
<1>1. N \in Nat /\ \A n \in 1 .. N : Seeds[n] \in Range(Seeds)
  BY SeedsAreTyped
<1>2. /\ s[0] = d
      /\ \A n \in 1 .. N : s[n] = Step(kind, s[n - 1], Seeds[n])
  BY DEF AreStates
<1>. HIDE DEF N
<1>3. \A n \in 1 .. N : n - 1 \in 0 .. N /\ n \in 0 .. N
  BY <1>1
<1>4. ASSUME NEW n \in 1 .. N, IsShaped(s[n - 1])
      PROVE  IsShaped(s[n]) /\ (s[n].ok => s[n - 1].ok)
  <2>1. PICK e, seed : e = s[n - 1] /\ seed = Seeds[n]
    OBVIOUS
  <2>2. s[n] = Step(kind, e, seed) /\ seed \in Range(Seeds) /\ IsShaped(e)
    BY <1>1, <1>2, <1>4, <2>1
  <2>3. IsShaped(Step(kind, e, seed)) /\ (Step(kind, e, seed).ok => e.ok)
    BY <2>2, SeedingStep
  <2>. QED
    BY <2>1, <2>2, <2>3
<1>5. \A n \in 0 .. N : n \in Shaped
  <2>1. 0 \in Shaped
    BY <1>1, <1>2
  <2>2. ASSUME NEW n \in 1 .. N, n - 1 \in Shaped
        PROVE  n \in Shaped
    BY <1>3, <1>4, <2>2
  <2>3. Shaped \in SUBSET (0 .. N)
    OBVIOUS
  <2>. HIDE DEF Shaped
  <2>. QED
    BY <1>1, <2>1, <2>2, <2>3, Upward
<1>6. ASSUME s[N].ok
      PROVE  \A n \in 0 .. N : n \in Ok
  <2>1. N \in Ok
    BY <1>1, <1>6
  <2>2. ASSUME NEW n \in 1 .. N, n \in Ok
        PROVE  n - 1 \in Ok
    BY <1>3, <1>4, <1>5, <2>2
  <2>3. Ok \in SUBSET (0 .. N)
    OBVIOUS
  <2>. HIDE DEF Ok
  <2>. QED
    BY <1>1, <2>1, <2>2, <2>3, Downward
<1>. QED
  BY <1>5, <1>6 DEF N

\* Rows are seeded one by one, and none of those that are undoes another.
LEMMA RowsAreSeeded ==
  ASSUME NEW kind, IsSeeding(kind), NEW d, IsShaped(d),
         d.ok => IsDatabase(d) /\ RecordsAreOfTheirTable(d),
         NEW s, AreStates(kind, d, Seeds, Len(Seeds), s), s[Len(Seeds)].ok
  PROVE  LET e == s[Len(Seeds)]
         IN  /\ d.ok
             /\ IsDatabase(e) /\ RecordsAreOfTheirTable(e)
             /\ \A seed \in Range(Seeds) : HasRow(e, seed)
             /\ \A ref : IsForeign(d, ref) => IsForeign(e, ref)
             /\ HangersStay(d, e)
<1>. DEFINE N == Len(Seeds)
            Good == {n \in 0 .. N :
                       /\ IsDatabase(s[n]) /\ RecordsAreOfTheirTable(s[n])
                       /\ \A j \in 1 .. n : HasRow(s[n], Seeds[j])
                       /\ \A ref : IsForeign(d, ref) => IsForeign(s[n], ref)
                       /\ HangersStay(d, s[n])}
<1>1. N \in Nat /\ \A n \in 1 .. N : Seeds[n] \in Range(Seeds)
  BY SeedsAreTyped
<1>2. /\ s[0] = d
      /\ \A n \in 1 .. N : s[n] = Step(kind, s[n - 1], Seeds[n])
  BY DEF AreStates
<1>3. /\ \A n \in 0 .. N : IsShaped(s[n])
      /\ \A n \in 0 .. N : s[n].ok
  BY SeedingIsOk
<1>. HIDE DEF N
<1>4. d.ok /\ IsDatabase(d) /\ RecordsAreOfTheirTable(d)
  BY <1>1, <1>2, <1>3
<1>5. 0 \in Good
  <2>1. HangersStay(d, d)
    <3>1. \A t \in Tables : d.next[t] \in Nat
      BY <1>4, PartsOfDatabase, IdsAreNatural
    <3>. QED
      BY <3>1 DEF HangersStay
  <2>. QED
    BY <1>1, <1>2, <1>4, <2>1
<1>6. ASSUME NEW n \in 1 .. N, n - 1 \in Good
      PROVE  n \in Good
  <2>. DEFINE b == s[n - 1]
              e == s[n]
              seed == Seeds[n]
  <2>1. /\ IsDatabase(b) /\ RecordsAreOfTheirTable(b)
        /\ \A j \in 1 .. n - 1 : HasRow(b, Seeds[j])
        /\ \A ref : IsForeign(d, ref) => IsForeign(b, ref)
        /\ HangersStay(d, b)
    BY <1>6
  <2>2. e = Step(kind, b, seed) /\ seed \in Range(Seeds) /\ n \in 0 .. N
    BY <1>1, <1>2
  <2>3. e.ok
    BY <1>3, <2>2
  <2>4. \A j \in 1 .. n - 1 : Seeds[j] \in Range(Seeds) \ {seed}
    <3>1. \A j \in 1 .. n - 1 : j \in 1 .. N /\ j # n
      BY <1>1
    <3>2. \A i, j \in 1 .. N : Seeds[i].key = Seeds[j].key => i = j
      BY KeysAreUnique, SeedsAreTyped DEF N
    <3>. QED
      BY <1>1, <3>1, <3>2
  <2>. HIDE DEF b, e, seed, Good
  <2>5. /\ IsDatabase(e) /\ RecordsAreOfTheirTable(e)
        /\ HasRow(e, seed)
        /\ \A other \in Range(Seeds) \ {seed} :
             HasRow(b, other) => HasRow(e, other)
        /\ \A ref : IsForeign(b, ref) => IsForeign(e, ref)
        /\ HangersStay(b, e)
    BY <2>1, <2>2, <2>3, SeedingStep
  <2>6. \A j \in 1 .. n : HasRow(e, Seeds[j])
    <3>1. \A j \in 1 .. n : j = n \/ j \in 1 .. n - 1
      BY <1>1
    <3>. QED
      BY <2>1, <2>4, <2>5, <3>1 DEF seed
  <2>7. HangersStay(d, e)
    <3>1. \A t \in Tables : d.next[t] \in Nat
      BY <1>4, PartsOfDatabase, IdsAreNatural
    <3>2. \A t \in Tables : b.next[t] \in Nat
      BY <2>1, PartsOfDatabase, IdsAreNatural
    <3>3. \A t \in Tables : e.next[t] \in Nat
      BY <2>5, PartsOfDatabase, IdsAreNatural
    <3>. QED
      BY <2>1, <2>5, <3>1, <3>2, <3>3 DEF HangersStay
  <2>8. \A ref : IsForeign(d, ref) => IsForeign(e, ref)
    BY <2>1, <2>5
  <2>. QED
    BY <2>2, <2>5, <2>6, <2>7, <2>8 DEF Good, e
<1>7. N \in Good
  <2>1. Good \in SUBSET (0 .. N)
    OBVIOUS
  <2>. HIDE DEF Good
  <2>2. \A n \in 0 .. N : n \in Good
    BY <1>1, <1>5, <1>6, <2>1, Upward
  <2>. QED
    BY <1>1, <2>2
<1>8. \A seed \in Range(Seeds) : HasRow(s[N], seed)
  <2>1. \A seed \in Range(Seeds) : \E j \in 1 .. N : seed = Seeds[j]
    BY SeedsAreTyped DEF Range, N
  <2>. QED
    BY <1>7, <2>1
<1>. QED
  BY <1>4, <1>7, <1>8 DEF N

-----------------------------------------------------------------------------
(* Seeding links and issues *)

\* What seeding links and issues leaves as it is.
RowsStay(d, e) ==
    /\ e.rows = d.rows /\ e.next = d.next /\ e.tracked = d.tracked
    /\ e.accounts = d.accounts /\ e.comments = d.comments

HasIssue(d, issue) == \E j \in IssuesNamed(d, issue[1], issue[2]) : j.seeded

LEMMA WhatRowsDecide ==
  ASSUME NEW d, NEW e, RowsStay(d, e)
  PROVE  /\ \A seed : HasRow(d, seed) => HasRow(e, seed)
         /\ \A ref : IsForeign(d, ref) => IsForeign(e, ref)
         /\ RecordsAreOfTheirTable(d) => RecordsAreOfTheirTable(e)
         /\ LinksOf(e) = LinksOf(d) /\ IssuesOf(e) = IssuesOf(d)
<1>1. e.rows = d.rows /\ e.tracked = d.tracked /\ e.accounts = d.accounts
  BY DEF RowsStay
<1>2. \A seed : HasRow(d, seed) => HasRow(e, seed)
  BY <1>1 DEF HasRow, Exists
<1>3. \A ref : IsForeign(d, ref) => IsForeign(e, ref)
  BY <1>1 DEF IsForeign, Exists, TrackedEntityIds
<1>4. RecordsAreOfTheirTable(d) => RecordsAreOfTheirTable(e)
  BY <1>1 DEF RecordsAreOfTheirTable
<1>5. LinksOf(e) = LinksOf(d) /\ IssuesOf(e) = IssuesOf(d)
  BY <1>1 DEF LinksOf, IssuesOf, SeedsOf
<1>. QED
  BY <1>2, <1>3, <1>4, <1>5

LEMMA RowsStayTyped ==
  ASSUME NEW d, NEW e, IsDatabase(d), IsShaped(e), RowsStay(d, e)
  PROVE  RowsAreTyped(e) /\ CommentsAreTyped(e) /\ RecordsAreTyped(e)
<1>1. /\ e.rows = d.rows /\ e.next = d.next /\ e.tracked = d.tracked
      /\ e.comments = d.comments
  BY DEF RowsStay
<1>2. RowsAreTyped(d) /\ CommentsAreTyped(d) /\ RecordsAreTyped(d)
  BY PartsOfDatabase
<1>3. RowsAreTyped(e)
  BY <1>1, <1>2 DEF RowsAreTyped
<1>4. CommentsAreTyped(e)
  BY <1>1, <1>2 DEF CommentsAreTyped, Exists
<1>5. RecordsAreTyped(e)
  BY <1>1, <1>2 DEF RecordsAreTyped, WasGiven
<1>. QED
  BY <1>3, <1>4, <1>5

\* The links of the fixture are between rows that are there.
LEMMA LinksOfSeedsAreTyped ==
  ASSUME NEW d, IsDatabase(d), \A seed \in Range(Seeds) : HasRow(d, seed),
         NEW l \in LinksOf(d), NEW ref \in {l[2], l[3]}
  PROVE  ref = <<ref[1], ref[2]>> /\ ref[1] \in Tables /\ Exists(d, ref)
<1>1. PICK k \in SeededLinks : l = <<k[1], SeedsOf(d, k[2]), SeedsOf(d, k[3])>>
  BY DEF LinksOf
<1>2. PICK key \in {k[2], k[3]} : ref = d.tracked[key]
  BY <1>1 DEF SeedsOf
<1>3. PICK seed \in Range(Seeds) : key = seed.key
  BY <1>2, LinksAreBetweenSeeds, SeedsAreTyped
<1>4. HasRow(d, seed) /\ seed.table \in Tables
  BY SeedsAreTyped
<1>5. WasGiven(d, d.tracked[key])
  BY <1>3, <1>4, PartsOfDatabase DEF RecordsAreTyped, HasRow
<1>. QED
  BY <1>2, <1>3, <1>4, <1>5 DEF HasRow, WasGiven

LEMMA LinksAreSeeded ==
  ASSUME NEW d, IsShaped(d), NEW e, e = EnsureLinks(d) \/ e = InsertLinks(d)
  PROVE  /\ IsShaped(e) /\ RowsStay(d, e) /\ (e.ok => d.ok)
         /\ e.issues = d.issues /\ e.nextIssue = d.nextIssue
         /\ \A l \in LinksOf(d) : ~ LinkIsFree(e, l)
         /\ d.links \subseteq e.links
         /\ e.links \subseteq d.links \cup LinksOf(d)
<1>1. CASE e = EnsureLinks(d)
  <2>. DEFINE links == d.links \cup {l \in LinksOf(d) : LinkIsFree(d, l)}
  <2>1. e = [d EXCEPT !.links = links]
    BY <1>1 DEF EnsureLinks, IsShaped
  <2>2. /\ d.links \subseteq links /\ links \subseteq d.links \cup LinksOf(d)
        /\ \A l \in LinksOf(d) : LinkIsFree(d, l) => l \in links
    OBVIOUS
  <2>. HIDE DEF links
  <2>3. e \in [rows : {d.rows}, next : {d.next}, nextIssue : {d.nextIssue},
               links : {links}, issues : {d.issues}, comments : {d.comments},
               accounts : {d.accounts}, tracked : {d.tracked}, ok : {d.ok}]
    BY <2>1 DEF IsShaped
  <2>4. IsShaped(e)
    BY <2>3 DEF IsShaped
  <2>5. ASSUME NEW l \in LinksOf(d)
        PROVE  ~ LinkIsFree(e, l)
    <3>1. e.links = links
      BY <2>3
    <3>2. CASE LinkIsFree(d, l)
      BY <2>2, <3>1, <3>2 DEF LinkIsFree
    <3>3. CASE ~ LinkIsFree(d, l)
      BY <2>2, <3>1, <3>3 DEF LinkIsFree
    <3>. QED
      BY <3>2, <3>3
  <2>. QED
    BY <2>2, <2>3, <2>4, <2>5 DEF RowsStay
<1>2. CASE e = InsertLinks(d)
  <2>. DEFINE links == d.links \cup LinksOf(d)
              free == \A l \in LinksOf(d) : LinkIsFree(d, l)
  <2>1. free \in BOOLEAN /\ e = [d EXCEPT !.links = links, !.ok = d.ok /\ free]
    BY <1>2 DEF InsertLinks, IsShaped
  <2>2. /\ d.links \subseteq links /\ links \subseteq d.links \cup LinksOf(d)
        /\ LinksOf(d) \subseteq links
    OBVIOUS
  <2>. HIDE DEF links, free
  <2>3. e \in [rows : {d.rows}, next : {d.next}, nextIssue : {d.nextIssue},
               links : {links}, issues : {d.issues}, comments : {d.comments},
               accounts : {d.accounts}, tracked : {d.tracked}, ok : BOOLEAN]
    BY <2>1 DEF IsShaped
  <2>4. IsShaped(e)
    BY <2>3 DEF IsShaped
  <2>5. e.ok => d.ok
    BY <2>1 DEF IsShaped
  <2>6. \A l \in LinksOf(d) : ~ LinkIsFree(e, l)
    BY <2>2, <2>3 DEF LinkIsFree
  <2>. QED
    BY <2>2, <2>3, <2>4, <2>5, <2>6 DEF RowsStay
<1>. QED
  BY <1>1, <1>2

LEMMA LinkedDatabase ==
  ASSUME NEW d, IsDatabase(d), \A seed \in Range(Seeds) : HasRow(d, seed),
         NEW e, e = EnsureLinks(d) \/ e = InsertLinks(d)
  PROVE  IsDatabase(e)
<1>1. IsShaped(d) /\ LinksAreTyped(d) /\ IssuesAreTyped(d)
  BY PartsOfDatabase
<1>2. /\ IsShaped(e) /\ RowsStay(d, e)
      /\ e.issues = d.issues /\ e.nextIssue = d.nextIssue
      /\ e.links \subseteq d.links \cup LinksOf(d)
  BY <1>1, LinksAreSeeded
<1>3. e.rows = d.rows
  BY <1>2 DEF RowsStay
<1>4. LinksAreTyped(e)
  <2>1. ASSUME NEW l \in e.links, NEW ref \in {l[2], l[3]}
        PROVE  ref = <<ref[1], ref[2]>> /\ ref[1] \in Tables /\ Exists(d, ref)
    BY <1>1, <1>2, LinksOfSeedsAreTyped DEF LinksAreTyped
  <2>. QED
    BY <1>3, <2>1 DEF LinksAreTyped, Exists
<1>5. IssuesAreTyped(e)
  BY <1>1, <1>2, <1>3 DEF IssuesAreTyped
<1>. QED
  BY <1>2, <1>4, <1>5, RowsStayTyped, PartsOfDatabase

LEMMA IssuesOfSeedsAreTyped ==
  ASSUME NEW d, IsDatabase(d), \A seed \in Range(Seeds) : HasRow(d, seed)
  PROVE  \A i \in IssuesOf(d) : /\ i[1] \in DOMAIN d.rows["Projects"]
                                /\ i[2] \in STRING
<1>. SUFFICES ASSUME NEW i \in IssuesOf(d)
              PROVE  i[1] \in DOMAIN d.rows["Projects"] /\ i[2] \in STRING
  OBVIOUS
<1>1. PICK k \in SeededIssues : i = <<SeedsOf(d, k[1])[2], k[2]>>
  BY DEF IssuesOf
<1>2. PICK seed \in Range(Seeds) : seed = Seed("Projects", k[1])
  BY IssuesAreOfSeeds
<1>3. seed.table = "Projects" /\ seed.key = k[1]
  BY <1>2 DEF Seed
<1>. QED
  BY <1>1, <1>3, IssuesAreOfSeeds DEF HasRow, Exists, SeedsOf

LEMMA IssuesOfSeedsAreFinite ==
  \A d : IsFiniteSet(IssuesOf(d))
<1>. TAKE d
<1>. DEFINE f == [i \in SeededIssues |-> <<SeedsOf(d, i[1])[2], i[2]>>]
<1>1. f \in Surjection(SeededIssues, IssuesOf(d))
  BY DEF IssuesOf, Surjection
<1>. HIDE DEF f
<1>. QED
  BY <1>1, IssuesAreOfSeeds, FS_Surjection

WithIssue(d, issue) ==
    [d EXCEPT !.nextIssue = @ + 1, !.issues = @ \cup {issue}]

NewIssue(d, issue) ==
    [id |-> d.nextIssue, project |-> issue[1], name |-> issue[2],
     seeded |-> TRUE]

LEMMA IssueIsInserted ==
  ASSUME NEW d, IsShaped(d), NEW issue, NEW e, e = WithIssue(d, issue)
  PROVE  /\ IsShaped(e) /\ RowsStay(d, e)
         /\ e.links = d.links /\ e.ok = d.ok
         /\ e.nextIssue = d.nextIssue + 1
         /\ e.issues = d.issues \cup {issue}
<1>. DEFINE issues == d.issues \cup {issue}
<1>1. e = [d EXCEPT !.nextIssue = d.nextIssue + 1, !.issues = issues]
  BY DEF WithIssue, IsShaped
<1>. HIDE DEF issues
<1>2. e \in [rows : {d.rows}, next : {d.next}, nextIssue : {d.nextIssue + 1},
             links : {d.links}, issues : {issues}, comments : {d.comments},
             accounts : {d.accounts}, tracked : {d.tracked}, ok : {d.ok}]
  BY <1>1 DEF IsShaped
<1>3. IsShaped(e)
  BY <1>2 DEF IsShaped
<1>. QED
  BY <1>2, <1>3 DEF RowsStay, issues

LEMMA InsertedIssue ==
  ASSUME NEW d, IsDatabase(d), NEW issue, NEW e, e = WithIssue(d, issue),
         issue \in [id : {d.nextIssue}, project : DOMAIN d.rows["Projects"],
                    name : STRING, seeded : BOOLEAN]
  PROVE  IsDatabase(e)
<1>1. IsShaped(d) /\ LinksAreTyped(d) /\ IssuesAreTyped(d)
  BY PartsOfDatabase
<1>2. /\ IsShaped(e) /\ RowsStay(d, e) /\ e.links = d.links
      /\ e.nextIssue = d.nextIssue + 1
      /\ e.issues = d.issues \cup {issue}
  BY <1>1, IssueIsInserted
<1>3. e.rows = d.rows /\ d.nextIssue \in Nat \ {0}
  BY <1>1, <1>2 DEF RowsStay, IsShaped
<1>4. LinksAreTyped(e)
  BY <1>1, <1>2, <1>3 DEF LinksAreTyped, Exists
<1>5. IssuesAreTyped(e)
  <2>. DEFINE Issue(n) == [id : 1 .. n - 1, project : DOMAIN d.rows["Projects"],
                           name : STRING, seeded : BOOLEAN]
  <2>1. \A i \in d.issues : i \in Issue(d.nextIssue)
    BY <1>1 DEF IssuesAreTyped
  <2>2. \A i \in Issue(d.nextIssue) : i \in Issue(e.nextIssue)
    BY <1>2, <1>3
  <2>3. issue \in Issue(e.nextIssue)
    BY <1>2, <1>3
  <2>4. \A i \in e.issues : i \in Issue(e.nextIssue)
    <3>. HIDE DEF Issue
    <3>. QED
      BY <1>2, <2>1, <2>2, <2>3
  <2>. QED
    BY <1>3, <2>4 DEF IssuesAreTyped
<1>. QED
  BY <1>2, <1>4, <1>5, RowsStayTyped, PartsOfDatabase

LEMMA IssuesAreNumbered ==
  ASSUME NEW d, IsDatabase(d), NEW i \in d.issues
  PROVE  /\ d.nextIssue \in Nat \ {0}
         /\ i.id \in 1 .. d.nextIssue - 1 /\ i.id \in Nat
         /\ i.project \in DOMAIN d.rows["Projects"] /\ i.name \in STRING
         /\ i.seeded \in BOOLEAN
<1>1. IsShaped(d) /\ IssuesAreTyped(d)
  BY PartsOfDatabase
<1>2. d.nextIssue \in Nat \ {0}
  BY <1>1 DEF IsShaped
<1>3. i \in [id : 1 .. d.nextIssue - 1, project : DOMAIN d.rows["Projects"],
             name : STRING, seeded : BOOLEAN]
  BY <1>1 DEF IssuesAreTyped
<1>. QED
  BY <1>2, <1>3

LEMMA FirstIssueIsNamed ==
  ASSUME NEW d, IsDatabase(d), NEW project, NEW name,
         IssuesNamed(d, project, name) # {}
  PROVE  FirstIssue(d, project, name) \in IssuesNamed(d, project, name)
<1>. DEFINE named == IssuesNamed(d, project, name)
            ids == {i.id : i \in named}
<1>1. \A i \in named : i.id \in Nat
  BY IssuesAreNumbered DEF IssuesNamed
<1>2. PICK n \in ids : \A m \in ids : n <= m
  <2>1. ids \subseteq Nat /\ ids # {}
    BY <1>1
  <2>. HIDE DEF ids
  <2>. QED
    BY <2>1, LeastNatural
<1>3. \E i \in named : \A j \in named : i.id <= j.id
  BY <1>2
<1>. QED
  BY <1>3 DEF FirstIssue

\* Either tool's seeding of an issue.
IsSeedingIssues(kind) == kind \in {"ensureIssue", "insertIssue"}

\* The seeded issue with the name that was found, or inserted.
LEMMA IssueStepIsShaped ==
  ASSUME NEW kind, IsSeedingIssues(kind), NEW d, IsShaped(d), NEW issue,
         NEW e, e = Step(kind, d, issue)
  PROVE  /\ IsShaped(e) /\ RowsStay(d, e)
         /\ e.links = d.links /\ e.ok = d.ok
         /\ d.nextIssue <= e.nextIssue
<1>. DEFINE found == FirstIssue(d, issue[1], issue[2])
            issues == (d.issues \ {found}) \cup {[found EXCEPT !.seeded = TRUE]}
<1>1. \/ e = WithIssue(d, NewIssue(d, issue))
      \/ e = [d EXCEPT !.issues = issues]
  BY DEF Step, IsSeedingIssues, EnsureIssue, InsertSeededIssue, InsertIssue,
         WithIssue, NewIssue, IsShaped
<1>. HIDE DEF issues
<1>2. CASE e = WithIssue(d, NewIssue(d, issue))
  <2>1. d.nextIssue <= d.nextIssue + 1
    BY DEF IsShaped
  <2>. QED
    BY <1>2, <2>1, IssueIsInserted
<1>3. CASE e = [d EXCEPT !.issues = issues]
  <2>1. e \in [rows : {d.rows}, next : {d.next}, nextIssue : {d.nextIssue},
               links : {d.links}, issues : {issues}, comments : {d.comments},
               accounts : {d.accounts}, tracked : {d.tracked}, ok : {d.ok}]
    BY <1>3 DEF IsShaped
  <2>2. IsShaped(e)
    BY <2>1 DEF IsShaped
  <2>3. d.nextIssue <= e.nextIssue
    BY <2>1 DEF IsShaped
  <2>. QED
    BY <2>1, <2>2, <2>3 DEF RowsStay
<1>. QED
  BY <1>1, <1>2, <1>3

LEMMA IssueStep ==
  ASSUME NEW kind, IsSeedingIssues(kind), NEW d, IsDatabase(d), NEW issue,
         issue[1] \in DOMAIN d.rows["Projects"], issue[2] \in STRING,
         NEW e, e = Step(kind, d, issue)
  PROVE  /\ IsDatabase(e) /\ HasIssue(e, issue)
         /\ \A other : HasIssue(d, other) => HasIssue(e, other)
<1>. DEFINE named == IssuesNamed(d, issue[1], issue[2])
            found == FirstIssue(d, issue[1], issue[2])
            changed == [found EXCEPT !.seeded = TRUE]
            issues == (d.issues \ {found}) \cup {changed}
<1>1. IsShaped(d) /\ IssuesAreTyped(d) /\ LinksAreTyped(d)
  BY PartsOfDatabase
<1>2. \/ e = WithIssue(d, NewIssue(d, issue))
      \/ named # {} /\ e = [d EXCEPT !.issues = issues]
  BY DEF Step, IsSeedingIssues, EnsureIssue, InsertSeededIssue, InsertIssue,
         WithIssue, NewIssue, IsShaped
<1>3. CASE e = WithIssue(d, NewIssue(d, issue))
  <2>. DEFINE new == NewIssue(d, issue)
  <2>1. /\ new \in [id : {d.nextIssue}, project : DOMAIN d.rows["Projects"],
                    name : STRING, seeded : BOOLEAN]
        /\ new.project = issue[1] /\ new.name = issue[2] /\ new.seeded = TRUE
    BY DEF NewIssue
  <2>. HIDE DEF new
  <2>1a. IsDatabase(e)
    BY <1>3, <2>1, InsertedIssue DEF new
  <2>2. e.issues = d.issues \cup {new}
    BY <1>1, <1>3, IssueIsInserted DEF new
  <2>3. HasIssue(e, issue)
    BY <2>1, <2>2 DEF HasIssue, IssuesNamed
  <2>4. \A other : HasIssue(d, other) => HasIssue(e, other)
    BY <2>2 DEF HasIssue, IssuesNamed
  <2>. QED
    BY <2>1a, <2>3, <2>4
<1>4. CASE named # {} /\ e = [d EXCEPT !.issues = issues]
  <2>1. found \in d.issues /\ found.project = issue[1] /\ found.name = issue[2]
    BY <1>4, FirstIssueIsNamed DEF IssuesNamed
  <2>2. found \in [id : 1 .. d.nextIssue - 1, project : DOMAIN d.rows["Projects"],
                   name : STRING, seeded : BOOLEAN]
    BY <1>1, <2>1 DEF IssuesAreTyped
  <2>. HIDE DEF found, named
  <2>3. /\ changed \in [id : 1 .. d.nextIssue - 1,
                        project : DOMAIN d.rows["Projects"],
                        name : STRING, seeded : BOOLEAN]
        /\ changed.project = found.project /\ changed.name = found.name
        /\ changed.seeded = TRUE
    BY <2>2
  <2>. HIDE DEF changed, issues
  <2>4. /\ e.issues = issues /\ e.links = d.links /\ e.nextIssue = d.nextIssue
        /\ RowsStay(d, e) /\ e.rows = d.rows /\ e.ok = d.ok
        /\ e \in [rows : {d.rows}, next : {d.next}, nextIssue : {d.nextIssue},
               links : {d.links}, issues : {issues}, comments : {d.comments},
               accounts : {d.accounts}, tracked : {d.tracked}, ok : {d.ok}]
    BY <1>1, <1>4 DEF RowsStay, IsShaped
  <2>5. IsShaped(e)
    BY <1>1, <2>4 DEF IsShaped
  <2>6. LinksAreTyped(e)
    BY <1>1, <2>4 DEF LinksAreTyped, Exists
  <2>7. IssuesAreTyped(e)
    BY <1>1, <2>3, <2>4 DEF IssuesAreTyped, issues
  <2>8. IsDatabase(e)
    BY <2>4, <2>5, <2>6, <2>7, RowsStayTyped, PartsOfDatabase
  <2>9. HasIssue(e, issue)
    BY <2>1, <2>3, <2>4 DEF HasIssue, IssuesNamed, issues
  <2>10. ASSUME NEW other, HasIssue(d, other)
         PROVE  HasIssue(e, other)
    <3>1. PICK j \in d.issues : /\ j.project = other[1] /\ j.name = other[2]
                                /\ j.seeded
      BY <2>10 DEF HasIssue, IssuesNamed
    <3>2. \E k \in e.issues : /\ k.project = j.project /\ k.name = j.name
                              /\ k.seeded
      <4>1. CASE j = found
        <5>1. changed \in e.issues /\ changed.seeded
          BY <2>3, <2>4 DEF issues
        <5>. QED
          BY <2>3, <4>1, <5>1
      <4>2. CASE j # found
        <5>1. j \in e.issues
          BY <2>4, <4>2 DEF issues
        <5>. QED
          BY <3>1, <5>1
      <4>. QED
        BY <4>1, <4>2
    <3>. QED
      BY <3>1, <3>2 DEF HasIssue, IssuesNamed
  <2>. QED
    BY <2>8, <2>9, <2>10
<1>. QED
  BY <1>2, <1>3, <1>4

LEMMA NextIssueIsNatural ==
  \A d : IsShaped(d) => d.nextIssue \in Nat
BY DEF IsShaped

\* The projects of issues are there.
AreIssuesOf(d, seq, N) ==
    \A n \in 1 .. N : /\ seq[n][1] \in DOMAIN d.rows["Projects"]
                      /\ seq[n][2] \in STRING

\* What seeding issues makes of a database.
HoldsIssues(d, e, seq, N) ==
    /\ RowsStay(d, e) /\ e.ok = d.ok /\ e.links = d.links
    /\ d.nextIssue <= e.nextIssue
    /\ e.ok => IsDatabase(e) /\ \A n \in 1 .. N : HasIssue(e, seq[n])

LEMMA IssuesAreSeeded ==
  ASSUME NEW kind, IsSeedingIssues(kind), NEW d, IsShaped(d),
         NEW seq, NEW N \in Nat, DOMAIN seq = 1 .. N,
         d.ok => IsDatabase(d) /\ AreIssuesOf(d, seq, N),
         NEW s, AreStates(kind, d, seq, N, s)
  PROVE  HoldsIssues(d, s[N], seq, N)
<1>. DEFINE Good == {n \in 0 .. N :
                       /\ IsShaped(s[n]) /\ RowsStay(d, s[n])
                       /\ s[n].ok = d.ok /\ s[n].links = d.links
                       /\ d.nextIssue <= s[n].nextIssue
                       /\ d.ok => /\ IsDatabase(s[n])
                                  /\ \A j \in 1 .. n : HasIssue(s[n], seq[j])}
<1>1. /\ s[0] = d
      /\ \A n \in 1 .. N : s[n] = Step(kind, s[n - 1], seq[n])
  BY DEF AreStates
<1>2. 0 \in Good
  <2>1. d.nextIssue <= d.nextIssue
    <3>1. d.nextIssue \in Nat
      BY NextIssueIsNatural
    <3>. QED
      BY <3>1
  <2>. QED
    BY <1>1, <2>1 DEF RowsStay
<1>3. ASSUME NEW n \in 1 .. N, n - 1 \in Good
      PROVE  n \in Good
  <2>. DEFINE b == s[n - 1]
              e == s[n]
              issue == seq[n]
  <2>1. /\ IsShaped(b) /\ RowsStay(d, b)
        /\ b.ok = d.ok /\ b.links = d.links /\ d.nextIssue <= b.nextIssue
        /\ d.ok => IsDatabase(b) /\ \A j \in 1 .. n - 1 : HasIssue(b, seq[j])
    BY <1>3
  <2>2. e = Step(kind, b, issue) /\ n \in 0 .. N
    BY <1>1
  <2>. HIDE DEF b, e, Good
  <2>3. /\ IsShaped(e) /\ RowsStay(b, e)
        /\ e.links = b.links /\ e.ok = b.ok /\ b.nextIssue <= e.nextIssue
    BY <2>1, <2>2, IssueStepIsShaped
  <2>4. RowsStay(d, e)
    BY <2>1, <2>3 DEF RowsStay
  <2>5. d.nextIssue <= e.nextIssue
    <3>1. d.nextIssue \in Nat /\ b.nextIssue \in Nat /\ e.nextIssue \in Nat
      BY <2>1, <2>3, NextIssueIsNatural
    <3>. QED
      BY <2>1, <2>3, <3>1
  <2>6. ASSUME d.ok
        PROVE  IsDatabase(e) /\ \A j \in 1 .. n : HasIssue(e, seq[j])
    <3>1. b.rows = d.rows
      BY <2>1 DEF RowsStay
    <3>2. issue[1] \in DOMAIN b.rows["Projects"] /\ issue[2] \in STRING
      BY <2>6, <3>1 DEF AreIssuesOf
    <3>3. /\ IsDatabase(e) /\ HasIssue(e, issue)
          /\ \A other : HasIssue(b, other) => HasIssue(e, other)
      BY <2>1, <2>2, <2>6, <3>2, IssueStep
    <3>4. \A j \in 1 .. n : j = n \/ j \in 1 .. n - 1
      OBVIOUS
    <3>. QED
      BY <2>1, <2>6, <3>3, <3>4
  <2>. QED
    BY <2>1, <2>2, <2>3, <2>4, <2>5, <2>6 DEF Good, e
<1>4. N \in Good
  <2>1. Good \in SUBSET (0 .. N)
    OBVIOUS
  <2>. HIDE DEF Good
  <2>2. \A n \in 0 .. N : n \in Good
    BY <1>2, <1>3, <2>1, Upward
  <2>. QED
    BY <2>2
<1>. QED
  BY <1>4 DEF HoldsIssues

\* A database that is seeded: what SeedsAreIn says, and what else is known.
LEMMA WholeFixtureIsIn ==
  ASSUME NEW d, IsDatabase(d),
         \A seed \in Range(Seeds) : HasRow(d, seed),
         \A l \in LinksOf(d) : ~ LinkIsFree(d, l),
         \A i \in IssuesOf(d) : HasIssue(d, i)
  PROVE  SeedsAreIn(d)
<1>1. RecordsAreTyped(d)
  BY PartsOfDatabase
<1>2. DOMAIN d.tracked = SeedKeys
  <2>1. SeedKeys \subseteq DOMAIN d.tracked
    BY SeedsAreTyped DEF HasRow
  <2>. QED
    BY <1>1, <2>1 DEF RecordsAreTyped
<1>3. IsInjective(d.tracked)
  BY <1>1 DEF RecordsAreTyped
<1>4. ASSUME NEW seed \in Range(Seeds)
      PROVE  LET ref == d.tracked[seed.key]
             IN  /\ ref[1] = seed.table
                 /\ Exists(d, ref) /\ d.rows[ref[1]][ref[2]] = seed.key
                 /\ ref[1] = "Users" => ref[2] \in d.accounts
  BY DEF HasRow
<1>5. \A i \in IssuesOf(d) : \E j \in IssuesNamed(d, i[1], i[2]) : j.seeded
  BY DEF HasIssue
<1>. QED
  BY <1>2, <1>3, <1>4, <1>5 DEF SeedsAreIn

\* What a run of either tool that succeeds makes of a database.
IsSeededFrom(d, e) ==
    /\ IsDatabase(e) /\ RecordsAreOfTheirTable(e) /\ SeedsAreIn(e)
    /\ \A ref : IsForeign(d, ref) => IsForeign(e, ref)
    /\ \A t \in Tables : d.next[t] <= e.next[t]
    /\ d.nextIssue <= e.nextIssue

\* From the rows to the links and the issues.
LEMMA FixtureIsSeeded ==
  ASSUME NEW d, IsShaped(d),
         d.ok => IsDatabase(d) /\ RecordsAreOfTheirTable(d),
         NEW kind, IsSeeding(kind),
         NEW s, AreStates(kind, d, Seeds, Len(Seeds), s),
         NEW linked, \/ linked = EnsureLinks(s[Len(Seeds)])
                     \/ linked = InsertLinks(s[Len(Seeds)]),
         NEW kindOfIssues, IsSeedingIssues(kindOfIssues),
         NEW seq, seq = SetToSeq(IssuesOf(linked)),
         NEW N, N = Cardinality(IssuesOf(linked)),
         NEW u, AreStates(kindOfIssues, linked, seq, N, u),
         u[N].ok
  PROVE  d.ok /\ IsSeededFrom(d, u[N])
<1>. DEFINE rows == s[Len(Seeds)]
            e == u[N]
<1>1. IsShaped(rows)
  BY SeedingIsOk, SeedsAreTyped
<1>2. rows.ok => /\ d.ok
                 /\ IsDatabase(rows) /\ RecordsAreOfTheirTable(rows)
                 /\ \A seed \in Range(Seeds) : HasRow(rows, seed)
                 /\ \A ref : IsForeign(d, ref) => IsForeign(rows, ref)
                 /\ HangersStay(d, rows)
  BY RowsAreSeeded
<1>. HIDE DEF rows
<1>3. linked = EnsureLinks(rows) \/ linked = InsertLinks(rows)
  BY DEF rows
<1>4. /\ IsShaped(linked) /\ RowsStay(rows, linked) /\ (linked.ok => rows.ok)
      /\ linked.nextIssue = rows.nextIssue
      /\ \A l \in LinksOf(rows) : ~ LinkIsFree(linked, l)
  BY <1>1, <1>3, LinksAreSeeded
<1>5. linked.ok => /\ IsDatabase(linked)
                   /\ \A seed \in Range(Seeds) : HasRow(linked, seed)
  BY <1>2, <1>3, <1>4, LinkedDatabase, WhatRowsDecide
<1>6. /\ N \in Nat /\ seq \in [1 .. N -> IssuesOf(linked)]
      /\ \A i \in IssuesOf(linked) : \E n \in 1 .. N : seq[n] = i
  BY IssuesOfSeedsAreFinite, SetsAreListed
<1>7. DOMAIN seq = 1 .. N
  BY <1>6
<1>8. linked.ok => IsDatabase(linked) /\ AreIssuesOf(linked, seq, N)
  BY <1>5, <1>6, IssuesOfSeedsAreTyped DEF AreIssuesOf
<1>9. /\ RowsStay(linked, e) /\ e.ok = linked.ok /\ e.links = linked.links
      /\ linked.nextIssue <= e.nextIssue
      /\ e.ok => IsDatabase(e) /\ \A n \in 1 .. N : HasIssue(e, seq[n])
  <2>1. HoldsIssues(linked, e, seq, N)
    BY <1>4, <1>6, <1>7, <1>8, IssuesAreSeeded
  <2>. QED
    BY <2>1 DEF HoldsIssues
<1>10. linked.ok /\ rows.ok /\ d.ok
  BY <1>2, <1>4, <1>9
<1>. HIDE DEF e
<1>11. /\ IsDatabase(e) /\ RecordsAreOfTheirTable(e)
       /\ \A seed \in Range(Seeds) : HasRow(e, seed)
       /\ \A ref : IsForeign(d, ref) => IsForeign(e, ref)
       /\ LinksOf(e) = LinksOf(rows) /\ IssuesOf(e) = IssuesOf(linked)
  BY <1>2, <1>4, <1>9, <1>10, WhatRowsDecide DEF e
<1>12. \A l \in LinksOf(e) : ~ LinkIsFree(e, l)
  BY <1>4, <1>9, <1>11 DEF LinkIsFree
<1>13. \A i \in IssuesOf(e) : HasIssue(e, i)
  BY <1>6, <1>9, <1>10, <1>11
<1>14. SeedsAreIn(e)
  BY <1>11, <1>12, <1>13, WholeFixtureIsIn
<1>15. \A t \in Tables : d.next[t] <= e.next[t]
  BY <1>2, <1>4, <1>9, <1>10 DEF RowsStay, HangersStay
<1>16. d.nextIssue <= e.nextIssue
  BY <1>2, <1>4, <1>9, <1>10 DEF HangersStay
<1>. QED
  BY <1>10, <1>11, <1>14, <1>15, <1>16 DEF IsSeededFrom, e

LEMMA EnsuredDatabase ==
  ASSUME NEW d, IsShaped(d),
         d.ok => IsDatabase(d) /\ RecordsAreOfTheirTable(d),
         NEW e, e = Ensured(d), e.ok
  PROVE  d.ok /\ IsSeededFrom(d, e)
<1>. DEFINE N == Len(Seeds)
<1>1. PICK s : /\ AreStates("ensureRow", d, Seeds, N, s)
               /\ s[N] = FoldLeft(EnsureSeedRow, d, Seeds)
  BY StatesOfEnsuredRows, SeedsAreTyped
<1>. DEFINE linked == EnsureLinks(s[N])
            M == Cardinality(IssuesOf(linked))
            seq == SetToSeq(IssuesOf(linked))
<1>2. M \in Nat /\ DOMAIN seq = 1 .. M
  BY IssuesOfSeedsAreFinite, SetsAreListed
<1>3. e = FoldLeft(EnsureIssue, linked, seq)
  BY <1>1, Zenon DEF Ensured, EnsureIssues
<1>4. linked = EnsureLinks(s[N]) \/ linked = InsertLinks(s[N])
  OBVIOUS
<1>. HIDE DEF linked
<1>5. seq = SetToSeq(IssuesOf(linked)) /\ M = Cardinality(IssuesOf(linked))
  OBVIOUS
<1>. HIDE DEF seq, M
<1>6. PICK u : AreStates("ensureIssue", linked, seq, M, u) /\ u[M] = e
  BY <1>2, <1>3, StatesOfEnsuredIssues
<1>7. IsSeeding("ensureRow") /\ IsSeedingIssues("ensureIssue")
  BY DEF IsSeeding, IsSeedingIssues
<1>. QED
  BY <1>1, <1>4, <1>5, <1>6, <1>7, FixtureIsSeeded

LEMMA CreatedDatabase ==
  ASSUME NEW d, IsShaped(d),
         d.ok => IsDatabase(d) /\ RecordsAreOfTheirTable(d),
         NEW e, e = Created(d), e.ok
  PROVE  d.ok /\ IsSeededFrom(d, e)
<1>. DEFINE N == Len(Seeds)
<1>1. PICK s : /\ AreStates("insertRow", d, Seeds, N, s)
               /\ s[N] = FoldLeft(InsertSeed, d, Seeds)
  BY StatesOfInsertedRows, SeedsAreTyped
<1>. DEFINE linked == InsertLinks(s[N])
            M == Cardinality(IssuesOf(linked))
            seq == SetToSeq(IssuesOf(linked))
<1>2. M \in Nat /\ DOMAIN seq = 1 .. M
  BY IssuesOfSeedsAreFinite, SetsAreListed
<1>3. e = FoldLeft(InsertSeededIssue, linked, seq)
  BY <1>1, Zenon DEF Created, InsertIssues
<1>4. linked = EnsureLinks(s[N]) \/ linked = InsertLinks(s[N])
  OBVIOUS
<1>. HIDE DEF linked
<1>5. seq = SetToSeq(IssuesOf(linked)) /\ M = Cardinality(IssuesOf(linked))
  OBVIOUS
<1>. HIDE DEF seq, M
<1>6. PICK u : AreStates("insertIssue", linked, seq, M, u) /\ u[M] = e
  BY <1>2, <1>3, StatesOfInsertedIssues
<1>7. IsSeeding("insertRow") /\ IsSeedingIssues("insertIssue")
  BY DEF IsSeeding, IsSeedingIssues
<1>. QED
  BY <1>1, <1>4, <1>5, <1>6, <1>7, FixtureIsSeeded

-----------------------------------------------------------------------------
(* Deleting rows *)

\* What deleting rows leaves.
Deletes(d, e, gone) ==
    /\ e.next = d.next /\ e.nextIssue = d.nextIssue
    /\ \A t \in Tables :
        /\ e.rows[t] = [i \in DOMAIN e.rows[t] |-> e.rows[t][i]]
        /\ \A i \in DOMAIN e.rows[t] : e.rows[t][i] = d.rows[t][i]
        /\ \A i : i \in DOMAIN e.rows[t] <=>
                    i \in DOMAIN d.rows[t] /\ <<t, i>> \notin gone
    /\ e.links = {l \in d.links : {l[2], l[3]} \cap gone = {}}
    /\ e.issues = {i \in d.issues : <<"Projects", i.project>> \notin gone}
    /\ e.comments \subseteq d.comments
    /\ \A c \in e.comments : e.ok => <<"Users", c[1]>> \notin gone
    /\ e.ok => d.ok

LEMMA RowsAreDeleted ==
  ASSUME NEW d, IsShaped(d), NEW gone, NEW e, e = DeleteRows(d, gone)
  PROVE  IsShaped(e) /\ Deletes(d, e, gone) /\ e.tracked = d.tracked
<1>. DEFINE rows == [t \in Tables |->
                       Restrict(d.rows[t], {id \in DOMAIN d.rows[t] :
                                               <<t, id>> \notin gone})]
            links == {l \in d.links : {l[2], l[3]} \cap gone = {}}
            issues == {i \in d.issues : <<"Projects", i.project>> \notin gone}
            comments == {c \in d.comments : <<"Projects", c[2]>> \notin gone}
            accounts == {u \in d.accounts : <<"Users", u>> \notin gone}
            free == \A c \in comments : <<"Users", c[1]>> \notin gone
<1>1. e = [d EXCEPT !.rows = rows, !.links = links, !.issues = issues,
                    !.comments = comments, !.accounts = accounts,
                    !.ok = d.ok /\ free]
  BY DEF DeleteRows, IsShaped
<1>2. /\ free \in BOOLEAN /\ comments \subseteq d.comments
      /\ free => \A c \in comments : <<"Users", c[1]>> \notin gone
      /\ rows = [t \in Tables |-> rows[t]]
  OBVIOUS
<1>3. \A t \in Tables :
        /\ rows[t] = [i \in DOMAIN rows[t] |-> rows[t][i]]
        /\ \A i \in DOMAIN rows[t] : rows[t][i] = d.rows[t][i]
        /\ \A i : i \in DOMAIN rows[t] <=>
                    i \in DOMAIN d.rows[t] /\ <<t, i>> \notin gone
  BY DEF Restrict
<1>. HIDE DEF rows, links, issues, comments, accounts, free
<1>4. e \in [rows : {rows}, next : {d.next}, nextIssue : {d.nextIssue},
             links : {links}, issues : {issues}, comments : {comments},
             accounts : {accounts}, tracked : {d.tracked}, ok : BOOLEAN]
  BY <1>1, <1>2 DEF IsShaped
<1>5. (e.ok => d.ok) /\ (e.ok => free)
  BY <1>1, <1>2 DEF IsShaped
<1>6. IsShaped(e)
  BY <1>2, <1>4 DEF IsShaped
<1>7. /\ e.next = d.next /\ e.nextIssue = d.nextIssue /\ e.rows = rows
      /\ e.links = links /\ e.issues = issues /\ e.comments = comments
      /\ e.tracked = d.tracked
  BY <1>4
<1>8. Deletes(d, e, gone)
  BY <1>2, <1>3, <1>5, <1>7 DEF Deletes, links, issues
<1>. QED
  BY <1>6, <1>7, <1>8

LEMMA DeletedDatabase ==
  ASSUME NEW d, IsDatabase(d), NEW gone, NEW e, IsShaped(e), e.ok,
         Deletes(d, e, gone), RecordsAreTyped(e)
  PROVE  /\ IsDatabase(e)
         /\ \A ref : IsForeign(d, ref) /\ ref \notin gone
                        /\ ref \notin TrackedEntityIds(e) => IsForeign(e, ref)
         /\ \A ref : WasGiven(d, ref) /\ Exists(e, ref) =>
              ref \notin gone /\ Exists(d, ref)
<1>1. /\ RowsAreTyped(d) /\ LinksAreTyped(d) /\ IssuesAreTyped(d)
      /\ CommentsAreTyped(d)
  BY PartsOfDatabase
<1>2. ASSUME NEW t \in Tables
      PROVE  /\ e.rows[t] = [i \in DOMAIN e.rows[t] |-> e.rows[t][i]]
             /\ \A i \in DOMAIN e.rows[t] : e.rows[t][i] = d.rows[t][i]
             /\ \A i : i \in DOMAIN e.rows[t] <=>
                         i \in DOMAIN d.rows[t] /\ <<t, i>> \notin gone
             /\ d.rows[t] \in [DOMAIN d.rows[t] -> STRING]
             /\ DOMAIN d.rows[t] \subseteq 1 .. d.next[t] - 1
             /\ e.next[t] = d.next[t]
  BY <1>1 DEF Deletes, RowsAreTyped
<1>2a. ASSUME NEW ref, ref = <<ref[1], ref[2]>>, ref[1] \in Tables
       PROVE  ref[2] \in DOMAIN e.rows[ref[1]] <=>
                ref[2] \in DOMAIN d.rows[ref[1]] /\ ref \notin gone
  <2>1. PICK t \in Tables : t = ref[1]
    BY <1>2a
  <2>1a. PICK i : i = ref[2]
    OBVIOUS
  <2>2. ref = <<t, i>>
    BY <1>2a, <2>1, <2>1a
  <2>3. i \in DOMAIN e.rows[t] <=> i \in DOMAIN d.rows[t] /\ <<t, i>> \notin gone
    BY <1>2
  <2>. QED
    BY <2>1, <2>1a, <2>2, <2>3, Zenon
<1>3. RowsAreTyped(e)
  <2>1. ASSUME NEW t \in Tables
        PROVE  /\ e.rows[t] \in [DOMAIN e.rows[t] -> STRING]
               /\ DOMAIN e.rows[t] \subseteq 1 .. e.next[t] - 1
    <3>1. \A i \in DOMAIN e.rows[t] :
             i \in 1 .. e.next[t] - 1 /\ e.rows[t][i] \in STRING
      BY <1>2
    <3>. QED
      BY <1>2, <3>1
  <2>. QED
    BY <2>1 DEF RowsAreTyped
<1>4. LinksAreTyped(e)
  <2>1. ASSUME NEW l \in e.links, NEW ref \in {l[2], l[3]}
        PROVE  /\ ref = <<ref[1], ref[2]>> /\ ref[1] \in Tables
               /\ ref[2] \in DOMAIN e.rows[ref[1]]
    <3>1. l \in d.links /\ ref \notin gone
      BY DEF Deletes
    <3>2. /\ ref = <<ref[1], ref[2]>> /\ ref[1] \in Tables
          /\ ref[2] \in DOMAIN d.rows[ref[1]]
      BY <1>1, <3>1 DEF LinksAreTyped, Exists
    <3>. QED
      BY <1>2a, <3>1, <3>2
  <2>. QED
    BY <2>1 DEF LinksAreTyped, Exists
<1>5. IssuesAreTyped(e)
  <2>. DEFINE Issue(p) == [id : 1 .. d.nextIssue - 1, project : p,
                           name : STRING, seeded : BOOLEAN]
              p1 == DOMAIN d.rows["Projects"]
              p2 == DOMAIN e.rows["Projects"]
  <2>1. ASSUME NEW i \in e.issues
        PROVE  i \in Issue(p2)
    <3>1. i \in d.issues /\ <<"Projects", i.project>> \notin gone
      BY DEF Deletes
    <3>2. i \in Issue(p1)
      BY <1>1, <3>1 DEF IssuesAreTyped
    <3>3. i.project \in p2
      BY <1>2, <3>1, <3>2 DEF Tables
    <3>. HIDE DEF p1, p2
    <3>. QED
      BY <3>2, <3>3
  <2>2. e.nextIssue = d.nextIssue
    BY DEF Deletes
  <2>. QED
    BY <2>1, <2>2 DEF IssuesAreTyped
<1>6. CommentsAreTyped(e)
  <2>1. ASSUME NEW c \in e.comments
        PROVE  c[1] \in DOMAIN e.rows["Users"]
    <3>1. c \in d.comments /\ <<"Users", c[1]>> \notin gone
      BY DEF Deletes
    <3>2. c[1] \in DOMAIN d.rows["Users"]
      BY <1>1, <3>1 DEF CommentsAreTyped, Exists
    <3>. QED
      BY <1>2, <3>1, <3>2 DEF Tables
  <2>. QED
    BY <2>1 DEF CommentsAreTyped, Exists
<1>7. IsDatabase(e)
  BY <1>3, <1>4, <1>5, <1>6, PartsOfDatabase
<1>8. ASSUME NEW ref, IsForeign(d, ref), ref \notin gone,
             ref \notin TrackedEntityIds(e)
      PROVE  IsForeign(e, ref)
  <2>1. /\ ref = <<ref[1], ref[2]>> /\ ref[1] \in Tables
        /\ ref[2] \in DOMAIN d.rows[ref[1]]
        /\ d.rows[ref[1]][ref[2]] = Other
    BY <1>8 DEF IsForeign, Exists
  <2>2. ref[2] \in DOMAIN e.rows[ref[1]]
    BY <1>2a, <1>8, <2>1
  <2>3. e.rows[ref[1]][ref[2]] = Other
    <3>1. PICK t \in Tables, i \in DOMAIN e.rows[ref[1]] : t = ref[1] /\ i = ref[2]
      BY <2>1, <2>2
    <3>2. e.rows[t][i] = d.rows[t][i]
      BY <1>2, <3>1
    <3>. QED
      BY <2>1, <3>1, <3>2
  <2>4. Exists(e, ref)
    BY <2>2 DEF Exists
  <2>. QED
    BY <1>8, <2>1, <2>3, <2>4 DEF IsForeign
<1>9. ASSUME NEW ref, WasGiven(d, ref), Exists(e, ref)
      PROVE  ref \notin gone /\ Exists(d, ref)
  <2>1. ref = <<ref[1], ref[2]>> /\ ref[1] \in Tables
    BY <1>9 DEF WasGiven
  <2>. QED
    BY <1>2a, <1>9, <2>1 DEF Exists
<1>. QED
  BY <1>7, <1>8, <1>9

\* A purge deletes the rows that were read, and all records.
LEMMA PurgedDatabase ==
  ASSUME NEW d, IsDatabase(d), NEW gone, NEW e, e = Purged(d, gone)
  PROVE  /\ IsShaped(e) /\ e.tracked = <<>> /\ Deletes(d, e, gone)
         /\ e.ok => /\ d.ok /\ IsDatabase(e) /\ RecordsAreOfTheirTable(e)
                    /\ \A ref : IsForeign(d, ref) /\ ref \notin gone =>
                         IsForeign(e, ref)
                    /\ \A ref \in gone : WasGiven(d, ref) => ~ Exists(e, ref)
<1>. DEFINE deleted == DeleteRows(d, gone)
<1>1. IsShaped(d)
  BY PartsOfDatabase
<1>2. /\ IsShaped(deleted) /\ Deletes(d, deleted, gone)
      /\ e = [deleted EXCEPT !.tracked = <<>>]
  BY <1>1, RowsAreDeleted DEF Purged
<1>. HIDE DEF deleted
<1>3. e \in [rows : {deleted.rows}, next : {deleted.next},
             nextIssue : {deleted.nextIssue}, links : {deleted.links},
             issues : {deleted.issues}, comments : {deleted.comments},
             accounts : {deleted.accounts}, tracked : {<<>>},
             ok : {deleted.ok}]
  BY <1>2 DEF IsShaped
<1>4. /\ e.rows = deleted.rows /\ e.next = deleted.next
      /\ e.nextIssue = deleted.nextIssue /\ e.links = deleted.links
      /\ e.issues = deleted.issues /\ e.comments = deleted.comments
      /\ e.tracked = <<>> /\ e.ok = deleted.ok
  BY <1>3
<1>5. IsShaped(e)
  <2>1. e \in [rows : {e.rows}, next : [Tables -> Nat \ {0}],
              nextIssue : Nat \ {0},
              links : {e.links}, issues : {e.issues}, comments : {e.comments},
              accounts : {e.accounts}, tracked : {e.tracked}, ok : BOOLEAN]
    BY <1>2, <1>3 DEF IsShaped
  <2>2. e.rows = [t \in Tables |-> e.rows[t]]
    BY <1>2, <1>4 DEF IsShaped
  <2>. QED
    BY <2>1, <2>2 DEF IsShaped
<1>6. Deletes(d, e, gone)
  BY <1>2, <1>4 DEF Deletes
<1>7. ASSUME e.ok
      PROVE  /\ d.ok /\ IsDatabase(e) /\ RecordsAreOfTheirTable(e)
             /\ \A ref : IsForeign(d, ref) /\ ref \notin gone =>
                  IsForeign(e, ref)
             /\ \A ref \in gone : WasGiven(d, ref) => ~ Exists(e, ref)
  <2>1. DOMAIN e.tracked = {} /\ e.tracked = [key \in {} |-> e.tracked[key]]
    BY <1>4
  <2>2. RecordsAreTyped(e) /\ RecordsAreOfTheirTable(e)
    BY <2>1 DEF RecordsAreTyped, RecordsAreOfTheirTable, IsInjective
  <2>3. TrackedEntityIds(e) = {}
    BY <2>1 DEF TrackedEntityIds, Range
  <2>4. d.ok
    BY <1>6, <1>7 DEF Deletes
  <2>. QED
    BY <1>5, <1>6, <1>7, <2>2, <2>3, <2>4, DeletedDatabase
<1>. QED
  BY <1>4, <1>5, <1>6, <1>7

\* The script seeds a database that it purged.
LEMMA ReseededDatabase ==
  ASSUME NEW d, IsDatabase(d), NEW e, e = Reseeded(d), e.ok
  PROVE  /\ IsDatabase(e) /\ RecordsAreOfTheirTable(e) /\ SeedsAreIn(e)
         /\ \A ref : IsForeign(d, ref) => IsForeign(e, ref)
         /\ \A t \in Tables : d.next[t] <= e.next[t]
         /\ d.nextIssue <= e.nextIssue
<1>. DEFINE gone == TrackedEntityIds(d)
            purged == Purged(d, gone)
<1>1. e = Created(purged)
  BY DEF Reseeded
<1>2. /\ IsShaped(purged) /\ Deletes(d, purged, gone)
      /\ purged.ok => /\ d.ok /\ IsDatabase(purged)
                      /\ RecordsAreOfTheirTable(purged)
                      /\ \A ref : IsForeign(d, ref) /\ ref \notin gone =>
                           IsForeign(purged, ref)
  BY PurgedDatabase
<1>. HIDE DEF purged, gone
<1>3. purged.ok /\ IsSeededFrom(purged, e)
  BY <1>1, <1>2, CreatedDatabase
<1>4. /\ IsDatabase(e) /\ RecordsAreOfTheirTable(e) /\ SeedsAreIn(e)
      /\ \A ref : IsForeign(purged, ref) => IsForeign(e, ref)
      /\ \A t \in Tables : purged.next[t] <= e.next[t]
      /\ purged.nextIssue <= e.nextIssue
  BY <1>3 DEF IsSeededFrom
<1>5. purged.next = d.next /\ purged.nextIssue = d.nextIssue
  BY <1>2 DEF Deletes
<1>6. \A ref : IsForeign(d, ref) => ref \notin gone
  BY DEF IsForeign, gone
<1>. QED
  BY <1>2, <1>3, <1>4, <1>5, <1>6

-----------------------------------------------------------------------------
(* The invariant *)

\* The records are of rows of the seeds' tables.
RecordsFit == RecordsAreOfTheirTable(db)

\* No record, and nothing that a purge has read, is of a row that users made.
OwnRowsAreForeign ==
    \A ref \in own : IsForeign(db, ref) /\ ref \notin run.tracked

\* Between the last insertion and the commit nothing comes.
InsertedIsOk == run.step = "inserted" => Reseeded(db).ok

\* Journals to delete: those of the projects that are tracked, and of issues.
Covers(targets, tracked, nextIssue) ==
    /\ \A ref \in tracked :
        ref[1] = "Projects" => <<"projectJournal", ref[2]>> \in targets
    /\ \A file \in targets :
        \/ \E ref \in tracked :
            ref[1] = "Projects" /\ file = <<"projectJournal", ref[2]>>
        \/ \E p : \E i \in 1 .. nextIssue - 1 : file = <<"issueJournal", p, i>>

\* A purge knows all records until it deletes them, and afterwards nothing
\* brings back a row it deleted or a file it is to delete.
PurgeIsFaithful ==
    /\ run.step \in {"read", "purging"} => run.tracked = TrackedEntityIds(db)
    /\ run.step \in {"read", "purging", "unlink"} =>
        Covers(run.targets, run.tracked, db.nextIssue)
    /\ run.step = "unlink" =>
        /\ DOMAIN db.tracked = {}
        /\ \A ref \in run.tracked : ~ Exists(db, ref)
        /\ files \cap run.targets \subseteq run.left

IInv == /\ TypeOK /\ RecordsFit /\ OwnRowsAreForeign
        /\ InsertedIsOk /\ PurgeIsFaithful

LEMMA EmptyIsDatabase ==
  IsDatabase(EmptyDatabase) /\ EmptyDatabase.ok
<1>. DEFINE d == EmptyDatabase
<1>1. /\ d.rows = [t \in Tables |-> <<>>] /\ d.next = [t \in Tables |-> 1]
      /\ d.nextIssue = 1 /\ d.links = {} /\ d.issues = {} /\ d.comments = {}
      /\ d.accounts = {} /\ d.tracked = <<>> /\ d.ok = TRUE
  BY DEF EmptyDatabase
<1>1a. /\ [t \in Tables |-> 1] \in [Tables -> Nat \ {0}]
       /\ d \in [rows : {d.rows}, next : {[t \in Tables |-> 1]}, nextIssue : {1},
                 links : {d.links}, issues : {d.issues},
                 comments : {d.comments}, accounts : {d.accounts},
                 tracked : {d.tracked}, ok : BOOLEAN]
  BY DEF EmptyDatabase
<1>. HIDE DEF d
<1>2. IsShaped(d)
  <2>1. [t \in Tables |-> 1] \in [Tables -> Nat \ {0}]
    OBVIOUS
  <2>2. d.rows = [t \in Tables |-> d.rows[t]]
    BY <1>1
  <2>3. d \in [rows : {d.rows}, next : [Tables -> Nat \ {0}],
               nextIssue : Nat \ {0},
               links : {d.links}, issues : {d.issues}, comments : {d.comments},
               accounts : {d.accounts}, tracked : {d.tracked}, ok : BOOLEAN]
    <3>. DEFINE next == [t \in Tables |-> 1]
    <3>1. /\ next \in [Tables -> Nat \ {0}]
          /\ d \in [rows : {d.rows}, next : {next}, nextIssue : {1},
                    links : {d.links}, issues : {d.issues},
                    comments : {d.comments}, accounts : {d.accounts},
                    tracked : {d.tracked}, ok : BOOLEAN]
      BY <1>1a
    <3>. HIDE DEF next
    <3>. QED
      BY <3>1
  <2>. QED
    BY <2>2, <2>3 DEF IsShaped
<1>3. DOMAIN <<>> = {} /\ <<>> \in [{} -> STRING]
  OBVIOUS
<1>4. RowsAreTyped(d)
  BY <1>1, <1>3 DEF RowsAreTyped
<1>5. LinksAreTyped(d) /\ IssuesAreTyped(d) /\ CommentsAreTyped(d)
  BY <1>1 DEF LinksAreTyped, IssuesAreTyped, CommentsAreTyped
<1>6. RecordsAreTyped(d)
  BY <1>1, <1>3 DEF RecordsAreTyped, IsInjective
<1>. QED
  BY <1>1, <1>2, <1>4, <1>5, <1>6, PartsOfDatabase DEF d

LEMMA InitInv == Init => IInv
<1>. SUFFICES ASSUME Init
              PROVE  IInv
  OBVIOUS
<1>1. /\ db = EmptyDatabase /\ own = {} /\ runs = 0 /\ changes = 0
      /\ run = [step |-> "idle", tracked |-> {}, targets |-> {}, left |-> {}]
  BY DEF Init, idle
<1>2. MaxRuns \in Nat /\ MaxChanges \in Nat
  BY BoundsAreNatural
<1>3. run.step = "idle" /\ run.tracked = {}
  BY <1>1
<1>4. TypeOK
  BY <1>1, <1>2, EmptyIsDatabase DEF TypeOK
<1>5. RecordsFit
  BY <1>1 DEF RecordsFit, RecordsAreOfTheirTable, EmptyDatabase
<1>6. OwnRowsAreForeign /\ InsertedIsOk /\ PurgeIsFaithful
  BY <1>1, <1>3 DEF OwnRowsAreForeign, InsertedIsOk, PurgeIsFaithful
<1>. QED
  BY <1>4, <1>5, <1>6 DEF IInv

\* What users leave of a database.
UsersLeave(d, e) ==
    /\ IsDatabase(e) /\ e.tracked = d.tracked
    /\ \A t \in Tables : d.next[t] <= e.next[t]
    /\ d.nextIssue <= e.nextIssue
    /\ \A ref : WasGiven(d, ref) /\ Exists(e, ref) => Exists(d, ref)

LEMMA GivenStaysGiven ==
  ASSUME NEW d, NEW e, IsDatabase(d), IsDatabase(e),
         \A t \in Tables : d.next[t] <= e.next[t]
  PROVE  \A ref : WasGiven(d, ref) => WasGiven(e, ref)
<1>. SUFFICES ASSUME NEW ref, WasGiven(d, ref)
              PROVE  WasGiven(e, ref)
  OBVIOUS
<1>1. /\ ref = <<ref[1], ref[2]>> /\ ref[1] \in Tables
      /\ ref[2] \in 1 .. d.next[ref[1]] - 1
  BY DEF WasGiven
<1>2. d.next[ref[1]] \in Nat /\ e.next[ref[1]] \in Nat
  BY <1>1, PartsOfDatabase, IdsAreNatural
<1>3. ref[2] \in 1 .. e.next[ref[1]] - 1
  BY <1>1, <1>2
<1>. QED
  BY <1>1, <1>3 DEF WasGiven

\* Rows that are there were given.
LEMMA ForeignIsGiven ==
  ASSUME NEW d, IsDatabase(d)
  PROVE  \A ref : IsForeign(d, ref) => WasGiven(d, ref)
<1>1. RowsAreTyped(d)
  BY PartsOfDatabase
<1>. QED
  BY <1>1 DEF RowsAreTyped, IsForeign, WasGiven, Exists

\* A change of users, whatever the tool that runs has read before.
LEMMA UsersKeepInv ==
  ASSUME IInv, run' = run, runs' = runs,
         run.step \notin {"begun", "inserted", "purging"},
         changes < MaxChanges, changes' = changes + 1,
         db'.ok, UsersLeave(db, db'),
         \A ref \in own' : IsForeign(db', ref) /\ ref \notin run.tracked,
         run.step = "unlink" =>
            \A file \in files' : file \in files \/ file \notin run.targets
  PROVE  IInv'
<1>1. TypeOK /\ RecordsFit /\ PurgeIsFaithful
  BY DEF IInv
<1>2. /\ IsDatabase(db') /\ db'.tracked = db.tracked
      /\ \A t \in Tables : db.next[t] <= db'.next[t]
      /\ db.nextIssue <= db'.nextIssue
      /\ \A ref : WasGiven(db, ref) /\ Exists(db', ref) => Exists(db, ref)
  BY DEF UsersLeave
<1>3. \A ref \in run.tracked : WasGiven(db, ref) /\ WasGiven(db', ref)
  BY <1>1, <1>2, GivenStaysGiven DEF TypeOK
<1>4. changes' \in 0 .. MaxChanges /\ MaxChanges \in Nat
  BY <1>1, BoundsAreNatural DEF TypeOK
<1>5. TypeOK'
  <2>1. \A ref \in own' : WasGiven(db', ref)
    BY <1>2, ForeignIsGiven
  <2>. QED
    BY <1>1, <1>2, <1>3, <1>4, <2>1 DEF TypeOK
<1>6. RecordsFit'
  BY <1>1, <1>2 DEF RecordsFit, RecordsAreOfTheirTable
<1>7. OwnRowsAreForeign'
  BY DEF OwnRowsAreForeign
<1>8. InsertedIsOk'
  BY DEF InsertedIsOk
<1>9. PurgeIsFaithful'
  <2>1. TrackedEntityIds(db') = TrackedEntityIds(db)
    BY <1>2 DEF TrackedEntityIds
  <2>2. 1 .. db.nextIssue - 1 \subseteq 1 .. db'.nextIssue - 1
    <3>1. db.nextIssue \in Nat /\ db'.nextIssue \in Nat
      BY <1>1, <1>2, PartsOfDatabase, NextIssueIsNatural DEF TypeOK
    <3>. QED
      BY <1>2, <3>1
  <2>3. Covers(run.targets, run.tracked, db.nextIssue) =>
          Covers(run.targets, run.tracked, db'.nextIssue)
    BY <2>2 DEF Covers
  <2>4. ASSUME run.step = "unlink"
        PROVE  /\ DOMAIN db'.tracked = {}
               /\ \A ref \in run.tracked : ~ Exists(db', ref)
               /\ files' \cap run.targets \subseteq run.left
    BY <1>1, <1>2, <1>3, <2>4 DEF PurgeIsFaithful
  <2>. QED
    BY <1>1, <2>1, <2>3, <2>4 DEF PurgeIsFaithful
<1>. QED
  BY <1>5, <1>6, <1>7, <1>8, <1>9 DEF IInv

\* A change that leaves the rows.
LEMMA RowsUntouched ==
  ASSUME IInv, NEW e, IsShaped(e), e.rows = db.rows, e.next = db.next,
         e.tracked = db.tracked, db.nextIssue <= e.nextIssue,
         LinksAreTyped(e), IssuesAreTyped(e), CommentsAreTyped(e)
  PROVE  /\ UsersLeave(db, e)
         /\ \A ref \in own : IsForeign(e, ref) /\ ref \notin run.tracked
<1>1. IsDatabase(db)
  BY DEF IInv, TypeOK
<1>2. RowsAreTyped(db) /\ RecordsAreTyped(db) /\ IsShaped(db)
  BY <1>1, PartsOfDatabase
<1>3. RowsAreTyped(e) /\ RecordsAreTyped(e)
  BY <1>2 DEF RowsAreTyped, RecordsAreTyped, WasGiven
<1>4. IsDatabase(e)
  BY <1>3, PartsOfDatabase
<1>5. \A t \in Tables : db.next[t] <= e.next[t]
  <2>1. \A t \in Tables : db.next[t] \in Nat \ {0}
    BY <1>2, IdsAreNatural
  <2>2. \A n \in Nat \ {0} : n <= n
    OBVIOUS
  <2>. QED
    BY <2>1, <2>2
<1>6. \A ref : Exists(e, ref) => Exists(db, ref)
  BY DEF Exists
<1>7. \A ref \in own : IsForeign(e, ref) /\ ref \notin run.tracked
  BY DEF IInv, OwnRowsAreForeign, IsForeign, Exists, TrackedEntityIds
<1>. QED
  BY <1>4, <1>5, <1>6, <1>7 DEF UsersLeave

-----------------------------------------------------------------------------
(* The actions of users *)

LEMMA CreateRowKeepsInv ==
  ASSUME IInv, NEW u \in Tables, NEW name \in STRING, CreateRow(u, name)
  PROVE  IInv'
<1>. DEFINE id == db.next[u]
<1>1. /\ db' = InsertRow(db, u, name) /\ db'.ok
      /\ run.step \notin {"begun", "inserted", "purging"}
      /\ changes < MaxChanges /\ changes' = changes + 1
      /\ run' = run /\ runs' = runs
      /\ own' \subseteq own \cup {<<u, id>>}
      /\ <<u, id>> \in own' => <<u, id>> \in own \/ name = Other
      /\ files' \subseteq files \cup {<<"projectJournal", db.next["Projects"]>>}
  BY DEF CreateRow, UsersChange, NewId
<1>2. IsDatabase(db) /\ IsShaped(db)
  BY PartsOfDatabase DEF IInv, TypeOK
<1>3. /\ IsShaped(db') /\ db'.nextIssue = db.nextIssue
      /\ db'.links = db.links /\ db'.issues = db.issues
      /\ db'.comments = db.comments /\ db'.tracked = db.tracked
  BY <1>1, <1>2, RowIsInserted
<1>4. RowsAreTyped(db') /\ AddsRow(db, db', u, name)
  BY <1>1, <1>2, InsertedRow
<1>5. /\ id \notin DOMAIN db.rows[u] /\ id \in DOMAIN db'.rows[u]
      /\ db'.rows[u][id] = name
      /\ \A t \in Tables :
           /\ db.next[t] <= db'.next[t]
           /\ DOMAIN db.rows[t] \subseteq DOMAIN db'.rows[t]
           /\ \A i \in DOMAIN db.rows[t] : db'.rows[t][i] = db.rows[t][i]
      /\ \A t \in Tables : \A i \in DOMAIN db'.rows[t] :
           i \in DOMAIN db.rows[t] \/ <<t, i>> = <<u, id>>
  BY <1>4 DEF AddsRow
<1>6. \A t \in Tables : db.next[t] \in Nat \ {0} /\ ~ (db.next[t] <= db.next[t] - 1)
  <2>1. \A t \in Tables : db.next[t] \in Nat \ {0}
    BY <1>2, PartsOfDatabase, IdsAreNatural
  <2>2. \A n \in Nat \ {0} : ~ (n <= n - 1)
    OBVIOUS
  <2>. QED
    BY <2>1, <2>2
<1>7. \A t \in Tables : ~ WasGiven(db, <<t, db.next[t]>>)
  <2>1. ASSUME NEW t \in Tables, NEW n, n = db.next[t]
        PROVE  ~ WasGiven(db, <<t, n>>)
    <3>1. n \notin 1 .. n - 1
      BY <1>6, <2>1
    <3>. QED
      BY <2>1, <3>1 DEF WasGiven
  <2>. QED
    BY <2>1
<1>8. IsDatabase(db')
  <2>1. LinksAreTyped(db') /\ IssuesAreTyped(db') /\ CommentsAreTyped(db')
    BY <1>2, <1>3, <1>5, PartsOfDatabase, HangersStayTyped
  <2>2. RecordsAreTyped(db')
    <3>1. RecordsAreTyped(db)
      BY <1>2, PartsOfDatabase
    <3>2. \A ref : WasGiven(db, ref) => WasGiven(db', ref)
      <4>1. ASSUME NEW ref, WasGiven(db, ref)
            PROVE  WasGiven(db', ref)
        <5>1. /\ ref = <<ref[1], ref[2]>> /\ ref[1] \in Tables
              /\ ref[2] \in 1 .. db.next[ref[1]] - 1
          BY <4>1 DEF WasGiven
        <5>2. db.next[ref[1]] \in Nat /\ db'.next[ref[1]] \in Nat
          BY <1>3, <1>4, <1>6, <5>1, IdsAreNatural
        <5>3. ref[2] \in 1 .. db'.next[ref[1]] - 1
          BY <1>5, <5>1, <5>2
        <5>. QED
          BY <5>1, <5>3 DEF WasGiven
      <4>. QED
        BY <4>1
    <3>. QED
      BY <1>3, <3>1, <3>2 DEF RecordsAreTyped
  <2>. QED
    BY <1>3, <1>4, <2>1, <2>2, PartsOfDatabase
<1>9. UsersLeave(db, db')
  <2>1. db.nextIssue <= db'.nextIssue
    <3>1. db.nextIssue \in Nat
      BY <1>2, NextIssueIsNatural
    <3>. QED
      BY <1>3, <3>1
  <2>2. ASSUME NEW ref, WasGiven(db, ref), Exists(db', ref)
        PROVE  Exists(db, ref)
    <3>1. /\ ref = <<ref[1], ref[2]>> /\ ref[1] \in Tables
          /\ ref[2] \in DOMAIN db'.rows[ref[1]]
      BY <2>2 DEF WasGiven, Exists
    <3>2. ref # <<u, id>>
      BY <1>7, <2>2
    <3>. QED
      BY <1>5, <3>1, <3>2 DEF Exists
  <2>. QED
    BY <1>3, <1>5, <1>8, <2>1, <2>2 DEF UsersLeave
<1>10. ASSUME NEW ref \in own'
       PROVE  IsForeign(db', ref) /\ ref \notin run.tracked
  <2>1. \A key \in DOMAIN db.tracked : WasGiven(db, db.tracked[key])
    BY <1>2, PartsOfDatabase DEF RecordsAreTyped
  <2>2. \A r \in run.tracked : WasGiven(db, r)
    BY DEF IInv, TypeOK
  <2>3. CASE ref \in own
    <3>1. IsForeign(db, ref) /\ ref \notin run.tracked
      BY <2>3 DEF IInv, OwnRowsAreForeign
    <3>2. /\ ref = <<ref[1], ref[2]>> /\ ref[1] \in Tables
          /\ ref[2] \in DOMAIN db.rows[ref[1]]
          /\ db.rows[ref[1]][ref[2]] = Other
          /\ ref \notin TrackedEntityIds(db)
      BY <3>1 DEF IsForeign, Exists
    <3>. QED
      BY <1>3, <1>5, <3>1, <3>2 DEF IsForeign, Exists, TrackedEntityIds
  <2>4. CASE ref \notin own
    <3>1. ref = <<u, id>> /\ name = Other
      BY <1>1, <2>4
    <3>2. ~ WasGiven(db, ref)
      BY <1>7, <3>1
    <3>3. ref \notin run.tracked /\ ref \notin TrackedEntityIds(db')
      BY <1>3, <2>1, <2>2, <3>2 DEF TrackedEntityIds, Range
    <3>. QED
      BY <1>5, <3>1, <3>3 DEF IsForeign, Exists
  <2>. QED
    BY <2>3, <2>4
<1>11. ASSUME NEW file \in files', file \notin files, file \in run.targets,
              run.step = "unlink"
       PROVE  FALSE
  <2>1. file = <<"projectJournal", db.next["Projects"]>>
    BY <1>1, <1>11
  <2>2. Covers(run.targets, run.tracked, db.nextIssue)
    BY <1>11 DEF IInv, PurgeIsFaithful
  <2>3. \A p, i : file # <<"issueJournal", p, i>>
    BY <2>1
  <2>4. PICK ref \in run.tracked :
           ref[1] = "Projects" /\ file = <<"projectJournal", ref[2]>>
    BY <1>11, <2>2, <2>3 DEF Covers
  <2>5. WasGiven(db, ref) /\ ref[2] = db.next["Projects"]
    BY <2>1, <2>4 DEF IInv, TypeOK
  <2>6. ref = <<"Projects", db.next["Projects"]>> /\ "Projects" \in Tables
    BY <2>4, <2>5 DEF WasGiven
  <2>. QED
    BY <1>7, <2>5, <2>6
<1>. QED
  BY <1>1, <1>9, <1>10, <1>11, UsersKeepInv

LEMMA RenameRowKeepsInv ==
  ASSUME IInv, NEW ref, ref = <<ref[1], ref[2]>>, ref[1] \in Tables,
         NEW name \in STRING, RenameRow(ref, name)
  PROVE  IInv'
<1>. DEFINE u == ref[1]
            id == ref[2]
<1>1. /\ db' = UpdateRow(db, u, id, name) /\ db'.ok
      /\ id \in DOMAIN db.rows[u]
      /\ run.step \notin {"begun", "inserted", "purging"}
      /\ changes < MaxChanges /\ changes' = changes + 1
      /\ run' = run /\ runs' = runs
      /\ own' = own \ {ref} /\ files' = files
  BY DEF RenameRow, UsersChange, Exists
<1>2. IsDatabase(db) /\ IsShaped(db)
  BY PartsOfDatabase DEF IInv, TypeOK
<1>3. /\ IsShaped(db') /\ db'.nextIssue = db.nextIssue
      /\ db'.links = db.links /\ db'.issues = db.issues
      /\ db'.comments = db.comments /\ db'.tracked = db.tracked
      /\ db'.next = db.next
  BY <1>1, <1>2, RowIsUpdated
<1>4. RowsAreTyped(db') /\ RenamesRow(db, db', u, id, name)
  BY <1>1, <1>2, UpdatedRow
<1>5. \A t \in Tables :
        /\ DOMAIN db'.rows[t] = DOMAIN db.rows[t]
        /\ \A i \in DOMAIN db.rows[t] :
             <<t, i>> # <<u, id>> => db'.rows[t][i] = db.rows[t][i]
  BY <1>4 DEF RenamesRow
<1>6. IsDatabase(db')
  <2>1. LinksAreTyped(db') /\ IssuesAreTyped(db') /\ CommentsAreTyped(db')
    BY <1>2, <1>3, <1>5, PartsOfDatabase, HangersStayTyped
  <2>2. RecordsAreTyped(db')
    BY <1>2, <1>3, PartsOfDatabase DEF RecordsAreTyped, WasGiven
  <2>. QED
    BY <1>3, <1>4, <2>1, <2>2, PartsOfDatabase
<1>7. UsersLeave(db, db')
  <2>1. db.nextIssue \in Nat /\ \A t \in Tables : db.next[t] \in Nat \ {0}
    BY <1>2, NextIssueIsNatural, PartsOfDatabase, IdsAreNatural
  <2>2. db.nextIssue <= db'.nextIssue
    BY <1>3, <2>1
  <2>3. \A t \in Tables : db.next[t] <= db'.next[t]
    <3>1. \A n \in Nat \ {0} : n <= n
      OBVIOUS
    <3>. QED
      BY <1>3, <2>1, <3>1
  <2>4. \A r : WasGiven(db, r) /\ Exists(db', r) => Exists(db, r)
    BY <1>5 DEF WasGiven, Exists
  <2>. QED
    BY <1>3, <1>6, <2>2, <2>3, <2>4 DEF UsersLeave
<1>8. ASSUME NEW r \in own'
      PROVE  IsForeign(db', r) /\ r \notin run.tracked
  <2>1. r \in own /\ r # ref
    BY <1>1
  <2>2. IsForeign(db, r) /\ r \notin run.tracked
    BY <2>1 DEF IInv, OwnRowsAreForeign
  <2>3. /\ r = <<r[1], r[2]>> /\ r[1] \in Tables
        /\ r[2] \in DOMAIN db.rows[r[1]] /\ db.rows[r[1]][r[2]] = Other
        /\ r \notin TrackedEntityIds(db)
    BY <2>2 DEF IsForeign, Exists
  <2>4. r[2] \in DOMAIN db'.rows[r[1]] /\ db'.rows[r[1]][r[2]] = Other
    BY <1>5, <2>1, <2>3
  <2>. QED
    BY <1>3, <2>2, <2>3, <2>4 DEF IsForeign, Exists, TrackedEntityIds
<1>. QED
  BY <1>1, <1>7, <1>8, UsersKeepInv

LEMMA DeleteRowKeepsInv ==
  ASSUME IInv, NEW ref, ref = <<ref[1], ref[2]>>, DeleteRow(ref)
  PROVE  IInv'
<1>1. /\ db' = DeleteRows(db, {ref}) /\ db'.ok
      /\ run.step \notin {"begun", "inserted", "purging"}
      /\ changes < MaxChanges /\ changes' = changes + 1
      /\ run' = run /\ runs' = runs
      /\ own' = own \ {ref} /\ files' \subseteq files
  BY DEF DeleteRow, UsersChange
<1>2. IsDatabase(db) /\ IsShaped(db)
  BY PartsOfDatabase DEF IInv, TypeOK
<1>3. IsShaped(db') /\ Deletes(db, db', {ref}) /\ db'.tracked = db.tracked
  BY <1>1, <1>2, RowsAreDeleted
<1>4. db'.next = db.next /\ db'.nextIssue = db.nextIssue
  BY <1>3 DEF Deletes
<1>5. RecordsAreTyped(db')
  BY <1>2, <1>3, <1>4, PartsOfDatabase DEF RecordsAreTyped, WasGiven
<1>6. /\ IsDatabase(db')
      /\ \A r : IsForeign(db, r) /\ r \notin {ref}
                   /\ r \notin TrackedEntityIds(db') => IsForeign(db', r)
      /\ \A r : WasGiven(db, r) /\ Exists(db', r) =>
           r \notin {ref} /\ Exists(db, r)
  BY <1>1, <1>2, <1>3, <1>5, DeletedDatabase
<1>7. UsersLeave(db, db')
  <2>1. db.nextIssue \in Nat /\ \A t \in Tables : db.next[t] \in Nat \ {0}
    BY <1>2, NextIssueIsNatural, PartsOfDatabase, IdsAreNatural
  <2>2. db.nextIssue <= db'.nextIssue
    BY <1>4, <2>1
  <2>3. \A t \in Tables : db.next[t] <= db'.next[t]
    <3>1. \A n \in Nat \ {0} : n <= n
      OBVIOUS
    <3>. QED
      BY <1>4, <2>1, <3>1
  <2>. QED
    BY <1>3, <1>6, <2>2, <2>3 DEF UsersLeave
<1>8. ASSUME NEW r \in own'
      PROVE  IsForeign(db', r) /\ r \notin run.tracked
  <2>1. r \in own /\ r \notin {ref}
    BY <1>1
  <2>2. IsForeign(db, r) /\ r \notin run.tracked
    BY <2>1 DEF IInv, OwnRowsAreForeign
  <2>3. r \notin TrackedEntityIds(db')
    BY <1>3, <2>2 DEF IsForeign, TrackedEntityIds
  <2>. QED
    BY <1>6, <2>1, <2>2, <2>3
<1>. QED
  BY <1>1, <1>7, <1>8, UsersKeepInv

\* Changes of links, comments and accounts leave the rows.
LEMMA HangersChange ==
  ASSUME IInv, NEW e, IsShaped(e), e.rows = db.rows, e.next = db.next,
         e.tracked = db.tracked, e.nextIssue = db.nextIssue,
         e.issues = db.issues,
         LinksAreTyped(e), CommentsAreTyped(e),
         UsersChange(e), own' = own, files' = files
  PROVE  IInv'
<1>1. /\ db' = e /\ e.ok /\ run' = run /\ runs' = runs
      /\ run.step \notin {"begun", "inserted", "purging"}
      /\ changes < MaxChanges /\ changes' = changes + 1
  BY DEF UsersChange
<1>2. IsShaped(db) /\ IssuesAreTyped(db)
  BY PartsOfDatabase DEF IInv, TypeOK
<1>3. IssuesAreTyped(e)
  BY <1>2 DEF IssuesAreTyped
<1>4. db.nextIssue <= e.nextIssue
  <2>1. db.nextIssue \in Nat
    BY <1>2, NextIssueIsNatural
  <2>. QED
    BY <2>1
<1>5. /\ UsersLeave(db, e)
      /\ \A ref \in own : IsForeign(e, ref) /\ ref \notin run.tracked
  BY <1>3, <1>4, RowsUntouched
<1>. QED
  BY <1>1, <1>5, UsersKeepInv

LEMMA LinkChangeKeepsInv ==
  ASSUME IInv, NEW links,
         \A l \in links : \A ref \in {l[2], l[3]} :
            ref = <<ref[1], ref[2]>> /\ ref[1] \in Tables /\ Exists(db, ref),
         UsersChange([db EXCEPT !.links = links]), own' = own, files' = files
  PROVE  IInv'
<1>. DEFINE e == [db EXCEPT !.links = links]
<1>1. IsShaped(db) /\ CommentsAreTyped(db)
  BY PartsOfDatabase DEF IInv, TypeOK
<1>2. /\ e \in [rows : {db.rows}, next : {db.next}, nextIssue : {db.nextIssue},
               links : {links}, issues : {db.issues}, comments : {db.comments},
               accounts : {db.accounts}, tracked : {db.tracked}, ok : {db.ok}]
      /\ UsersChange(e)
  BY <1>1 DEF IsShaped
<1>. HIDE DEF e
<1>3. IsShaped(e)
  BY <1>1, <1>2 DEF IsShaped
<1>4. LinksAreTyped(e)
  BY <1>2 DEF LinksAreTyped, Exists
<1>5. CommentsAreTyped(e)
  BY <1>1, <1>2 DEF CommentsAreTyped, Exists
<1>. QED
  BY <1>2, <1>3, <1>4, <1>5, HangersChange

LEMMA WriteCommentKeepsInv ==
  ASSUME IInv, NEW user, NEW project, WriteComment(user, project)
  PROVE  IInv'
<1>. DEFINE comments == db.comments \cup {<<user, project>>}
            e == [db EXCEPT !.comments = comments]
<1>1. IsShaped(db) /\ CommentsAreTyped(db) /\ LinksAreTyped(db)
  BY PartsOfDatabase DEF IInv, TypeOK
<1>2. UsersChange(e) /\ own' = own /\ files' = files
  BY <1>1 DEF WriteComment, IsShaped
<1>3. \A c \in comments : Exists(db, <<"Users", c[1]>>)
  <2>1. Exists(db, <<"Users", user>>)
    BY DEF WriteComment
  <2>2. \A c \in db.comments : Exists(db, <<"Users", c[1]>>)
    BY <1>1 DEF CommentsAreTyped
  <2>3. \A c \in comments : c \in db.comments \/ c[1] = user
    OBVIOUS
  <2>. HIDE DEF comments
  <2>. QED
    BY <2>1, <2>2, <2>3
<1>. HIDE DEF comments
<1>4. e \in [rows : {db.rows}, next : {db.next}, nextIssue : {db.nextIssue},
             links : {db.links}, issues : {db.issues}, comments : {comments},
             accounts : {db.accounts}, tracked : {db.tracked}, ok : {db.ok}]
  BY <1>1 DEF IsShaped
<1>. HIDE DEF e
<1>5. IsShaped(e)
  BY <1>1, <1>4 DEF IsShaped
<1>6. LinksAreTyped(e)
  BY <1>1, <1>4 DEF LinksAreTyped, Exists
<1>7. CommentsAreTyped(e)
  BY <1>3, <1>4 DEF CommentsAreTyped, Exists
<1>. QED
  BY <1>2, <1>4, <1>5, <1>6, <1>7, HangersChange

LEMMA ChangeAccountKeepsInv ==
  ASSUME IInv, NEW user, ChangeAccount(user)
  PROVE  IInv'
<1>. DEFINE accounts == db.accounts \ {user}
            e == [db EXCEPT !.accounts = accounts]
<1>1. IsShaped(db) /\ CommentsAreTyped(db) /\ LinksAreTyped(db)
  BY PartsOfDatabase DEF IInv, TypeOK
<1>2. UsersChange(e) /\ own' = own /\ files' = files
  BY <1>1 DEF ChangeAccount, IsShaped
<1>. HIDE DEF accounts
<1>3. e \in [rows : {db.rows}, next : {db.next}, nextIssue : {db.nextIssue},
             links : {db.links}, issues : {db.issues}, comments : {db.comments},
             accounts : {accounts}, tracked : {db.tracked}, ok : {db.ok}]
  BY <1>1 DEF IsShaped
<1>. HIDE DEF e
<1>4. IsShaped(e)
  BY <1>1, <1>3 DEF IsShaped
<1>5. LinksAreTyped(e) /\ CommentsAreTyped(e)
  BY <1>1, <1>3 DEF LinksAreTyped, CommentsAreTyped, Exists
<1>. QED
  BY <1>2, <1>3, <1>4, <1>5, HangersChange

LEMMA CreateIssueKeepsInv ==
  ASSUME IInv, NEW project, NEW name \in STRING, CreateIssue(project, name)
  PROVE  IInv'
<1>. DEFINE issue == [id |-> db.nextIssue, project |-> project,
                      name |-> name, seeded |-> FALSE]
<1>1. IsDatabase(db) /\ IsShaped(db)
  BY PartsOfDatabase DEF IInv, TypeOK
<1>2. /\ db' = WithIssue(db, issue) /\ db'.ok
      /\ run.step \notin {"begun", "inserted", "purging"}
      /\ changes < MaxChanges /\ changes' = changes + 1
      /\ run' = run /\ runs' = runs /\ own' = own
      /\ files' = files \cup {<<"issueJournal", project, db.nextIssue>>}
      /\ project \in DOMAIN db.rows["Projects"]
  BY DEF CreateIssue, UsersChange, InsertIssue, WithIssue, Exists
<1>3. issue \in [id : {db.nextIssue}, project : DOMAIN db.rows["Projects"],
                 name : STRING, seeded : BOOLEAN]
  BY <1>2
<1>. HIDE DEF issue
<1>4. IsDatabase(db')
  BY <1>1, <1>2, <1>3, InsertedIssue
<1>5. RowsStay(db, db') /\ db'.nextIssue = db.nextIssue + 1
  BY <1>1, <1>2, IssueIsInserted
<1>6. db.nextIssue \in Nat /\ db.nextIssue <= db'.nextIssue
  <2>1. db.nextIssue \in Nat
    BY <1>1, NextIssueIsNatural
  <2>. QED
    BY <1>5, <2>1
<1>7. /\ UsersLeave(db, db')
      /\ \A ref \in own' : IsForeign(db', ref) /\ ref \notin run.tracked
  <2>1. /\ IsShaped(db') /\ LinksAreTyped(db') /\ IssuesAreTyped(db')
        /\ CommentsAreTyped(db')
    BY <1>4, PartsOfDatabase
  <2>2. db'.rows = db.rows /\ db'.next = db.next /\ db'.tracked = db.tracked
    BY <1>5 DEF RowsStay
  <2>. QED
    BY <1>2, <1>6, <2>1, <2>2, RowsUntouched
<1>8. ASSUME NEW file \in files', file \notin files, file \in run.targets,
             run.step = "unlink"
      PROVE  FALSE
  <2>1. file = <<"issueJournal", project, db.nextIssue>>
    BY <1>2, <1>8
  <2>2. Covers(run.targets, run.tracked, db.nextIssue)
    BY <1>8 DEF IInv, PurgeIsFaithful
  <2>3. PICK p : \E i \in 1 .. db.nextIssue - 1 : file = <<"issueJournal", p, i>>
    <3>1. \A p : file # <<"projectJournal", p>>
      BY <2>1
    <3>. QED
      BY <1>8, <2>2, <3>1 DEF Covers
  <2>4. PICK i \in 1 .. db.nextIssue - 1 : file = <<"issueJournal", p, i>>
    BY <2>3
  <2>5. i = db.nextIssue
    BY <2>1, <2>4
  <2>. QED
    BY <1>6, <2>4, <2>5
<1>. QED
  BY <1>2, <1>7, <1>8, UsersKeepInv

LEMMA EditIssueKeepsInv ==
  ASSUME IInv, NEW issue, EditIssue(issue)
  PROVE  IInv'
<1>. DEFINE changed == [issue EXCEPT !.seeded = FALSE]
            issues == (db.issues \ {issue}) \cup {changed}
            e == [db EXCEPT !.issues = issues]
            Issue == [id : 1 .. db.nextIssue - 1,
                      project : DOMAIN db.rows["Projects"],
                      name : STRING, seeded : BOOLEAN]
<1>1. /\ IsShaped(db) /\ CommentsAreTyped(db) /\ LinksAreTyped(db)
      /\ \A i \in db.issues : i \in Issue
  BY PartsOfDatabase DEF IInv, TypeOK, IssuesAreTyped
<1>2. /\ db' = e /\ db'.ok /\ issue \in db.issues
      /\ run.step \notin {"begun", "inserted", "purging"}
      /\ changes < MaxChanges /\ changes' = changes + 1
      /\ run' = run /\ runs' = runs /\ own' = own /\ files' = files
  BY <1>1 DEF EditIssue, UsersChange, IsShaped
<1>3. changed \in Issue
  BY <1>1, <1>2
<1>4. \A i \in issues : i \in Issue
  <2>. HIDE DEF changed, Issue
  <2>. QED
    BY <1>1, <1>3
<1>. HIDE DEF issues
<1>5. e \in [rows : {db.rows}, next : {db.next}, nextIssue : {db.nextIssue},
             links : {db.links}, issues : {issues}, comments : {db.comments},
             accounts : {db.accounts}, tracked : {db.tracked}, ok : {db.ok}]
  BY <1>1 DEF IsShaped
<1>. HIDE DEF e
<1>6. IsShaped(e)
  BY <1>1, <1>5 DEF IsShaped
<1>7. LinksAreTyped(e) /\ CommentsAreTyped(e)
  BY <1>1, <1>5 DEF LinksAreTyped, CommentsAreTyped, Exists
<1>8. IssuesAreTyped(e)
  BY <1>4, <1>5 DEF IssuesAreTyped
<1>9. db.nextIssue <= e.nextIssue
  <2>1. db.nextIssue \in Nat
    BY <1>1, NextIssueIsNatural
  <2>. QED
    BY <1>5, <2>1
<1>10. /\ UsersLeave(db, e)
       /\ \A ref \in own : IsForeign(e, ref) /\ ref \notin run.tracked
  BY <1>5, <1>6, <1>7, <1>8, <1>9, RowsUntouched
<1>. QED
  BY <1>2, <1>10, UsersKeepInv

\* What users choose from.
LEMMA InputsOfUsers ==
  /\ SeedTables \subseteq Tables
  /\ \A t \in Tables : NamesIn(t) \subseteq STRING
  /\ \A k \in KindsOfLinks : k[2] \in Tables /\ k[3] \in Tables
  /\ \A i \in SeededIssues : i[2] \in STRING
<1>1. SeedTables \subseteq Tables
  BY SeedsAreTyped DEF SeedTables
<1>2. \A t \in Tables : NamesIn(t) \subseteq STRING
  BY SeedsAreTyped, OtherIsAName DEF NamesIn
<1>3. \A key \in SeedKeys : TableOf(key) \in Tables
  <2>1. ASSUME NEW key \in SeedKeys
        PROVE  TableOf(key) \in Tables
    <3>1. \E seed \in Range(Seeds) : seed.key = key
      BY SeedsAreTyped
    <3>2. (CHOOSE s \in Range(Seeds) : s.key = key) \in Range(Seeds)
      BY <3>1
    <3>. QED
      BY <3>2, SeedsAreTyped DEF TableOf
  <2>. QED
    BY <2>1
<1>4. \A k \in KindsOfLinks : k[2] \in Tables /\ k[3] \in Tables
  BY <1>3, LinksAreBetweenSeeds DEF KindsOfLinks
<1>. QED
  BY <1>1, <1>2, <1>4, IssuesAreOfSeeds

LEMMA UserKeepsInv ==
  ASSUME IInv, User
  PROVE  IInv'
<1>1. ASSUME NEW t \in SeedTables, NEW name \in NamesIn(t), CreateRow(t, name)
      PROVE  IInv'
  <2>1. t \in Tables /\ name \in STRING
    BY InputsOfUsers
  <2>. QED
    BY <1>1, <2>1, CreateRowKeepsInv
<1>2. ASSUME NEW ref \in Refs(db)
      PROVE  /\ ref = <<ref[1], ref[2]>> /\ ref[1] \in Tables
             /\ \A name \in NamesIn(ref[1]) : name \in STRING
  BY InputsOfUsers DEF Refs
<1>3. ASSUME NEW ref \in Refs(db), DeleteRow(ref)
      PROVE  IInv'
  BY <1>2, <1>3, DeleteRowKeepsInv
<1>4. ASSUME NEW ref \in Refs(db), NEW name \in NamesIn(ref[1]),
             RenameRow(ref, name)
      PROVE  IInv'
  BY <1>2, <1>4, RenameRowKeepsInv
<1>5. LinksAreTyped(db) /\ IsShaped(db)
  BY PartsOfDatabase DEF IInv, TypeOK
<1>6. ASSUME NEW k \in KindsOfLinks,
             NEW a \in DOMAIN db.rows[k[2]], NEW b \in DOMAIN db.rows[k[3]],
             AddLink(<<k[1], <<k[2], a>>, <<k[3], b>>>>)
      PROVE  IInv'
  <2>. DEFINE link == <<k[1], <<k[2], a>>, <<k[3], b>>>>
              links == db.links \cup {link}
  <2>1. k[2] \in Tables /\ k[3] \in Tables
    BY InputsOfUsers
  <2>2. \A l \in links : \A ref \in {l[2], l[3]} :
          ref = <<ref[1], ref[2]>> /\ ref[1] \in Tables /\ Exists(db, ref)
    BY <1>5, <2>1 DEF LinksAreTyped, Exists
  <2>3. UsersChange([db EXCEPT !.links = links]) /\ own' = own /\ files' = files
    BY <1>5, <1>6 DEF AddLink, IsShaped
  <2>. HIDE DEF links
  <2>. QED
    BY <2>2, <2>3, LinkChangeKeepsInv
<1>7. ASSUME NEW link \in db.links, RemoveLink(link)
      PROVE  IInv'
  <2>. DEFINE links == db.links \ {link}
  <2>1. \A l \in links : \A ref \in {l[2], l[3]} :
          ref = <<ref[1], ref[2]>> /\ ref[1] \in Tables /\ Exists(db, ref)
    BY <1>5 DEF LinksAreTyped
  <2>2. UsersChange([db EXCEPT !.links = links]) /\ own' = own /\ files' = files
    BY <1>5, <1>7 DEF RemoveLink, IsShaped
  <2>. HIDE DEF links
  <2>. QED
    BY <2>1, <2>2, LinkChangeKeepsInv
<1>8. ASSUME NEW i \in SeededIssues, NEW p \in DOMAIN db.rows["Projects"],
             CreateIssue(p, i[2])
      PROVE  IInv'
  BY <1>8, InputsOfUsers, CreateIssueKeepsInv
<1>. QED
  BY <1>1, <1>3, <1>4, <1>6, <1>7, <1>8, EditIssueKeepsInv,
     WriteCommentKeepsInv, ChangeAccountKeepsInv DEF User

-----------------------------------------------------------------------------
(* The tools *)

\* A run that ends, or was never there.
LEMMA IdleHoldsNothing ==
  idle \in [step : {"idle"}, tracked : {{}}, targets : {{}}, left : {{}}]
BY DEF idle

\* What is tracked was there once.
LEMMA RecordsAreGiven ==
  ASSUME NEW d, IsDatabase(d)
  PROVE  \A ref \in TrackedEntityIds(d) : WasGiven(d, ref)
<1>1. \A key \in DOMAIN d.tracked : WasGiven(d, d.tracked[key])
  BY PartsOfDatabase DEF RecordsAreTyped
<1>2. \A ref \in TrackedEntityIds(d) :
        \E key \in DOMAIN d.tracked : ref = d.tracked[key]
  BY DEF TrackedEntityIds, Range
<1>. QED
  BY <1>1, <1>2

\* A step of a tool that leaves the database and the users' rows.
LEMMA ToolsKeepInv ==
  ASSUME IInv, db' = db, own' = own, runs' \in 0 .. MaxRuns, changes' = changes,
         run' \in [step : {"idle", "write", "unlink", "begun", "inserted",
                           "read", "purging"},
                   tracked : {run'.tracked}, targets : {run'.targets},
                   left : {run'.left}],
         run'.tracked \subseteq run.tracked \cup TrackedEntityIds(db),
         InsertedIsOk', PurgeIsFaithful'
  PROVE  IInv'
<1>1. TypeOK /\ RecordsFit /\ OwnRowsAreForeign
  BY DEF IInv
<1>2. \A ref \in TrackedEntityIds(db) : WasGiven(db, ref)
  BY <1>1, RecordsAreGiven DEF TypeOK
<1>3. TypeOK'
  BY <1>1, <1>2 DEF TypeOK
<1>4. RecordsFit'
  BY <1>1 DEF RecordsFit
<1>5. OwnRowsAreForeign'
  BY <1>1 DEF OwnRowsAreForeign, IsForeign
<1>. QED
  BY <1>3, <1>4, <1>5 DEF IInv

LEMMA EndOfRunKeepsInv ==
  ASSUME IInv, db' = db, own' = own, runs' = runs, changes' = changes,
         run' = idle
  PROVE  IInv'
<1>1. /\ run'.step = "idle" /\ run'.tracked = {} /\ run'.targets = {}
      /\ run'.left = {}
      /\ run' \in [step : {"idle"}, tracked : {{}}, targets : {{}}, left : {{}}]
  BY IdleHoldsNothing
<1>2. InsertedIsOk' /\ PurgeIsFaithful'
  BY <1>1 DEF InsertedIsOk, PurgeIsFaithful
<1>3. runs' \in 0 .. MaxRuns
  BY DEF IInv, TypeOK
<1>. QED
  BY <1>1, <1>2, <1>3, ToolsKeepInv

LEMMA RunsAreCounted ==
  ASSUME IInv, runs < MaxRuns
  PROVE  runs + 1 \in 0 .. MaxRuns
BY BoundsAreNatural DEF IInv, TypeOK

\* A tool that changes the database.
LEMMA DatabaseToolsKeepInv ==
  ASSUME IInv, IsDatabase(db'), db'.ok, RecordsAreOfTheirTable(db'),
         \A ref \in own : IsForeign(db', ref) /\ ref \notin run'.tracked,
         \A ref \in run'.tracked : WasGiven(db', ref),
         own' = own, runs' \in 0 .. MaxRuns, changes' = changes,
         run' \in [step : {"idle", "write", "unlink"},
                   tracked : {run'.tracked}, targets : {run'.targets},
                   left : {run'.left}],
         PurgeIsFaithful'
  PROVE  IInv'
<1>1. TypeOK'
  <2>1. \A ref \in own : WasGiven(db', ref)
    BY ForeignIsGiven
  <2>. QED
    BY <2>1 DEF TypeOK, IInv
<1>2. RecordsFit' /\ OwnRowsAreForeign'
  BY DEF RecordsFit, OwnRowsAreForeign
<1>3. InsertedIsOk'
  BY DEF InsertedIsOk
<1>. QED
  BY <1>1, <1>2, <1>3 DEF IInv

LEMMA ServiceEnsuresKeepsInv ==
  ASSUME IInv, ServiceEnsures
  PROVE  IInv' /\ SeedsAreIn(db')
<1>1. /\ db' = Ensured(db) /\ db'.ok /\ own' = own /\ changes' = changes
      /\ runs < MaxRuns /\ runs' = runs + 1
      /\ \E left : run' = [idle EXCEPT !.step = "write", !.left = left]
  BY DEF ServiceEnsures
<1>2. IsDatabase(db) /\ IsShaped(db) /\ RecordsAreOfTheirTable(db)
  BY PartsOfDatabase DEF IInv, TypeOK, RecordsFit
<1>3. IsSeededFrom(db, db')
  BY <1>1, <1>2, EnsuredDatabase
<1>4. PICK left : run' = [idle EXCEPT !.step = "write", !.left = left]
  BY <1>1
<1>5. run' \in [step : {"write"}, tracked : {{}}, targets : {{}}, left : {left}]
  BY <1>4 DEF idle
<1>6. PurgeIsFaithful'
  BY <1>5 DEF PurgeIsFaithful
<1>7. \A ref \in own : IsForeign(db', ref) /\ ref \notin run'.tracked
  BY <1>3, <1>5 DEF IsSeededFrom, IInv, OwnRowsAreForeign
<1>8. IInv'
  BY <1>1, <1>3, <1>5, <1>6, <1>7, RunsAreCounted, DatabaseToolsKeepInv
     DEF IsSeededFrom
<1>. QED
  BY <1>3, <1>8 DEF IsSeededFrom

\* One file less to write or to delete.
LEMMA WriteJournalKeepsInv ==
  ASSUME IInv, NEW file, WriteJournal(file)
  PROVE  IInv'
<1>1. /\ run.step = "write" /\ Go(run.left \ {file})
      /\ db' = db /\ own' = own /\ runs' = runs /\ changes' = changes
  BY DEF WriteJournal
<1>2. CASE run' = idle
  BY <1>1, <1>2, EndOfRunKeepsInv
<1>3. CASE run' = [run EXCEPT !.left = run.left \ {file}]
  <2>. DEFINE left == run.left \ {file}
  <2>1. /\ run \in [step : {"write"}, tracked : {run.tracked},
                    targets : {run.targets}, left : {run.left}]
        /\ runs' \in 0 .. MaxRuns
    BY <1>1 DEF IInv, TypeOK
  <2>2. run' = [run EXCEPT !.left = left]
    BY <1>3
  <2>. HIDE DEF left
  <2>3. run' \in [step : {"write"}, tracked : {run.tracked},
                  targets : {run.targets}, left : {left}]
    BY <2>1, <2>2
  <2>4. InsertedIsOk' /\ PurgeIsFaithful'
    BY <2>3 DEF InsertedIsOk, PurgeIsFaithful
  <2>. QED
    BY <1>1, <2>1, <2>3, <2>4, ToolsKeepInv
<1>. QED
  BY <1>1, <1>2, <1>3 DEF Go

LEMMA DeleteJournalKeepsInv ==
  ASSUME IInv, NEW file, DeleteJournal(file)
  PROVE  IInv'
<1>1. /\ run.step = "unlink" /\ Go(run.left \ {file})
      /\ files' = files \ {file}
      /\ db' = db /\ own' = own /\ runs' = runs /\ changes' = changes
  BY DEF DeleteJournal
<1>2. CASE run' = idle
  BY <1>1, <1>2, EndOfRunKeepsInv
<1>3. CASE run' = [run EXCEPT !.left = run.left \ {file}]
  <2>. DEFINE left == run.left \ {file}
  <2>1. /\ run \in [step : {"unlink"}, tracked : {run.tracked},
                    targets : {run.targets}, left : {run.left}]
        /\ runs' \in 0 .. MaxRuns /\ PurgeIsFaithful
    BY <1>1 DEF IInv, TypeOK
  <2>2. run' = [run EXCEPT !.left = left]
    BY <1>3
  <2>3. files' \cap run.targets \subseteq left
    BY <1>1, <2>1 DEF PurgeIsFaithful
  <2>. HIDE DEF left
  <2>4. run' \in [step : {"unlink"}, tracked : {run.tracked},
                  targets : {run.targets}, left : {left}]
    BY <2>1, <2>2
  <2>5. InsertedIsOk' /\ PurgeIsFaithful'
    BY <1>1, <2>1, <2>3, <2>4 DEF InsertedIsOk, PurgeIsFaithful
  <2>. QED
    BY <1>1, <2>1, <2>4, <2>5, ToolsKeepInv
<1>. QED
  BY <1>1, <1>2, <1>3 DEF Go

\* What a purge reads covers the journals of what is tracked.
LEMMA TargetsAreCovered ==
  ASSUME IInv
  PROVE  Covers(JournalTargets(db), TrackedEntityIds(db), db.nextIssue)
<1>1. IssuesAreTyped(db)
  BY PartsOfDatabase DEF IInv, TypeOK
<1>2. ASSUME NEW ref \in TrackedEntityIds(db), ref[1] = "Projects"
      PROVE  <<"projectJournal", ref[2]>> \in JournalTargets(db)
  <2>1. ref[2] \in SeededProjects(db)
    BY <1>2 DEF SeededProjects, ProjectsAmong
  <2>. QED
    BY <2>1 DEF JournalTargets, ProjectJournals
<1>3. ASSUME NEW file \in ProjectJournals(SeededProjects(db))
      PROVE  \E ref \in TrackedEntityIds(db) :
               ref[1] = "Projects" /\ file = <<"projectJournal", ref[2]>>
  BY DEF ProjectJournals, SeededProjects, ProjectsAmong
<1>4. ASSUME NEW file \in IssueJournals(db, SeededProjects(db))
      PROVE  \E p : \E i \in 1 .. db.nextIssue - 1 :
               file = <<"issueJournal", p, i>>
  <2>1. PICK i \in db.issues : file = <<"issueJournal", i.project, i.id>>
    BY DEF IssueJournals
  <2>2. i.id \in 1 .. db.nextIssue - 1
    BY <1>1 DEF IssuesAreTyped
  <2>. QED
    BY <2>1, <2>2
<1>. QED
  BY <1>2, <1>3, <1>4 DEF Covers, JournalTargets

\* What a purge that commits leaves, whichever tool does it.
LEMMA PurgeKeepsInv ==
  ASSUME IInv, NEW tracked, tracked = TrackedEntityIds(db),
         NEW targets, Covers(targets, tracked, db.nextIssue),
         db' = Purged(db, tracked), db'.ok, run' = Unlinking(tracked, targets),
         own' = own, files' = files,
         runs' \in 0 .. MaxRuns, changes' = changes
  PROVE  IInv'
<1>1. IsDatabase(db) /\ RecordsAreTyped(db)
  BY PartsOfDatabase DEF IInv, TypeOK
<1>2. /\ IsDatabase(db') /\ RecordsAreOfTheirTable(db') /\ db'.tracked = <<>>
      /\ db'.next = db.next /\ db'.nextIssue = db.nextIssue
      /\ \A ref : IsForeign(db, ref) /\ ref \notin tracked =>
           IsForeign(db', ref)
      /\ \A ref \in tracked : WasGiven(db, ref) => ~ Exists(db', ref)
  BY <1>1, PurgedDatabase DEF Deletes
<1>3. \A ref \in tracked : WasGiven(db, ref) /\ WasGiven(db', ref)
  <2>1. \A ref \in tracked : WasGiven(db, ref)
    BY <1>1, RecordsAreGiven
  <2>. QED
    BY <1>2, <2>1 DEF WasGiven
<1>4. \A ref \in own : IsForeign(db', ref) /\ ref \notin tracked
  BY <1>2 DEF IInv, OwnRowsAreForeign, IsForeign
<1>5. CASE targets = {}
  <2>1. run' \in [step : {"idle"}, tracked : {{}}, targets : {{}}, left : {{}}]
    BY <1>5, IdleHoldsNothing DEF Unlinking
  <2>2. PurgeIsFaithful'
    BY <2>1 DEF PurgeIsFaithful
  <2>. QED
    BY <1>2, <1>4, <2>1, <2>2, DatabaseToolsKeepInv
<1>6. CASE targets # {}
  <2>1. run' \in [step : {"unlink"}, tracked : {tracked}, targets : {targets},
                  left : {targets}]
    BY <1>6 DEF Unlinking, idle
  <2>2. PurgeIsFaithful'
    BY <1>2, <1>3, <2>1 DEF PurgeIsFaithful
  <2>. QED
    BY <1>2, <1>3, <1>4, <2>1, <2>2, DatabaseToolsKeepInv
<1>. QED
  BY <1>5, <1>6

LEMMA ScriptEnsureKeepsInv ==
  ASSUME IInv,
         ScriptEnsureBegins \/ ScriptEnsureFails \/ ScriptInserts
  PROVE  IInv'
<1>1. CASE ScriptEnsureBegins
  <2>1. /\ db' = db /\ own' = own /\ changes' = changes
        /\ runs < MaxRuns /\ runs' = runs + 1
        /\ run' = [idle EXCEPT !.step = "begun"]
    BY <1>1 DEF ScriptEnsureBegins
  <2>2. run' \in [step : {"begun"}, tracked : {{}}, targets : {{}}, left : {{}}]
    BY <2>1 DEF idle
  <2>3. InsertedIsOk' /\ PurgeIsFaithful'
    BY <2>2 DEF InsertedIsOk, PurgeIsFaithful
  <2>. QED
    BY <2>1, <2>2, <2>3, RunsAreCounted, ToolsKeepInv
<1>2. CASE ScriptEnsureFails
  BY <1>2, EndOfRunKeepsInv DEF ScriptEnsureFails
<1>3. CASE ScriptInserts
  <2>1. /\ db' = db /\ own' = own /\ changes' = changes /\ runs' = runs
        /\ run.step = "begun" /\ Reseeded(db).ok
        /\ run' = [run EXCEPT !.step = "inserted"]
    BY <1>3 DEF ScriptInserts
  <2>2. /\ run \in [step : {"begun"}, tracked : {run.tracked},
                    targets : {run.targets}, left : {run.left}]
        /\ runs' \in 0 .. MaxRuns
    BY <2>1 DEF IInv, TypeOK
  <2>3. run' \in [step : {"inserted"}, tracked : {run.tracked},
                  targets : {run.targets}, left : {run.left}]
    BY <2>1, <2>2
  <2>4. InsertedIsOk'
    BY <2>1 DEF InsertedIsOk
  <2>5. PurgeIsFaithful'
    BY <2>3 DEF PurgeIsFaithful
  <2>. QED
    BY <2>1, <2>2, <2>3, <2>4, <2>5, ToolsKeepInv
<1>. QED
  BY <1>1, <1>2, <1>3

LEMMA ScriptEnsureCommitsKeepsInv ==
  ASSUME IInv, ScriptEnsureCommits
  PROVE  IInv' /\ SeedsAreIn(db')
<1>1. /\ run.step = "inserted" /\ db' = Reseeded(db) /\ run' = idle
      /\ own' = own /\ runs' = runs /\ changes' = changes
  BY DEF ScriptEnsureCommits
<1>2. db'.ok /\ IsDatabase(db)
  BY <1>1 DEF IInv, InsertedIsOk, TypeOK
<1>3. /\ IsDatabase(db') /\ RecordsAreOfTheirTable(db') /\ SeedsAreIn(db')
      /\ \A ref : IsForeign(db, ref) => IsForeign(db', ref)
  BY <1>1, <1>2, ReseededDatabase
<1>4. run' \in [step : {"idle"}, tracked : {{}}, targets : {{}}, left : {{}}]
  BY <1>1, IdleHoldsNothing
<1>5. PurgeIsFaithful'
  BY <1>4 DEF PurgeIsFaithful
<1>6. \A ref \in own : IsForeign(db', ref) /\ ref \notin run'.tracked
  BY <1>3, <1>4 DEF IInv, OwnRowsAreForeign
<1>7. runs' \in 0 .. MaxRuns
  BY <1>1 DEF IInv, TypeOK
<1>. QED
  BY <1>1, <1>2, <1>3, <1>4, <1>5, <1>6, <1>7, DatabaseToolsKeepInv

LEMMA PurgesKeepInv ==
  ASSUME IInv,
         \/ ServicePurges \/ ScriptPurgeReads \/ ScriptPurgeBegins
         \/ ScriptPurgeFails \/ ScriptPurgeCommits
  PROVE  IInv'
<1>1. CASE ServicePurges
  <2>1. /\ db' = Purged(db, TrackedEntityIds(db)) /\ db'.ok
        /\ run' = Unlinking(TrackedEntityIds(db), JournalTargets(db))
        /\ own' = own /\ files' = files /\ changes' = changes
        /\ runs < MaxRuns /\ runs' = runs + 1
    BY <1>1 DEF ServicePurges
  <2>. DEFINE tracked == TrackedEntityIds(db)
              targets == JournalTargets(db)
  <2>2. tracked = TrackedEntityIds(db) /\ Covers(targets, tracked, db.nextIssue)
    BY TargetsAreCovered
  <2>3. db' = Purged(db, tracked) /\ run' = Unlinking(tracked, targets)
    BY <2>1
  <2>. HIDE DEF tracked, targets
  <2>. QED
    BY <2>1, <2>2, <2>3, RunsAreCounted, PurgeKeepsInv
<1>2. CASE ScriptPurgeReads
  <2>. DEFINE tracked == TrackedEntityIds(db)
              targets == JournalTargets(db)
  <2>1. /\ db' = db /\ own' = own /\ changes' = changes
        /\ runs < MaxRuns /\ runs' = runs + 1
        /\ run' = [idle EXCEPT !.step = "read", !.tracked = tracked,
                               !.targets = targets]
    BY <1>2 DEF ScriptPurgeReads
  <2>2. tracked = TrackedEntityIds(db) /\ Covers(targets, tracked, db.nextIssue)
    BY TargetsAreCovered
  <2>. HIDE DEF tracked, targets
  <2>3. run' \in [step : {"read"}, tracked : {tracked}, targets : {targets},
                  left : {{}}]
    BY <2>1 DEF idle
  <2>4. InsertedIsOk' /\ PurgeIsFaithful'
    BY <2>1, <2>2, <2>3 DEF InsertedIsOk, PurgeIsFaithful
  <2>. QED
    BY <2>1, <2>2, <2>3, <2>4, RunsAreCounted, ToolsKeepInv
<1>3. CASE ScriptPurgeBegins
  <2>1. /\ db' = db /\ own' = own /\ changes' = changes /\ runs' = runs
        /\ run.step = "read" /\ run' = [run EXCEPT !.step = "purging"]
    BY <1>3 DEF ScriptPurgeBegins
  <2>2. /\ run \in [step : {"read"}, tracked : {run.tracked},
                    targets : {run.targets}, left : {run.left}]
        /\ runs' \in 0 .. MaxRuns /\ PurgeIsFaithful
    BY <2>1 DEF IInv, TypeOK
  <2>3. run' \in [step : {"purging"}, tracked : {run.tracked},
                  targets : {run.targets}, left : {run.left}]
    BY <2>1, <2>2
  <2>4. InsertedIsOk' /\ PurgeIsFaithful'
    BY <2>1, <2>2, <2>3 DEF InsertedIsOk, PurgeIsFaithful
  <2>. QED
    BY <2>1, <2>2, <2>3, <2>4, ToolsKeepInv
<1>4. CASE ScriptPurgeFails
  BY <1>4, EndOfRunKeepsInv DEF ScriptPurgeFails
<1>5. CASE ScriptPurgeCommits
  <2>1. /\ db' = Purged(db, run.tracked) /\ db'.ok
        /\ run' = Unlinking(run.tracked, run.targets)
        /\ own' = own /\ files' = files /\ changes' = changes /\ runs' = runs
        /\ run.step = "purging"
    BY <1>5 DEF ScriptPurgeCommits
  <2>2. /\ run.tracked = TrackedEntityIds(db)
        /\ Covers(run.targets, run.tracked, db.nextIssue)
        /\ runs' \in 0 .. MaxRuns
    BY <2>1 DEF IInv, TypeOK, PurgeIsFaithful
  <2>. QED
    BY <2>1, <2>2, PurgeKeepsInv
<1>. QED
  BY <1>1, <1>2, <1>3, <1>4, <1>5

LEMMA ToolKeepsInv ==
  ASSUME IInv, Tool
  PROVE  IInv'
<1>1. CASE Stop
  BY <1>1, EndOfRunKeepsInv DEF Stop
<1>. QED
  BY <1>1, ServiceEnsuresKeepsInv, WriteJournalKeepsInv, DeleteJournalKeepsInv,
     ScriptEnsureKeepsInv, ScriptEnsureCommitsKeepsInv, PurgesKeepInv DEF Tool

LEMMA StutteringKeepsInv ==
  ASSUME IInv, UNCHANGED vars
  PROVE  IInv'
<1>1. /\ db' = db /\ files' = files /\ run' = run /\ own' = own
      /\ runs' = runs /\ changes' = changes
  BY DEF vars
<1>. QED
  BY <1>1 DEF IInv, TypeOK, RecordsFit, OwnRowsAreForeign, InsertedIsOk,
              PurgeIsFaithful

LEMMA InductiveInvariant == Spec => []IInv
<1>1. ASSUME IInv, [Next]_vars
      PROVE  IInv'
  BY <1>1, UserKeepsInv, ToolKeepsInv, StutteringKeepsInv DEF Next
<1>. QED
  BY <1>1, InitInv, PTL DEF Spec

-----------------------------------------------------------------------------
(* Seeding what is seeded *)

LEMMA AtMostOne ==
  ASSUME NEW S, IsFiniteSet(S), Cardinality(S) <= 1, NEW x \in S
  PROVE  S = {x}
<1>1. Cardinality({x}) = 1 /\ {x} \in SUBSET S
  BY FS_Singleton
<1>2. Cardinality(S) \in Nat
  BY FS_CardinalityType
<1>3. Cardinality({x}) <= Cardinality(S)
  BY <1>1, FS_Subset
<1>4. Cardinality(S) = 1
  BY <1>1, <1>2, <1>3
<1>. QED
  BY <1>1, <1>4, FS_Subset

\* The parts of SeedsAreIn and Unrivalled: the row of a seed is the one that
\* bears its name.
LEMMA NamedOnce ==
  ASSUME NEW d, IsDatabase(d), SeedsAreIn(d), Unrivalled(d),
         NEW seed \in Range(Seeds)
  PROVE  /\ seed.table \in Tables /\ seed.key \in DOMAIN d.tracked
         /\ \E id : /\ d.tracked[seed.key] = <<seed.table, id>>
                    /\ id \in DOMAIN d.rows[seed.table]
                    /\ d.rows[seed.table][id] = seed.key
                    /\ seed.table = "Users" => id \in d.accounts
                    /\ Named(d, seed.table, seed.key) = {id}
<1>1. seed.table \in Tables /\ seed.key \in SeedKeys
  BY SeedsAreTyped
<1>2. seed.key \in DOMAIN d.tracked
  BY <1>1 DEF SeedsAreIn
<1>3. PICK ref : ref = d.tracked[seed.key]
  OBVIOUS
<1>4. /\ ref[1] = seed.table /\ ref[2] \in DOMAIN d.rows[ref[1]]
      /\ d.rows[ref[1]][ref[2]] = seed.key
      /\ ref[1] = "Users" => ref[2] \in d.accounts
  BY <1>3 DEF SeedsAreIn, Exists
<1>5. IsShaped(d) /\ RowsAreTyped(d) /\ RecordsAreTyped(d)
  BY PartsOfDatabase
<1>6. ref = <<seed.table, ref[2]>>
  BY <1>2, <1>3, <1>4, <1>5 DEF RecordsAreTyped, WasGiven
<1>7. PICK id : id = ref[2]
  OBVIOUS
<1>8. id \in Named(d, seed.table, seed.key)
  BY <1>4, <1>7 DEF Named
<1>9. IsFiniteSet(Named(d, seed.table, seed.key))
  <2>1. Named(d, seed.table, seed.key) \in SUBSET (1 .. d.next[seed.table] - 1)
    BY <1>1, <1>5 DEF Named, RowsAreTyped
  <2>2. d.next[seed.table] - 1 \in Int
    BY <1>1, <1>5, IdsAreNatural
  <2>. QED
    BY <2>1, <2>2, FS_Interval, FS_Subset
<1>10. Named(d, seed.table, seed.key) = {id}
  <2>1. Cardinality(Named(d, seed.table, seed.key)) <= 1
    BY DEF Unrivalled
  <2>. QED
    BY <1>8, <1>9, <2>1, AtMostOne
<1>. QED
  BY <1>1, <1>2, <1>3, <1>4, <1>6, <1>7, <1>10

LEMMA SeededRowStays ==
  ASSUME NEW d, IsDatabase(d), d.ok, SeedsAreIn(d), Unrivalled(d),
         NEW seed \in Range(Seeds)
  PROVE  EnsureSeedRow(d, seed) = d
<1>1. PICK t, key : t = seed.table /\ key = seed.key
  OBVIOUS
<1>2. PICK id : /\ t \in Tables /\ key \in DOMAIN d.tracked
                /\ d.tracked[key] = <<t, id>>
                /\ id \in DOMAIN d.rows[t] /\ d.rows[t][id] = key
                /\ t = "Users" => id \in d.accounts
                /\ Named(d, t, key) = {id}
  BY <1>1, NamedOnce
<1>3. IsShaped(d) /\ RowsAreTyped(d) /\ RecordsAreTyped(d)
  BY PartsOfDatabase
<1>4. FindEntity(d, seed) = {id}
  BY <1>1, <1>2 DEF FindEntity, Exists
<1>5. FindEntity(d, seed) # {} /\ Min(FindEntity(d, seed)) = id
  <2>1. id \in Nat
    BY <1>2, <1>3, IdsAreNatural
  <2>2. Min({id}) \in {id}
    BY <2>1, MinOfIds
  <2>. QED
    BY <1>4, <2>2
<1>6. UpdateRow(d, t, id, key) = d
  <2>1. NameIsFree(d, t, id, key) = TRUE
    BY <1>2 DEF NameIsFree
  <2>2. [i \in DOMAIN d.rows[t] |-> IF i = id THEN key ELSE d.rows[t][i]] = d.rows[t]
    <3>1. d.rows[t] = [i \in DOMAIN d.rows[t] |-> d.rows[t][i]]
      BY <1>2, <1>3 DEF RowsAreTyped
    <3>. QED
      BY <1>2, <3>1
  <2>3. [d.rows EXCEPT ![t] = d.rows[t]] = d.rows
    BY <1>2, <1>3 DEF IsShaped
  <2>4. UpdateRow(d, t, id, key) = [d EXCEPT !.rows = d.rows, !.ok = TRUE]
    BY <1>2, <1>3, <2>1, <2>2, <2>3 DEF UpdateRow, IsShaped
  <2>. QED
    BY <1>3, <2>4 DEF IsShaped
<1>7. EnsureAccount(d, seed, id) = d
  <2>1. (IF seed.table = "Users" THEN d.accounts \cup {id} ELSE d.accounts) = d.accounts
    BY <1>1, <1>2
  <2>. QED
    BY <1>3, <2>1 DEF EnsureAccount, IsShaped
<1>8. UpsertTrackedEntity(d, key, <<t, id>>) = d
  <2>1. Put(d.tracked, key, <<t, id>>) = d.tracked
    BY <1>2, <1>3 DEF Put, RecordsAreTyped
  <2>2. \A k \in DOMAIN d.tracked \ {key} : d.tracked[k] # <<t, id>>
    BY <1>2, <1>3 DEF RecordsAreTyped, IsInjective
  <2>3. UpsertTrackedEntity(d, key, <<t, id>>) =
          [d EXCEPT !.tracked = d.tracked, !.ok = TRUE]
    BY <1>3, <2>1, <2>2 DEF UpsertTrackedEntity, IsShaped
  <2>. QED
    BY <1>3, <2>3 DEF IsShaped
<1>. QED
  BY <1>1, <1>5, <1>6, <1>7, <1>8 DEF EnsureSeedRow

LEMMA SeededLinksStay ==
  ASSUME NEW d, IsDatabase(d), SeedsAreIn(d)
  PROVE  EnsureLinks(d) = d
<1>1. {l \in LinksOf(d) : LinkIsFree(d, l)} = {}
  BY DEF SeedsAreIn
<1>2. IsShaped(d)
  BY PartsOfDatabase
<1>3. EnsureLinks(d) = [d EXCEPT !.links = d.links]
  BY <1>1, <1>2 DEF EnsureLinks, IsShaped
<1>. QED
  BY <1>2, <1>3 DEF IsShaped

LEMMA SeededIssueStays ==
  ASSUME NEW d, IsDatabase(d), SeedsAreIn(d), Unrivalled(d),
         NEW issue \in IssuesOf(d)
  PROVE  EnsureIssue(d, issue) = d
<1>1. IsShaped(d) /\ IssuesAreTyped(d)
  BY PartsOfDatabase
<1>2. PICK named : named = IssuesNamed(d, issue[1], issue[2])
  OBVIOUS
<1>3. PICK j \in named : j.seeded
  BY <1>2 DEF SeedsAreIn
<1>4. IsFiniteSet(named)
  <2>1. PICK ids : ids = 1 .. d.nextIssue - 1
    OBVIOUS
  <2>2. IsFiniteSet(ids \X BOOLEAN)
    <3>1. IsFiniteSet(ids)
      BY <1>1, <2>1, FS_Interval DEF IsShaped
    <3>2. IsFiniteSet({TRUE} \cup {FALSE})
      BY FS_Singleton, FS_Union
    <3>3. BOOLEAN = {TRUE} \cup {FALSE}
      OBVIOUS
    <3>. QED
      BY <3>1, <3>2, <3>3, FS_Product
  <2>3. PICK f : f = [x \in ids \X BOOLEAN |->
                       [id |-> x[1], project |-> issue[1], name |-> issue[2],
                        seeded |-> x[2]]]
    OBVIOUS
  <2>4. ASSUME NEW i \in named
        PROVE  \E x \in ids \X BOOLEAN : f[x] = i
    <3>1. i \in [id : ids, project : DOMAIN d.rows["Projects"],
                name : STRING, seeded : BOOLEAN]
          /\ i.project = issue[1] /\ i.name = issue[2]
      BY <1>1, <1>2, <2>1 DEF IssuesNamed, IssuesAreTyped
    <3>2. PICK x : x = <<i.id, i.seeded>>
      OBVIOUS
    <3>3. x \in ids \X BOOLEAN /\ x[1] = i.id /\ x[2] = i.seeded
      BY <3>1, <3>2
    <3>4. f[x] = i
      BY <2>3, <3>1, <3>3
    <3>. QED
      BY <3>3, <3>4
  <2>5. PICK all : all = {f[x] : x \in ids \X BOOLEAN}
    OBVIOUS
  <2>6. IsFiniteSet(all)
    <3>1. f \in Surjection(ids \X BOOLEAN, all)
      BY <2>3, <2>5 DEF Surjection
    <3>. QED
      BY <2>2, <3>1, FS_Surjection
  <2>7. named \in SUBSET all
    BY <2>4, <2>5
  <2>. QED
    BY <2>6, <2>7, FS_Subset
<1>5. named = {j}
  BY <1>2, <1>3, <1>4, AtMostOne DEF Unrivalled
<1>6. FirstIssue(d, issue[1], issue[2]) = j
  BY <1>2, <1>3, <1>5, FirstIssueIsNamed
<1>7. j \in d.issues /\ [j EXCEPT !.seeded = TRUE] = j
  BY <1>1, <1>2, <1>3 DEF IssuesAreTyped, IssuesNamed
<1>8. (d.issues \ {j}) \cup {[j EXCEPT !.seeded = TRUE]} = d.issues
  BY <1>7
<1>9. EnsureIssue(d, issue) = [d EXCEPT !.issues = d.issues]
  BY <1>1, <1>2, <1>3, <1>6, <1>8 DEF EnsureIssue, IsShaped
<1>. QED
  BY <1>1, <1>9 DEF IsShaped

LEMMA StandingStill ==
  ASSUME NEW kind, NEW d, NEW seq, NEW N \in Nat, NEW s,
         AreStates(kind, d, seq, N, s),
         \A n \in 1 .. N : Step(kind, d, seq[n]) = d
  PROVE  s[N] = d
<1>. DEFINE Good == {n \in 0 .. N : s[n] = d}
<1>1. 0 \in Good /\ Good \in SUBSET (0 .. N)
  BY DEF AreStates
<1>2. \A n \in 1 .. N : n - 1 \in Good => n \in Good
  BY DEF AreStates
<1>. HIDE DEF Good
<1>3. N \in Good
  BY <1>1, <1>2, Upward
<1>. QED
  BY <1>3 DEF Good

\* The service leaves what is seeded as it is.
LEMMA EnsuringStandsStill ==
  ASSUME NEW d, IsDatabase(d), d.ok, SeedsAreIn(d), Unrivalled(d)
  PROVE  Ensured(d) = d
<1>1. FoldLeft(EnsureSeedRow, d, Seeds) = d
  <2>1. PICK s : /\ AreStates("ensureRow", d, Seeds, Len(Seeds), s)
                 /\ s[Len(Seeds)] = FoldLeft(EnsureSeedRow, d, Seeds)
    BY StatesOfEnsuredRows, SeedsAreTyped
  <2>2. \A n \in 1 .. Len(Seeds) : Step("ensureRow", d, Seeds[n]) = d
    BY SeedsAreTyped, SeededRowStays DEF Step
  <2>. QED
    BY <2>1, <2>2, SeedsAreTyped, StandingStill
<1>2. EnsureLinks(d) = d
  BY SeededLinksStay
<1>3. PICK seq, N : seq = SetToSeq(IssuesOf(d)) /\ N = Cardinality(IssuesOf(d))
  OBVIOUS
<1>4. /\ N \in Nat /\ seq \in [1 .. N -> IssuesOf(d)]
      /\ DOMAIN seq = 1 .. N
  BY <1>3, IssuesOfSeedsAreFinite, SetsAreListed
<1>5. FoldLeft(EnsureIssue, d, seq) = d
  <2>1. PICK s : /\ AreStates("ensureIssue", d, seq, N, s)
                 /\ s[N] = FoldLeft(EnsureIssue, d, seq)
    BY <1>4, StatesOfEnsuredIssues
  <2>2. \A n \in 1 .. N : Step("ensureIssue", d, seq[n]) = d
    BY <1>4, SeededIssueStays DEF Step
  <2>. QED
    BY <1>4, <2>1, <2>2, StandingStill
<1>. QED
  BY <1>1, <1>2, <1>3, <1>5, Zenon DEF Ensured, EnsureIssues

-----------------------------------------------------------------------------
(* Seeding anew *)

\* A set with a part K, of which the rest has one element for each name.
Bears(S, K, f, names) ==
  /\ K \subseteq S /\ \A i \in S \ K : f[i] \in names
  /\ \A n \in names : \E i \in S : {x \in S : f[x] = n} = {i} /\ i \notin K

LEMMA SameSizes ==
  ASSUME NEW D, IsFiniteSet(D), NEW E, NEW K, NEW names, NEW f, NEW g,
         Bears(D, K, f, names), Bears(E, K, g, names)
  PROVE  Cardinality(E) = Cardinality(D)
<1>. USE DEF Bears
<1>. DEFINE Twin(i) == CHOOSE x \in E \ K : g[x] = f[i]
<1>1. ASSUME NEW i \in D \ K
      PROVE  Twin(i) \in E \ K /\ g[Twin(i)] = f[i]
  <2>1. PICK x \in E : {y \in E : g[y] = f[i]} = {x} /\ x \notin K
    OBVIOUS
  <2>2. x \in E \ K /\ g[x] = f[i]
    BY <2>1
  <2>. QED
    BY <2>2
<1>2. \A i, j \in D \ K : f[i] = f[j] => i = j
  <2>1. ASSUME NEW i \in D \ K, NEW j \in D \ K, f[i] = f[j]
        PROVE  i = j
    <3>0. f[i] \in names
      OBVIOUS
    <3>1. PICK k : {x \in D : f[x] = f[i]} = {k}
      BY <3>0
    <3>2. i \in {x \in D : f[x] = f[i]} /\ j \in {x \in D : f[x] = f[i]}
      BY <2>1
    <3>. QED
      BY <3>1, <3>2
  <2>. QED
    BY <2>1
<1>3. \A i, j \in E \ K : g[i] = g[j] => i = j
  <2>1. ASSUME NEW i \in E \ K, NEW j \in E \ K, g[i] = g[j]
        PROVE  i = j
    <3>0. g[i] \in names
      OBVIOUS
    <3>1. PICK k : {x \in E : g[x] = g[i]} = {k}
      BY <3>0
    <3>2. i \in {x \in E : g[x] = g[i]} /\ j \in {x \in E : g[x] = g[i]}
      BY <2>1
    <3>. QED
      BY <3>1, <3>2
  <2>. QED
    BY <2>1
<1>. HIDE DEF Twin
<1>4. PICK h : h = [i \in D |-> IF i \in K THEN i ELSE Twin(i)]
  OBVIOUS
<1>5. h \in Injection(D, E)
  <2>1. h \in [D -> E]
    BY <1>1, <1>4
  <2>2. ASSUME NEW i \in D, NEW j \in D, h[i] = h[j]
        PROVE  i = j
    <3>1. CASE i \in K /\ j \in K
      BY <1>4, <2>2, <3>1
    <3>2. CASE i \in K /\ j \notin K
      BY <1>1, <1>4, <2>2, <3>2
    <3>3. CASE i \notin K /\ j \in K
      BY <1>1, <1>4, <2>2, <3>3
    <3>4. CASE i \notin K /\ j \notin K
      <4>1. Twin(i) = Twin(j)
        BY <1>4, <2>2, <3>4
      <4>2. f[i] = f[j]
        BY <1>1, <3>4, <4>1
      <4>. QED
        BY <1>2, <3>4, <4>2
    <3>. QED
      BY <3>1, <3>2, <3>3, <3>4
  <2>. QED
    BY <2>1, <2>2 DEF Injection, IsInjective
<1>6. \A x \in E : \E i \in D : h[i] = x
  <2>1. ASSUME NEW x \in E, x \notin K
        PROVE  \E i \in D : h[i] = x
    <3>1. PICK i \in D : {y \in D : f[y] = g[x]} = {i} /\ i \notin K
      BY <2>1
    <3>2. f[i] = g[x]
      BY <3>1
    <3>3. Twin(i) = x
      BY <1>1, <1>3, <2>1, <3>1, <3>2
    <3>. QED
      BY <1>4, <3>1, <3>3
  <2>. QED
    BY <1>4, <2>1
<1>7. h \in Bijection(D, E)
  BY <1>5, <1>6 DEF Injection, Surjection, Bijection
<1>. QED
  BY <1>7, FS_Bijection DEF ExistsBijection

\* The database after the first n seeds were inserted into one where none was.
Grown(p, b, n) ==
  /\ \A t \in Tables :
       /\ \A i \in DOMAIN p.rows[t] :
            i \in DOMAIN b.rows[t] /\ b.rows[t][i] = p.rows[t][i]
       /\ \A i \in DOMAIN b.rows[t] \ DOMAIN p.rows[t] :
            \E seed \in Range(Seeds) : seed.table = t /\ seed.key = b.rows[t][i]
  /\ \A j \in 1 .. Len(Seeds) :
       IF j <= n THEN \E id : Named(b, Seeds[j].table, Seeds[j].key) = {id}
       ELSE Named(b, Seeds[j].table, Seeds[j].key) = {}

LEMMA RowsOfInsertedSeed ==
  ASSUME NEW b, IsDatabase(b), NEW seed \in Range(Seeds), NEW e, e = InsertSeed(b, seed)
  PROVE  /\ AddsRow(b, e, seed.table, seed.key)
         /\ \A u \in Tables : \A name :
              Named(e, u, name) =
                Named(b, u, name) \cup (IF u = seed.table /\ name = seed.key
                                        THEN {b.next[seed.table]} ELSE {})
<1>1. PICK t, key : t = seed.table /\ key = seed.key
  OBVIOUS
<1>2. t \in Tables /\ key \in STRING
  BY <1>1, SeedsAreTyped
<1>3. PICK written : written = InsertRow(b, t, key)
  OBVIOUS
<1>4. IsShaped(b) /\ RowsAreTyped(b)
  BY PartsOfDatabase
<1>5. IsShaped(written) /\ AddsRow(b, written, t, key)
  BY <1>2, <1>3, <1>4, RowIsInserted, InsertedRow
<1>6. PICK id : id = Min(Named(written, t, key))
  OBVIOUS
<1>7. PICK signed : signed = EnsureAccount(written, seed, id)
  OBVIOUS
<1>8. e = UpsertTrackedEntity(signed, key, <<t, id>>)
  BY <1>1, <1>3, <1>6, <1>7 DEF InsertSeed
<1>9. IsShaped(signed) /\ signed.rows = written.rows /\ signed.next = written.next
  BY <1>5, <1>7, AccountIsEnsured
<1>10. e.rows = written.rows /\ e.next = written.next
  BY <1>8, <1>9, RowIsRecorded
<1>11. AddsRow(b, e, t, key)
  BY <1>5, <1>10 DEF AddsRow
<1>12. ASSUME NEW u \in Tables, NEW name
       PROVE  Named(e, u, name) =
                Named(b, u, name) \cup (IF u = t /\ name = key THEN {b.next[t]} ELSE {})
  <2>1. /\ DOMAIN b.rows[u] \subseteq DOMAIN e.rows[u]
        /\ \A i \in DOMAIN b.rows[u] : e.rows[u][i] = b.rows[u][i]
        /\ \A i \in DOMAIN e.rows[u] :
             i \in DOMAIN b.rows[u] \/ (u = t /\ i = b.next[t])
        /\ b.next[t] \notin DOMAIN b.rows[t]
        /\ b.next[t] \in DOMAIN e.rows[t]
        /\ e.rows[t][b.next[t]] = key
    BY <1>11 DEF AddsRow
  <2>. QED
    BY <2>1 DEF Named
<1>. QED
  BY <1>1, <1>11, <1>12

LEMMA GrowingStep ==
  ASSUME NEW p, NEW b, IsDatabase(b), NEW n \in 1 .. Len(Seeds), Grown(p, b, n - 1),
         NEW e, e = InsertSeed(b, Seeds[n])
  PROVE  Grown(p, e, n)
<1>1. PICK seed \in Range(Seeds) : seed = Seeds[n]
  BY SeedsAreTyped
<1>2. PICK t, key : t = seed.table /\ key = seed.key
  OBVIOUS
<1>3. AddsRow(b, e, t, key)
  BY <1>1, <1>2, RowsOfInsertedSeed
<1>4. \A u \in Tables : \A name :
        Named(e, u, name) =
          Named(b, u, name) \cup (IF u = t /\ name = key THEN {b.next[t]} ELSE {})
  BY <1>1, <1>2, RowsOfInsertedSeed
<1>5. ASSUME NEW u \in Tables
      PROVE  /\ \A i \in DOMAIN p.rows[u] :
                  i \in DOMAIN e.rows[u] /\ e.rows[u][i] = p.rows[u][i]
             /\ \A i \in DOMAIN e.rows[u] \ DOMAIN p.rows[u] :
                  \E other \in Range(Seeds) :
                    other.table = u /\ other.key = e.rows[u][i]
  <2>1. /\ DOMAIN b.rows[u] \subseteq DOMAIN e.rows[u]
        /\ \A i \in DOMAIN b.rows[u] : e.rows[u][i] = b.rows[u][i]
        /\ \A i \in DOMAIN e.rows[u] :
             i \in DOMAIN b.rows[u] \/ (u = t /\ i = b.next[t])
        /\ e.rows[t][b.next[t]] = key
    BY <1>3 DEF AddsRow
  <2>2. /\ \A i \in DOMAIN p.rows[u] :
             i \in DOMAIN b.rows[u] /\ b.rows[u][i] = p.rows[u][i]
        /\ \A i \in DOMAIN b.rows[u] \ DOMAIN p.rows[u] :
             \E other \in Range(Seeds) : other.table = u /\ other.key = b.rows[u][i]
    BY DEF Grown
  <2>3. \A i \in DOMAIN p.rows[u] :
          i \in DOMAIN e.rows[u] /\ e.rows[u][i] = p.rows[u][i]
    BY <2>1, <2>2
  <2>4. \A i \in DOMAIN e.rows[u] \ DOMAIN p.rows[u] :
          \E other \in Range(Seeds) : other.table = u /\ other.key = e.rows[u][i]
    BY <1>1, <1>2, <2>1, <2>2
  <2>. QED
    BY <2>3, <2>4
<1>6. ASSUME NEW j \in 1 .. Len(Seeds)
      PROVE  IF j <= n THEN \E id : Named(e, Seeds[j].table, Seeds[j].key) = {id}
             ELSE Named(e, Seeds[j].table, Seeds[j].key) = {}
  <2>1. PICK other \in Range(Seeds) : other = Seeds[j]
    BY SeedsAreTyped
  <2>2. other.table \in Tables
    BY SeedsAreTyped
  <2>3. IF j <= n - 1 THEN \E id : Named(b, other.table, other.key) = {id}
        ELSE Named(b, other.table, other.key) = {}
    BY <2>1 DEF Grown
  <2>4. j \in Nat /\ n \in Nat
    BY SeedsAreTyped
  <2>5. CASE j = n
    <3>1. other = seed /\ ~(j <= n - 1) /\ j <= n
      BY <1>1, <2>1, <2>4, <2>5
    <3>2. Named(e, other.table, other.key) = {b.next[t]}
      BY <1>2, <1>4, <2>2, <2>3, <3>1
    <3>. QED
      BY <2>1, <3>1, <3>2
  <2>6. CASE j # n
    <3>1. other.key # key
      BY <1>1, <1>2, <2>1, <2>6, KeysAreUnique, SeedsAreTyped
    <3>2. Named(e, other.table, other.key) = Named(b, other.table, other.key)
      <4>1. PICK u, name : u \in Tables /\ u = other.table /\ name = other.key /\ name # key
        BY <2>2, <3>1
      <4>2. Named(e, u, name) = Named(b, u, name) \cup {}
        BY <1>4, <4>1
      <4>. QED
        BY <4>1, <4>2
    <3>3. j <= n <=> j <= n - 1
      BY <2>4, <2>6
    <3>. QED
      BY <2>1, <2>3, <3>2, <3>3
  <2>. QED
    BY <2>5, <2>6
<1>. QED
  BY <1>5, <1>6 DEF Grown

LEMMA RowsGrow ==
  ASSUME NEW p, IsDatabase(p), RecordsAreOfTheirTable(p),
         \A seed \in Range(Seeds) : Named(p, seed.table, seed.key) = {},
         NEW s, AreStates("insertRow", p, Seeds, Len(Seeds), s), s[Len(Seeds)].ok
  PROVE  Grown(p, s[Len(Seeds)], Len(Seeds))
<1>. DEFINE N == Len(Seeds)
            Good == {n \in 0 .. N : /\ IsDatabase(s[n]) /\ RecordsAreOfTheirTable(s[n])
                                    /\ Grown(p, s[n], n)}
<1>1. N \in Nat /\ \A n \in 1 .. N : Seeds[n] \in Range(Seeds)
  BY SeedsAreTyped
<1>2. s[0] = p /\ \A n \in 1 .. N : s[n] = Step("insertRow", s[n - 1], Seeds[n])
  BY DEF AreStates
<1>3. IsSeeding("insertRow")
  BY DEF IsSeeding
<1>4. \A n \in 0 .. N : s[n].ok
  BY <1>3, SeedingIsOk, PartsOfDatabase
<1>5. Grown(p, p, 0)
  <2>1. \A j \in 1 .. N : ~(j <= 0) /\ Named(p, Seeds[j].table, Seeds[j].key) = {}
    <3>1. ASSUME NEW j \in 1 .. N
          PROVE  ~(j <= 0) /\ Named(p, Seeds[j].table, Seeds[j].key) = {}
      <4>1. Seeds[j] \in Range(Seeds)
        BY <1>1
      <4>2. ~(j <= 0)
        BY <1>1
      <4>. QED
        BY <4>1, <4>2
    <3>. QED
      BY <3>1
  <2>. QED
    BY <2>1 DEF Grown
<1>6. 0 \in Good /\ Good \in SUBSET (0 .. N)
  BY <1>1, <1>2, <1>5
<1>7. ASSUME NEW n \in 1 .. N, n - 1 \in Good
      PROVE  n \in Good
  <2>1. PICK b, e, seed : b = s[n - 1] /\ e = s[n] /\ seed = Seeds[n]
    OBVIOUS
  <2>2. IsDatabase(b) /\ RecordsAreOfTheirTable(b) /\ Grown(p, b, n - 1)
    BY <1>7, <2>1
  <2>3. /\ e = Step("insertRow", b, seed) /\ e = InsertSeed(b, seed)
        /\ seed \in Range(Seeds) /\ n \in 0 .. N /\ e.ok
    BY <1>1, <1>2, <1>4, <2>1 DEF Step
  <2>. HIDE DEF Good
  <2>4. IsDatabase(e) /\ RecordsAreOfTheirTable(e)
    BY <1>3, <2>2, <2>3, SeedingStep
  <2>5. Grown(p, e, n)
    BY <2>1, <2>2, <2>3, GrowingStep
  <2>. QED
    BY <2>1, <2>3, <2>4, <2>5 DEF Good
<1>. HIDE DEF Good
<1>8. N \in Good
  <2>1. \A n \in 0 .. N : n \in Good
    BY <1>1, <1>6, <1>7, Upward
  <2>. QED
    BY <1>1, <2>1
<1>. QED
  BY <1>8 DEF Good

\* N different issues that a database has none of.
Misses(d, seq, N) ==
  /\ \A m \in 1 .. N : /\ seq[m] = <<seq[m][1], seq[m][2]>>
                        /\ IssuesNamed(d, seq[m][1], seq[m][2]) = {}
  /\ \A m, n \in 1 .. N : seq[m] = seq[n] => m = n

\* They are there once.
HasOnce(d, seq, N) ==
  \A m \in 1 .. N : \E i : IssuesNamed(d, seq[m][1], seq[m][2]) = {i}

LEMMA IssuesGrow ==
  ASSUME NEW d, IsShaped(d), NEW N \in Nat, NEW seq, Misses(d, seq, N),
         NEW s, AreStates("insertIssue", d, seq, N, s)
  PROVE  HasOnce(s[N], seq, N)
<1>. USE DEF Misses
<1>. DEFINE Once(b, n) == \A m \in 1 .. N :
              IF m <= n THEN \E i : IssuesNamed(b, seq[m][1], seq[m][2]) = {i}
              ELSE IssuesNamed(b, seq[m][1], seq[m][2]) = {}
            Good == {n \in 0 .. N : IsShaped(s[n]) /\ Once(s[n], n)}
<1>1. s[0] = d /\ \A n \in 1 .. N : s[n] = Step("insertIssue", s[n - 1], seq[n])
  BY DEF AreStates
<1>2. 0 \in Good /\ Good \in SUBSET (0 .. N)
  <2>1. \A m \in 1 .. N : ~(m <= 0)
    OBVIOUS
  <2>. QED
    BY <1>1, <2>1
<1>3. ASSUME NEW n \in 1 .. N, n - 1 \in Good
      PROVE  n \in Good
  <2>1. PICK b, e, issue : b = s[n - 1] /\ e = s[n] /\ issue = seq[n]
    OBVIOUS
  <2>2. IsShaped(b) /\ Once(b, n - 1)
    BY <1>3, <2>1
  <2>. HIDE DEF Good
  <2>3. e = WithIssue(b, NewIssue(b, issue))
    BY <1>1, <2>1, <2>2
       DEF Step, InsertSeededIssue, InsertIssue, WithIssue, NewIssue, IsShaped
  <2>4. PICK new : new = NewIssue(b, issue)
    OBVIOUS
  <2>5. IsShaped(e) /\ e.issues = b.issues \cup {new}
    BY <2>2, <2>3, <2>4, IssueIsInserted
  <2>6. new.project = issue[1] /\ new.name = issue[2]
    BY <2>4 DEF NewIssue
  <2>7. ASSUME NEW m \in 1 .. N
        PROVE  IF m <= n THEN \E i : IssuesNamed(e, seq[m][1], seq[m][2]) = {i}
               ELSE IssuesNamed(e, seq[m][1], seq[m][2]) = {}
    <3>1. PICK p, q : p = seq[m][1] /\ q = seq[m][2]
      OBVIOUS
    <3>2. IF m <= n - 1 THEN \E i : IssuesNamed(b, p, q) = {i}
          ELSE IssuesNamed(b, p, q) = {}
      BY <2>2, <3>1
    <3>3. CASE m = n
      <4>1. IssuesNamed(b, p, q) = {} /\ m <= n
        BY <3>2, <3>3
      <4>2. new.project = p /\ new.name = q
        BY <2>1, <2>6, <3>1, <3>3
      <4>3. IssuesNamed(e, p, q) = {new}
        BY <2>5, <4>1, <4>2 DEF IssuesNamed
      <4>. QED
        BY <3>1, <4>1, <4>3
    <3>4. CASE m # n
      <4>1. ~(new.project = p /\ new.name = q)
        <5>1. seq[m] # seq[n]
          BY <3>4
        <5>2. seq[m] = <<seq[m][1], seq[m][2]>> /\ seq[n] = <<seq[n][1], seq[n][2]>>
          OBVIOUS
        <5>. QED
          BY <2>1, <2>6, <3>1, <5>1, <5>2
      <4>2. IssuesNamed(e, p, q) = IssuesNamed(b, p, q)
        BY <2>5, <4>1 DEF IssuesNamed
      <4>3. m <= n <=> m <= n - 1
        BY <3>4
      <4>. QED
        BY <3>1, <3>2, <4>2, <4>3
    <3>. QED
      BY <3>3, <3>4
  <2>8. Once(s[n], n) /\ IsShaped(s[n])
    BY <2>1, <2>5, <2>7
  <2>9. n \in 0 .. N
    BY <1>3
  <2>. QED
    BY <2>8, <2>9 DEF Good
<1>4. N \in Good
  <2>. HIDE DEF Good
  <2>1. \A n \in 0 .. N : n \in Good
    BY <1>2, <1>3, Upward
  <2>. QED
    BY <2>1
<1>5. Once(s[N], N)
  BY <1>4
<1>6. \A m \in 1 .. N : m <= N
  OBVIOUS
<1>. QED
  BY <1>5, <1>6 DEF HasOnce

LEMMA SeedsAreOnce ==
  ASSUME NEW p, NEW b, Grown(p, b, Len(Seeds)),
         \A seed \in Range(Seeds) : Named(p, seed.table, seed.key) = {},
         NEW seed \in Range(Seeds)
  PROVE  \E id : /\ Named(b, seed.table, seed.key) = {id}
                 /\ id \in DOMAIN b.rows[seed.table]
                 /\ id \notin DOMAIN p.rows[seed.table]
<1>1. PICK n \in 1 .. Len(Seeds) : seed = Seeds[n]
  BY SeedsAreTyped DEF Range
<1>2. n <= Len(Seeds) /\ seed.table \in Tables
  BY SeedsAreTyped
<1>3. PICK id : Named(b, seed.table, seed.key) = {id}
  BY <1>1, <1>2 DEF Grown
<1>4. id \in DOMAIN b.rows[seed.table] /\ b.rows[seed.table][id] = seed.key
  BY <1>3 DEF Named
<1>5. ASSUME id \in DOMAIN p.rows[seed.table]
      PROVE  FALSE
  <2>1. p.rows[seed.table][id] = seed.key
    BY <1>2, <1>4, <1>5 DEF Grown
  <2>2. id \in Named(p, seed.table, seed.key)
    BY <1>5, <2>1 DEF Named
  <2>. QED
    BY <2>2
<1>. QED
  BY <1>3, <1>4, <1>5

\* What a purge of the script leaves: the rows that are not of seeds.
LEMMA PurgedOfSeeds ==
  ASSUME NEW d, IsDatabase(d), SeedsAreIn(d), Unrivalled(d),
         NEW p, Deletes(d, p, TrackedEntityIds(d))
  PROVE  /\ \A seed \in Range(Seeds) :
              /\ Named(p, seed.table, seed.key) = {}
              /\ \E id \in DOMAIN d.rows[seed.table] :
                   /\ Named(d, seed.table, seed.key) = {id}
                   /\ id \notin DOMAIN p.rows[seed.table]
         /\ \A t \in Tables :
              /\ DOMAIN p.rows[t] \subseteq DOMAIN d.rows[t]
              /\ \A i \in DOMAIN d.rows[t] \ DOMAIN p.rows[t] :
                   \E seed \in Range(Seeds) :
                     seed.table = t /\ seed.key = d.rows[t][i]
<1>1. ASSUME NEW t \in Tables
      PROVE  /\ \A i \in DOMAIN p.rows[t] : p.rows[t][i] = d.rows[t][i]
             /\ \A i : i \in DOMAIN p.rows[t] <=>
                       i \in DOMAIN d.rows[t] /\ <<t, i>> \notin TrackedEntityIds(d)
  BY DEF Deletes
<1>2. ASSUME NEW seed \in Range(Seeds)
      PROVE  /\ Named(p, seed.table, seed.key) = {}
             /\ \E id \in DOMAIN d.rows[seed.table] :
                  /\ Named(d, seed.table, seed.key) = {id}
                  /\ id \notin DOMAIN p.rows[seed.table]
  <2>1. PICK t, key : t = seed.table /\ key = seed.key
    OBVIOUS
  <2>2. PICK id : /\ t \in Tables /\ key \in DOMAIN d.tracked
                  /\ d.tracked[key] = <<t, id>>
                  /\ id \in DOMAIN d.rows[t] /\ Named(d, t, key) = {id}
    BY <2>1, NamedOnce
  <2>3. <<t, id>> \in TrackedEntityIds(d)
    BY <2>2 DEF TrackedEntityIds, Range
  <2>4. id \notin DOMAIN p.rows[t]
    BY <1>1, <2>2, <2>3
  <2>5. Named(p, t, key) \subseteq Named(d, t, key)
    BY <1>1, <2>2 DEF Named
  <2>6. Named(p, t, key) = {}
    BY <2>2, <2>4, <2>5 DEF Named
  <2>. QED
    BY <2>1, <2>2, <2>4, <2>6
<1>3. ASSUME NEW t \in Tables, NEW i \in DOMAIN d.rows[t] \ DOMAIN p.rows[t]
      PROVE  \E seed \in Range(Seeds) : seed.table = t /\ seed.key = d.rows[t][i]
  <2>1. PICK key \in DOMAIN d.tracked : d.tracked[key] = <<t, i>>
    BY <1>1, <1>3 DEF TrackedEntityIds, Range
  <2>2. PICK seed \in Range(Seeds) : key = seed.key
    BY <2>1, SeedsAreTyped DEF SeedsAreIn
  <2>3. d.tracked[key][1] = seed.table /\ d.rows[seed.table][d.tracked[key][2]] = key
    BY <2>2 DEF SeedsAreIn
  <2>. QED
    BY <2>1, <2>2, <2>3
<1>. QED
  BY <1>1, <1>2, <1>3

\* The script gives the same rows other ids.
LEMMA ReseedingKeepsSizes ==
  ASSUME NEW d, IsDatabase(d), SeedsAreIn(d), Unrivalled(d),
         NEW e, e = Reseeded(d), e.ok
  PROVE  SizesOf(e) = SizesOf(d) /\ Unrivalled(e)
<1>1. PICK p : p = Purged(d, TrackedEntityIds(d))
  OBVIOUS
<1>2. /\ IsShaped(p) /\ Deletes(d, p, TrackedEntityIds(d))
      /\ p.ok => IsDatabase(p) /\ RecordsAreOfTheirTable(p)
  BY <1>1, PurgedDatabase
<1>3. PICK N : N = Len(Seeds)
  OBVIOUS
<1>4. PICK s : /\ AreStates("insertRow", p, Seeds, N, s)
               /\ s[N] = FoldLeft(InsertSeed, p, Seeds)
  BY <1>3, StatesOfInsertedRows, SeedsAreTyped
<1>5. PICK rows, linked : rows = s[N] /\ linked = InsertLinks(rows)
  OBVIOUS
<1>6. PICK M, seq : M = Cardinality(IssuesOf(linked)) /\ seq = SetToSeq(IssuesOf(linked))
  OBVIOUS
<1>7. /\ M \in Nat /\ DOMAIN seq = 1 .. M
      /\ seq \in [1 .. M -> IssuesOf(linked)]
      /\ \A x \in IssuesOf(linked) : \E m \in 1 .. M : seq[m] = x
      /\ \A m, n \in 1 .. M : seq[m] = seq[n] => m = n
  BY <1>6, IssuesOfSeedsAreFinite, SetsAreListed
<1>8. e = FoldLeft(InsertSeededIssue, linked, seq)
  BY <1>1, <1>4, <1>5, <1>6, Zenon DEF Reseeded, Created, InsertIssues
<1>9. PICK u : AreStates("insertIssue", linked, seq, M, u) /\ u[M] = e
  BY <1>7, <1>8, StatesOfInsertedIssues
<1>10. IsSeeding("insertRow") /\ IsSeedingIssues("insertIssue")
  BY DEF IsSeeding, IsSeedingIssues
<1>11. IsShaped(rows)
  BY <1>2, <1>3, <1>4, <1>5, <1>10, SeedingIsOk, SeedsAreTyped
<1>12. /\ IsShaped(linked) /\ RowsStay(rows, linked) /\ (linked.ok => rows.ok)
       /\ linked.issues = rows.issues
  BY <1>5, <1>11, LinksAreSeeded
<1>13. p.ok /\ rows.ok /\ RowsStay(linked, e) /\ IsDatabase(rows)
       /\ (\A seed \in Range(Seeds) : HasRow(rows, seed)) /\ HangersStay(p, rows)
  <2>1. /\ rows.ok => /\ p.ok /\ IsDatabase(rows)
                      /\ \A seed \in Range(Seeds) : HasRow(rows, seed)
                      /\ HangersStay(p, rows)
    <3>1. IsShaped(p) /\ (p.ok => IsDatabase(p) /\ RecordsAreOfTheirTable(p))
      BY <1>2
    <3>2. AreStates("insertRow", p, Seeds, Len(Seeds), s) /\ rows = s[Len(Seeds)]
      BY <1>3, <1>4, <1>5
    <3>. QED
      BY <1>10, <3>1, <3>2, RowsAreSeeded
  <2>2. linked = InsertLinks(rows)
    BY <1>5
  <2>3. linked.ok => /\ IsDatabase(linked)
                     /\ \A seed \in Range(Seeds) : HasRow(linked, seed)
    BY <1>12, <2>1, <2>2, LinkedDatabase, WhatRowsDecide
  <2>4. linked.ok => IsDatabase(linked) /\ AreIssuesOf(linked, seq, M)
    BY <1>7, <2>3, IssuesOfSeedsAreTyped DEF AreIssuesOf
  <2>5. HoldsIssues(linked, u[M], seq, M)
    BY <1>7, <1>9, <1>10, <1>12, <2>4, IssuesAreSeeded
  <2>6. RowsStay(linked, e) /\ e.ok = linked.ok
    BY <1>9, <2>5 DEF HoldsIssues
  <2>. QED
    BY <1>12, <2>1, <2>6
<1>14. \A seed \in Range(Seeds) : Named(p, seed.table, seed.key) = {}
  BY <1>2, PurgedOfSeeds
<1>15. Grown(p, rows, Len(Seeds))
  <2>1. AreStates("insertRow", p, Seeds, Len(Seeds), s) /\ rows = s[Len(Seeds)]
    BY <1>3, <1>4, <1>5
  <2>2. IsDatabase(p) /\ RecordsAreOfTheirTable(p) /\ s[Len(Seeds)].ok
    BY <1>2, <1>13, <2>1
  <2>. QED
    BY <1>14, <2>1, <2>2, RowsGrow
<1>16. e.rows = rows.rows
  BY <1>12, <1>13 DEF RowsStay
<1>17. ASSUME NEW t \in Tables
       PROVE  Cardinality(DOMAIN e.rows[t]) = Cardinality(DOMAIN d.rows[t])
  <2>1. PICK D, E, K : D = DOMAIN d.rows[t] /\ E = DOMAIN e.rows[t] /\ K = DOMAIN p.rows[t]
    OBVIOUS
  <2>2. PICK names : names = {seed.key : seed \in {x \in Range(Seeds) : x.table = t}}
    OBVIOUS
  <2>3. PICK f, g : f = d.rows[t] /\ g = e.rows[t]
    OBVIOUS
  <2>4. IsFiniteSet(D)
    <3>1. D \in SUBSET (1 .. d.next[t] - 1) /\ d.next[t] - 1 \in Int
      BY <2>1, PartsOfDatabase, IdsAreNatural DEF RowsAreTyped
    <3>. QED
      BY <3>1, FS_Interval, FS_Subset
  <2>5. K \subseteq D /\ K \subseteq E
    BY <1>2, <1>15, <1>16, <2>1, PurgedOfSeeds DEF Grown
  <2>6. \A i \in D \ K : f[i] \in names
    BY <1>2, <2>1, <2>2, <2>3, PurgedOfSeeds
  <2>7. \A i \in E \ K : g[i] \in names
    BY <1>15, <1>16, <2>1, <2>2, <2>3 DEF Grown
  <2>8. ASSUME NEW name \in names
        PROVE  /\ \E i \in D : {x \in D : f[x] = name} = {i} /\ i \notin K
               /\ \E i \in E : {x \in E : g[x] = name} = {i} /\ i \notin K
    <3>1. PICK seed \in Range(Seeds) : seed.table = t /\ seed.key = name
      BY <2>2
    <3>2. \E i \in D : {x \in D : f[x] = name} = {i} /\ i \notin K
      <4>1. PICK i \in DOMAIN d.rows[seed.table] :
              /\ Named(d, seed.table, seed.key) = {i}
              /\ i \notin DOMAIN p.rows[seed.table]
        BY <1>2, PurgedOfSeeds
      <4>2. Named(d, t, name) = {x \in D : f[x] = name}
        BY <2>1, <2>3 DEF Named
      <4>. QED
        BY <2>1, <3>1, <4>1, <4>2
    <3>3. \E i \in E : {x \in E : g[x] = name} = {i} /\ i \notin K
      <4>1. PICK i : /\ Named(rows, seed.table, seed.key) = {i}
                     /\ i \in DOMAIN rows.rows[seed.table]
                     /\ i \notin DOMAIN p.rows[seed.table]
        BY <1>14, <1>15, SeedsAreOnce
      <4>2. Named(rows, t, name) = {x \in E : g[x] = name}
        BY <1>16, <2>1, <2>3 DEF Named
      <4>. QED
        BY <1>16, <2>1, <3>1, <4>1, <4>2
    <3>. QED
      BY <3>2, <3>3
  <2>9. Bears(D, K, f, names) /\ Bears(E, K, g, names)
    BY <2>5, <2>6, <2>7, <2>8 DEF Bears
  <2>10. Cardinality(E) = Cardinality(D)
    BY <2>4, <2>9, SameSizes
  <2>. QED
    BY <2>1, <2>10
<1>18. SizesOf(e) = SizesOf(d)
  BY <1>17 DEF SizesOf
<1>19. \A seed \in Range(Seeds) : Cardinality(Named(e, seed.table, seed.key)) <= 1
  <2>1. ASSUME NEW seed \in Range(Seeds)
        PROVE  Cardinality(Named(e, seed.table, seed.key)) <= 1
    <3>1. PICK id : /\ Named(rows, seed.table, seed.key) = {id}
                    /\ id \in DOMAIN rows.rows[seed.table]
                    /\ id \notin DOMAIN p.rows[seed.table]
      BY <1>14, <1>15, SeedsAreOnce
    <3>2. Named(e, seed.table, seed.key) = {id}
      BY <1>16, <3>1 DEF Named
    <3>3. Cardinality({id}) = 1
      BY FS_Singleton
    <3>. QED
      BY <3>2, <3>3
  <2>. QED
    BY <2>1
<1>20. IssuesOf(e) = IssuesOf(linked) /\ IssuesOf(linked) = IssuesOf(rows)
  BY <1>12, <1>13, WhatRowsDecide
<1>21. ASSUME NEW x \in IssuesOf(rows)
       PROVE  x = <<x[1], x[2]>> /\ IssuesNamed(linked, x[1], x[2]) = {}
  <2>1. PICK k \in SeededIssues : x = <<SeedsOf(rows, k[1])[2], k[2]>>
    BY DEF IssuesOf
  <2>2. PICK seed \in Range(Seeds) : seed.table = "Projects" /\ seed.key = k[1]
    BY IssuesAreOfSeeds DEF Seed
  <2>3. x[1] \in Named(rows, "Projects", seed.key)
    <3>1. HasRow(rows, seed)
      BY <1>13
    <3>. QED
      BY <2>1, <2>2, <3>1 DEF HasRow, Exists, SeedsOf, Named
  <2>4. x[1] \notin DOMAIN p.rows["Projects"]
    <3>1. PICK id : /\ Named(rows, seed.table, seed.key) = {id}
                    /\ id \notin DOMAIN p.rows[seed.table]
      BY <1>14, <1>15, SeedsAreOnce
    <3>. QED
      BY <2>2, <2>3, <3>1
  <2>5. \A i \in p.issues : i.project \in DOMAIN p.rows["Projects"]
    BY <1>2, <1>13, IssuesAreNumbered
  <2>6. linked.issues = p.issues
    BY <1>12, <1>13 DEF HangersStay
  <2>. QED
    BY <2>1, <2>4, <2>5, <2>6 DEF IssuesNamed
<1>22. \A m \in 1 .. M : \E i : IssuesNamed(e, seq[m][1], seq[m][2]) = {i}
  <2>1. \A m \in 1 .. M : /\ seq[m] = <<seq[m][1], seq[m][2]>>
                          /\ IssuesNamed(linked, seq[m][1], seq[m][2]) = {}
    BY <1>7, <1>20, <1>21
  <2>2. \A m, n \in 1 .. M : seq[m] = seq[n] => m = n
    BY <1>7
  <2>3. HasOnce(u[M], seq, M)
    <3>1. M \in Nat /\ IsShaped(linked) /\ AreStates("insertIssue", linked, seq, M, u)
      BY <1>7, <1>9, <1>12
    <3>2. Misses(linked, seq, M)
      BY <2>1, <2>2 DEF Misses
    <3>. QED
      BY <3>1, <3>2, IssuesGrow
  <2>. QED
    BY <1>9, <2>3 DEF HasOnce
<1>23. \A x \in IssuesOf(e) : Cardinality(IssuesNamed(e, x[1], x[2])) <= 1
  <2>1. ASSUME NEW x \in IssuesOf(e)
        PROVE  Cardinality(IssuesNamed(e, x[1], x[2])) <= 1
    <3>1. PICK m \in 1 .. M : seq[m] = x
      BY <1>7, <1>20
    <3>2. PICK i : IssuesNamed(e, x[1], x[2]) = {i}
      BY <1>22, <3>1
    <3>3. Cardinality({i}) = 1
      BY FS_Singleton
    <3>. QED
      BY <3>2, <3>3
  <2>. QED
    BY <2>1
<1>. QED
  BY <1>18, <1>19, <1>23 DEF Unrivalled

-----------------------------------------------------------------------------
(* The theorems *)

\* The database is one that SQLite and the schema admit after any history of
\* users and tools: rows are of their tables and their ids were handed out
\* (TestDataService, TestDataSeeder), whatever a run that stopped left behind.
THEOREM TypeCorrect == Spec => []TypeOK
<1>1. IInv => TypeOK
  BY DEF IInv
<1>. QED
  BY <1>1, InductiveInvariant, PTL

\* A row that users made, and that never bore the name of a seed, is in the
\* database until users delete it: neither the service, which takes rows over
\* by their record or their name, nor the script, which deletes the rows it has
\* records of, touches it.
THEOREM UsersRowsAreKept == Spec => []UsersRowsStay
<1>1. ASSUME IInv
      PROVE  UsersRowsStay
  <2>1. ASSUME NEW ref \in own
        PROVE  ref \in Refs(db)
    <3>1. /\ ref = <<ref[1], ref[2]>> /\ ref[1] \in Tables
          /\ ref[2] \in DOMAIN db.rows[ref[1]]
      BY <1>1 DEF IInv, OwnRowsAreForeign, IsForeign, Exists
    <3>2. PICK t \in Tables : t = ref[1]
      BY <3>1
    <3>3. ref \in {<<t, id>> : id \in DOMAIN db.rows[t]}
      BY <3>1, <3>2
    <3>. QED
      BY <3>3 DEF Refs
  <2>. QED
    BY <2>1 DEF UsersRowsStay
<1>. QED
  BY <1>1, InductiveInvariant, PTL

\* Only the two tools' transactions seed.
LEMMA WhoEnsures ==
  ASSUME IInv, Next, Ensuring
  PROVE  ServiceEnsures \/ ScriptEnsureCommits
<1>1. CASE User
  <2>1. run' = run /\ run.step # "inserted"
    BY <1>1 DEF User, CreateRow, DeleteRow, RenameRow, AddLink, RemoveLink,
                CreateIssue, EditIssue, WriteComment, ChangeAccount, UsersChange
  <2>. QED
    BY <2>1 DEF Ensuring
<1>2. CASE ServicePurges
  <2>1. run = idle /\ run'.step # "write"
    BY <1>2, IdleHoldsNothing DEF ServicePurges, Unlinking, idle
  <2>2. run.step = "idle"
    BY <2>1, IdleHoldsNothing
  <2>. QED
    BY <2>1, <2>2 DEF Ensuring
<1>3. ASSUME NEW file, WriteJournal(file) \/ DeleteJournal(file)
      PROVE  FALSE
  BY <1>3 DEF WriteJournal, DeleteJournal, Ensuring
<1>4. CASE ScriptEnsureBegins \/ ScriptPurgeReads
  <2>1. run = idle /\ run'.step # "write"
    BY <1>4 DEF ScriptEnsureBegins, ScriptPurgeReads, idle
  <2>2. run.step = "idle"
    BY <2>1, IdleHoldsNothing
  <2>. QED
    BY <2>1, <2>2 DEF Ensuring
<1>5. CASE \/ ScriptEnsureFails \/ ScriptInserts
           \/ ScriptPurgeBegins \/ ScriptPurgeFails \/ ScriptPurgeCommits
  BY <1>5 DEF ScriptEnsureFails, ScriptInserts, ScriptPurgeBegins,
              ScriptPurgeFails, ScriptPurgeCommits, Ensuring
<1>6. CASE Stop
  <2>1. run' = idle /\ db' = db
    BY <1>6 DEF Stop
  <2>2. run'.step = "idle"
    BY <2>1, IdleHoldsNothing
  <2>. QED
    BY <2>1, <2>2 DEF Ensuring
<1>. QED
  BY <1>1, <1>2, <1>3, <1>4, <1>5, <1>6 DEF Next, Tool

\* A run of either tool that succeeds leaves the whole fixture in the database
\* and a record of every seed, whatever users renamed, deleted, moved or added
\* before it, and wherever an earlier run stopped.
THEOREM EnsuringIsComplete == Spec => EnsuringCompletes
<1>1. ASSUME IInv, [Next]_vars
      PROVE  [Ensuring => SeedsAreIn(db')]_vars
  BY <1>1, WhoEnsures, ServiceEnsuresKeepsInv, ScriptEnsureCommitsKeepsInv
<1>. QED
  BY <1>1, InductiveInvariant, PTL DEF Spec, EnsuringCompletes

\* When the last file of a purge is deleted, no record is left, nor a row there
\* was a record of, nor a link or journal of one, although users went on
\* between the transaction and the files.
THEOREM PurgesAreComplete == Spec => PurgesEmpty
<1>. DEFINE Ends == /\ run.step = "unlink" /\ run'.step = "idle"
                    /\ Cardinality(run.left) = 1 /\ files' = files \ run.left
            Empty == /\ ~ HasTestData(db')
                     /\ \A ref \in run.tracked :
                          /\ ~ Exists(db', ref)
                          /\ \A l \in db'.links : ref \notin {l[2], l[3]}
                          /\ ref[1] = "Projects" =>
                               <<"projectJournal", ref[2]>> \notin files'
                     /\ files' \cap run.targets = {}
<1>1. ASSUME IInv, Next, Ends
      PROVE  Empty
  <2>1. db' = db
    <3>1. CASE User
      <4>1. run' = run
        BY <3>1 DEF User, CreateRow, DeleteRow, RenameRow, AddLink, RemoveLink,
                    CreateIssue, EditIssue, WriteComment, ChangeAccount,
                    UsersChange
      <4>. QED
        BY <1>1, <4>1
    <3>2. CASE Tool
      <4>1. run # idle
        BY <1>1, IdleHoldsNothing
      <4>. QED
        BY <1>1, <3>2, <4>1 DEF Tool, ServiceEnsures, ServicePurges,
           WriteJournal, DeleteJournal, ScriptEnsureBegins, ScriptEnsureFails,
           ScriptInserts, ScriptEnsureCommits, ScriptPurgeReads,
           ScriptPurgeBegins, ScriptPurgeFails, ScriptPurgeCommits, Stop
    <3>. QED
      BY <1>1, <3>1, <3>2 DEF Next
  <2>2. /\ Covers(run.targets, run.tracked, db.nextIssue)
        /\ DOMAIN db.tracked = {}
        /\ \A ref \in run.tracked : ~ Exists(db, ref)
        /\ files \cap run.targets \subseteq run.left
    BY <1>1 DEF IInv, PurgeIsFaithful
  <2>3. files' \cap run.targets = {}
    BY <1>1, <2>2
  <2>4. \A l \in db.links : Exists(db, l[2]) /\ Exists(db, l[3])
    <3>1. LinksAreTyped(db)
      BY <1>1, PartsOfDatabase DEF IInv, TypeOK
    <3>. QED
      BY <3>1 DEF LinksAreTyped
  <2>5. \A ref \in run.tracked :
          ref[1] = "Projects" => <<"projectJournal", ref[2]>> \notin files'
    BY <2>2, <2>3 DEF Covers
  <2>. QED
    BY <2>1, <2>2, <2>3, <2>4, <2>5 DEF HasTestData
<1>2. ASSUME IInv, [Next]_vars
      PROVE  [Ends => Empty]_vars
  BY <1>1, <1>2
<1>. QED
  BY <1>2, InductiveInvariant, PTL DEF Spec, PurgesEmpty

\* A run of a tool over a database that is seeded, and in which no other row or
\* issue bears the name of a seed, is harmless: the service changes nothing, and
\* the script gives as many rows other ids, without a second row of a name.
THEOREM EnsuringAgainChangesNothing == Spec => EnsuringIsIdempotent
<1>. DEFINE Same == /\ SizesOf(db') = SizesOf(db) /\ Unrivalled(db')
                    /\ run'.step = "write" => db' = db
<1>1. ASSUME IInv, Next, Ensuring, SeedsAreIn(db), Unrivalled(db)
      PROVE  Same
  <2>1. IsDatabase(db) /\ db.ok
    BY <1>1 DEF IInv, TypeOK
  <2>2. CASE ServiceEnsures
    <3>1. db' = Ensured(db)
      BY <2>2 DEF ServiceEnsures
    <3>2. db' = db
      BY <1>1, <2>1, <3>1, EnsuringStandsStill
    <3>. QED
      BY <1>1, <3>2
  <2>3. CASE ScriptEnsureCommits
    <3>1. run.step = "inserted" /\ db' = Reseeded(db) /\ run' = idle
      BY <2>3 DEF ScriptEnsureCommits
    <3>2. db'.ok
      BY <1>1, <3>1 DEF IInv, InsertedIsOk
    <3>3. SizesOf(db') = SizesOf(db) /\ Unrivalled(db')
      BY <1>1, <2>1, <3>1, <3>2, ReseedingKeepsSizes
    <3>4. run'.step # "write"
      BY <3>1, IdleHoldsNothing
    <3>. QED
      BY <3>3, <3>4
  <2>. QED
    BY <1>1, <2>2, <2>3, WhoEnsures
<1>2. ASSUME IInv, [Next]_vars
      PROVE  [Ensuring /\ SeedsAreIn(db) /\ Unrivalled(db) => Same]_vars
  BY <1>1, <1>2
<1>. QED
  BY <1>2, InductiveInvariant, PTL DEF Spec, EnsuringIsIdempotent
=============================================================================
