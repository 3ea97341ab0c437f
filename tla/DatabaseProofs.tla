--------------------------- MODULE DatabaseProofs ---------------------------
(***************************************************************************)
(* Of what the database keeps: its upgrades from version to version, and   *)
(* the sessions and tokens in it.                                          *)
(***************************************************************************)
EXTENDS Sessions, Migrations, FiniteSetTheorems, TLAPS

-----------------------------------------------------------------------------
(***************************************************************************)
(* The production database and its upgrades, whatever rows it starts with. *)
(*                                                                         *)
(* What each SQL statement keeps, adds and drops is a lemma; what a        *)
(* migration does follows from the lemmas of its statements.  Inv1 says    *)
(* that the database an attempt has open is at the version that the        *)
(* attempt checked, for as long as its hook runs: nothing else would keep  *)
(* a hook from one version and the SQL from another.  It holds when one    *)
(* operator works at a time (OneOperator).  On it rest the codes, the      *)
(* mentions and the journals.                                              *)
(***************************************************************************)

(* Statements *)

\* The sequence of a finite set lists its elements.
LEMMA SetsAreListed ==
  ASSUME NEW S, IsFiniteSet(S)
  PROVE  /\ Cardinality(S) \in Nat
         /\ SetToSeq(S) \in [1 .. Cardinality(S) -> S]
         /\ \A x \in S : \E n \in 1 .. Cardinality(S) : SetToSeq(S)[n] = x
<1>1. Cardinality(S) \in Nat /\ ExistsBijection(1 .. Cardinality(S), S)
  BY FS_CardinalityType
<1>2. \E f \in [1 .. Cardinality(S) -> S] : IsInjective(f)
  BY <1>1 DEF ExistsBijection, Bijection, Injection, IsInjective
<1>3. /\ SetToSeq(S) \in [1 .. Cardinality(S) -> S]
      /\ IsInjective(SetToSeq(S))
  BY <1>2 DEF SetToSeq
<1>4. SetToSeq(S) \in Injection(1 .. Cardinality(S), S)
  BY <1>3 DEF Injection, IsInjective
<1>5. Cardinality(1 .. Cardinality(S)) = Cardinality(S)
  BY <1>1, FS_Interval
<1>6. SetToSeq(S) \in Surjection(1 .. Cardinality(S), S)
  BY <1>4, <1>5, FS_Injection
<1>. QED
  BY <1>1, <1>3, <1>6 DEF Surjection

-----------------------------------------------------------------------------
(* Databases *)

IsTable(def) == DOMAIN def = {"key", "columns", "unique", "refs"}
IsFile(d) ==
  /\ DOMAIN d = {"schemaName", "applied", "ok", "tables", "rows", "preparedFor"}
  /\ d.ok \in BOOLEAN
  /\ DOMAIN d.rows = DOMAIN d.tables
  /\ \A t \in DOMAIN d.tables : IsTable(d.tables[t])

\* What a statement leaves alone: the record of the migrations.
SameFile(d, new) ==
  /\ IsFile(new)
  /\ new.schemaName = d.schemaName
  /\ new.applied = d.applied
  /\ new.preparedFor = d.preparedFor

\* A table and its rows are as before.
Keeps(d, new, t) ==
  /\ t \in DOMAIN new.tables
  /\ new.tables[t] = d.tables[t]
  /\ new.rows[t] = d.rows[t]

\* Two tables of names: names have what the first gives, or else the second.
LEMMA OfEither ==
  \A f, g :
    /\ DOMAIN either(<<f, g>>) = DOMAIN f \cup DOMAIN g
    /\ \A x \in DOMAIN f : either(<<f, g>>)[x] = f[x]
    /\ \A x \in DOMAIN g \ DOMAIN f : either(<<f, g>>)[x] = g[x]
<1>1. ASSUME NEW pair
      PROVE  /\ DOMAIN either(pair) = DOMAIN pair[1] \cup DOMAIN pair[2]
             /\ \A x \in DOMAIN pair[1] : either(pair)[x] = pair[1][x]
             /\ \A x \in DOMAIN pair[2] \ DOMAIN pair[1] :
                  either(pair)[x] = pair[2][x]
  BY DEF either
<1>2. \A f, g : <<f, g>>[1] = f /\ <<f, g>>[2] = g
  OBVIOUS
<1>. QED
  BY <1>1, <1>2

LEMMA FromBoth ==
  \A f, g :
    /\ DOMAIN (f ++ g) = DOMAIN f \cup DOMAIN g
    /\ \A x \in DOMAIN f : (f ++ g)[x] = f[x]
    /\ \A x \in DOMAIN g \ DOMAIN f : (f ++ g)[x] = g[x]
<1>. SUFFICES ASSUME NEW f, NEW g
              PROVE  /\ DOMAIN (f ++ g) = DOMAIN f \cup DOMAIN g
                     /\ \A x \in DOMAIN f : (f ++ g)[x] = f[x]
                     /\ \A x \in DOMAIN g \ DOMAIN f : (f ++ g)[x] = g[x]
  OBVIOUS
<1>1. f ++ g = either(<<f, g>>)
  BY DEF ++
<1>2. /\ DOMAIN either(<<f, g>>) = DOMAIN f \cup DOMAIN g
      /\ \A x \in DOMAIN f : either(<<f, g>>)[x] = f[x]
      /\ \A x \in DOMAIN g \ DOMAIN f : either(<<f, g>>)[x] = g[x]
  BY OfEither
<1>. QED
  BY <1>1, <1>2

LEMMA InBoth ==
  \A f, g, x : x \in DOMAIN (f ++ g) <=> x \in DOMAIN f \/ x \in DOMAIN g
BY FromBoth

LEMMA FailingIsNotOk ==
  ASSUME NEW d, IsFile(d)
  PROVE  SameFile(d, Fail(d)) /\ ~Fail(d).ok
BY DEF IsFile, SameFile, Fail

\* A statement that is possible gives its result, and fails otherwise.
LEMMA Trying ==
  ASSUME NEW d, IsFile(d), NEW possible \in BOOLEAN, NEW result,
         d.ok /\ possible => SameFile(d, result)
  PROVE  LET new == Try(d, possible, result)
         IN  /\ SameFile(d, new)
             /\ new.ok => d.ok /\ possible /\ new = result
<1>1. CASE d.ok /\ possible
  BY <1>1 DEF Try
<1>2. CASE ~(d.ok /\ possible)
  BY <1>2, FailingIsNotOk DEF Try
<1>. QED
  BY <1>1, <1>2

Creates(d, defs, new) ==
  /\ DOMAIN new.tables = DOMAIN d.tables \cup DOMAIN defs
  /\ DOMAIN defs \cap DOMAIN d.tables = {}
  /\ \A t \in DOMAIN d.tables : Keeps(d, new, t)
  /\ \A t \in DOMAIN defs : new.tables[t] = defs[t] /\ new.rows[t] = {}

LEMMA CreatingTables ==
  ASSUME NEW d, IsFile(d), NEW defs,
         \A t \in DOMAIN defs : IsTable(defs[t])
  PROVE  LET new == CreateTables(d, defs)
         IN  /\ SameFile(d, new)
             /\ new.ok => d.ok /\ Creates(d, defs, new)
<1>. DEFINE result == [d EXCEPT !.tables = @ ++ defs,
                                 !.rows = @ ++ [t \in DOMAIN defs |-> {}]]
            possible == DOMAIN defs \cap DOMAIN d.tables = {}
<1>1. CreateTables(d, defs) = Try(d, possible, result)
  BY DEF CreateTables
<1>2. /\ DOMAIN result.tables = DOMAIN d.tables \cup DOMAIN defs
      /\ DOMAIN result.rows = DOMAIN d.tables \cup DOMAIN defs
      /\ \A t \in DOMAIN d.tables :
           result.tables[t] = d.tables[t] /\ result.rows[t] = d.rows[t]
      /\ \A t \in DOMAIN defs :
           t \notin DOMAIN d.tables =>
             result.tables[t] = defs[t] /\ result.rows[t] = {}
  <2>. DEFINE none == [t \in DOMAIN defs |-> {}]
  <2>1. result.tables = either(<<d.tables, defs>>)
    BY DEF ++, IsFile
  <2>2. result.rows = either(<<d.rows, none>>)
    BY DEF ++, IsFile
  <2>3. DOMAIN d.rows = DOMAIN d.tables /\ DOMAIN none = DOMAIN defs
        /\ \A t \in DOMAIN defs : none[t] = {}
    BY DEF IsFile
  <2>. HIDE DEF none, result
  <2>4. /\ DOMAIN result.tables = DOMAIN d.tables \cup DOMAIN defs
        /\ \A t \in DOMAIN d.tables : result.tables[t] = d.tables[t]
        /\ \A t \in DOMAIN defs \ DOMAIN d.tables : result.tables[t] = defs[t]
    BY <2>1, OfEither
  <2>5. /\ DOMAIN result.rows = DOMAIN d.rows \cup DOMAIN none
        /\ \A t \in DOMAIN d.rows : result.rows[t] = d.rows[t]
        /\ \A t \in DOMAIN none \ DOMAIN d.rows : result.rows[t] = none[t]
    BY <2>2, OfEither
  <2>. QED
    BY <2>3, <2>4, <2>5
<1>3. /\ DOMAIN result = DOMAIN d /\ result.ok = d.ok
      /\ result.schemaName = d.schemaName /\ result.applied = d.applied
      /\ result.preparedFor = d.preparedFor
  BY DEF IsFile
<1>4. possible \in BOOLEAN
  OBVIOUS
<1>. HIDE DEF result
<1>5. ASSUME possible
      PROVE  SameFile(d, result) /\ Creates(d, defs, result)
  BY <1>2, <1>3, <1>5 DEF SameFile, IsFile, Creates, Keeps
<1>. HIDE DEF possible
<1>. QED
  BY <1>1, <1>4, <1>5, Trying

CreatesOne(d, t, def, new) ==
  /\ DOMAIN new.tables = DOMAIN d.tables \cup {t}
  /\ t \notin DOMAIN d.tables
  /\ \A u \in DOMAIN d.tables : Keeps(d, new, u)
  /\ new.tables[t] = def /\ new.rows[t] = {}

LEMMA CreatingTable ==
  ASSUME NEW d, IsFile(d), NEW t, NEW def, IsTable(def)
  PROVE  LET new == CreateTable(d, t, def)
         IN  /\ SameFile(d, new)
             /\ new.ok => d.ok /\ CreatesOne(d, t, def, new)
<1>. DEFINE defs == [name \in {t} |-> def]
<1>1. DOMAIN defs = {t} /\ defs[t] = def
  OBVIOUS
<1>2. CreateTable(d, t, def) = CreateTables(d, defs)
  BY DEF CreateTable
<1>. HIDE DEF defs
<1>3. /\ SameFile(d, CreateTables(d, defs))
      /\ CreateTables(d, defs).ok =>
           d.ok /\ Creates(d, defs, CreateTables(d, defs))
  BY <1>1, CreatingTables
<1>. QED
  BY <1>1, <1>2, <1>3 DEF Creates, CreatesOne

\* A statement that changes the rows of one table.
Fills(d, t, rows, new) ==
  /\ t \in DOMAIN d.tables
  /\ DOMAIN new.tables = DOMAIN d.tables
  /\ \A u \in DOMAIN d.tables \ {t} : Keeps(d, new, u)
  /\ new.tables[t] = d.tables[t]
  /\ new.rows[t] = rows

LEMMA FillingTable ==
  ASSUME NEW d, IsFile(d), NEW t \in DOMAIN d.tables, NEW rows
  PROVE  LET new == [d EXCEPT !.rows[t] = rows]
         IN  SameFile(d, new) /\ new.ok = d.ok /\ Fills(d, t, rows, new)
BY DEF SameFile, IsFile, Fills, Keeps

LEMMA Inserting ==
  ASSUME NEW d, IsFile(d), NEW t, NEW rows
  PROVE  LET new == Insert(d, t, rows)
         IN  /\ SameFile(d, new)
             /\ new.ok => d.ok /\ Fills(d, t, d.rows[t] \cup rows, new)
<1>. DEFINE result == [d EXCEPT !.rows[t] = d.rows[t] \cup rows]
            possible == Has(d, t) /\ UniqueBy(d.tables[t], d.rows[t] \cup rows)
<1>1. Insert(d, t, rows) = Try(d, possible, result)
  BY DEF Insert
<1>2. possible => t \in DOMAIN d.tables
  BY DEF Has
<1>3. possible \in BOOLEAN
  BY DEF Has, UniqueBy
<1>. HIDE DEF possible
<1>4. possible => /\ SameFile(d, result)
                  /\ Fills(d, t, d.rows[t] \cup rows, result)
  BY <1>2, FillingTable
<1>. HIDE DEF result
<1>. QED
  BY <1>1, <1>3, <1>4, Trying

LEMMA InsertingNew ==
  ASSUME NEW d, IsFile(d), NEW t, NEW rows
  PROVE  LET new == InsertNew(d, t, rows)
         IN  /\ SameFile(d, new)
             /\ new.ok => \E more \in SUBSET rows :
                            d.ok /\ Fills(d, t, d.rows[t] \cup more, new)
<1>. DEFINE more == {row \in rows :
                       UniqueBy(d.tables[t], d.rows[t] \cup {row})}
<1>1. InsertNew(d, t, rows) = Insert(d, t, more)
  BY DEF InsertNew
<1>2. more \in SUBSET rows
  OBVIOUS
<1>. HIDE DEF more
<1>3. /\ SameFile(d, Insert(d, t, more))
      /\ Insert(d, t, more).ok =>
           d.ok /\ Fills(d, t, d.rows[t] \cup more, Insert(d, t, more))
  BY Inserting
<1>. QED
  BY <1>1, <1>2, <1>3

LEMMA Updating ==
  ASSUME NEW d, IsFile(d), NEW t, NEW rows
  PROVE  LET new == Update(d, t, rows)
         IN  /\ SameFile(d, new)
             /\ new.ok => d.ok /\ Fills(d, t, rows, new)
<1>. DEFINE result == [d EXCEPT !.rows[t] = rows]
            possible == Has(d, t) /\ UniqueBy(d.tables[t], rows)
<1>1. Update(d, t, rows) = Try(d, possible, result)
  BY DEF Update
<1>2. possible => t \in DOMAIN d.tables
  BY DEF Has
<1>3. possible \in BOOLEAN
  BY DEF Has, UniqueBy
<1>. HIDE DEF possible
<1>4. possible => SameFile(d, result) /\ Fills(d, t, rows, result)
  BY <1>2, FillingTable
<1>. HIDE DEF result
<1>. QED
  BY <1>1, <1>3, <1>4, Trying

\* Dropping a table takes it, and with its rows those that cascade.
Drops(d, t, new) ==
  /\ t \in DOMAIN d.tables
  /\ DOMAIN new.tables = DOMAIN d.tables \ {t}
  /\ \A u \in DOMAIN d.tables \ {t} :
       /\ new.tables[u] = d.tables[u]
       /\ new.rows[u] = {r \in d.rows[u] :
                           <<u, r>> \notin WithReferring(d, {t} \X d.rows[t])}

LEMMA DroppingTable ==
  ASSUME NEW d, IsFile(d), NEW t
  PROVE  LET new == DropTable(d, t)
         IN  /\ SameFile(d, new)
             /\ new.ok => d.ok /\ Drops(d, t, new)
<1>. DEFINE gone == WithReferring(d, {t} \X d.rows[t])
            kept == [u \in DOMAIN d.rows |->
                       {r \in d.rows[u] : <<u, r>> \notin gone}]
            others == DOMAIN d.tables \ {t}
            tables == [u \in others |-> d.tables[u]]
            rows == [u \in others |-> kept[u]]
            result == [d EXCEPT !.tables = tables, !.rows = rows]
            possible == Has(d, t) /\ Referring(d, gone, {"restrict", "no action"})
                                        \subseteq gone
<1>1. DropTable(d, t) = Try(d, possible, result)
  BY Zenon DEF DropTable
<1>2. possible => t \in DOMAIN d.tables
  BY DEF Has
<1>3. possible \in BOOLEAN
  BY DEF Has
<1>. HIDE DEF possible
<1>4. gone = WithReferring(d, {t} \X d.rows[t])
  OBVIOUS
<1>. HIDE DEF gone
<1>5. /\ DOMAIN tables = others /\ DOMAIN rows = others
      /\ \A u \in others :
           /\ tables[u] = d.tables[u]
           /\ rows[u] = {r \in d.rows[u] : <<u, r>> \notin gone}
  BY DEF IsFile
<1>. HIDE DEF tables, rows
<1>6. /\ DOMAIN result = DOMAIN d /\ result.ok = d.ok
      /\ result.schemaName = d.schemaName /\ result.applied = d.applied
      /\ result.preparedFor = d.preparedFor
      /\ result.tables = tables /\ result.rows = rows
  BY DEF IsFile
<1>. HIDE DEF result
<1>7. SameFile(d, result)
  BY <1>5, <1>6 DEF SameFile, IsFile
<1>8. possible => Drops(d, t, result)
  BY <1>2, <1>4, <1>5, <1>6 DEF Drops
<1>. QED
  BY <1>1, <1>3, <1>7, <1>8, Trying

\* The references follow the name.
Follow(refs, t, name) ==
  {[r EXCEPT !.table = IF @ = t THEN name ELSE @] : r \in refs}
Renames(d, t, name, new) ==
  /\ t \in DOMAIN d.tables /\ name \notin DOMAIN d.tables
  /\ DOMAIN new.tables = (DOMAIN d.tables \ {t}) \cup {name}
  /\ \A u \in DOMAIN d.tables \ {t} :
       /\ new.tables[u] = [d.tables[u] EXCEPT !.refs = Follow(@, t, name)]
       /\ new.rows[u] = d.rows[u]
  /\ new.tables[name] = [d.tables[t] EXCEPT !.refs = Follow(@, t, name)]
  /\ new.rows[name] = d.rows[t]

LEMMA RenamingTable ==
  ASSUME NEW d, IsFile(d), NEW t, NEW name
  PROVE  LET new == RenameTable(d, t, name)
         IN  /\ SameFile(d, new)
             /\ new.ok => d.ok /\ Renames(d, t, name, new)
<1>. DEFINE rename(u) == IF u = t THEN name ELSE u
            old(u) == IF u = name THEN t ELSE u
            names == {rename(u) : u \in DOMAIN d.tables}
            follow(def) ==
              [def EXCEPT !.refs = {[r EXCEPT !.table = rename(@)] : r \in @}]
            tables == [u \in names |-> follow(d.tables[old(u)])]
            rows == [u \in names |-> d.rows[old(u)]]
            result == [d EXCEPT !.tables = tables, !.rows = rows]
            possible == Has(d, t) /\ ~Has(d, name)
<1>1. RenameTable(d, t, name) = Try(d, possible, result)
  BY DEF RenameTable
<1>2. possible => t \in DOMAIN d.tables /\ name \notin DOMAIN d.tables
  BY DEF Has
<1>3. possible \in BOOLEAN
  BY DEF Has
<1>. HIDE DEF possible
<1>4. DOMAIN tables = names /\ DOMAIN rows = names
  OBVIOUS
<1>5. \A def : follow(def) = [def EXCEPT !.refs = Follow(@, t, name)]
  BY DEF Follow
<1>6. \A def : IsTable(def) => IsTable(follow(def))
  BY DEF IsTable
<1>. HIDE DEF follow
<1>7. \A u \in names : tables[u] = follow(d.tables[old(u)])
                       /\ rows[u] = d.rows[old(u)]
  OBVIOUS
<1>. HIDE DEF tables, rows
<1>8. /\ DOMAIN result = DOMAIN d /\ result.ok = d.ok
      /\ result.schemaName = d.schemaName /\ result.applied = d.applied
      /\ result.preparedFor = d.preparedFor
      /\ result.tables = tables /\ result.rows = rows
  BY DEF IsFile
<1>. HIDE DEF result
<1>9. ASSUME possible
      PROVE  SameFile(d, result) /\ Renames(d, t, name, result)
  <2>1. names = (DOMAIN d.tables \ {t}) \cup {name}
    BY <1>2, <1>9
  <2>2. old(name) = t /\ \A u \in DOMAIN d.tables \ {t} : old(u) = u
    BY <1>2, <1>9
  <2>3. \A u \in names : old(u) \in DOMAIN d.tables
    BY <1>2, <1>9, <2>1, <2>2
  <2>. HIDE DEF names, old
  <2>4. \A u \in names : IsTable(tables[u])
    BY <1>6, <1>7, <2>3 DEF IsFile
  <2>5. SameFile(d, result)
    BY <1>4, <1>8, <2>4 DEF SameFile, IsFile
  <2>6. Renames(d, t, name, result)
    BY <1>2, <1>4, <1>5, <1>7, <1>8, <1>9, <2>1, <2>2 DEF Renames
  <2>. QED
    BY <2>5, <2>6
<1>. QED
  BY <1>1, <1>3, <1>9, Trying

Moved(row, c, name) ==
  [k \in {IF old = c THEN name ELSE old : old \in DOMAIN row} |->
     IF k = name THEN row[c] ELSE row[k]]
RenamesColumn(d, t, c, name, new) ==
  /\ t \in DOMAIN d.tables
  /\ DOMAIN new.tables = DOMAIN d.tables
  /\ \A u \in DOMAIN d.tables \ {t} : Keeps(d, new, u)
  /\ new.tables[t] = [d.tables[t] EXCEPT !.columns = (@ \ {c}) \cup {name}]
  /\ new.rows[t] = {Moved(row, c, name) : row \in d.rows[t]}

LEMMA RenamingColumn ==
  ASSUME NEW d, IsFile(d), NEW t, NEW c, NEW name
  PROVE  LET new == RenameColumn(d, t, c, name)
         IN  /\ SameFile(d, new)
             /\ new.ok => d.ok /\ RenamesColumn(d, t, c, name, new)
<1>. DEFINE rows == {Moved(row, c, name) : row \in d.rows[t]}
            result == [d EXCEPT !.tables[t].columns = (@ \ {c}) \cup {name},
                                 !.rows[t] = rows]
            possible == HasColumn(d, t, c) /\ ~HasColumn(d, t, name)
<1>1. RenameColumn(d, t, c, name) = Try(d, possible, result)
  BY DEF RenameColumn, Moved
<1>2. possible => t \in DOMAIN d.tables
  BY DEF Has, HasColumn
<1>3. possible \in BOOLEAN
  BY DEF Has, HasColumn
<1>. HIDE DEF possible
<1>4. rows = {Moved(row, c, name) : row \in d.rows[t]}
  OBVIOUS
<1>. HIDE DEF rows
<1>5. ASSUME t \in DOMAIN d.tables
      PROVE  SameFile(d, result) /\ RenamesColumn(d, t, c, name, result)
  <2>1. /\ DOMAIN result = DOMAIN d /\ result.ok = d.ok
        /\ result.schemaName = d.schemaName /\ result.applied = d.applied
        /\ result.preparedFor = d.preparedFor
    BY DEF IsFile
  <2>2. /\ DOMAIN result.tables = DOMAIN d.tables
        /\ DOMAIN result.rows = DOMAIN d.rows
        /\ \A u \in DOMAIN d.tables \ {t} :
             result.tables[u] = d.tables[u] /\ result.rows[u] = d.rows[u]
        /\ result.tables[t] =
             [d.tables[t] EXCEPT !.columns = (@ \ {c}) \cup {name}]
        /\ result.rows[t] = rows
    BY <1>5 DEF IsFile
  <2>. HIDE DEF result
  <2>3. SameFile(d, result)
    BY <2>1, <2>2 DEF SameFile, IsFile, IsTable
  <2>. QED
    BY <1>4, <1>5, <2>2, <2>3 DEF RenamesColumn, Keeps
<1>. HIDE DEF result
<1>. QED
  BY <1>1, <1>2, <1>3, <1>5, Trying

AddsColumn(d, t, c, refs, default, new) ==
  /\ t \in DOMAIN d.tables
  /\ DOMAIN new.tables = DOMAIN d.tables
  /\ \A u \in DOMAIN d.tables \ {t} : Keeps(d, new, u)
  /\ new.tables[t] = [d.tables[t] EXCEPT !.columns = @ \cup {c},
                                          !.refs = @ \cup refs]
  /\ new.rows[t] = {row ++ default : row \in d.rows[t]}

LEMMA AddingColumn ==
  ASSUME NEW d, IsFile(d), NEW t, NEW c, NEW refs, NEW default
  PROVE  LET new == AddColumn(d, t, c, refs, default)
         IN  /\ SameFile(d, new)
             /\ new.ok => d.ok /\ AddsColumn(d, t, c, refs, default, new)
<1>. DEFINE rows == {row ++ default : row \in d.rows[t]}
            result == [d EXCEPT !.tables[t].columns = @ \cup {c},
                                 !.tables[t].refs = @ \cup refs,
                                 !.rows[t] = rows]
            possible == Has(d, t) /\ ~HasColumn(d, t, c)
<1>1. AddColumn(d, t, c, refs, default) = Try(d, possible, result)
  BY DEF AddColumn
<1>2. possible => t \in DOMAIN d.tables
  BY DEF Has, HasColumn
<1>3. possible \in BOOLEAN
  BY DEF Has, HasColumn
<1>. HIDE DEF possible
<1>4. rows = {row ++ default : row \in d.rows[t]}
  OBVIOUS
<1>. HIDE DEF rows
<1>5. ASSUME t \in DOMAIN d.tables
      PROVE  SameFile(d, result) /\ AddsColumn(d, t, c, refs, default, result)
  <2>1. /\ DOMAIN result = DOMAIN d /\ result.ok = d.ok
        /\ result.schemaName = d.schemaName /\ result.applied = d.applied
        /\ result.preparedFor = d.preparedFor
    BY DEF IsFile
  <2>2. /\ DOMAIN result.tables = DOMAIN d.tables
        /\ DOMAIN result.rows = DOMAIN d.rows
        /\ \A u \in DOMAIN d.tables \ {t} :
             result.tables[u] = d.tables[u] /\ result.rows[u] = d.rows[u]
        /\ result.rows[t] = rows
    BY <1>5 DEF IsFile
  <2>3. result.tables[t] = [d.tables[t] EXCEPT !.columns = @ \cup {c},
                                                !.refs = @ \cup refs]
    BY <1>5 DEF IsFile, IsTable
  <2>. HIDE DEF result
  <2>4. SameFile(d, result)
    BY <2>1, <2>2, <2>3 DEF SameFile, IsFile, IsTable
  <2>. QED
    BY <1>4, <1>5, <2>2, <2>3, <2>4 DEF AddsColumn, Keeps
<1>. HIDE DEF result
<1>. QED
  BY <1>1, <1>2, <1>3, <1>5, Trying

AddsIndex(d, t, columns, new) ==
  /\ t \in DOMAIN d.tables
  /\ DOMAIN new.tables = DOMAIN d.tables
  /\ \A u \in DOMAIN d.tables \ {t} : Keeps(d, new, u)
  /\ new.tables[t] = [d.tables[t] EXCEPT !.unique = @ \cup {columns}]
  /\ new.rows[t] = d.rows[t]

LEMMA AddingUniqueIndex ==
  ASSUME NEW d, IsFile(d), NEW t, NEW columns
  PROVE  LET new == AddUniqueIndex(d, t, columns)
         IN  /\ SameFile(d, new)
             /\ new.ok => d.ok /\ AddsIndex(d, t, columns, new)
<1>. DEFINE result == [d EXCEPT !.tables[t].unique = @ \cup {columns}]
            possible == Has(d, t) /\ columns \notin d.tables[t].unique
                          /\ Unique(d.rows[t], columns)
<1>1. AddUniqueIndex(d, t, columns) = Try(d, possible, result)
  BY DEF AddUniqueIndex
<1>2. possible => t \in DOMAIN d.tables
  BY DEF Has
<1>3. possible \in BOOLEAN
  BY DEF Has, Unique
<1>. HIDE DEF possible
<1>4. ASSUME t \in DOMAIN d.tables
      PROVE  SameFile(d, result) /\ AddsIndex(d, t, columns, result)
  <2>1. /\ DOMAIN result = DOMAIN d /\ result.ok = d.ok
        /\ result.schemaName = d.schemaName /\ result.applied = d.applied
        /\ result.preparedFor = d.preparedFor /\ result.rows = d.rows
    BY DEF IsFile
  <2>2. /\ DOMAIN result.tables = DOMAIN d.tables
        /\ \A u \in DOMAIN d.tables \ {t} : result.tables[u] = d.tables[u]
        /\ result.tables[t] = [d.tables[t] EXCEPT !.unique = @ \cup {columns}]
    BY <1>4 DEF IsFile
  <2>. HIDE DEF result
  <2>3. SameFile(d, result)
    BY <2>1, <2>2 DEF SameFile, IsFile, IsTable
  <2>. QED
    BY <1>4, <2>1, <2>2, <2>3 DEF AddsIndex, Keeps
<1>. HIDE DEF result
<1>. QED
  BY <1>1, <1>2, <1>3, <1>4, Trying

-----------------------------------------------------------------------------
(***************************************************************************)
(* Migrations                                                              *)
(***************************************************************************)
LEMMA DefinitionsAreTables ==
  \A key, others, unique, refs : IsTable(table(key, others, unique, refs))
BY DEF table, IsTable

LEMMA CodeTableIsTable == IsTable(codeTable)
BY DefinitionsAreTables DEF codeTable

AreTables(defs) == \A t \in DOMAIN defs : IsTable(defs[t])

LEMMA CreatedAreTables ==
  /\ AreTables(Created2) /\ AreTables(Created4) /\ AreTables(Created5)
  /\ AreTables(Created6) /\ AreTables(Created7) /\ AreTables(Created8)
  /\ AreTables(Created9) /\ AreTables(Created11)
<1>1. AreTables(Created2)
  BY DefinitionsAreTables, CodeTableIsTable DEF Created2, AreTables
<1>2. AreTables(Created4)
  BY DefinitionsAreTables, CodeTableIsTable DEF Created4, AreTables
<1>3. AreTables(Created5)
  BY DefinitionsAreTables DEF Created5, AreTables
<1>4. AreTables(Created6)
  BY DefinitionsAreTables DEF Created6, AreTables
<1>5. AreTables(Created7)
  BY DefinitionsAreTables DEF Created7, AreTables
<1>6. AreTables(Created8)
  BY DefinitionsAreTables DEF Created8, AreTables
<1>7. AreTables(Created9)
  BY DefinitionsAreTables DEF Created9, AreTables
<1>8. AreTables(Created11)
  BY DefinitionsAreTables DEF Created11, AreTables
<1>. QED
  BY <1>1, <1>2, <1>3, <1>4, <1>5, <1>6, <1>7, <1>8

LEMMA SameFileIsTransitive ==
  ASSUME NEW d, NEW mid, NEW new, SameFile(d, mid), SameFile(mid, new)
  PROVE  SameFile(d, new)
BY DEF SameFile

LEMMA SameFileIsReflexive ==
  ASSUME NEW d, IsFile(d)
  PROVE  SameFile(d, d)
BY DEF SameFile

LEMMA FirstMigration ==
  ASSUME NEW d, IsFile(d)
  PROVE  LET new == From1(d)
         IN  /\ SameFile(d, new)
             /\ new.ok => "Projects" \notin DOMAIN d.tables
                          /\ "Issues" \notin DOMAIN d.tables
<1>. DEFINE put == RenameTable(d, "Roles", "__legacy_Roles")
            aside == RenameTable(put, "Users_Roles", "__legacy_Users_Roles")
            made == CreateTables(aside, Created2)
            new == CreateTable(made, "__new_SystemRoles", codeTable)
            roles == IF [code |-> "GGTC_ROLE_ADMIN"]
                          \in made.rows["__legacy_Roles"]
                     THEN {[code |-> "GGTC_SYSTEMROLE_ADMIN"]} ELSE {}
            copies == {[userId |-> row.userId,
                        roleCode |-> "GGTC_SYSTEMROLE_ADMIN"] :
                         row \in legacyAdmins(made)}
            filled == Insert(new, "__new_SystemRoles", roles)
            named == RenameTable(filled, "__new_SystemRoles", "SystemRoles")
            admins == Insert(named, "Users_SystemRoles", copies)
            lessUsers == DropTable(admins, "__legacy_Users_Roles")
            less == DropTable(lessUsers, "__legacy_Roles")
<1>1. SameFile(d, put)
      /\ (put.ok => Renames(d, "Roles", "__legacy_Roles", put))
  BY RenamingTable
<1>2. SameFile(put, aside)
      /\ (aside.ok => put.ok /\ Renames(put, "Users_Roles",
                                       "__legacy_Users_Roles", aside))
  BY <1>1, RenamingTable DEF SameFile
<1>3. SameFile(aside, made) /\ (made.ok => aside.ok /\ Creates(aside, Created2, made))
  BY <1>2, CreatingTables, CreatedAreTables DEF SameFile, AreTables
<1>4. SameFile(made, new)
  BY <1>3, CreatingTable, CodeTableIsTable DEF SameFile
<1>5. SameFile(new, filled)
  BY <1>4, Inserting DEF SameFile
<1>6. SameFile(filled, named)
  BY <1>5, RenamingTable DEF SameFile
<1>7. SameFile(named, admins)
  <2>1. IsFile(named)
    BY <1>6 DEF SameFile
  <2>. HIDE DEF named, copies
  <2>. QED
    BY <2>1, Inserting
<1>8. SameFile(admins, lessUsers)
  BY <1>7, DroppingTable DEF SameFile
<1>9. SameFile(lessUsers, less)
  BY <1>8, DroppingTable DEF SameFile
<1>10. From1(d) = IF made.ok THEN less ELSE Fail(d)
  BY DEF From1, CopyAdmins
<1>. HIDE DEF put, aside, made, new, filled, named, admins, lessUsers, less
<1>11. SameFile(d, made)
  BY <1>1, <1>2, <1>3, SameFileIsTransitive
<1>12. SameFile(d, less)
  BY <1>4, <1>5, <1>6, <1>7, <1>8, <1>9, <1>11 DEF SameFile
<1>13. ASSUME made.ok
       PROVE  "Projects" \notin DOMAIN d.tables /\ "Issues" \notin DOMAIN d.tables
  <2>1. "Projects" \in DOMAIN Created2 /\ "Issues" \in DOMAIN Created2
    BY DEF Created2
  <2>2. "Projects" \notin DOMAIN aside.tables /\ "Issues" \notin DOMAIN aside.tables
    BY <1>3, <1>13, <2>1 DEF Creates
  <2>3. "Projects" \notin DOMAIN put.tables /\ "Issues" \notin DOMAIN put.tables
    BY <1>2, <1>3, <1>13, <2>2 DEF Renames
  <2>. QED
    BY <1>1, <1>2, <1>3, <1>13, <2>3 DEF Renames
<1>. QED
  BY <1>10, <1>12, <1>13, FailingIsNotOk

\* The second migration, and the ninth, do nothing but move the name.
LEMMA ThirdMigration ==
  ASSUME NEW d, IsFile(d)
  PROVE  LET new == From3(d)
         IN  /\ SameFile(d, new)
             /\ new.ok => /\ DOMAIN d.tables \subseteq DOMAIN new.tables
                          /\ \A t \in DOMAIN d.tables \ {"Users_Sessions"} :
                               Keeps(d, new, t)
<1>. DEFINE made == CreateTables(d, Created4)
            typed == AddColumn(made, "Users_Sessions",
                               "authSourceCredentialTypeCode", {}, <<>>)
            new == AddColumn(typed, "Users_Sessions", "authSourceCredentialId",
                             {}, <<>>)
<1>1. SameFile(d, made) /\ (made.ok => d.ok /\ Creates(d, Created4, made))
  BY CreatingTables, CreatedAreTables DEF AreTables
<1>2. /\ SameFile(made, typed)
      /\ typed.ok => made.ok /\ AddsColumn(made, "Users_Sessions",
                       "authSourceCredentialTypeCode", {}, <<>>, typed)
  BY <1>1, AddingColumn DEF SameFile
<1>3. /\ SameFile(typed, new)
      /\ new.ok => typed.ok /\ AddsColumn(typed, "Users_Sessions",
                     "authSourceCredentialId", {}, <<>>, new)
  BY <1>2, AddingColumn DEF SameFile
<1>4. From3(d) = new
  BY DEF From3
<1>. HIDE DEF made, typed, new
<1>5. SameFile(d, new)
  BY <1>1, <1>2, <1>3, SameFileIsTransitive
<1>6. ASSUME new.ok
      PROVE  /\ DOMAIN d.tables \subseteq DOMAIN new.tables
             /\ \A t \in DOMAIN d.tables \ {"Users_Sessions"} : Keeps(d, new, t)
  BY <1>1, <1>2, <1>3, <1>6 DEF AddsColumn, Creates, Keeps
<1>. QED
  BY <1>4, <1>5, <1>6

LEMMA CreatingMigrations ==
  ASSUME NEW d, IsFile(d)
  PROVE  /\ SameFile(d, From4(d))
         /\ From4(d).ok => Creates(d, Created5, From4(d))
         /\ SameFile(d, From5(d))
         /\ From5(d).ok => Creates(d, Created6, From5(d))
         /\ SameFile(d, From7(d))
         /\ From7(d).ok => Creates(d, Created8, From7(d))
<1>1. /\ SameFile(d, From4(d))
      /\ From4(d).ok => Creates(d, Created5, From4(d))
  BY CreatingTables, CreatedAreTables DEF From4, AreTables
<1>2. /\ SameFile(d, From5(d))
      /\ From5(d).ok => Creates(d, Created6, From5(d))
  BY CreatingTables, CreatedAreTables DEF From5, AreTables
<1>3. /\ SameFile(d, From7(d))
      /\ From7(d).ok => Creates(d, Created8, From7(d))
  BY CreatingTables, CreatedAreTables DEF From7, AreTables
<1>. QED
  BY <1>1, <1>2, <1>3

LEMMA SixthMigration ==
  ASSUME NEW d, IsFile(d)
  PROVE  SameFile(d, From6(d))
<1>. DEFINE issues == RenameColumn(d, "Issues", "journal",
                                   "reusable-v7-issues-journal")
            projects == RenameColumn(issues, "Projects", "journal",
                                     "reusable-v7-projects-journal")
            new == CreateTables(projects, Created7)
<1>1. SameFile(d, issues)
  BY RenamingColumn
<1>2. SameFile(issues, projects)
  BY <1>1, RenamingColumn DEF SameFile
<1>3. SameFile(projects, new)
  BY <1>2, CreatingTables, CreatedAreTables DEF SameFile, AreTables
<1>4. From6(d) = new
  BY DEF From6
<1>. HIDE DEF issues, projects, new
<1>. QED
  BY <1>1, <1>2, <1>3, <1>4, SameFileIsTransitive

LEMMA EighthMigration ==
  ASSUME NEW d, IsFile(d)
  PROVE  LET new == From8(d)
         IN  /\ SameFile(d, new)
             /\ new.ok => /\ "Mentions" \in DOMAIN new.tables
                          /\ new.rows["Mentions"] = {}
<1>. DEFINE made == CreateTables(d, Created9)
            refs == {reference(<<"mentionedUserId">>, "Users", "no action")}
            new == AddColumn(made, "Notifications", "mentionedUserId", refs, <<>>)
<1>1. SameFile(d, made) /\ (made.ok => d.ok /\ Creates(d, Created9, made))
  BY CreatingTables, CreatedAreTables DEF AreTables
<1>2. /\ SameFile(made, new)
      /\ new.ok => made.ok /\ AddsColumn(made, "Notifications",
                                         "mentionedUserId", refs, <<>>, new)
  BY <1>1, AddingColumn DEF SameFile
<1>3. From8(d) = new
  BY DEF From8
<1>4. "Mentions" \in DOMAIN Created9
  BY DEF Created9
<1>. HIDE DEF made, refs, new
<1>5. ASSUME new.ok
      PROVE  "Mentions" \in DOMAIN new.tables /\ new.rows["Mentions"] = {}
  BY <1>1, <1>2, <1>4, <1>5 DEF Creates, AddsColumn, Keeps
<1>. QED
  BY <1>1, <1>2, <1>3, <1>5, SameFileIsTransitive

\* A table of which a migration may lose rows but nothing else.
Shrinks(d, new, t) ==
  /\ t \in DOMAIN new.tables
  /\ new.tables[t].unique = d.tables[t].unique
  /\ new.rows[t] \subseteq d.rows[t]

LEMMA ShrinksIsTransitive ==
  ASSUME NEW d, NEW mid, NEW new, NEW t,
         Shrinks(d, mid, t), Shrinks(mid, new, t)
  PROVE  Shrinks(d, new, t)
BY DEF Shrinks

\* What a statement of v10--v11 does to a table it does not name.
Spares(d, new, t) ==
  /\ SameFile(d, new)
  /\ new.ok => d.ok /\ (t \in DOMAIN d.tables => Shrinks(d, new, t))

LEMMA SparesIsTransitive ==
  ASSUME NEW d, NEW mid, NEW new, NEW t, Spares(d, mid, t), Spares(mid, new, t)
  PROVE  Spares(d, new, t)
BY DEF Spares, Shrinks, SameFile

LEMMA CreatingSpares ==
  ASSUME NEW d, IsFile(d), NEW defs, AreTables(defs), NEW t
  PROVE  Spares(d, CreateTables(d, defs), t)
<1>. DEFINE new == CreateTables(d, defs)
<1>1. SameFile(d, new) /\ (new.ok => d.ok /\ Creates(d, defs, new))
  BY CreatingTables DEF AreTables
<1>0. new = CreateTables(d, defs)
  OBVIOUS
<1>. HIDE DEF new
<1>. QED
  BY <1>0, <1>1 DEF Spares, Shrinks, Creates, Keeps

LEMMA CreatingIfMissingSpares ==
  ASSUME NEW d, IsFile(d), NEW name, NEW def, IsTable(def), NEW t
  PROVE  Spares(d, CreateTableIfMissing(d, name, def), t)
<1>. DEFINE new == CreateTable(d, name, def)
<1>1. SameFile(d, new) /\ (new.ok => d.ok /\ CreatesOne(d, name, def, new))
  BY CreatingTable
<1>2. CreateTableIfMissing(d, name, def)
        = IF d.ok /\ Has(d, name) THEN d ELSE new
  BY DEF CreateTableIfMissing
<1>. HIDE DEF new
<1>3. Spares(d, new, t)
  BY <1>1 DEF Spares, Shrinks, CreatesOne, Keeps
<1>4. Spares(d, d, t)
  BY DEF Spares, SameFile, Shrinks
<1>. QED
  BY <1>2, <1>3, <1>4

LEMMA InsertingSpares ==
  ASSUME NEW d, IsFile(d), NEW name, NEW rows, NEW t, t # name
  PROVE  /\ Spares(d, Insert(d, name, rows), t)
         /\ Spares(d, InsertNew(d, name, rows), t)
<1>. DEFINE new == Insert(d, name, rows)
            some == InsertNew(d, name, rows)
<1>1. SameFile(d, new)
      /\ (new.ok => d.ok /\ Fills(d, name, d.rows[name] \cup rows, new))
  BY Inserting
<1>2. SameFile(d, some)
      /\ (some.ok => \E more \in SUBSET rows :
                       d.ok /\ Fills(d, name, d.rows[name] \cup more, some))
  BY InsertingNew
<1>0. new = Insert(d, name, rows) /\ some = InsertNew(d, name, rows)
  OBVIOUS
<1>. HIDE DEF new, some
<1>3. Spares(d, new, t)
  BY <1>1 DEF Spares, Shrinks, Fills, Keeps
<1>4. Spares(d, some, t)
  BY <1>2 DEF Spares, Shrinks, Fills, Keeps
<1>. QED
  BY <1>0, <1>3, <1>4

LEMMA DroppingSpares ==
  ASSUME NEW d, IsFile(d), NEW name, NEW t, t # name
  PROVE  Spares(d, DropTable(d, name), t)
<1>. DEFINE new == DropTable(d, name)
<1>1. SameFile(d, new) /\ (new.ok => d.ok /\ Drops(d, name, new))
  BY DroppingTable
<1>0. new = DropTable(d, name)
  OBVIOUS
<1>. HIDE DEF new
<1>. QED
  BY <1>0, <1>1 DEF Spares, Shrinks, Drops

LEMMA RenamingSpares ==
  ASSUME NEW d, IsFile(d), NEW old, NEW name, NEW t, t # old
  PROVE  Spares(d, RenameTable(d, old, name), t)
<1>. DEFINE new == RenameTable(d, old, name)
<1>1. SameFile(d, new) /\ (new.ok => d.ok /\ Renames(d, old, name, new))
  BY RenamingTable
<1>0. new = RenameTable(d, old, name)
  OBVIOUS
<1>. HIDE DEF new
<1>2. ASSUME new.ok, t \in DOMAIN d.tables
      PROVE  Shrinks(d, new, t)
  <2>1. IsTable(d.tables[t])
    BY <1>2 DEF IsFile
  <2>2. new.tables[t] = [d.tables[t] EXCEPT !.refs = Follow(@, old, name)]
        /\ new.rows[t] = d.rows[t] /\ t \in DOMAIN new.tables
    BY <1>1, <1>2 DEF Renames
  <2>. QED
    BY <2>1, <2>2 DEF Shrinks, IsTable
<1>. QED
  BY <1>0, <1>1, <1>2 DEF Spares

LEMMA FillingNewSpares ==
  ASSUME NEW d, IsFile(d), NEW old, NEW t, t # NewName[old]
  PROVE  Spares(d, FillNew(d, old), t)
<1>. DEFINE rows == UNION {onDefaultChart(row, d.rows["ProjectGanttCharts"]) :
                             row \in d.rows[old]}
<1>1. FillNew(d, old) = IF HasColumn(d, old, "projectId")
                         THEN Insert(d, NewName[old], rows) ELSE Fail(d)
  BY DEF FillNew
<1>. HIDE DEF rows
<1>2. Spares(d, Insert(d, NewName[old], rows), t)
  BY InsertingSpares
<1>3. Spares(d, Fail(d), t)
  BY FailingIsNotOk DEF Spares
<1>. QED
  BY <1>1, <1>2, <1>3

LEMMA TenthMigration ==
  ASSUME NEW d, IsFile(d)
  PROVE  Spares(d, From10(d), "Mentions")
<1>. DEFINE m == "Mentions"
            chart == CreateTableIfMissing(d, "ProjectGanttCharts", chartTable)
            charted == DefaultCharts(chart)
            made == CreateTables(charted, Created11)
            mirror == FillNew(made, "TaskMirror")
            attachments == FillNew(mirror, "TaskAttachments")
            less == DropTable(attachments, "TaskAttachments")
            comments == FillNew(less, "TaskComments")
            links == FillNew(comments, "TaskComments_Attachments")
            lessLinks == DropTable(links, "TaskComments_Attachments")
            lessComments == DropTable(lessLinks, "TaskComments")
            dropped == DropTable(lessComments, "TaskMirror")
            named1 == TakeName(dropped, "TaskMirror")
            named2 == TakeName(named1, "TaskComments")
            named3 == TakeName(named2, "TaskAttachments")
            named4 == TakeName(named3, "TaskComments_Attachments")
<1>1. From10(d) = named4
  BY DEF From10
<1>2. Spares(d, chart, m)
  BY CreatingIfMissingSpares, DefinitionsAreTables DEF chartTable
<1>3. Spares(chart, charted, m)
  <2>. HIDE DEF chart
  <2>. QED  BY <1>2, InsertingSpares DEF DefaultCharts, Spares, SameFile
<1>4. Spares(charted, made, m)
  <2>. HIDE DEF charted
  <2>. QED  BY <1>3, CreatingSpares, CreatedAreTables DEF Spares, SameFile
<1>5. \A old \in TaskTables : m # NewName[old] /\ m # old
  BY DEF NewName, TaskTables
<1>6. Spares(made, mirror, m)
  <2>. HIDE DEF made
  <2>. QED  BY <1>4, <1>5, FillingNewSpares DEF Spares, SameFile, TaskTables
<1>7. Spares(mirror, attachments, m)
  <2>. HIDE DEF mirror
  <2>. QED  BY <1>5, <1>6, FillingNewSpares DEF Spares, SameFile, TaskTables
<1>8. Spares(attachments, less, m)
  <2>. HIDE DEF attachments
  <2>. QED  BY <1>5, <1>7, DroppingSpares DEF Spares, SameFile, TaskTables
<1>9. Spares(less, comments, m)
  <2>. HIDE DEF less
  <2>. QED  BY <1>5, <1>8, FillingNewSpares DEF Spares, SameFile, TaskTables
<1>10. Spares(comments, links, m)
  <2>. HIDE DEF comments
  <2>. QED  BY <1>5, <1>9, FillingNewSpares DEF Spares, SameFile, TaskTables
<1>11. Spares(links, lessLinks, m)
  <2>. HIDE DEF links
  <2>. QED  BY <1>5, <1>10, DroppingSpares DEF Spares, SameFile, TaskTables
<1>12. Spares(lessLinks, lessComments, m)
  <2>. HIDE DEF lessLinks
  <2>. QED  BY <1>5, <1>11, DroppingSpares DEF Spares, SameFile, TaskTables
<1>13. Spares(lessComments, dropped, m)
  <2>. HIDE DEF lessComments
  <2>. QED  BY <1>5, <1>12, DroppingSpares DEF Spares, SameFile, TaskTables
<1>14. Spares(dropped, named1, m)
  <2>. HIDE DEF dropped
  <2>. QED  BY <1>5, <1>13, RenamingSpares DEF Spares, SameFile, TaskTables, TakeName
<1>15. Spares(named1, named2, m)
  <2>. HIDE DEF named1
  <2>. QED  BY <1>5, <1>14, RenamingSpares DEF Spares, SameFile, TaskTables, TakeName
<1>16. Spares(named2, named3, m)
  <2>. HIDE DEF named2
  <2>. QED  BY <1>5, <1>15, RenamingSpares DEF Spares, SameFile, TaskTables, TakeName
<1>17. Spares(named3, named4, m)
  <2>. HIDE DEF named3
  <2>. QED  BY <1>5, <1>16, RenamingSpares DEF Spares, SameFile, TaskTables, TakeName
<1>. HIDE DEF m, chart, charted, made, mirror, attachments, less, comments, links,
              lessLinks, lessComments, dropped, named1, named2, named3, named4
<1>18. Spares(d, mirror, m)
  BY <1>2, <1>3, <1>4, <1>6, SparesIsTransitive
<1>19. Spares(mirror, links, m)
  BY <1>7, <1>8, <1>9, <1>10, SparesIsTransitive
<1>20. Spares(links, dropped, m)
  BY <1>11, <1>12, <1>13, SparesIsTransitive
<1>21. Spares(dropped, named4, m)
  BY <1>14, <1>15, <1>16, <1>17, SparesIsTransitive
<1>22. Spares(d, named4, m)
  BY <1>18, <1>19, <1>20, <1>21, SparesIsTransitive
<1>. QED
  BY <1>1, <1>22 DEF m

LEMMA MigrationsKeepTheFile ==
  ASSUME NEW d, IsFile(d), NEW v \in 1..10
  PROVE  SameFile(d, RunSql(v, d))
<1>1. SameFile(d, From1(d)) /\ SameFile(d, From3(d))
  BY FirstMigration, ThirdMigration
<1>2. SameFile(d, From2(d)) /\ SameFile(d, From9(d))
  BY SameFileIsReflexive DEF From2, From9
<1>3. SameFile(d, From4(d)) /\ SameFile(d, From5(d)) /\ SameFile(d, From7(d))
  BY CreatingMigrations
<1>4. SameFile(d, From6(d)) /\ SameFile(d, From8(d)) /\ SameFile(d, From10(d))
  BY SixthMigration, EighthMigration, TenthMigration DEF Spares
<1>. QED
  BY <1>1, <1>2, <1>3, <1>4 DEF RunSql

-----------------------------------------------------------------------------
(***************************************************************************)
(* Snapshots                                                               *)
(***************************************************************************)
LEMMA TablesOfBoth ==
  \A f, g : AreTables(f) /\ AreTables(g) => AreTables(f ++ g)
<1>. SUFFICES ASSUME NEW f, NEW g, AreTables(f), AreTables(g),
                     NEW t \in DOMAIN (f ++ g)
              PROVE  IsTable((f ++ g)[t])
  BY DEF AreTables
<1>1. CASE t \in DOMAIN f
  <2>1. (f ++ g)[t] = f[t]
    BY <1>1, FromBoth
  <2>. QED
    BY <1>1, <2>1 DEF AreTables
<1>2. CASE t \notin DOMAIN f
  <2>1. t \in DOMAIN g \ DOMAIN f
    BY <1>2, InBoth
  <2>2. (f ++ g)[t] = g[t]
    BY <2>1, FromBoth
  <2>. QED
    BY <2>1, <2>2 DEF AreTables
<1>. QED
  BY <1>1, <1>2

LEMMA PartsAreTables ==
  /\ AreTables(Accounts1) /\ AreTables(Credentials1)
  /\ AreTables(Entities2) /\ AreTables(Issues2)
  /\ AreTables(Bookkeeping2) /\ AreTables(Memberships2)
  /\ AreTables(Ownership2) /\ AreTables(Roles2)
  /\ AreTables(Credentials4) /\ AreTables(Scopes4)
  /\ AreTables(Discussions5) /\ AreTables(Tasks6)
  /\ AreTables(Entities7) /\ AreTables(Issues7)
  /\ AreTables(Discussions7) /\ AreTables(Notices8)
  /\ AreTables(Notices9) /\ AreTables(Entities11)
  /\ AreTables(Tasks11)
<1>1. AreTables(Accounts1)
  BY DefinitionsAreTables, CodeTableIsTable DEF Accounts1, AreTables
<1>2. AreTables(Credentials1)
  BY DefinitionsAreTables, CodeTableIsTable DEF Credentials1, AreTables
<1>3. AreTables(Entities2)
  BY DefinitionsAreTables, CodeTableIsTable DEF Entities2, AreTables
<1>4. AreTables(Issues2)
  BY DefinitionsAreTables, CodeTableIsTable DEF Issues2, AreTables
<1>5. AreTables(Bookkeeping2)
  BY DefinitionsAreTables, CodeTableIsTable DEF Bookkeeping2, AreTables
<1>6. AreTables(Memberships2)
  BY DefinitionsAreTables, CodeTableIsTable DEF Memberships2, AreTables
<1>7. AreTables(Ownership2)
  BY DefinitionsAreTables, CodeTableIsTable DEF Ownership2, AreTables
<1>8. AreTables(Roles2)
  BY DefinitionsAreTables, CodeTableIsTable DEF Roles2, AreTables
<1>9. AreTables(Credentials4)
  <2>1. \A def : IsTable(def) => AreTables([Users_Sessions |-> def])
    BY DEF AreTables
  <2>. QED
    BY <1>2, <2>1, DefinitionsAreTables, TablesOfBoth
       DEF Credentials4, Credentials3, Credentials2
<1>10. AreTables(Scopes4)
  BY DefinitionsAreTables, CodeTableIsTable DEF Scopes4, AreTables
<1>11. AreTables(Discussions5)
  BY DefinitionsAreTables, CodeTableIsTable DEF Discussions5, AreTables
<1>12. AreTables(Tasks6)
  BY DefinitionsAreTables, CodeTableIsTable DEF Tasks6, AreTables
<1>13. AreTables(Entities7)
  <2>1. \A def : IsTable(def) => AreTables([Projects |-> def])
    BY DEF AreTables
  <2>. QED
    BY <1>3, <2>1, DefinitionsAreTables, TablesOfBoth
       DEF Entities7, Entities6, Entities5, Entities4, Entities3
<1>14. AreTables(Issues7)
  BY DefinitionsAreTables, CodeTableIsTable DEF Issues7, AreTables
<1>15. AreTables(Discussions7)
  <2>1. \A def : IsTable(def) => AreTables([Projects_Attachments |-> def])
    BY DEF AreTables
  <2>. QED
    BY <1>11, <2>1, DefinitionsAreTables, TablesOfBoth
       DEF Discussions7, Discussions6
<1>16. AreTables(Notices8)
  BY DefinitionsAreTables, CodeTableIsTable DEF Notices8, AreTables
<1>17. AreTables(Notices9)
  <2>1. \A def, other : IsTable(def) /\ IsTable(other) =>
          AreTables([Notifications |-> def, Mentions |-> other])
    BY DEF AreTables
  <2>. QED
    BY <1>16, <2>1, DefinitionsAreTables, TablesOfBoth DEF Notices9
<1>18. AreTables(Entities11)
  <2>1. \A def : IsTable(def) => AreTables([ProjectGanttCharts |-> def])
    BY DEF AreTables
  <2>. QED
    BY <1>13, <2>1, DefinitionsAreTables, TablesOfBoth
       DEF Entities11, Entities10, Entities9, Entities8
<1>19. AreTables(Tasks11)
  BY DefinitionsAreTables, CodeTableIsTable DEF Tasks11, AreTables
<1>. QED
  BY <1>1, <1>2, <1>3, <1>4, <1>5, <1>6, <1>7, <1>8, <1>9, <1>10, <1>11,
     <1>12, <1>13, <1>14, <1>15, <1>16, <1>17, <1>18, <1>19

LEMMA SnapshotsAreTables == \A v \in Versions : AreTables(Declared(v))
<1>1. AreTables(Snapshot1)
  BY PartsAreTables, TablesOfBoth DEF Snapshot1
<1>2. AreTables(Snapshot2)
  BY PartsAreTables, TablesOfBoth DEF Snapshot2, Credentials2
<1>3. AreTables(Snapshot3)
  BY PartsAreTables, TablesOfBoth DEF Snapshot3, Entities3, Issues3,
     Bookkeeping3, Memberships3, Ownership3, Roles3, Credentials3,
     Credentials2
<1>4. AreTables(Snapshot4)
  BY PartsAreTables, TablesOfBoth DEF Snapshot4, Entities4, Entities3,
     Issues4, Issues3, Bookkeeping4, Bookkeeping3, Memberships4,
     Memberships3, Ownership4, Ownership3, Roles4, Roles3
<1>5. AreTables(Snapshot5)
  BY PartsAreTables, TablesOfBoth DEF Snapshot5, Entities5, Entities4,
     Entities3, Issues5, Issues4, Issues3, Bookkeeping5, Bookkeeping4,
     Bookkeeping3, Memberships5, Memberships4, Memberships3, Ownership5,
     Ownership4, Ownership3, Roles5, Roles4, Roles3, Credentials5, Scopes5
<1>6. AreTables(Snapshot6)
  BY PartsAreTables, TablesOfBoth DEF Snapshot6, Entities6, Entities5,
     Entities4, Entities3, Issues6, Issues5, Issues4, Issues3, Discussions6,
     Bookkeeping6, Bookkeeping5, Bookkeeping4, Bookkeeping3, Memberships6,
     Memberships5, Memberships4, Memberships3, Ownership6, Ownership5,
     Ownership4, Ownership3, Roles6, Roles5, Roles4, Roles3, Credentials6,
     Credentials5, Scopes6, Scopes5
<1>7. AreTables(Snapshot7)
  BY PartsAreTables, TablesOfBoth DEF Snapshot7, Tasks7, Bookkeeping7,
     Bookkeeping6, Bookkeeping5, Bookkeeping4, Bookkeeping3, Memberships7,
     Memberships6, Memberships5, Memberships4, Memberships3, Ownership7,
     Ownership6, Ownership5, Ownership4, Ownership3, Roles7, Roles6, Roles5,
     Roles4, Roles3, Credentials7, Credentials6, Credentials5, Scopes7,
     Scopes6, Scopes5
<1>8. AreTables(Snapshot8)
  BY PartsAreTables, TablesOfBoth DEF Snapshot8, Entities8, Issues8,
     Discussions8, Tasks8, Tasks7, Bookkeeping8, Bookkeeping7, Bookkeeping6,
     Bookkeeping5, Bookkeeping4, Bookkeeping3, Memberships8, Memberships7,
     Memberships6, Memberships5, Memberships4, Memberships3, Ownership8,
     Ownership7, Ownership6, Ownership5, Ownership4, Ownership3, Roles8,
     Roles7, Roles6, Roles5, Roles4, Roles3, Credentials8, Credentials7,
     Credentials6, Credentials5, Scopes8, Scopes7, Scopes6, Scopes5
<1>9. AreTables(Snapshot9)
  BY PartsAreTables, TablesOfBoth DEF Snapshot9, Entities9, Entities8,
     Issues9, Issues8, Discussions9, Discussions8, Tasks9, Tasks8, Tasks7,
     Bookkeeping9, Bookkeeping8, Bookkeeping7, Bookkeeping6, Bookkeeping5,
     Bookkeeping4, Bookkeeping3, Memberships9, Memberships8, Memberships7,
     Memberships6, Memberships5, Memberships4, Memberships3, Ownership9,
     Ownership8, Ownership7, Ownership6, Ownership5, Ownership4, Ownership3,
     Roles9, Roles8, Roles7, Roles6, Roles5, Roles4, Roles3, Credentials9,
     Credentials8, Credentials7, Credentials6, Credentials5, Scopes9,
     Scopes8, Scopes7, Scopes6, Scopes5
<1>10. AreTables(Snapshot10)
  BY PartsAreTables, TablesOfBoth DEF Snapshot10, Entities10, Entities9,
     Entities8, Issues10, Issues9, Issues8, Discussions10, Discussions9,
     Discussions8, Tasks10, Tasks9, Tasks8, Tasks7, Notices10, Bookkeeping10,
     Bookkeeping9, Bookkeeping8, Bookkeeping7, Bookkeeping6, Bookkeeping5,
     Bookkeeping4, Bookkeeping3, Memberships10, Memberships9, Memberships8,
     Memberships7, Memberships6, Memberships5, Memberships4, Memberships3,
     Ownership10, Ownership9, Ownership8, Ownership7, Ownership6, Ownership5,
     Ownership4, Ownership3, Roles10, Roles9, Roles8, Roles7, Roles6, Roles5,
     Roles4, Roles3, Credentials10, Credentials9, Credentials8, Credentials7,
     Credentials6, Credentials5, Scopes10, Scopes9, Scopes8, Scopes7,
     Scopes6, Scopes5
<1>11. AreTables(Snapshot11)
  BY PartsAreTables, TablesOfBoth DEF Snapshot11, Issues11, Issues10,
     Issues9, Issues8, Discussions11, Discussions10, Discussions9,
     Discussions8, Notices11, Notices10, Bookkeeping11, Bookkeeping10,
     Bookkeeping9, Bookkeeping8, Bookkeeping7, Bookkeeping6, Bookkeeping5,
     Bookkeeping4, Bookkeeping3, Memberships11, Memberships10, Memberships9,
     Memberships8, Memberships7, Memberships6, Memberships5, Memberships4,
     Memberships3, Ownership11, Ownership10, Ownership9, Ownership8,
     Ownership7, Ownership6, Ownership5, Ownership4, Ownership3, Roles11,
     Roles10, Roles9, Roles8, Roles7, Roles6, Roles5, Roles4, Roles3,
     Credentials11, Credentials10, Credentials9, Credentials8, Credentials7,
     Credentials6, Credentials5, Scopes11, Scopes10, Scopes9, Scopes8,
     Scopes7, Scopes6, Scopes5
<1>. QED
  BY <1>1, <1>2, <1>3, <1>4, <1>5, <1>6, <1>7, <1>8, <1>9, <1>10, <1>11 DEF
     Declared, Versions

-----------------------------------------------------------------------------
(***************************************************************************)
(* Attempts                                                                *)
(***************************************************************************)
\* The documents have one operator at a time work on the database.
OneOperator == \A o, p \in Operators : o = p

RepairStep(word, d) ==
  CASE word = "key" -> EnsureContainerKey(d)
    [] word = "backfill" -> BackfillContainerKeys(d)
    [] word = "unique" -> EnsureMentionIndex(d)
    [] word = "user" -> EnsureMentionedUser(d)
RepairWords == {"key", "backfill", "unique", "user"}

\* Backfilling gives every row the key of its container.
Keyed(row) == [row EXCEPT !.containerKey = containerKeyOf(row)]

Repairs(d, new) ==
  /\ DOMAIN new.tables = DOMAIN d.tables
  /\ \A t \in DOMAIN d.tables \ {"Mentions", "Notifications"} : Keeps(d, new, t)

LEMMA RepairingKey ==
  ASSUME NEW d, IsFile(d)
  PROVE  LET new == EnsureContainerKey(d)
         IN  /\ SameFile(d, new)
             /\ new.ok =>
                  \/ new = d /\ HasColumn(d, "Mentions", "containerKey")
                  \/ AddsColumn(d, "Mentions", "containerKey", {},
                           [containerKey |-> <<"-", "-", "-", "-">>], new)
<1>1. CASE HasColumn(d, "Mentions", "containerKey")
  BY <1>1, SameFileIsReflexive DEF EnsureContainerKey
<1>2. CASE ~HasColumn(d, "Mentions", "containerKey")
  BY <1>2, AddingColumn DEF EnsureContainerKey
<1>. QED
  BY <1>1, <1>2

LEMMA RepairingRows ==
  ASSUME NEW d, IsFile(d)
  PROVE  LET new == BackfillContainerKeys(d)
         IN  /\ SameFile(d, new)
             /\ new.ok => Fills(d, "Mentions",
                                {Keyed(row) : row \in d.rows["Mentions"]}, new)
<1>. DEFINE rows == {Keyed(row) : row \in d.rows["Mentions"]}
<1>1. BackfillContainerKeys(d) = Update(d, "Mentions", rows)
  BY DEF BackfillContainerKeys, Keyed
<1>. HIDE DEF rows
<1>2. SameFile(d, Update(d, "Mentions", rows))
      /\ (Update(d, "Mentions", rows).ok =>
            Fills(d, "Mentions", rows, Update(d, "Mentions", rows)))
  BY Updating
<1>. QED
  BY <1>1, <1>2 DEF rows

LEMMA RepairingIndex ==
  ASSUME NEW d, IsFile(d)
  PROVE  LET new == EnsureMentionIndex(d)
         IN  /\ SameFile(d, new)
             /\ new.ok =>
                  \/ new = d /\ mentionIndex \in d.tables["Mentions"].unique
                  \/ AddsIndex(d, "Mentions", mentionIndex, new)
<1>1. CASE mentionIndex \in d.tables["Mentions"].unique
  BY <1>1, SameFileIsReflexive DEF EnsureMentionIndex
<1>2. CASE mentionIndex \notin d.tables["Mentions"].unique
  BY <1>2, AddingUniqueIndex DEF EnsureMentionIndex
<1>. QED
  BY <1>1, <1>2

LEMMA RepairingUser ==
  ASSUME NEW d, IsFile(d)
  PROVE  LET new == EnsureMentionedUser(d)
         IN  /\ SameFile(d, new)
             /\ new.ok =>
                  \/ new = d
                  \/ AddsColumn(d, "Notifications", "mentionedUserId",
                                {userReference("no action")}, <<>>, new)
<1>1. CASE HasColumn(d, "Notifications", "mentionedUserId")
  BY <1>1, SameFileIsReflexive DEF EnsureMentionedUser
<1>2. CASE ~HasColumn(d, "Notifications", "mentionedUserId")
  BY <1>2, AddingColumn DEF EnsureMentionedUser
<1>. QED
  BY <1>1, <1>2

LEMMA Repairing ==
  ASSUME NEW d, IsFile(d), NEW word \in RepairWords
  PROVE  LET new == RepairStep(word, d)
         IN  SameFile(d, new) /\ (new.ok => Repairs(d, new))
<1>. DEFINE new == RepairStep(word, d)
<1>. SUFFICES SameFile(d, new) /\ (new.ok => Repairs(d, new))
  OBVIOUS
<1>0. Repairs(d, d)
  BY DEF Repairs, Keeps
<1>1. CASE word = "key"
  <2>1. new = EnsureContainerKey(d)
    BY <1>1 DEF RepairStep
  <2>. HIDE DEF new
  <2>. QED
    BY <1>0, <2>1, RepairingKey DEF Repairs, AddsColumn
<1>2. CASE word = "backfill"
  <2>1. new = BackfillContainerKeys(d)
    BY <1>2 DEF RepairStep
  <2>. HIDE DEF new
  <2>. QED
    BY <2>1, RepairingRows DEF Repairs, Fills
<1>3. CASE word = "unique"
  <2>1. new = EnsureMentionIndex(d)
    BY <1>3 DEF RepairStep
  <2>. HIDE DEF new
  <2>. QED
    BY <1>0, <2>1, RepairingIndex DEF Repairs, AddsIndex
<1>4. CASE word = "user"
  <2>1. new = EnsureMentionedUser(d)
    BY <1>4 DEF RepairStep
  <2>. HIDE DEF new
  <2>. QED
    BY <1>0, <2>1, RepairingUser DEF Repairs, AddsColumn
<1>. QED
  BY <1>1, <1>2, <1>3, <1>4 DEF RepairWords

\* The words of a hook that are still to come.
ExportsLeft == {<<"Projects", "Issues">>, <<"Issues">>, <<>>}
RepairsLeft == {<<"key", "backfill", "unique", "user">>,
                <<"backfill", "unique", "user">>, <<"unique", "user">>,
                <<"user">>, <<>>}
HooksLeft(v) == IF v \in {6, 7} THEN ExportsLeft
                ELSE IF v = 9 THEN RepairsLeft ELSE {<<>>}

LEMMA HeadsAndTails ==
  /\ \A h \in ExportsLeft \ {<<>>} :
       Head(h) \in {"Projects", "Issues"} /\ Tail(h) \in ExportsLeft
  /\ \A h \in RepairsLeft \ {<<>>} :
       Head(h) \in RepairWords /\ Tail(h) \in RepairsLeft
<1>1. /\ Head(<<"Projects", "Issues">>) = "Projects"
      /\ Tail(<<"Projects", "Issues">>) = <<"Issues">>
      /\ Head(<<"Issues">>) = "Issues" /\ Tail(<<"Issues">>) = <<>>
  OBVIOUS
<1>2. /\ Head(<<"key", "backfill", "unique", "user">>) = "key"
      /\ Tail(<<"key", "backfill", "unique", "user">>)
           = <<"backfill", "unique", "user">>
      /\ Head(<<"backfill", "unique", "user">>) = "backfill"
      /\ Tail(<<"backfill", "unique", "user">>) = <<"unique", "user">>
      /\ Head(<<"unique", "user">>) = "unique"
      /\ Tail(<<"unique", "user">>) = <<"user">>
      /\ Head(<<"user">>) = "user" /\ Tail(<<"user">>) = <<>>
  OBVIOUS
<1>3. ASSUME NEW h \in ExportsLeft \ {<<>>}
      PROVE  Head(h) \in {"Projects", "Issues"} /\ Tail(h) \in ExportsLeft
  <2>1. h = <<"Projects", "Issues">> \/ h = <<"Issues">>
    BY <1>3 DEF ExportsLeft
  <2>. QED
    BY <1>1, <2>1, Zenon DEF ExportsLeft
<1>4. ASSUME NEW h \in RepairsLeft \ {<<>>}
      PROVE  Head(h) \in RepairWords /\ Tail(h) \in RepairsLeft
  <2>1. \/ h = <<"key", "backfill", "unique", "user">>
        \/ h = <<"backfill", "unique", "user">>
        \/ h = <<"unique", "user">> \/ h = <<"user">>
    BY <1>4 DEF RepairsLeft
  <2>. QED
    BY <1>2, <2>1, Zenon DEF RepairsLeft, RepairWords
<1>. QED
  BY <1>3, <1>4

IsAttempt(a) ==
  /\ DOMAIN a = {"step", "target", "from", "hook", "files"}
  /\ a.step \in {"idle", "open", "hook"}
  /\ a.target \in Targets
  /\ a.from \in 1..10
  /\ a.hook \in HooksLeft(a.from)
  /\ a.files # <<>> => a.step = "hook"

DatabasesFit ==
  /\ DOMAIN databases = Targets
  /\ DOMAIN origins = Targets
  /\ \A t \in Targets :
       /\ IsFile(databases[t]) /\ IsFile(origins[t])
       /\ databases[t].schemaName \in Versions \cup {Unset}
AttemptsFit ==
  /\ DOMAIN attempts = Operators
  /\ \A o \in Operators : IsAttempt(attempts[o])
HooksFindTheirVersion ==
  \A o \in Operators :
    at(o, "hook") => database(o).schemaName = attempts[o].from
Fit == DatabasesFit /\ AttemptsFit

LEMMA NewDatabases ==
  ASSUME NEW v, NEW tables, AreTables(tables), NEW rows, NEW d,
         d = newDatabase(v, tables, rows)
  PROVE  /\ IsFile(d) /\ d.schemaName = v /\ d.preparedFor = Unset
         /\ d.tables = tables
         /\ \A t \in DOMAIN tables :
              d.rows[t] = IF t \in DOMAIN rows THEN rows[t] ELSE {}
BY DEF newDatabase, IsFile, AreTables

LEMMA EmptyDatabases ==
  ASSUME NEW v, NEW tables, AreTables(tables)
  PROVE  LET d == newDatabase(v, tables, <<>>)
         IN  /\ IsFile(d) /\ d.schemaName = v /\ d.preparedFor = Unset
             /\ d.tables = tables
             /\ \A t \in DOMAIN tables : d.rows[t] = {}
BY DEF newDatabase, IsFile, AreTables

LEMMA LegacyTables ==
  ASSUME NEW tables \in legacyTables
  PROVE  AreTables(tables)
<1>. DEFINE mentions == legacyMentions(Snapshot9)
<1>1. AreTables(Snapshot9) /\ AreTables(Snapshot8)
  BY SnapshotsAreTables DEF Declared, Versions
<1>2. AreTables(mentions)
  BY <1>1 DEF legacyMentions, AreTables, IsTable
<1>3. tables = [mentions EXCEPT !["Notifications"] = Snapshot8["Notifications"]]
      \/ tables = [mentions EXCEPT
                     !["Notifications"].refs = (@ \ {userReference("cascade")})
                                      \cup {userReference("no action")}]
  BY DEF legacyTables
<1>4. IsTable(Snapshot8["Notifications"])
  <2>1. "Notifications" \in DOMAIN Notices8
    BY DEF Notices8
  <2>2. "Notifications" \in DOMAIN Snapshot8
    BY <2>1, InBoth DEF Snapshot8
  <2>. QED
    BY <1>1, <2>2 DEF AreTables
<1>. HIDE DEF mentions
<1>. QED
  BY <1>2, <1>3, <1>4 DEF AreTables, IsTable

LEMMA StartsFit ==
  ASSUME NEW d \in startDatabases
  PROVE  IsFile(d) /\ d.schemaName \in Versions
<1>1. CASE d \in {newDatabase(v, Declared(v), Fixture[v]) : v \in StartVersions}
  <2>1. PICK v \in StartVersions : d = newDatabase(v, Declared(v), Fixture[v])
    BY <1>1
  <2>2. v \in Versions
    BY VersionsExist
  <2>3. AreTables(Declared(v))
    BY <2>2, SnapshotsAreTables
  <2>4. IsFile(d) /\ d.schemaName = v
    BY <2>1, <2>3, NewDatabases
  <2>. QED
    BY <2>1, <2>2, <2>4
<1>2. CASE d \in {newDatabase(9, tables, rows) :
                     tables \in legacyTables, rows \in LegacyFixture}
  <2>1. PICK tables \in legacyTables, rows \in LegacyFixture :
          d = newDatabase(9, tables, rows)
    BY <1>2
  <2>2. AreTables(tables)
    BY LegacyTables
  <2>3. /\ IsFile(newDatabase(9, tables, rows))
        /\ newDatabase(9, tables, rows).schemaName = 9
    BY <2>2, NewDatabases
  <2>. QED
    BY <2>1, <2>3 DEF Versions
<1>. QED
  BY <1>1, <1>2 DEF startDatabases

LEMMA MissingFits == IsFile(Missing) /\ Missing.schemaName = Unset
BY DEF Missing, IsFile

LEMMA IdleFits == IsAttempt(atRest)
BY DEF atRest, IsAttempt, Targets, HooksLeft

Inv1 == DatabasesFit /\ AttemptsFit /\ HooksFindTheirVersion

LEMMA Inv1Init == UpgradeInit => Inv1
<1>. SUFFICES ASSUME UpgradeInit PROVE Inv1
  OBVIOUS
<1>1. PICK d \in startDatabases :
        /\ databases = [t \in Targets |-> IF t = "prod" THEN d ELSE Missing]
        /\ origins = databases
        /\ attempts = [o \in Operators |-> atRest]
  BY DEF UpgradeInit
<1>2. DatabasesFit
  BY <1>1, StartsFit, MissingFits DEF DatabasesFit
<1>3. AttemptsFit
  BY <1>1, IdleFits DEF AttemptsFit
<1>4. HooksFindTheirVersion
  BY <1>1 DEF HooksFindTheirVersion, at, atRest
<1>. QED
  BY <1>2, <1>3, <1>4 DEF Inv1

\* What an operator does next, the only one there is.
LEMMA Becoming ==
  ASSUME OneOperator, AttemptsFit, NEW o \in Operators, NEW a, become(o, a)
  PROVE  /\ DOMAIN attempts' = Operators
         /\ \A p \in Operators : p = o /\ attempts'[p] = a
BY DEF OneOperator, AttemptsFit, become

LEMMA Committing ==
  ASSUME DatabasesFit, AttemptsFit, NEW o \in Operators, NEW d, commit(o, d)
  PROVE  /\ DOMAIN databases' = Targets
         /\ attempts[o].target \in Targets
         /\ databases'[attempts[o].target] = d
         /\ \A t \in Targets \ {attempts[o].target} : databases'[t] = databases[t]
BY DEF DatabasesFit, AttemptsFit, IsAttempt, commit

LEMMA Inv1Start ==
  ASSUME OneOperator, Inv1, NEW o \in Operators, NEW t \in Targets, NEW v \in 1..10,
         StartMigration(o, t, v)
  PROVE  Inv1'
<1>. DEFINE a == [atRest EXCEPT !.step = "open", !.target = t, !.from = v]
<1>1. \A p \in Operators : attempts'[p] = a
  BY Becoming DEF StartMigration, Inv1
<1>2. DOMAIN attempts' = Operators
  BY Becoming DEF StartMigration, Inv1
<1>3. IsAttempt(a) /\ a.step = "open"
  BY DEF atRest, IsAttempt, HooksLeft, ExportsLeft, RepairsLeft
<1>. HIDE DEF a
<1>4. AttemptsFit' /\ HooksFindTheirVersion'
  BY <1>1, <1>2, <1>3 DEF AttemptsFit, HooksFindTheirVersion, at
<1>5. DatabasesFit'
  BY DEF StartMigration, Inv1, DatabasesFit, CopyProduction, Targets
<1>. QED
  BY <1>4, <1>5 DEF Inv1

LEMMA Inv1Open ==
  ASSUME OneOperator, Inv1, NEW o \in Operators, OpenDatabase(o)
  PROVE  Inv1'
<1>. DEFINE a == [attempts[o] EXCEPT !.step = "hook",
                                     !.hook = hookOf(attempts[o].from)]
<1>1. IsAttempt(attempts[o]) /\ attempts[o].step = "open"
  BY DEF Inv1, AttemptsFit, OpenDatabase, at
<1>2. hookOf(attempts[o].from) \in HooksLeft(attempts[o].from)
  BY <1>1 DEF hookOf, HooksLeft, ExportsLeft, RepairsLeft, IsAttempt
<1>3. IsAttempt(a) /\ a.target = attempts[o].target /\ a.from = attempts[o].from
  BY <1>1, <1>2 DEF IsAttempt
<1>4. \/ become(o, a) /\ database(o).schemaName = attempts[o].from
      \/ become(o, atRest)
  BY DEF OpenDatabase, end
<1>. HIDE DEF a
<1>5. databases' = databases /\ origins' = origins
  BY DEF OpenDatabase
<1>6. CASE become(o, a) /\ database(o).schemaName = attempts[o].from
  <2>1. DOMAIN attempts' = Operators /\ \A p \in Operators : p = o /\ attempts'[p] = a
    BY <1>6, Becoming DEF Inv1
  <2>. QED
    BY <1>3, <1>5, <1>6, <2>1
       DEF Inv1, DatabasesFit, AttemptsFit, HooksFindTheirVersion, at, database
<1>7. CASE become(o, atRest)
  <2>1. DOMAIN attempts' = Operators /\ \A p \in Operators : p = o /\ attempts'[p] = atRest
    BY <1>7, Becoming DEF Inv1
  <2>2. atRest.step = "idle"
    BY DEF atRest
  <2>. QED
    BY <1>5, <2>1, <2>2, IdleFits
       DEF Inv1, DatabasesFit, AttemptsFit, HooksFindTheirVersion, at
<1>. QED
  BY <1>4, <1>6, <1>7

LEMMA Inv1Read ==
  ASSUME OneOperator, Inv1, NEW o \in Operators, ReadJournals(o)
  PROVE  Inv1'
<1>. DEFINE list == SetToSeq(exports(database(o), attempts[o].from,
                                      Head(attempts[o].hook)))
            a == [attempts[o] EXCEPT !.hook = Tail(@), !.files = list]
<1>1. /\ IsAttempt(attempts[o]) /\ attempts[o].step = "hook"
      /\ attempts[o].from \in {6, 7} /\ attempts[o].hook # <<>>
  BY DEF Inv1, AttemptsFit, ReadJournals, at
<1>2. Tail(attempts[o].hook) \in HooksLeft(attempts[o].from)
  <2>1. attempts[o].hook \in ExportsLeft \ {<<>>}
    BY <1>1 DEF IsAttempt, HooksLeft
  <2>. QED
    BY <1>1, <2>1, HeadsAndTails DEF HooksLeft
<1>3. become(o, a) \/ become(o, atRest)
  BY DEF ReadJournals, end
<1>. HIDE DEF list
<1>4. IsAttempt(a) /\ a.target = attempts[o].target /\ a.from = attempts[o].from
  BY <1>1, <1>2 DEF IsAttempt
<1>5. databases' = databases /\ origins' = origins
  BY DEF ReadJournals
<1>. HIDE DEF a
<1>6. ASSUME NEW b, become(o, b), IsAttempt(b),
             b.step = "hook" => /\ b.target = attempts[o].target
                                /\ b.from = attempts[o].from
      PROVE  Inv1'
  <2>1. DOMAIN attempts' = Operators /\ \A p \in Operators : p = o /\ attempts'[p] = b
    BY <1>6, Becoming DEF Inv1
  <2>. QED
    BY <1>1, <1>5, <1>6, <2>1
       DEF Inv1, DatabasesFit, AttemptsFit, HooksFindTheirVersion, at, database
<1>7. atRest.step # "hook"
  BY DEF atRest
<1>. QED
  BY <1>3, <1>4, <1>6, <1>7, IdleFits

LEMMA Inv1Write ==
  ASSUME OneOperator, Inv1, NEW o \in Operators, WriteJournalFile(o)
  PROVE  Inv1'
<1>. DEFINE a == [attempts[o] EXCEPT !.files = Tail(@)]
<1>1. IsAttempt(attempts[o]) /\ attempts[o].step = "hook"
  BY DEF Inv1, AttemptsFit, WriteJournalFile, at
<1>2. become(o, a) /\ databases' = databases /\ origins' = origins
  BY DEF WriteJournalFile
<1>3. IsAttempt(a) /\ a.target = attempts[o].target /\ a.from = attempts[o].from
  BY <1>1 DEF IsAttempt
<1>. HIDE DEF a
<1>4. DOMAIN attempts' = Operators /\ \A p \in Operators : p = o /\ attempts'[p] = a
  BY <1>2, Becoming DEF Inv1
<1>. QED
  BY <1>1, <1>2, <1>3, <1>4
     DEF Inv1, DatabasesFit, AttemptsFit, HooksFindTheirVersion, at, database

\* What a repair of one statement does.
LEMMA RepairsOne ==
  ASSUME DatabasesFit, AttemptsFit, NEW o \in Operators, Repair(o)
  PROVE  LET a == attempts[o]
             new == RepairStep(Head(a.hook), database(o))
             b == [a EXCEPT !.hook = Tail(@)]
         IN  /\ IsAttempt(a) /\ a.step = "hook" /\ a.from = 9
             /\ a.hook \in RepairsLeft \ {<<>>}
             /\ IsFile(database(o))
             /\ SameFile(database(o), new)
             /\ new.ok => Repairs(database(o), new)
             /\ IsAttempt(b) /\ b.target = a.target /\ b.from = 9 /\ b.step = "hook"
             /\ \/ new.ok /\ commit(o, new) /\ become(o, b)
                \/ databases' = databases /\ become(o, atRest)
             /\ origins' = origins /\ journals' = journals
<1>. DEFINE a == attempts[o]
            new == RepairStep(Head(a.hook), database(o))
            b == [a EXCEPT !.hook = Tail(@)]
<1>1. IsAttempt(a) /\ a.step = "hook" /\ a.from = 9 /\ a.hook # <<>>
  BY DEF AttemptsFit, Repair, at
<1>2. a.hook \in RepairsLeft \ {<<>>}
  BY <1>1 DEF IsAttempt, HooksLeft
<1>3. Head(a.hook) \in RepairWords /\ Tail(a.hook) \in RepairsLeft
  BY <1>2, HeadsAndTails
<1>4. IsFile(database(o))
  BY <1>1 DEF DatabasesFit, database, IsAttempt
<1>5. \/ new.ok /\ commit(o, new) /\ become(o, b)
      \/ databases' = databases /\ become(o, atRest)
  BY DEF Repair, RepairStep, end
<1>6. origins' = origins /\ journals' = journals
  BY DEF Repair
<1>7. IsAttempt(b) /\ b.target = a.target /\ b.from = 9 /\ b.step = "hook"
  BY <1>1, <1>3 DEF IsAttempt, HooksLeft
<1>8. SameFile(database(o), new) /\ (new.ok => Repairs(database(o), new))
  BY <1>3, <1>4, Repairing
<1>. HIDE DEF new
<1>. QED
  BY <1>1, <1>2, <1>4, <1>5, <1>6, <1>7, <1>8 DEF new

LEMMA Inv1Repair ==
  ASSUME OneOperator, Inv1, NEW o \in Operators, Repair(o)
  PROVE  Inv1'
<1>. DEFINE a == attempts[o]
            new == RepairStep(Head(a.hook), database(o))
            b == [a EXCEPT !.hook = Tail(@)]
<1>1. /\ IsAttempt(a) /\ a.step = "hook" /\ a.from = 9
      /\ SameFile(database(o), new)
      /\ IsAttempt(b) /\ b.target = a.target /\ b.from = 9
      /\ \/ new.ok /\ commit(o, new) /\ become(o, b)
         \/ databases' = databases /\ become(o, atRest)
      /\ origins' = origins
  BY RepairsOne DEF Inv1
<1>. HIDE DEF new, b
<1>2. CASE commit(o, new) /\ become(o, b)
  <2>1. DOMAIN attempts' = Operators /\ \A p \in Operators : p = o /\ attempts'[p] = b
    BY <1>2, Becoming DEF Inv1
  <2>2. /\ DOMAIN databases' = Targets
        /\ databases'[a.target] = new
        /\ \A t \in Targets \ {a.target} : databases'[t] = databases[t]
    BY <1>2, Committing DEF Inv1
  <2>3. new.schemaName = 9 /\ IsFile(new)
    BY <1>1 DEF Inv1, HooksFindTheirVersion, at, SameFile
  <2>4. DatabasesFit'
    BY <1>1, <2>2, <2>3 DEF Inv1, DatabasesFit, Versions
  <2>5. AttemptsFit' /\ HooksFindTheirVersion'
    BY <1>1, <2>1, <2>2, <2>3 DEF AttemptsFit, HooksFindTheirVersion, database
  <2>. QED
    BY <2>4, <2>5 DEF Inv1
<1>3. CASE databases' = databases /\ become(o, atRest)
  <2>1. DOMAIN attempts' = Operators /\ \A p \in Operators : p = o /\ attempts'[p] = atRest
    BY <1>3, Becoming DEF Inv1
  <2>2. atRest.step # "hook"
    BY DEF atRest
  <2>. QED
    BY <1>1, <1>3, <2>1, <2>2, IdleFits
       DEF Inv1, DatabasesFit, AttemptsFit, HooksFindTheirVersion, at
<1>. QED
  BY <1>1, <1>2, <1>3

\* What the transaction of a migration does.
Migrated(d, v) ==
  [RunSql(v, d) EXCEPT !.schemaName = v + 1, !.preparedFor = Unset,
                        !.applied = @ \cup {v}]

LEMMA RunsOne ==
  ASSUME DatabasesFit, AttemptsFit, NEW o \in Operators, RunMigration(o)
  PROVE  LET v == attempts[o].from
             sql == RunSql(v, database(o))
             new == Migrated(database(o), v)
         IN  /\ IsAttempt(attempts[o]) /\ attempts[o].step = "hook" /\ v \in 1..10
             /\ attempts[o].hook = <<>> /\ attempts[o].files = <<>>
             /\ IsFile(database(o))
             /\ SameFile(database(o), sql)
             /\ IsFile(new) /\ new.schemaName = v + 1
             /\ new.preparedFor = Unset /\ new.applied = database(o).applied \cup {v}
             /\ new.tables = sql.tables /\ new.rows = sql.rows
             /\ \/ sql.ok /\ commit(o, new)
                \/ databases' = databases
             /\ become(o, atRest)
             /\ origins' = origins /\ journals' = journals
<1>. DEFINE v == attempts[o].from
            sql == RunSql(v, database(o))
            new == Migrated(database(o), v)
<1>1. /\ IsAttempt(attempts[o]) /\ attempts[o].step = "hook"
      /\ attempts[o].hook = <<>> /\ attempts[o].files = <<>>
  BY DEF AttemptsFit, RunMigration, at
<1>2. v \in 1..10 /\ IsFile(database(o))
  BY <1>1 DEF DatabasesFit, database, IsAttempt
<1>3. SameFile(database(o), sql)
  BY <1>2, MigrationsKeepTheFile
<1>4. (sql.ok /\ commit(o, new)) \/ databases' = databases
  BY DEF RunMigration, Migrated
<1>5. become(o, atRest) /\ origins' = origins /\ journals' = journals
  BY DEF RunMigration, end
<1>6. new = [sql EXCEPT !.schemaName = v + 1, !.preparedFor = Unset,
                        !.applied = @ \cup {v}]
  BY DEF Migrated
<1>. HIDE DEF sql, new
<1>7. /\ IsFile(new) /\ new.schemaName = v + 1
      /\ new.preparedFor = Unset /\ new.applied = database(o).applied \cup {v}
      /\ new.tables = sql.tables /\ new.rows = sql.rows
  BY <1>2, <1>3, <1>6 DEF SameFile, IsFile
<1>. QED
  BY <1>1, <1>2, <1>3, <1>4, <1>5, <1>7 DEF sql, new

LEMMA Inv1Run ==
  ASSUME OneOperator, Inv1, NEW o \in Operators, RunMigration(o)
  PROVE  Inv1'
<1>. DEFINE v == attempts[o].from
            new == Migrated(database(o), v)
<1>1. /\ v \in 1..10
      /\ IsFile(new) /\ new.schemaName = v + 1
      /\ commit(o, new) \/ databases' = databases
      /\ become(o, atRest) /\ origins' = origins
  BY RunsOne DEF Inv1
<1>2. DOMAIN attempts' = Operators /\ \A p \in Operators : p = o /\ attempts'[p] = atRest
  BY <1>1, Becoming DEF Inv1
<1>3. atRest.step # "hook"
  BY DEF atRest
<1>4. AttemptsFit' /\ HooksFindTheirVersion'
  BY <1>2, <1>3, IdleFits DEF AttemptsFit, HooksFindTheirVersion, at
<1>. HIDE DEF new
<1>5. CASE commit(o, new)
  <2>1. /\ DOMAIN databases' = Targets
        /\ databases'[attempts[o].target] = new
        /\ \A t \in Targets \ {attempts[o].target} : databases'[t] = databases[t]
    BY <1>5, Committing DEF Inv1
  <2>. QED
    BY <1>1, <1>4, <2>1 DEF Inv1, DatabasesFit, Versions
<1>6. CASE databases' = databases
  BY <1>1, <1>4, <1>6 DEF Inv1, DatabasesFit
<1>. QED
  BY <1>1, <1>5, <1>6

LEMMA Inv1Others ==
  ASSUME OneOperator, Inv1, NEW o \in Operators
  PROVE  /\ MigrationFails(o) => Inv1'
         /\ \A v \in NewVersions :
              CreateFromSchema(o, v) \/ CreationInterrupted(o, v) => Inv1'
         /\ \A t \in Targets, v \in Versions : PrepareDatabase(o, t, v) => Inv1'
         /\ \A k \in JournalKeys : EditJournal(k) => Inv1'
         /\ UNCHANGED upgradeVars => Inv1'
<1>1. ASSUME MigrationFails(o)
      PROVE  Inv1'
  <2>1. DOMAIN attempts' = Operators /\ \A p \in Operators : p = o /\ attempts'[p] = atRest
    BY <1>1, Becoming DEF Inv1, MigrationFails, end
  <2>2. atRest.step # "hook"
    BY DEF atRest
  <2>. QED
    BY <1>1, <2>1, <2>2, IdleFits
       DEF Inv1, DatabasesFit, AttemptsFit, HooksFindTheirVersion, at, MigrationFails
<1>2. ASSUME NEW d, IsFile(d), d.schemaName \in Versions \cup {Unset},
             at(o, "idle"), create(d)
      PROVE  Inv1'
  <2>1. DatabasesFit'
    BY <1>2 DEF Inv1, DatabasesFit, create, Targets
  <2>2. \A p \in Operators : p = o /\ attempts'[p] = attempts[p]
                             /\ attempts[p].step = "idle"
    BY <1>2 DEF OneOperator, create, at
  <2>3. AttemptsFit' /\ HooksFindTheirVersion'
    BY <1>2, <2>2 DEF Inv1, AttemptsFit, HooksFindTheirVersion, at, create
  <2>. QED
    BY <2>1, <2>3 DEF Inv1
<1>3. ASSUME NEW v \in NewVersions, CreateFromSchema(o, v)
      PROVE  Inv1'
  <2>1. v \in Versions /\ AreTables(Declared(v))
    BY VersionsExist, SnapshotsAreTables
  <2>2. /\ IsFile(newDatabase(v, Declared(v), <<>>))
        /\ newDatabase(v, Declared(v), <<>>).schemaName = v
    BY <2>1, EmptyDatabases
  <2>. QED
    BY <1>2, <1>3, <2>1, <2>2 DEF CreateFromSchema
<1>4. ASSUME NEW v \in NewVersions, CreationInterrupted(o, v)
      PROVE  Inv1'
  <2>1. AreTables(Declared(v)) /\ AreTables(<<>>)
    BY VersionsExist, SnapshotsAreTables DEF AreTables
  <2>2. PICK tables \in {<<>>, Declared(v)} :
          create(newDatabase(Unset, tables, <<>>))
    BY <1>4 DEF CreationInterrupted
  <2>3. /\ IsFile(newDatabase(Unset, tables, <<>>))
        /\ newDatabase(Unset, tables, <<>>).schemaName = Unset
    BY <2>1, EmptyDatabases
  <2>. QED
    BY <1>2, <1>4, <2>2, <2>3 DEF CreationInterrupted
<1>5. ASSUME NEW t \in Targets, NEW v \in Versions, PrepareDatabase(o, t, v)
      PROVE  Inv1'
  <2>1. IsFile(databases[t])
    BY DEF Inv1, DatabasesFit
  <2>. DEFINE d == EnsureReferenceData(v, databases[t])
              new == [d EXCEPT !.preparedFor = v]
  <2>2. d.ok /\ databases' = [databases EXCEPT ![t] = new]
    BY <1>5 DEF PrepareDatabase
  <2>3. IsFile(d) /\ d.schemaName = databases[t].schemaName
    BY <2>1, FailingIsNotOk DEF EnsureReferenceData, Try, IsFile, SameFile
  <2>. HIDE DEF d
  <2>4. IsFile(new) /\ new.schemaName = databases[t].schemaName
    BY <2>3 DEF IsFile
  <2>. HIDE DEF new
  <2>5. /\ DOMAIN databases' = Targets
        /\ databases'[t] = new
        /\ \A u \in Targets \ {t} : databases'[u] = databases[u]
    BY <2>2 DEF Inv1, DatabasesFit
  <2>6. attempts' = attempts /\ origins' = origins
    BY <1>5 DEF PrepareDatabase
  <2>7. DatabasesFit'
    BY <2>4, <2>5, <2>6 DEF Inv1, DatabasesFit
  <2>8. \A u \in Targets : databases'[u].schemaName = databases[u].schemaName
    BY <2>4, <2>5
  <2>9. AttemptsFit' /\ HooksFindTheirVersion'
    BY <2>6, <2>8
       DEF Inv1, AttemptsFit, HooksFindTheirVersion, at, database, IsAttempt
  <2>. QED
    BY <2>7, <2>9 DEF Inv1
<1>6. ASSUME NEW k \in JournalKeys, EditJournal(k)
      PROVE  Inv1'
  BY <1>6 DEF Inv1, DatabasesFit, AttemptsFit, HooksFindTheirVersion, at, database,
              EditJournal
<1>7. ASSUME UNCHANGED upgradeVars
      PROVE  Inv1'
  BY <1>7 DEF Inv1, DatabasesFit, AttemptsFit, HooksFindTheirVersion, at, database,
              upgradeVars
<1>. QED
  BY <1>1, <1>3, <1>4, <1>5, <1>6, <1>7

LEMMA Inv1Next == OneOperator /\ Inv1 /\ [UpgradeNext]_upgradeVars => Inv1'
<1>. SUFFICES ASSUME OneOperator, Inv1, [UpgradeNext]_upgradeVars
              PROVE  Inv1'
  OBVIOUS
<1>1. CASE UNCHANGED upgradeVars
  BY <1>1 DEF Inv1, DatabasesFit, AttemptsFit, HooksFindTheirVersion, at, database,
              upgradeVars
<1>2. ASSUME NEW k \in JournalKeys, EditJournal(k)
      PROVE  Inv1'
  BY <1>2 DEF Inv1, DatabasesFit, AttemptsFit, HooksFindTheirVersion, at, database,
              EditJournal
<1>3. ASSUME NEW o \in Operators,
             \/ \E t \in Targets, v \in 1..10 : StartMigration(o, t, v)
             \/ OpenDatabase(o) \/ ReadJournals(o) \/ WriteJournalFile(o)
             \/ Repair(o) \/ RunMigration(o) \/ MigrationFails(o)
             \/ \E v \in NewVersions :
                  CreateFromSchema(o, v) \/ CreationInterrupted(o, v)
             \/ \E t \in Targets, v \in Versions : PrepareDatabase(o, t, v)
      PROVE  Inv1'
  BY <1>3, Inv1Start, Inv1Open, Inv1Read, Inv1Write, Inv1Repair, Inv1Run, Inv1Others
<1>. QED
  BY <1>1, <1>2, <1>3 DEF UpgradeNext

-----------------------------------------------------------------------------
(* One version at a time *)

LEMMA MovesOneVersion ==
  ASSUME OneOperator, Inv1, [UpgradeNext]_upgradeVars, NEW o \in Operators,
         ~at(o, "idle"), attempts'[o] # attempts[o],
         NEW t \in Targets, databases'[t] # databases[t]
  PROVE  /\ t = attempts[o].target
         /\ \/ migrated(databases[t], databases'[t], attempts[o].from)
            \/ attempts[o].from = 9 /\ repaired(databases[t], databases'[t])
<1>1. PICK p \in Operators : Repair(p) \/ RunMigration(p)
  BY DEF UpgradeNext, upgradeVars, StartMigration, OpenDatabase, ReadJournals, WriteJournalFile,
         MigrationFails, CreateFromSchema, CreationInterrupted, create,
         PrepareDatabase, EditJournal, OneOperator, at
<1>2. p = o
  BY DEF OneOperator
<1>3. CASE Repair(o)
  <2>. DEFINE a == attempts[o]
              new == RepairStep(Head(a.hook), database(o))
              b == [a EXCEPT !.hook = Tail(@)]
  <2>1. /\ a.step = "hook" /\ a.from = 9
        /\ SameFile(database(o), new) /\ (new.ok => Repairs(database(o), new))
        /\ \/ new.ok /\ commit(o, new) /\ become(o, b)
           \/ databases' = databases /\ become(o, atRest)
    BY <1>3, RepairsOne DEF Inv1
  <2>. HIDE DEF new
  <2>2. new.ok /\ commit(o, new)
    BY <2>1
  <2>3. t = a.target /\ databases'[t] = new
    BY <2>2, Committing DEF Inv1
  <2>4. databases[t] = database(o)
    BY <2>3 DEF database
  <2>5. database(o).schemaName = 9
    BY <2>1 DEF Inv1, HooksFindTheirVersion, at
  <2>. QED
    BY <2>1, <2>2, <2>3, <2>4, <2>5 DEF repaired, SameFile, Repairs, Keeps
<1>4. CASE RunMigration(o)
  <2>. DEFINE v == attempts[o].from
              new == Migrated(database(o), v)
  <2>1. /\ attempts[o].step = "hook"
        /\ new.schemaName = v + 1 /\ new.applied = database(o).applied \cup {v}
        /\ commit(o, new) \/ databases' = databases
    BY <1>4, RunsOne DEF Inv1
  <2>. HIDE DEF new
  <2>2. t = attempts[o].target /\ databases'[t] = new
    BY <2>1, Committing DEF Inv1
  <2>3. databases[t] = database(o)
    BY <2>2 DEF database
  <2>4. database(o).schemaName = v
    BY <2>1 DEF Inv1, HooksFindTheirVersion, at
  <2>. QED
    BY <2>1, <2>2, <2>3, <2>4 DEF migrated
<1>. QED
  BY <1>1, <1>2, <1>3, <1>4

\* An attempt to migrate changes the database it was asked to change, and only
\* by the whole migration it was asked for, recorded as applied, or by the repair
\* of version 9.  Whatever the rows of the database, whatever is interrupted and
\* begun again, provided one operator at a time works on it.
THEOREM VersionsMoveOneAtATime ==
  ASSUME OneOperator
  PROVE  UpgradeSpec => AttemptsMoveOneVersion
<1>1. UpgradeInit => Inv1
  BY Inv1Init
<1>2. Inv1 /\ [UpgradeNext]_upgradeVars => Inv1'
  BY Inv1Next
<1>. DEFINE moves == \A o \in Operators : ~at(o, "idle") /\ attempts'[o] # attempts[o] =>
       \A t \in Targets : databases'[t] # databases[t] =>
         /\ t = attempts[o].target
         /\ \/ migrated(databases[t], databases'[t], attempts[o].from)
            \/ attempts[o].from = 9 /\ repaired(databases[t], databases'[t])
<1>3. Inv1 /\ [UpgradeNext]_upgradeVars => [moves]_upgradeVars
  BY MovesOneVersion
<1>. HIDE DEF moves
<1>4. UpgradeSpec => [][moves]_upgradeVars
  BY <1>1, <1>2, <1>3, PTL DEF UpgradeSpec
<1>. QED
  BY <1>4 DEF AttemptsMoveOneVersion, moves

-----------------------------------------------------------------------------
(* Codes *)

LEMMA SeedsCoverCodes ==
  ASSUME NEW v \in Versions
  PROVE  /\ DOMAIN CodesOf(v) \subseteq DOMAIN getReferenceSeedData(v)
         /\ \A c \in DOMAIN CodesOf(v) :
              CodesOf(v)[c] \subseteq getReferenceSeedData(v)[c]
         /\ DOMAIN CodesOf(v) \cap {"Mentions", "Notifications"} = {}
<1>. DEFINE CoversCodes(seed, codes) ==
              /\ DOMAIN codes \subseteq DOMAIN seed
              /\ \A c \in DOMAIN codes : codes[c] \subseteq seed[c]
              /\ DOMAIN codes \cap {"Mentions", "Notifications"} = {}
<1>0. ASSUME NEW added, NEW seed, NEW codes, CoversCodes(seed, codes),
             DOMAIN added \cap {"Mentions", "Notifications"} = {}
      PROVE  CoversCodes(added ++ seed, added ++ codes)
  <2>1. /\ DOMAIN (added ++ seed) = DOMAIN added \cup DOMAIN seed
        /\ DOMAIN (added ++ codes) = DOMAIN added \cup DOMAIN codes
    BY FromBoth
  <2>2. ASSUME NEW c \in DOMAIN (added ++ codes)
        PROVE  (added ++ codes)[c] \subseteq (added ++ seed)[c]
    <3>1. CASE c \in DOMAIN added
      <4>1. (added ++ codes)[c] = added[c] /\ (added ++ seed)[c] = added[c]
        BY <3>1, FromBoth
      <4>. QED
        BY <4>1
    <3>2. CASE c \notin DOMAIN added
      <4>1. c \in DOMAIN codes /\ c \in DOMAIN seed
        BY <1>0, <2>1, <2>2, <3>2
      <4>2. (added ++ codes)[c] = codes[c] /\ (added ++ seed)[c] = seed[c]
        BY <3>2, <4>1, FromBoth
      <4>. QED
        BY <1>0, <4>1, <4>2
    <3>. QED
      BY <3>1, <3>2
  <2>. QED
    BY <1>0, <2>1, <2>2
<1>1. CoversCodes(Seed1, Codes1)
  BY DEF Seed1, Codes1
<1>2. CoversCodes(Seed2, Codes2)
  BY DEF Seed2, Codes2
<1>3. CoversCodes(Seed3, Codes3)
  <2>. DEFINE roles == [ProjectRoles |-> {"GGTC_PROJECTROLE_PROJECT_MANAGER",
                                          "GGTC_PROJECTROLE_PROJECT_OWNER"}]
  <2>1. DOMAIN roles = {"ProjectRoles"}
    OBVIOUS
  <2>2. Seed3 = roles ++ Seed2 /\ Codes3 = roles ++ Codes2
    BY DEF Seed3, Codes3
  <2>. HIDE DEF roles, CoversCodes
  <2>. QED
    BY <1>0, <1>2, <2>1, <2>2
<1>4. CoversCodes(Seed4, Codes4)
  <2>. DEFINE new == [CredentialTypes |-> {"GGTC_CREDTYPE_USERNAME_PASSWORD",
                                           "CREDTYPE_SCOPED_ACCESS_TOKEN"},
                      ScopedAccessObjectTypes |->
                        {"SCOPED_ACCESS_OBJECT_TYPE_PROJECT",
                         "SCOPED_ACCESS_OBJECT_TYPE_TEAM",
                         "SCOPED_ACCESS_OBJECT_TYPE_ORGANIZATION"}]
  <2>1. DOMAIN new = {"CredentialTypes", "ScopedAccessObjectTypes"}
    OBVIOUS
  <2>2. Seed4 = new ++ Seed3 /\ Codes4 = new ++ Codes3
    BY DEF Seed4, Codes4
  <2>. HIDE DEF new, CoversCodes
  <2>. QED
    BY <1>0, <1>3, <2>1, <2>2
<1>. HIDE DEF CoversCodes
<1>5. CoversCodes(getReferenceSeedData(v), CodesOf(v))
  BY <1>1, <1>2, <1>3, <1>4
     DEF getReferenceSeedData, CodesOf, Versions, Codes5, Codes6, Codes7, Codes8,
         Codes9, Codes10, Codes11
<1>. QED
  BY <1>5 DEF CoversCodes

KnowsItsCodes(d) ==
  \A c \in DOMAIN CodesOf(d.schemaName) :
    /\ c \in DOMAIN d.tables
    /\ CodesOf(d.schemaName)[c] \subseteq {row.code : row \in d.rows[c]}
IsPrepared(d) == d.preparedFor # Unset /\ d.preparedFor = d.schemaName
CodesInv == \A t \in Targets : IsPrepared(databases[t]) => KnowsItsCodes(databases[t])

LEMMA PreparingAddsCodes ==
  ASSUME NEW d, IsFile(d), NEW v \in Versions, d.schemaName = v,
         EnsureReferenceData(v, d).ok
  PROVE  LET new == [EnsureReferenceData(v, d) EXCEPT !.preparedFor = v]
         IN  new.schemaName = v /\ KnowsItsCodes(new)
<1>. DEFINE seed == getReferenceSeedData(v)
            rows == [t \in DOMAIN d.rows |->
                       IF t \in DOMAIN seed THEN upsert(d.rows[t], seed[t])
                       ELSE d.rows[t]]
            filled == [d EXCEPT !.rows = rows]
            new == [EnsureReferenceData(v, d) EXCEPT !.preparedFor = v]
<1>1. DOMAIN seed \subseteq DOMAIN d.tables /\ EnsureReferenceData(v, d) = filled
  BY FailingIsNotOk DEF EnsureReferenceData, Try
<1>2. /\ \A c \in DOMAIN CodesOf(v) : c \in DOMAIN seed
      /\ \A c \in DOMAIN CodesOf(v) : CodesOf(v)[c] \subseteq seed[c]
  BY SeedsCoverCodes
<1>. HIDE DEF seed
<1>3. DOMAIN rows = DOMAIN d.tables
      /\ \A c \in DOMAIN seed : rows[c] = upsert(d.rows[c], seed[c])
  BY <1>1 DEF IsFile
<1>. HIDE DEF rows
<1>4. /\ filled.tables = d.tables /\ filled.rows = rows
      /\ filled.schemaName = v /\ DOMAIN filled = DOMAIN d
  BY DEF IsFile
<1>. HIDE DEF filled
<1>5. new.tables = d.tables /\ new.rows = rows /\ new.schemaName = v
  BY <1>1, <1>4 DEF IsFile
<1>. HIDE DEF new
<1>6. ASSUME NEW c \in DOMAIN CodesOf(v), NEW code \in CodesOf(v)[c]
      PROVE  code \in {row.code : row \in new.rows[c]}
  <2>1. c \in DOMAIN seed /\ code \in seed[c]
    BY <1>2
  <2>2. [code |-> code] \in new.rows[c]
    BY <1>3, <1>5, <2>1 DEF upsert
  <2>3. [code |-> code].code = code
    OBVIOUS
  <2>. QED
    BY <2>2, <2>3
<1>7. new.schemaName = v /\ KnowsItsCodes(new)
  BY <1>1, <1>2, <1>5, <1>6 DEF KnowsItsCodes
<1>. QED
  BY <1>7 DEF new

LEMMA CodesInit == UpgradeInit => CodesInv
<1>. SUFFICES ASSUME UpgradeInit, NEW t \in Targets PROVE ~IsPrepared(databases[t])
  BY DEF CodesInv
<1>1. PICK d \in startDatabases :
        databases = [u \in Targets |-> IF u = "prod" THEN d ELSE Missing]
  BY DEF UpgradeInit
<1>2. d.preparedFor = Unset
  BY DEF startDatabases, newDatabase
<1>3. Missing.preparedFor = Unset
  BY DEF Missing
<1>. QED
  BY <1>1, <1>2, <1>3 DEF IsPrepared

LEMMA CodesNext == OneOperator /\ Inv1 /\ CodesInv /\ [UpgradeNext]_upgradeVars => CodesInv'
<1>. SUFFICES ASSUME OneOperator, Inv1, CodesInv, [UpgradeNext]_upgradeVars
              PROVE  CodesInv'
  OBVIOUS
<1>1. ASSUME databases' = databases
      PROVE  CodesInv'
  BY <1>1 DEF CodesInv
<1>2. ASSUME NEW o \in Operators, NEW t \in Targets, NEW v \in 1..10,
             StartMigration(o, t, v)
      PROVE  CodesInv'
  BY <1>2 DEF StartMigration, CopyProduction, CodesInv, Targets, Inv1, DatabasesFit
<1>3. ASSUME NEW o \in Operators, Repair(o)
      PROVE  CodesInv'
  <2>. DEFINE a == attempts[o]
              new == RepairStep(Head(a.hook), database(o))
  <2>1. /\ a.step = "hook" /\ a.from = 9
        /\ SameFile(database(o), new) /\ (new.ok => Repairs(database(o), new))
        /\ (new.ok /\ commit(o, new)) \/ databases' = databases
    BY <1>3, RepairsOne DEF Inv1
  <2>. HIDE DEF new
  <2>2. CASE new.ok /\ commit(o, new)
    <3>1. /\ a.target \in Targets
          /\ databases'[a.target] = new
          /\ \A t \in Targets \ {a.target} : databases'[t] = databases[t]
      BY <2>2, Committing DEF Inv1
    <3>2. ASSUME IsPrepared(new)
          PROVE  KnowsItsCodes(new)
      <4>1. new.schemaName = database(o).schemaName /\ IsPrepared(database(o))
        BY <2>1, <3>2 DEF SameFile, IsPrepared
      <4>2. KnowsItsCodes(database(o))
        BY <3>1, <4>1 DEF CodesInv, database
      <4>3. new.schemaName \in Versions
        BY <2>1, <4>1 DEF Inv1, HooksFindTheirVersion, at, Versions
      <4>4. \A c \in DOMAIN CodesOf(new.schemaName) :
              c \notin {"Mentions", "Notifications"}
        BY <4>3, SeedsCoverCodes
      <4>. QED
        BY <2>1, <2>2, <4>1, <4>2, <4>4 DEF KnowsItsCodes, Repairs, Keeps
    <3>. QED
      BY <3>1, <3>2 DEF CodesInv
  <2>. QED
    BY <1>1, <2>1, <2>2
<1>4. ASSUME NEW o \in Operators, RunMigration(o)
      PROVE  CodesInv'
  <2>. DEFINE new == Migrated(database(o), attempts[o].from)
  <2>1. /\ new.preparedFor = Unset
        /\ commit(o, new) \/ databases' = databases
    BY <1>4, RunsOne DEF Inv1
  <2>. HIDE DEF new
  <2>2. CASE commit(o, new)
    <3>1. /\ databases'[attempts[o].target] = new
          /\ \A t \in Targets \ {attempts[o].target} : databases'[t] = databases[t]
      BY <2>2, Committing DEF Inv1
    <3>. QED
      BY <2>1, <3>1 DEF CodesInv, IsPrepared
  <2>. QED
    BY <1>1, <2>1, <2>2
<1>5. ASSUME NEW d, create(d), d.preparedFor = Unset
      PROVE  CodesInv'
  BY <1>5 DEF create, CodesInv, IsPrepared, Targets, Inv1, DatabasesFit
<1>6. ASSUME NEW o \in Operators, NEW v \in NewVersions,
             CreateFromSchema(o, v) \/ CreationInterrupted(o, v)
      PROVE  CodesInv'
  <2>1. \A w, tables, rows : newDatabase(w, tables, rows).preparedFor = Unset
    BY DEF newDatabase
  <2>. QED
    BY <1>5, <1>6, <2>1 DEF CreateFromSchema, CreationInterrupted
<1>7. ASSUME NEW o \in Operators, NEW t \in Targets, NEW v \in Versions,
             PrepareDatabase(o, t, v)
      PROVE  CodesInv'
  <2>. DEFINE new == [EnsureReferenceData(v, databases[t]) EXCEPT !.preparedFor = v]
  <2>1. KnowsItsCodes(new)
    BY <1>7, PreparingAddsCodes DEF Inv1, DatabasesFit, PrepareDatabase
  <2>2. databases' = [databases EXCEPT ![t] = new]
    BY <1>7 DEF PrepareDatabase
  <2>. HIDE DEF new
  <2>. QED
    BY <2>1, <2>2 DEF CodesInv, Inv1, DatabasesFit
<1>. QED
  BY <1>1, <1>2, <1>3, <1>4, <1>6, <1>7
     DEF UpgradeNext, upgradeVars, OpenDatabase, ReadJournals, WriteJournalFile, MigrationFails,
         EditJournal

\* However a database came to its version, once it is prepared for it it holds
\* every code that the version's schema enumerates: no later step takes one away.
THEOREM CodesAreKnown ==
  ASSUME OneOperator
  PROVE  UpgradeSpec => []PreparedDatabasesKnowTheirCodes
<1>1. UpgradeInit => Inv1 /\ CodesInv
  BY Inv1Init, CodesInit
<1>2. Inv1 /\ CodesInv /\ [UpgradeNext]_upgradeVars => Inv1' /\ CodesInv'
  BY Inv1Next, CodesNext
<1>3. CodesInv => PreparedDatabasesKnowTheirCodes
  BY DEF CodesInv, PreparedDatabasesKnowTheirCodes, IsPrepared, KnowsItsCodes
<1>. QED
  BY <1>1, <1>2, <1>3, PTL DEF UpgradeSpec


-----------------------------------------------------------------------------
(* Mentions *)

HasKeys(d) ==
  "containerKey" \in d.tables["Mentions"].columns =>
    \A row \in d.rows["Mentions"] : "containerKey" \in DOMAIN row
AreKeyed(d) ==
  \A row \in d.rows["Mentions"] :
    "containerKey" \in DOMAIN row /\ row.containerKey = containerKeyOf(row)
IsIndexed(d) == mentionIndex \in d.tables["Mentions"].unique

MentionsFit(d) ==
  /\ d.schemaName >= 9 => "Mentions" \in DOMAIN d.tables
  /\ d.schemaName = 9 => HasKeys(d)
  /\ d.schemaName >= 10 => AreKeyed(d) /\ IsIndexed(d)
\* What the statements of the repair that are done have brought about.
RepairsAreKept(hook, d) ==
  /\ hook # <<"key", "backfill", "unique", "user">> =>
       "containerKey" \in d.tables["Mentions"].columns
  /\ hook \in {<<"unique", "user">>, <<"user">>, <<>>} => AreKeyed(d)
  /\ hook \in {<<"user">>, <<>>} => IsIndexed(d)
MentionsInv ==
  /\ \A t \in Targets : MentionsFit(databases[t])
  /\ \A o \in Operators :
       at(o, "hook") /\ attempts[o].from = 9 =>
         RepairsAreKept(attempts[o].hook, database(o))

LEMMA SnapshotsIndexMentions ==
  ASSUME NEW v \in 9..11
  PROVE  /\ "Mentions" \in DOMAIN Declared(v)
         /\ mentionIndex \in Declared(v)["Mentions"].unique
<1>1. /\ "Mentions" \in DOMAIN Notices9
      /\ mentionIndex \in Notices9["Mentions"].unique
  <2>. DEFINE added == [Notifications |->
         table(<<"id">>, {}, {},
               {cascade(<<"issueId">>, "Issues"),
                cascade(<<"projectId">>, "Projects"),
                restrict(<<"actorUserId">>, "Users"),
                cascade(<<"mentionedUserId">>, "Users"),
                cascade(<<"attachmentId">>, "Attachments")}),
   Mentions |->
         table(<<"id">>, {"taskId", "commentId"},
               {{"mentionedUserId", "mentionContainerType", "containerKey"}},
               {cascade(<<"issueId">>, "Issues"),
                cascade(<<"projectId">>, "Projects"),
                cascade(<<"speakerUserId">>, "Users"),
                cascade(<<"mentionedUserId">>, "Users")})]
  <2>1. Notices9 = added ++ Notices8
    BY DEF Notices9
  <2>2. "Mentions" \in DOMAIN added /\ mentionIndex \in added["Mentions"].unique
    BY DEF table, mentionIndex
  <2>. HIDE DEF added
  <2>. QED
    BY <2>1, <2>2, InBoth, FromBoth
<1>2. /\ "Mentions" \notin DOMAIN Entities9 /\ "Mentions" \notin DOMAIN Issues9
      /\ "Mentions" \notin DOMAIN Discussions9 /\ "Mentions" \notin DOMAIN Tasks9
      /\ "Mentions" \notin DOMAIN Entities11 /\ "Mentions" \notin DOMAIN Tasks11
  <2>1. "Mentions" \notin DOMAIN Issues7
    BY DEF Issues7
  <2>2. "Mentions" \notin DOMAIN Discussions5 /\ "Mentions" \notin DOMAIN Entities2
    BY DEF Discussions5, Entities2
  <2>3. "Mentions" \notin DOMAIN Tasks6 /\ "Mentions" \notin DOMAIN Tasks11
    BY DEF Tasks6, Tasks11
  <2>4. "Mentions" \notin DOMAIN Discussions7
    <3>1. \A def : "Mentions" \notin DOMAIN [Projects_Attachments |-> def]
      OBVIOUS
    <3>. QED
      BY <2>2, <3>1, InBoth DEF Discussions7, Discussions6
  <2>5. "Mentions" \notin DOMAIN Entities7
    <3>1. \A def : "Mentions" \notin DOMAIN [Projects |-> def]
      OBVIOUS
    <3>. QED
      BY <2>2, <3>1, InBoth
         DEF Entities7, Entities6, Entities5, Entities4, Entities3
  <2>6. "Mentions" \notin DOMAIN Entities11
    <3>1. \A def : "Mentions" \notin DOMAIN [ProjectGanttCharts |-> def]
      OBVIOUS
    <3>. QED
      BY <2>5, <3>1, InBoth DEF Entities11, Entities10, Entities9, Entities8
  <2>. QED
    BY <2>1, <2>3, <2>4, <2>5, <2>6
       DEF Entities9, Entities8, Issues9, Issues8, Discussions9, Discussions8,
           Tasks9, Tasks8, Tasks7
<1>. DEFINE Indexes(s) == "Mentions" \in DOMAIN s
                          /\ mentionIndex \in s["Mentions"].unique
<1>3. \A f, g, h, i, rest :
        /\ "Mentions" \notin DOMAIN f /\ "Mentions" \notin DOMAIN g
        /\ "Mentions" \notin DOMAIN h /\ "Mentions" \notin DOMAIN i
        => Indexes(f ++ g ++ h ++ i ++ Notices9)
  BY <1>1, InBoth, FromBoth
<1>4. \A f, g : Indexes(f) => Indexes(f ++ g)
  BY InBoth, FromBoth
<1>. HIDE DEF Indexes
<1>5. Indexes(Snapshot9)
  BY <1>2, <1>3, <1>4 DEF Snapshot9
<1>6. Indexes(Snapshot10)
  BY <1>2, <1>3, <1>4 DEF Snapshot10, Entities10, Issues10, Discussions10, Tasks10,
     Notices10
<1>7. Indexes(Snapshot11)
  BY <1>2, <1>3, <1>4 DEF Snapshot11, Issues11, Issues10, Discussions11,
     Discussions10, Notices11, Notices10
<1>8. Declared(9) = Snapshot9 /\ Declared(10) = Snapshot10 /\ Declared(11) = Snapshot11
  BY DEF Declared
<1>. QED
  BY <1>5, <1>6, <1>7, <1>8 DEF Indexes

\* The tables that say what content reads.  No seed adds codes to them.
ToldTables == IdentifiedTables \cup TaskTables
                \cup {"Users_Roles", "Users_SystemRoles", "ProjectGanttCharts"}

LEMMA SeedsSpare ==
  ASSUME NEW v \in Versions, NEW t \in ToldTables
  PROVE  t \notin DOMAIN getReferenceSeedData(v)
<1>1. t \notin DOMAIN Seed1
  BY DEF Seed1, ToldTables, IdentifiedTables, TaskTables
<1>2. t \notin DOMAIN Seed2
  BY DEF Seed2, ToldTables, IdentifiedTables, TaskTables
<1>3. t \notin DOMAIN Seed3
  <2>1. \A codes : t \notin DOMAIN [ProjectRoles |-> codes]
    BY DEF ToldTables, IdentifiedTables, TaskTables
  <2>. QED
    BY <1>2, <2>1, InBoth DEF Seed3
<1>4. t \notin DOMAIN Seed4
  <2>1. \A codes, types :
          t \notin DOMAIN [CredentialTypes |-> codes, ScopedAccessObjectTypes |-> types]
    BY DEF ToldTables, IdentifiedTables, TaskTables
  <2>. QED
    BY <1>3, <2>1, InBoth DEF Seed4
<1>. QED
  BY <1>1, <1>2, <1>3, <1>4 DEF getReferenceSeedData, Versions

\* Preparing a database changes the tables of codes only.
LEMMA PreparingSpares ==
  ASSUME NEW d, IsFile(d), NEW v \in Versions, EnsureReferenceData(v, d).ok
  PROVE  LET new == [EnsureReferenceData(v, d) EXCEPT !.preparedFor = v]
         IN  /\ IsFile(new)
             /\ new.tables = d.tables /\ new.schemaName = d.schemaName
             /\ \A t \in ToldTables \cap DOMAIN d.tables : new.rows[t] = d.rows[t]
<1>. DEFINE seed == getReferenceSeedData(v)
            filled == EnsureReferenceData(v, d)
            new == [filled EXCEPT !.preparedFor = v]
<1>1. ToldTables \cap DOMAIN seed = {}
  BY SeedsSpare
<1>2. /\ filled.tables = d.tables /\ filled.schemaName = d.schemaName
      /\ \A t \in ToldTables \cap DOMAIN d.tables : filled.rows[t] = d.rows[t]
  <2>. HIDE DEF seed
  <2>. QED
    BY <1>1, FailingIsNotOk DEF EnsureReferenceData, Try, IsFile, seed
<1>3. IsFile(filled)
  BY FailingIsNotOk DEF EnsureReferenceData, Try, IsFile, SameFile
<1>. HIDE DEF filled
<1>4. /\ IsFile(new) /\ new.tables = filled.tables
      /\ new.schemaName = filled.schemaName /\ new.rows = filled.rows
  BY <1>3 DEF IsFile
<1>. HIDE DEF new
<1>. QED
  BY <1>2, <1>4 DEF filled, new

LEMMA StartingMentionsFit ==
  ASSUME NEW d \in startDatabases
  PROVE  MentionsFit(d)
<1>1. CASE d \in {newDatabase(v, Declared(v), Fixture[v]) : v \in StartVersions}
  <2>1. PICK v \in StartVersions : d = newDatabase(v, Declared(v), Fixture[v])
    BY <1>1
  <2>2. v \in Versions
    BY VersionsExist
  <2>3. AreTables(Declared(v))
    BY <2>2, SnapshotsAreTables
  <2>4. /\ d.schemaName = v /\ d.tables = Declared(v)
        /\ \A t \in DOMAIN Declared(v) :
             d.rows[t] = IF t \in DOMAIN Fixture[v] THEN Fixture[v][t] ELSE {}
    BY <2>1, <2>3, NewDatabases
  <2>5. CASE v \in 9..11
    <3>1. /\ "Mentions" \in DOMAIN Declared(v)
          /\ mentionIndex \in Declared(v)["Mentions"].unique
      BY <2>5, SnapshotsIndexMentions
    <3>2. AreKeyed(d)
      BY <2>4, <2>5, <3>1, MentionsAreKeyed DEF AreKeyed
    <3>. QED
      BY <2>4, <3>1, <3>2 DEF MentionsFit, HasKeys, AreKeyed, IsIndexed
  <2>6. CASE v \notin 9..11
    BY <2>2, <2>4, <2>6 DEF MentionsFit, Versions
  <2>. QED
    BY <2>5, <2>6
<1>2. CASE d \in {newDatabase(9, tables, rows) :
                     tables \in legacyTables, rows \in LegacyFixture}
  <2>1. PICK tables \in legacyTables, rows \in LegacyFixture :
          d = newDatabase(9, tables, rows)
    BY <1>2
  <2>2. AreTables(tables)
    BY LegacyTables
  <2>3. d.schemaName = 9 /\ d.tables = tables
    BY <2>1, <2>2, NewDatabases
  <2>. DEFINE mentions == legacyMentions(Snapshot9)
  <2>4. "Mentions" \in DOMAIN Snapshot9 /\ IsTable(Snapshot9["Mentions"])
    BY SnapshotsIndexMentions, SnapshotsAreTables
       DEF Declared, Versions, AreTables
  <2>5. /\ "Mentions" \in DOMAIN mentions
        /\ "containerKey" \notin mentions["Mentions"].columns
    BY <2>4 DEF legacyMentions, IsTable
  <2>6. tables = [mentions EXCEPT !["Notifications"] = Snapshot8["Notifications"]]
        \/ tables = [mentions EXCEPT
                       !["Notifications"].refs = (@ \ {userReference("cascade")})
                                        \cup {userReference("no action")}]
    BY DEF legacyTables
  <2>. HIDE DEF mentions
  <2>7. "Mentions" \in DOMAIN tables
        /\ "containerKey" \notin tables["Mentions"].columns
    BY <2>5, <2>6
  <2>. QED
    BY <2>3, <2>7 DEF MentionsFit, HasKeys
<1>. QED
  BY <1>1, <1>2 DEF startDatabases

LEMMA MentionsInit == UpgradeInit => MentionsInv
<1>. SUFFICES ASSUME UpgradeInit PROVE MentionsInv
  OBVIOUS
<1>1. PICK d \in startDatabases :
        /\ databases = [t \in Targets |-> IF t = "prod" THEN d ELSE Missing]
        /\ attempts = [o \in Operators |-> atRest]
  BY DEF UpgradeInit
<1>2. MentionsFit(d)
  BY StartingMentionsFit
<1>3. MentionsFit(Missing)
  BY MissingFits DEF MentionsFit, Unset
<1>4. \A o \in Operators : ~at(o, "hook")
  BY <1>1 DEF at, atRest
<1>. QED
  BY <1>1, <1>2, <1>3, <1>4 DEF MentionsInv

\* A repair that is done is done for good.
LEMMA RepairsMend ==
  ASSUME NEW d, IsFile(d), d.schemaName = 9, MentionsFit(d),
         NEW hook \in RepairsLeft \ {<<>>}, RepairsAreKept(hook, d),
         RepairStep(Head(hook), d).ok
  PROVE  LET new == RepairStep(Head(hook), d)
         IN  MentionsFit(new) /\ RepairsAreKept(Tail(hook), new)
<1>. DEFINE new == RepairStep(Head(hook), d)
            m == "Mentions"
<1>. SUFFICES MentionsFit(new) /\ RepairsAreKept(Tail(hook), new)
  OBVIOUS
<1>1. m \in DOMAIN d.tables /\ HasKeys(d) /\ IsTable(d.tables[m])
  BY DEF MentionsFit, IsFile
<1>2. SameFile(d, new) /\ DOMAIN new.tables = DOMAIN d.tables
  BY HeadsAndTails, Repairing DEF Repairs
<1>3. new.schemaName = 9 /\ m \in DOMAIN new.tables /\ new.ok
  BY <1>1, <1>2 DEF SameFile
<1>4. CASE hook = <<"key", "backfill", "unique", "user">>
  <2>1. new = EnsureContainerKey(d) /\ Tail(hook) = <<"backfill", "unique", "user">>
    BY <1>4 DEF RepairStep
  <2>2. "containerKey" \in new.tables[m].columns /\ HasKeys(new)
    <3>. HIDE DEF new
    <3>1. CASE new = d /\ HasColumn(d, m, "containerKey")
      BY <1>1, <3>1 DEF HasColumn, HasKeys
    <3>2. CASE AddsColumn(d, m, "containerKey", {},
                          [containerKey |-> <<"-", "-", "-", "-">>], new)
      <4>1. \A row : "containerKey" \in
                       DOMAIN (row ++ [containerKey |-> <<"-", "-", "-", "-">>])
        BY InBoth
      <4>. QED
        BY <1>1, <3>2, <4>1 DEF AddsColumn, HasKeys, IsTable
    <3>. QED
      BY <1>3, <2>1, <3>1, <3>2, RepairingKey
  <2>. HIDE DEF new
  <2>3. <<"backfill", "unique", "user">> \notin {<<"unique", "user">>, <<"user">>, <<>>}
    OBVIOUS
  <2>. QED
    BY <1>3, <2>1, <2>2, <2>3 DEF MentionsFit, RepairsAreKept
<1>5. CASE hook = <<"backfill", "unique", "user">>
  <2>1. new = BackfillContainerKeys(d) /\ Tail(hook) = <<"unique", "user">>
    BY <1>5 DEF RepairStep
  <2>2. Fills(d, m, {Keyed(row) : row \in d.rows[m]}, new)
    BY <2>1, RepairingRows
  <2>. HIDE DEF new
  <2>3. "containerKey" \in d.tables[m].columns
    BY <1>5 DEF RepairsAreKept
  <2>4. \A row \in d.rows[m] : "containerKey" \in DOMAIN row
    BY <1>1, <2>3 DEF HasKeys
  <2>5. \A row \in d.rows[m] :
          /\ DOMAIN Keyed(row) = DOMAIN row
          /\ Keyed(row).containerKey = containerKeyOf(row)
          /\ containerKeyOf(Keyed(row)) = containerKeyOf(row)
    <3>. SUFFICES ASSUME NEW row \in d.rows[m]
                  PROVE  /\ DOMAIN Keyed(row) = DOMAIN row
                         /\ Keyed(row).containerKey = containerKeyOf(row)
                         /\ containerKeyOf(Keyed(row)) = containerKeyOf(row)
      OBVIOUS
    <3>. DEFINE key == containerKeyOf(row)
    <3>1. "containerKey" \in DOMAIN row
      BY <2>4
    <3>2. Keyed(row) = [row EXCEPT !.containerKey = key]
      BY DEF Keyed
    <3>3. \A c \in {"projectId", "issueId", "taskId", "commentId"} :
            column(Keyed(row), c) = column(row, c)
      <4>. HIDE DEF key
      <4>. QED
        BY <3>2 DEF column
    <3>4. containerKeyOf(Keyed(row)) = key
      BY <3>3 DEF containerKeyOf
    <3>. HIDE DEF key
    <3>5. DOMAIN Keyed(row) = DOMAIN row /\ Keyed(row).containerKey = key
      BY <3>1, <3>2
    <3>. QED
      BY <3>4, <3>5 DEF key
  <2>6. AreKeyed(new)
    BY <2>2, <2>4, <2>5 DEF AreKeyed, Fills
  <2>7. new.tables[m] = d.tables[m]
    BY <2>2 DEF Fills
  <2>8. <<"unique", "user">> \notin {<<"user">>, <<>>}
    OBVIOUS
  <2>9. MentionsFit(new)
    BY <1>3, <2>6 DEF MentionsFit, HasKeys, AreKeyed
  <2>. QED
    BY <2>1, <2>3, <2>6, <2>7, <2>8, <2>9 DEF RepairsAreKept
<1>6. CASE hook = <<"unique", "user">>
  <2>1. new = EnsureMentionIndex(d) /\ Tail(hook) = <<"user">>
    BY <1>6 DEF RepairStep
  <2>. HIDE DEF new
  <2>2. "containerKey" \in d.tables[m].columns /\ AreKeyed(d)
    BY <1>6 DEF RepairsAreKept
  <2>3. /\ new.rows[m] = d.rows[m] /\ new.tables[m].columns = d.tables[m].columns
        /\ IsIndexed(new)
    <3>1. CASE new = d /\ mentionIndex \in d.tables[m].unique
      BY <3>1 DEF IsIndexed
    <3>2. CASE AddsIndex(d, m, mentionIndex, new)
      BY <1>1, <3>2 DEF AddsIndex, IsTable, IsIndexed
    <3>. QED
      BY <1>3, <2>1, <3>1, <3>2, RepairingIndex
  <2>4. AreKeyed(new)
    BY <2>2, <2>3 DEF AreKeyed
  <2>. QED
    BY <1>3, <2>1, <2>2, <2>3, <2>4 DEF MentionsFit, RepairsAreKept, HasKeys, AreKeyed
<1>7. CASE hook = <<"user">>
  <2>1. new = EnsureMentionedUser(d) /\ Tail(hook) = <<>>
    BY <1>7 DEF RepairStep
  <2>. HIDE DEF new
  <2>2. "containerKey" \in d.tables[m].columns /\ AreKeyed(d) /\ IsIndexed(d)
    BY <1>7 DEF RepairsAreKept
  <2>3. new.rows[m] = d.rows[m] /\ new.tables[m] = d.tables[m]
    <3>1. CASE new = d
      BY <3>1
    <3>2. CASE AddsColumn(d, "Notifications", "mentionedUserId",
                          {userReference("no action")}, <<>>, new)
      BY <1>1, <3>2 DEF AddsColumn, Keeps
    <3>. QED
      BY <1>3, <2>1, <3>1, <3>2, RepairingUser
  <2>4. AreKeyed(new) /\ IsIndexed(new)
    BY <2>2, <2>3 DEF AreKeyed, IsIndexed
  <2>. QED
    BY <1>3, <2>1, <2>2, <2>3, <2>4 DEF MentionsFit, RepairsAreKept, HasKeys, AreKeyed
<1>. QED
  BY <1>4, <1>5, <1>6, <1>7 DEF RepairsLeft

LEMMA MigratingMentions ==
  ASSUME NEW d, IsFile(d), NEW v \in 1..10, d.schemaName = v,
         MentionsFit(d), v = 9 => RepairsAreKept(<<>>, d), RunSql(v, d).ok
  PROVE  MentionsFit(Migrated(d, v))
<1>. DEFINE sql == RunSql(v, d)
            new == Migrated(d, v)
            m == "Mentions"
<1>. SUFFICES MentionsFit(new)
  OBVIOUS
<1>1. SameFile(d, sql) /\ sql.ok
  BY MigrationsKeepTheFile
<1>2. /\ v = 8 => sql = From8(d)
      /\ v = 9 => sql = From9(d)
      /\ v = 10 => sql = From10(d)
  <2>1. ASSUME v = 8 PROVE RunSql(v, d) = From8(d)
    BY <2>1 DEF RunSql
  <2>2. ASSUME v = 9 PROVE RunSql(v, d) = From9(d)
    BY <2>2 DEF RunSql
  <2>3. ASSUME v = 10 PROVE RunSql(v, d) = From10(d)
    BY <2>3 DEF RunSql
  <2>. QED
    BY <2>1, <2>2, <2>3
<1>3. new = [sql EXCEPT !.schemaName = v + 1, !.preparedFor = Unset,
                        !.applied = @ \cup {v}]
  BY DEF Migrated
<1>. HIDE DEF new, sql
<1>4. new.schemaName = v + 1 /\ new.tables = sql.tables /\ new.rows = sql.rows
  BY <1>1, <1>3 DEF SameFile, IsFile
<1>5. CASE v < 8
  BY <1>4, <1>5 DEF MentionsFit
<1>6. CASE v = 8
  <2>1. m \in DOMAIN sql.tables /\ sql.rows[m] = {}
    BY <1>1, <1>2, <1>6, EighthMigration
  <2>. QED
    BY <1>4, <1>6, <2>1 DEF MentionsFit, HasKeys
<1>7. CASE v = 9
  <2>1. sql = d
    BY <1>2, <1>7 DEF From9
  <2>2. m \in DOMAIN d.tables /\ AreKeyed(d) /\ IsIndexed(d)
    BY <1>7 DEF MentionsFit, RepairsAreKept
  <2>. QED
    BY <1>4, <1>7, <2>1, <2>2 DEF MentionsFit, AreKeyed, IsIndexed
<1>8. CASE v = 10
  <2>1. m \in DOMAIN d.tables /\ AreKeyed(d) /\ IsIndexed(d)
    BY <1>8 DEF MentionsFit
  <2>2. Spares(d, sql, m)
    BY <1>2, <1>8, TenthMigration
  <2>3. Shrinks(d, sql, m)
    BY <1>1, <2>1, <2>2 DEF Spares
  <2>. QED
    BY <1>4, <1>8, <2>1, <2>3 DEF MentionsFit, AreKeyed, IsIndexed, Shrinks
<1>. QED
  BY <1>5, <1>6, <1>7, <1>8

LEMMA CreatingMentions ==
  ASSUME NEW v \in NewVersions
  PROVE  /\ MentionsFit(newDatabase(v, Declared(v), <<>>))
         /\ \A tables \in {<<>>, Declared(v)} :
              MentionsFit(newDatabase(Unset, tables, <<>>))
<1>1. v \in Versions /\ AreTables(Declared(v))
  BY VersionsExist, SnapshotsAreTables
<1>2. MentionsFit(newDatabase(v, Declared(v), <<>>))
  <2>. DEFINE d == newDatabase(v, Declared(v), <<>>)
  <2>1. /\ d.schemaName = v /\ d.tables = Declared(v)
        /\ \A t \in DOMAIN Declared(v) : d.rows[t] = {}
    BY <1>1, EmptyDatabases
  <2>. SUFFICES MentionsFit(d)
    OBVIOUS
  <2>. HIDE DEF d
  <2>2. v >= 9 => /\ "Mentions" \in DOMAIN Declared(v)
                  /\ mentionIndex \in Declared(v)["Mentions"].unique
    BY <1>1, SnapshotsIndexMentions DEF Versions
  <2>. QED
    BY <1>1, <2>1, <2>2 DEF MentionsFit, HasKeys, AreKeyed, IsIndexed, Versions
<1>3. ASSUME NEW tables \in {<<>>, Declared(v)}
      PROVE  MentionsFit(newDatabase(Unset, tables, <<>>))
  <2>1. newDatabase(Unset, tables, <<>>).schemaName = Unset
    BY DEF newDatabase
  <2>. QED
    BY <2>1 DEF MentionsFit, Unset
<1>. QED
  BY <1>2, <1>3

LEMMA MentionsNext ==
  OneOperator /\ Inv1 /\ MentionsInv /\ [UpgradeNext]_upgradeVars => MentionsInv'
<1>. SUFFICES ASSUME OneOperator, Inv1, MentionsInv, [UpgradeNext]_upgradeVars
              PROVE  MentionsInv'
  OBVIOUS
<1>1. CASE UNCHANGED upgradeVars
  BY <1>1 DEF MentionsInv, upgradeVars, at, database
<1>2. ASSUME NEW k \in JournalKeys, EditJournal(k)
      PROVE  MentionsInv'
  BY <1>2 DEF MentionsInv, EditJournal, at, database
\* The databases are as they were, and the operator does not begin the repair.
<1>3. ASSUME NEW o \in Operators, NEW a, become(o, a), UNCHANGED databases,
             a.step = "hook" /\ a.from = 9 =>
               RepairsAreKept(a.hook, databases[a.target])
      PROVE  MentionsInv'
  <2>1. \A p \in Operators : attempts'[p] = a
    BY <1>3, Becoming DEF Inv1
  <2>. QED
    BY <1>3, <2>1 DEF MentionsInv, at, database
<1>4. atRest.step = "idle"
  BY DEF atRest
<1>5. ASSUME NEW o \in Operators, NEW t \in Targets, NEW v \in 1..10,
             StartMigration(o, t, v)
      PROVE  MentionsInv'
  <2>1. \A p \in Operators : ~at(p, "hook")'
    <3>1. \A p \in Operators :
            attempts'[p] = [atRest EXCEPT !.step = "open", !.target = t, !.from = v]
      BY <1>5, Becoming DEF Inv1, StartMigration
    <3>. QED
      BY <3>1 DEF at, atRest
  <2>2. \A u \in Targets : \E w \in Targets : databases'[u] = databases[w]
    BY <1>5 DEF StartMigration, CopyProduction, Inv1, DatabasesFit, Targets
  <2>. QED
    BY <2>1, <2>2 DEF MentionsInv
<1>6. ASSUME NEW o \in Operators, OpenDatabase(o)
      PROVE  MentionsInv'
  <2>. DEFINE a == [attempts[o] EXCEPT !.step = "hook",
                                       !.hook = hookOf(attempts[o].from)]
  <2>1. IsAttempt(attempts[o])
    BY DEF Inv1, AttemptsFit
  <2>2. a.from = attempts[o].from /\ a.hook = hookOf(attempts[o].from)
    BY <2>1 DEF IsAttempt
  <2>3. a.from = 9 => RepairsAreKept(a.hook, databases[a.target])
    <3>1. <<"key", "backfill", "unique", "user">>
            \notin {<<"unique", "user">>, <<"user">>, <<>>}
      OBVIOUS
    <3>2. a.from = 9 => a.hook = <<"key", "backfill", "unique", "user">>
      BY <2>2 DEF hookOf
    <3>. HIDE DEF a
    <3>. QED
      BY <3>1, <3>2 DEF RepairsAreKept
  <2>4. become(o, a) \/ become(o, atRest)
    BY <1>6 DEF OpenDatabase, end
  <2>5. UNCHANGED databases
    BY <1>6 DEF OpenDatabase
  <2>. HIDE DEF a
  <2>. QED
    BY <1>3, <1>4, <2>3, <2>4, <2>5
<1>7. ASSUME NEW o \in Operators, ReadJournals(o)
      PROVE  MentionsInv'
  <2>. DEFINE list == SetToSeq(exports(database(o), attempts[o].from,
                                        Head(attempts[o].hook)))
              a == [attempts[o] EXCEPT !.hook = Tail(@), !.files = list]
  <2>1. IsAttempt(attempts[o]) /\ attempts[o].from \in {6, 7}
    BY <1>7 DEF Inv1, AttemptsFit, ReadJournals
  <2>2. become(o, a) \/ become(o, atRest)
    BY <1>7 DEF ReadJournals, end
  <2>. HIDE DEF list
  <2>3. a.from # 9
    BY <2>1 DEF IsAttempt
  <2>4. UNCHANGED databases
    BY <1>7 DEF ReadJournals
  <2>. HIDE DEF a
  <2>. QED
    BY <1>3, <1>4, <2>2, <2>3, <2>4
<1>8. ASSUME NEW o \in Operators, WriteJournalFile(o)
      PROVE  MentionsInv'
  <2>. DEFINE a == [attempts[o] EXCEPT !.files = Tail(@)]
  <2>1. IsAttempt(attempts[o]) /\ at(o, "hook")
    BY <1>8 DEF Inv1, AttemptsFit, WriteJournalFile
  <2>2. /\ a.from = attempts[o].from /\ a.hook = attempts[o].hook
        /\ a.target = attempts[o].target
    BY <2>1 DEF IsAttempt
  <2>3. a.from = 9 => RepairsAreKept(a.hook, databases[a.target])
    BY <2>1, <2>2 DEF MentionsInv, database
  <2>4. become(o, a) /\ UNCHANGED databases
    BY <1>8 DEF WriteJournalFile
  <2>. HIDE DEF a
  <2>. QED
    BY <1>3, <2>3, <2>4
<1>9. ASSUME NEW o \in Operators, Repair(o)
      PROVE  MentionsInv'
  <2>. DEFINE hook == attempts[o].hook
              d == database(o)
              new == RepairStep(Head(hook), d)
              b == [attempts[o] EXCEPT !.hook = Tail(@)]
  <2>1. /\ IsAttempt(attempts[o]) /\ at(o, "hook") /\ attempts[o].from = 9
        /\ hook \in RepairsLeft \ {<<>>}
        /\ IsFile(d)
        /\ b.target = attempts[o].target
        /\ \/ new.ok /\ commit(o, new) /\ become(o, b)
           \/ databases' = databases /\ become(o, atRest)
    BY <1>9, RepairsOne DEF Inv1, at
  <2>2. d.schemaName = 9 /\ MentionsFit(d) /\ RepairsAreKept(hook, d)
    BY <2>1 DEF Inv1, HooksFindTheirVersion, MentionsInv, database, IsAttempt
  <2>3. new.ok => MentionsFit(new) /\ RepairsAreKept(Tail(hook), new)
    BY <2>1, <2>2, RepairsMend
  <2>4. b.hook = Tail(hook)
    BY <2>1 DEF IsAttempt
  <2>. HIDE DEF new, b
  <2>5. CASE new.ok /\ commit(o, new) /\ become(o, b)
    <3>1. \A p \in Operators : attempts'[p] = b
      BY <2>5, Becoming DEF Inv1
    <3>2. /\ databases'[b.target] = new
          /\ \A t \in Targets \ {b.target} : databases'[t] = databases[t]
      BY <2>1, <2>5, Committing DEF Inv1
    <3>. QED
      BY <2>3, <2>4, <2>5, <3>1, <3>2 DEF MentionsInv, at, database
  <2>6. CASE databases' = databases /\ become(o, atRest)
    BY <1>3, <1>4, <2>6
  <2>. QED
    BY <2>1, <2>5, <2>6
<1>10. ASSUME NEW o \in Operators, RunMigration(o)
       PROVE  MentionsInv'
  <2>. DEFINE v == attempts[o].from
              d == database(o)
              new == Migrated(d, v)
  <2>1. /\ IsAttempt(attempts[o]) /\ at(o, "hook") /\ v \in 1..10
        /\ attempts[o].hook = <<>> /\ IsFile(d)
        /\ \/ RunSql(v, d).ok /\ commit(o, new)
           \/ databases' = databases
        /\ become(o, atRest)
    BY <1>10, RunsOne DEF Inv1, at
  <2>2. d.schemaName = v /\ MentionsFit(d) /\ (v = 9 => RepairsAreKept(<<>>, d))
    BY <2>1 DEF Inv1, HooksFindTheirVersion, MentionsInv, database, IsAttempt
  <2>3. RunSql(v, d).ok => MentionsFit(new)
    BY <2>1, <2>2, MigratingMentions
  <2>. HIDE DEF new
  <2>4. CASE RunSql(v, d).ok /\ commit(o, new)
    <3>1. \A p \in Operators : attempts'[p] = atRest
      BY <2>1, Becoming DEF Inv1
    <3>2. /\ databases'[attempts[o].target] = new
          /\ \A t \in Targets \ {attempts[o].target} : databases'[t] = databases[t]
      BY <2>4, Committing DEF Inv1
    <3>. QED
      BY <1>4, <2>3, <2>4, <3>1, <3>2 DEF MentionsInv, at
  <2>5. CASE databases' = databases
    BY <1>3, <1>4, <2>1, <2>5
  <2>. QED
    BY <2>1, <2>4, <2>5
<1>11. ASSUME NEW o \in Operators, MigrationFails(o)
       PROVE  MentionsInv'
  BY <1>3, <1>4, <1>11 DEF MigrationFails, end
<1>12. ASSUME NEW o \in Operators, at(o, "idle"), NEW d, create(d), MentionsFit(d)
       PROVE  MentionsInv'
  <2>1. \A p \in Operators : ~at(p, "hook")'
    BY <1>12 DEF OneOperator, create, at
  <2>2. databases'["prod"] = d /\ databases'["proddev"] = databases["proddev"]
    BY <1>12 DEF create, Inv1, DatabasesFit, Targets
  <2>. QED
    BY <1>12, <2>1, <2>2 DEF MentionsInv, Targets
<1>13. ASSUME NEW o \in Operators, NEW v \in NewVersions,
              CreateFromSchema(o, v) \/ CreationInterrupted(o, v)
       PROVE  MentionsInv'
  BY <1>12, <1>13, CreatingMentions DEF CreateFromSchema, CreationInterrupted
<1>14. ASSUME NEW o \in Operators, NEW t \in Targets, NEW v \in Versions,
              PrepareDatabase(o, t, v)
       PROVE  MentionsInv'
  <2>. DEFINE d == databases[t]
              new == [EnsureReferenceData(v, d) EXCEPT !.preparedFor = v]
  <2>1. IsFile(d) /\ MentionsFit(d)
    BY DEF Inv1, DatabasesFit, MentionsInv
  <2>2. /\ EnsureReferenceData(v, d).ok /\ databases' = [databases EXCEPT ![t] = new]
        /\ attempts' = attempts /\ at(o, "idle")
    BY <1>14 DEF PrepareDatabase
  <2>3. /\ new.tables = d.tables /\ new.schemaName = d.schemaName
        /\ "Mentions" \in DOMAIN d.tables =>
             new.rows["Mentions"] = d.rows["Mentions"]
    BY <2>1, <2>2, PreparingSpares DEF ToldTables, IdentifiedTables
  <2>. HIDE DEF new
  <2>7. MentionsFit(new)
    <3>1. CASE "Mentions" \in DOMAIN d.tables
      BY <2>1, <2>3, <3>1 DEF MentionsFit, HasKeys, AreKeyed, IsIndexed
    <3>2. CASE "Mentions" \notin DOMAIN d.tables
      <4>1. ~(d.schemaName >= 9)
        BY <2>1, <3>2 DEF MentionsFit
      <4>2. d.schemaName \in Versions \cup {Unset}
        BY DEF Inv1, DatabasesFit
      <4>. QED
        BY <2>3, <4>1, <4>2 DEF MentionsFit, Versions, Unset
    <3>. QED
      BY <3>1, <3>2
  <2>8. \A p \in Operators : ~at(p, "hook")'
    BY <2>2 DEF OneOperator, at
  <2>9. \A u \in Targets : databases'[u] = new \/ databases'[u] = databases[u]
    BY <2>2 DEF Inv1, DatabasesFit
  <2>. QED
    BY <2>7, <2>8, <2>9 DEF MentionsInv
<1>. QED
  BY <1>1, <1>2, <1>5, <1>6, <1>7, <1>8, <1>9, <1>10, <1>11, <1>13, <1>14
     DEF UpgradeNext

\* From version 10 on every mention is under the key of the place it was made
\* in, however often the repair of version 9 was interrupted and begun again.
THEOREM MentionsAreRepaired ==
  ASSUME OneOperator
  PROVE  UpgradeSpec => []RepairedMentionsNameTheirContainer
<1>1. UpgradeInit => Inv1 /\ MentionsInv
  BY Inv1Init, MentionsInit
<1>2. Inv1 /\ MentionsInv /\ [UpgradeNext]_upgradeVars => Inv1' /\ MentionsInv'
  BY Inv1Next, MentionsNext
<1>3. MentionsInv => RepairedMentionsNameTheirContainer
  BY DEF MentionsInv, MentionsFit, AreKeyed, IsIndexed,
         RepairedMentionsNameTheirContainer
<1>. QED
  BY <1>1, <1>2, <1>3, PTL DEF UpgradeSpec

-----------------------------------------------------------------------------
(* Journals *)

JournalTables == {"Projects", "Issues"}
HasTexts(d, t) ==
  /\ IsFiniteSet(d.rows[t])
  /\ \A row \in d.rows[t] : \A c \in DOMAIN row \cap (fileColumns \cup {"journal"}) :
       row[c] # "none"
HasNoFiles(d, t) == \A row \in d.rows[t] : DOMAIN row \cap fileColumns = {}
TextsFit(d) ==
  \A t \in JournalTables \cap DOMAIN d.tables :
    /\ d.schemaName \in 1..7 => HasTexts(d, t)
    /\ d.schemaName \in 1..6 => HasNoFiles(d, t)

\* The journals of the origin have list, or are still in the database.
OriginJournals == journalsIn(origins["prod"])
JournalsAreKept ==
  /\ DOMAIN journals = JournalKeys
  /\ OriginJournals \subseteq JournalKeys
  /\ databases["prod"].schemaName \in 1..6 =>
       OriginJournals \subseteq journalsIn(databases["prod"])
  /\ databases["prod"].schemaName >= 7 =>
       \A k \in JournalKeys : k \in OriginJournals => journals[k] # "none"
\* Files to be written are texts.
FilesAreTexts(list) ==
  \E S : list \in Seq(S) /\ \A file \in S : file[2] # "none"
journalsOf(d, t) ==
  {pathOf(t, row) : row \in {r \in rowsOf(d, t) : "journal" \in DOMAIN r}}
\* A journal has its file or is about to get it.
IsExported(k, list) ==
  \/ journals[k] # "none"
  \/ \E n \in DOMAIN list : list[n][1] = k
ExportsAreKept(a) ==
  /\ a.hook # <<"Projects", "Issues">> =>
       \A k \in JournalKeys : k \in journalsOf(databases["prod"], "Projects")
                              => IsExported(k, a.files)
  /\ a.hook = <<>> =>
       \A k \in JournalKeys : k \in journalsOf(databases["prod"], "Issues")
                              => IsExported(k, a.files)
JournalsInv ==
  /\ \A t \in Targets : TextsFit(databases[t])
  /\ JournalsAreKept
  /\ \A o \in Operators :
       /\ FilesAreTexts(attempts[o].files)
       /\ at(o, "hook") /\ attempts[o].target = "prod" /\ attempts[o].from = 6
            => ExportsAreKept(attempts[o])

LEMMA JournalsOfBoth ==
  \A d : journalsIn(d) = journalsOf(d, "Projects") \cup journalsOf(d, "Issues")
BY DEF journalsIn, journalsOf

\* Tables that neither had nor have rows are as if there were none.
LEMMA JournalsOfTables ==
  ASSUME NEW d, IsFile(d), NEW new, IsFile(new), NEW t,
         t \in DOMAIN d.tables => t \in DOMAIN new.tables /\ new.rows[t] = d.rows[t]
  PROVE  journalsOf(d, t) \subseteq journalsOf(new, t)
BY DEF journalsOf, rowsOf, IsFile

LEMMA FirstMigrationFills ==
  ASSUME NEW d, IsFile(d), From1(d).ok, NEW t \in JournalTables
  PROVE  t \in DOMAIN From1(d).tables => From1(d).rows[t] = {}
<1>. DEFINE put == RenameTable(d, "Roles", "__legacy_Roles")
            aside == RenameTable(put, "Users_Roles", "__legacy_Users_Roles")
            made == CreateTables(aside, Created2)
            new == CreateTable(made, "__new_SystemRoles", codeTable)
            roles == IF [code |-> "GGTC_ROLE_ADMIN"]
                          \in made.rows["__legacy_Roles"]
                     THEN {[code |-> "GGTC_SYSTEMROLE_ADMIN"]} ELSE {}
            copies == {[userId |-> row.userId,
                        roleCode |-> "GGTC_SYSTEMROLE_ADMIN"] :
                         row \in legacyAdmins(made)}
            filled == Insert(new, "__new_SystemRoles", roles)
            named == RenameTable(filled, "__new_SystemRoles", "SystemRoles")
            admins == Insert(named, "Users_SystemRoles", copies)
            lessUsers == DropTable(admins, "__legacy_Users_Roles")
            less == DropTable(lessUsers, "__legacy_Roles")
<1>1. SameFile(d, put)
  BY RenamingTable
<1>2. SameFile(put, aside)
  BY <1>1, RenamingTable DEF SameFile
<1>3. SameFile(aside, made) /\ (made.ok => Creates(aside, Created2, made))
  BY <1>2, CreatingTables, CreatedAreTables DEF SameFile, AreTables
<1>4. Spares(made, new, t)
  <2>. DEFINE defs == [name \in {"__new_SystemRoles"} |-> codeTable]
  <2>1. AreTables(defs) /\ new = CreateTables(made, defs)
    BY CodeTableIsTable DEF AreTables, CreateTable
  <2>. HIDE DEF defs, made
  <2>. QED
    BY <1>3, <2>1, CreatingSpares DEF SameFile
<1>5. Spares(new, filled, t)
  <2>. HIDE DEF new, roles
  <2>. QED
    BY <1>4, InsertingSpares DEF Spares, SameFile, JournalTables
<1>6. Spares(filled, named, t)
  <2>. HIDE DEF filled
  <2>. QED
    BY <1>5, RenamingSpares DEF Spares, SameFile, JournalTables
<1>7. Spares(named, admins, t)
  <2>1. IsFile(named) /\ t # "Users_SystemRoles"
    BY <1>6 DEF Spares, SameFile, JournalTables
  <2>. HIDE DEF named, copies
  <2>2. Spares(named, Insert(named, "Users_SystemRoles", copies), t)
    BY <2>1, InsertingSpares
  <2>. QED
    BY <2>2
<1>8. Spares(admins, lessUsers, t)
  <2>. HIDE DEF admins
  <2>. QED
    BY <1>7, DroppingSpares DEF Spares, SameFile, JournalTables
<1>9. Spares(lessUsers, less, t)
  <2>. HIDE DEF lessUsers
  <2>. QED
    BY <1>8, DroppingSpares DEF Spares, SameFile, JournalTables
<1>10. From1(d) = IF made.ok THEN less ELSE Fail(d)
  BY DEF From1, CopyAdmins
<1>11. t \in DOMAIN Created2
  BY DEF Created2, JournalTables
<1>. HIDE DEF put, aside, made, new, filled, named, admins, lessUsers, less
<1>12. Spares(made, named, t)
  BY <1>4, <1>5, <1>6, SparesIsTransitive
<1>13. Spares(made, less, t)
  BY <1>7, <1>8, <1>9, <1>12, SparesIsTransitive
<1>14. made.ok /\ From1(d) = less
  BY <1>10, FailingIsNotOk
<1>15. t \in DOMAIN made.tables /\ made.rows[t] = {}
  BY <1>3, <1>11, <1>14 DEF Creates
<1>. QED
  BY <1>13, <1>14, <1>15 DEF Spares, Shrinks

LEMMA ThirdMigrationFills ==
  ASSUME NEW d, IsFile(d), From3(d).ok, NEW t \in JournalTables,
         t \notin DOMAIN d.tables, t \in DOMAIN From3(d).tables
  PROVE  From3(d).rows[t] = {}
<1>. DEFINE made == CreateTables(d, Created4)
            typed == AddColumn(made, "Users_Sessions",
                               "authSourceCredentialTypeCode", {}, <<>>)
            new == AddColumn(typed, "Users_Sessions", "authSourceCredentialId",
                             {}, <<>>)
<1>1. SameFile(d, made) /\ (made.ok => d.ok /\ Creates(d, Created4, made))
  BY CreatingTables, CreatedAreTables DEF AreTables
<1>2. /\ SameFile(made, typed)
      /\ typed.ok => made.ok /\ AddsColumn(made, "Users_Sessions",
                       "authSourceCredentialTypeCode", {}, <<>>, typed)
  BY <1>1, AddingColumn DEF SameFile
<1>3. /\ SameFile(typed, new)
      /\ new.ok => typed.ok /\ AddsColumn(typed, "Users_Sessions",
                     "authSourceCredentialId", {}, <<>>, new)
  BY <1>2, AddingColumn DEF SameFile
<1>4. From3(d) = new
  BY DEF From3
<1>5. t # "Users_Sessions"
  BY DEF JournalTables
<1>. HIDE DEF made, typed, new
<1>. QED
  BY <1>1, <1>2, <1>3, <1>4, <1>5 DEF AddsColumn, Creates, Keeps

LEMMA MappedSetsAreFinite ==
  ASSUME NEW S, IsFiniteSet(S), NEW f, DOMAIN f = S
  PROVE  IsFiniteSet({f[x] : x \in S})
<1>. DEFINE T == {f[x] : x \in S}
            g == [x \in S |-> f[x]]
<1>1. g \in Surjection(S, T)
  BY DEF Surjection
<1>. QED
  BY <1>1, FS_Surjection

LEMMA EmptyTablesFit ==
  ASSUME NEW d, NEW t, d.rows[t] = {}
  PROVE  HasTexts(d, t) /\ HasNoFiles(d, t)
BY FS_EmptySet DEF HasTexts, HasNoFiles

\* The column that is renamed holds the texts that it held.
LEMMA MovedTexts ==
  ASSUME NEW d, NEW new, NEW t, HasTexts(d, t), HasNoFiles(d, t),
         NEW name \in fileColumns,
         new.rows[t] = {Moved(row, "journal", name) : row \in d.rows[t]}
  PROVE  HasTexts(new, t)
<1>. DEFINE moved == [row \in d.rows[t] |-> Moved(row, "journal", name)]
<1>1. IsFiniteSet(new.rows[t])
  <2>1. DOMAIN moved = d.rows[t] /\ new.rows[t] = {moved[row] : row \in d.rows[t]}
    OBVIOUS
  <2>2. IsFiniteSet(d.rows[t])
    BY DEF HasTexts
  <2>. HIDE DEF moved
  <2>3. IsFiniteSet({moved[row] : row \in d.rows[t]})
    BY <2>1, <2>2, MappedSetsAreFinite
  <2>. QED
    BY <2>1, <2>3
<1>2. "journal" \notin fileColumns
  BY DEF fileColumns
<1>3. ASSUME NEW row \in d.rows[t],
             NEW c \in DOMAIN Moved(row, "journal", name) \cap (fileColumns \cup {"journal"})
      PROVE  Moved(row, "journal", name)[c] # "none"
  <2>1. PICK old \in DOMAIN row : c = IF old = "journal" THEN name ELSE old
    BY <1>3 DEF Moved
  <2>2. DOMAIN row \cap fileColumns = {}
    BY DEF HasNoFiles
  <2>3. old = "journal" /\ c = name
    BY <1>2, <1>3, <2>1, <2>2
  <2>4. Moved(row, "journal", name)[c] = row["journal"]
    BY <1>3, <2>3 DEF Moved
  <2>. QED
    BY <2>3, <2>4 DEF HasTexts
<1>. QED
  BY <1>1, <1>3 DEF HasTexts

LEMMA SixthMigrationMoves ==
  ASSUME NEW d, IsFile(d), From6(d).ok, NEW t \in JournalTables
  PROVE  /\ t \in DOMAIN d.tables
         /\ \E name \in fileColumns :
              From6(d).rows[t] = {Moved(row, "journal", name) : row \in d.rows[t]}
<1>. DEFINE issues == RenameColumn(d, "Issues", "journal",
                                   "reusable-v7-issues-journal")
            projects == RenameColumn(issues, "Projects", "journal",
                                     "reusable-v7-projects-journal")
            new == CreateTables(projects, Created7)
<1>1. SameFile(d, issues)
      /\ (issues.ok => RenamesColumn(d, "Issues", "journal",
                                     "reusable-v7-issues-journal", issues))
  BY RenamingColumn
<1>2. SameFile(issues, projects)
      /\ (projects.ok => issues.ok /\ RenamesColumn(issues, "Projects", "journal",
                                        "reusable-v7-projects-journal", projects))
  BY <1>1, RenamingColumn DEF SameFile
<1>3. new.ok => projects.ok /\ Creates(projects, Created7, new)
  BY <1>2, CreatingTables, CreatedAreTables DEF SameFile, AreTables
<1>4. From6(d) = new
  BY DEF From6
<1>. HIDE DEF issues, projects, new
<1>5. CASE t = "Issues"
  <2>1. t \in DOMAIN d.tables
        /\ issues.rows[t] = {Moved(row, "journal", "reusable-v7-issues-journal") :
                               row \in d.rows[t]}
        /\ t \in DOMAIN issues.tables
    BY <1>1, <1>2, <1>3, <1>4, <1>5 DEF RenamesColumn
  <2>2. t \in DOMAIN projects.tables /\ projects.rows[t] = issues.rows[t]
    BY <1>2, <1>3, <1>4, <1>5, <2>1 DEF RenamesColumn, Keeps
  <2>3. new.rows[t] = projects.rows[t]
    BY <1>3, <1>4, <2>2 DEF Creates, Keeps
  <2>. QED
    BY <1>4, <2>1, <2>2, <2>3 DEF fileColumns
<1>6. CASE t = "Projects"
  <2>1. t \in DOMAIN issues.tables
        /\ projects.rows[t] = {Moved(row, "journal", "reusable-v7-projects-journal") :
                                 row \in issues.rows[t]}
        /\ t \in DOMAIN projects.tables
    BY <1>2, <1>3, <1>4, <1>6 DEF RenamesColumn
  <2>2. t \in DOMAIN d.tables /\ issues.rows[t] = d.rows[t]
    BY <1>1, <1>2, <1>3, <1>4, <1>6, <2>1 DEF RenamesColumn, Keeps
  <2>3. new.rows[t] = projects.rows[t]
    BY <1>3, <1>4, <2>1 DEF Creates, Keeps
  <2>. QED
    BY <1>4, <2>1, <2>2, <2>3 DEF fileColumns
<1>. QED
  BY <1>5, <1>6 DEF JournalTables

\* What the migrations between v2 and v6 do to projects and issues: nothing.
Carries(d, new) ==
  \A t \in JournalTables :
    IF t \in DOMAIN d.tables THEN Keeps(d, new, t)
    ELSE t \in DOMAIN new.tables => new.rows[t] = {}

LEMMA MigrationsCarry ==
  ASSUME NEW d, IsFile(d), NEW v \in 2..5, RunSql(v, d).ok
  PROVE  Carries(d, RunSql(v, d))
<1>1. CASE v = 2
  BY <1>1 DEF RunSql, From2, Carries, Keeps
<1>2. CASE v = 3
  <2>1. RunSql(v, d) = From3(d)
    BY <1>2 DEF RunSql
  <2>. QED
    BY <2>1, ThirdMigration, ThirdMigrationFills DEF Carries, JournalTables
<1>3. ASSUME NEW defs, NEW new, Creates(d, defs, new)
      PROVE  Carries(d, new)
  BY <1>3 DEF Creates, Carries
<1>4. CASE v = 4
  <2>1. RunSql(v, d) = From4(d)
    BY <1>4 DEF RunSql
  <2>. QED
    BY <1>3, <2>1, CreatingMigrations
<1>5. CASE v = 5
  <2>1. RunSql(v, d) = From5(d)
    BY <1>5 DEF RunSql
  <2>. QED
    BY <1>3, <2>1, CreatingMigrations
<1>. QED
  BY <1>1, <1>2, <1>4, <1>5

LEMMA MigratingTexts ==
  ASSUME NEW d, IsFile(d), NEW v \in 1..10, d.schemaName = v,
         TextsFit(d), RunSql(v, d).ok
  PROVE  /\ TextsFit(Migrated(d, v))
         /\ v \in 1..5 => journalsIn(d) \subseteq journalsIn(Migrated(d, v))
<1>. DEFINE sql == RunSql(v, d)
            new == Migrated(d, v)
<1>. SUFFICES /\ TextsFit(new)
              /\ v \in 1..5 => journalsIn(d) \subseteq journalsIn(new)
  OBVIOUS
<1>1. SameFile(d, sql) /\ sql.ok
  BY MigrationsKeepTheFile
<1>2. new = [sql EXCEPT !.schemaName = v + 1, !.preparedFor = Unset,
                        !.applied = @ \cup {v}]
  BY DEF Migrated
<1>3. /\ v = 1 => sql = From1(d)
      /\ v = 6 => sql = From6(d)
  <2>1. ASSUME v = 1 PROVE RunSql(v, d) = From1(d)
    BY <2>1 DEF RunSql
  <2>2. ASSUME v = 6 PROVE RunSql(v, d) = From6(d)
    BY <2>2 DEF RunSql
  <2>. QED
    BY <2>1, <2>2
<1>4. v \in 2..5 => Carries(d, sql)
  BY MigrationsCarry
<1>. HIDE DEF new, sql
<1>5. new.schemaName = v + 1 /\ new.tables = sql.tables /\ new.rows = sql.rows
  BY <1>1, <1>2 DEF SameFile, IsFile
<1>6. CASE v = 1
  <2>1. \A t \in JournalTables : t \in DOMAIN new.tables => new.rows[t] = {}
    BY <1>1, <1>3, <1>5, <1>6, FirstMigrationFills
  <2>2. TextsFit(new)
    BY <2>1, EmptyTablesFit DEF TextsFit
  <2>3. "Projects" \notin DOMAIN d.tables /\ "Issues" \notin DOMAIN d.tables
    BY <1>1, <1>3, <1>6, FirstMigration
  <2>4. journalsIn(d) = {}
    BY <2>3 DEF IsFile, journalsIn, rowsOf
  <2>. QED
    BY <2>2, <2>4
<1>7. CASE v \in 2..5
  <2>1. Carries(d, new)
    BY <1>4, <1>5, <1>7 DEF Carries, Keeps
  <2>2. \A t \in JournalTables : HasTexts(d, t) /\ d.rows[t] = new.rows[t]
                                   => HasTexts(new, t)
    BY DEF HasTexts
  <2>3. \A t \in JournalTables : HasNoFiles(d, t) /\ d.rows[t] = new.rows[t]
                                   => HasNoFiles(new, t)
    BY DEF HasNoFiles
  <2>4. TextsFit(new)
    BY <1>7, <2>1, <2>2, <2>3, EmptyTablesFit DEF TextsFit, Carries, Keeps
  <2>5. DOMAIN new.rows = DOMAIN new.tables /\ DOMAIN d.rows = DOMAIN d.tables
    BY <1>1, <1>5 DEF SameFile, IsFile
  <2>6. \A t \in JournalTables : journalsOf(d, t) \subseteq journalsOf(new, t)
    BY <2>1, <2>5 DEF Carries, Keeps, journalsOf, rowsOf
  <2>. QED
    BY <2>4, <2>6, JournalsOfBoth DEF JournalTables
<1>8. CASE v = 6
  <2>. SUFFICES ASSUME NEW t \in JournalTables \cap DOMAIN new.tables
                PROVE  HasTexts(new, t)
    BY <1>5, <1>8 DEF TextsFit
  <2>1. t \in DOMAIN d.tables
        /\ \E name \in fileColumns :
             new.rows[t] = {Moved(row, "journal", name) : row \in d.rows[t]}
    BY <1>1, <1>3, <1>5, <1>8, SixthMigrationMoves
  <2>2. HasTexts(d, t) /\ HasNoFiles(d, t)
    BY <1>8, <2>1 DEF TextsFit
  <2>. QED
    BY <2>1, <2>2, MovedTexts
<1>9. CASE v > 6
  BY <1>5, <1>9 DEF TextsFit
<1>. QED
  BY <1>6, <1>7, <1>8, <1>9

LEMMA TextsAreHeld ==
  ASSUME NEW rows, holdsTexts(rows), NEW d, IsFile(d), NEW t \in JournalTables,
         t \in DOMAIN d.tables,
         d.rows[t] = IF t \in DOMAIN rows THEN rows[t] ELSE {}
  PROVE  HasTexts(d, t) /\ journalsOf(d, t) \subseteq JournalKeys
<1>1. CASE t \in DOMAIN rows
  BY <1>1 DEF holdsTexts, HasTexts, journalsOf, rowsOf, JournalTables
<1>2. CASE t \notin DOMAIN rows
  BY <1>2, EmptyTablesFit DEF journalsOf, rowsOf, IsFile
<1>. QED
  BY <1>1, <1>2

LEMMA StartingTextsFit ==
  ASSUME NEW d \in startDatabases
  PROVE  TextsFit(d) /\ journalsIn(d) \subseteq JournalKeys
<1>. DEFINE Holds(tables, rows) ==
       /\ d.tables = tables
       /\ \A t \in DOMAIN tables :
            d.rows[t] = IF t \in DOMAIN rows THEN rows[t] ELSE {}
<1>1. ASSUME NEW tables, NEW rows, Holds(tables, rows), holdsTexts(rows),
             d.schemaName \in 1..6 =>
               \A t \in JournalTables \cap DOMAIN rows :
                 \A row \in rows[t] : DOMAIN row \cap fileColumns = {}
      PROVE  TextsFit(d) /\ journalsIn(d) \subseteq JournalKeys
  <2>0. IsFile(d)
    BY StartsFit
  <2>1. \A t \in JournalTables \cap DOMAIN d.tables :
          HasTexts(d, t) /\ journalsOf(d, t) \subseteq JournalKeys
    BY <1>1, <2>0, TextsAreHeld
  <2>2. \A t \in JournalTables \cap DOMAIN d.tables :
          d.schemaName \in 1..6 => HasNoFiles(d, t)
    BY <1>1 DEF HasNoFiles
  <2>3. \A t \in JournalTables \ DOMAIN d.tables : journalsOf(d, t) = {}
    BY <2>0 DEF journalsOf, rowsOf, IsFile
  <2>. QED
    BY <2>1, <2>2, <2>3, JournalsOfBoth DEF TextsFit, JournalTables
<1>2. CASE d \in {newDatabase(v, Declared(v), Fixture[v]) : v \in StartVersions}
  <2>1. PICK v \in StartVersions : d = newDatabase(v, Declared(v), Fixture[v])
    BY <1>2
  <2>2. AreTables(Declared(v))
    BY VersionsExist, SnapshotsAreTables
  <2>3. d.schemaName = v /\ Holds(Declared(v), Fixture[v])
    BY <2>1, <2>2, NewDatabases
  <2>4. v \in 1..6 => \A t \in JournalTables \cap DOMAIN Fixture[v] :
                        \A row \in Fixture[v][t] : DOMAIN row \cap fileColumns = {}
    BY JournalsAreTexts DEF JournalTables
  <2>. HIDE DEF Holds
  <2>. QED
    BY <1>1, <2>3, <2>4, JournalsAreTexts
<1>3. CASE d \in {newDatabase(9, tables, rows) :
                     tables \in legacyTables, rows \in LegacyFixture}
  <2>1. PICK tables \in legacyTables, rows \in LegacyFixture :
          d = newDatabase(9, tables, rows)
    BY <1>3
  <2>2. AreTables(tables)
    BY LegacyTables
  <2>3. d.schemaName = 9 /\ Holds(tables, rows)
    BY <2>1, <2>2, NewDatabases
  <2>. HIDE DEF Holds
  <2>. QED
    BY <1>1, <2>3, JournalsAreTexts
<1>. QED
  BY <1>2, <1>3 DEF startDatabases

LEMMA CreatingTexts ==
  ASSUME NEW v \in NewVersions, NEW d,
         \/ d = newDatabase(v, Declared(v), <<>>)
         \/ \E tables \in {<<>>, Declared(v)} : d = newDatabase(Unset, tables, <<>>)
  PROVE  TextsFit(d) /\ journalsIn(d) = {} /\ IsFile(d)
<1>1. AreTables(Declared(v)) /\ AreTables(<<>>)
  BY VersionsExist, SnapshotsAreTables DEF AreTables
<1>2. PICK w \in {v, Unset}, tables \in {<<>>, Declared(v)} :
        d = newDatabase(w, tables, <<>>)
  OBVIOUS
<1>3. AreTables(tables)
  BY <1>1
<1>4. IsFile(d) /\ d.tables = tables /\ \A t \in DOMAIN tables : d.rows[t] = {}
  BY <1>2, <1>3, EmptyDatabases
<1>5. TextsFit(d)
  BY <1>4, EmptyTablesFit DEF TextsFit
<1>6. \A t : rowsOf(d, t) = {}
  BY <1>4 DEF rowsOf, IsFile
<1>7. journalsIn(d) = {}
  BY <1>6 DEF journalsIn
<1>. QED
  BY <1>4, <1>5, <1>7

LEMMA JournalsInit == UpgradeInit => JournalsInv
<1>. SUFFICES ASSUME UpgradeInit PROVE JournalsInv
  OBVIOUS
<1>1. PICK d \in startDatabases :
        /\ databases = [t \in Targets |-> IF t = "prod" THEN d ELSE Missing]
        /\ origins = databases
        /\ journals = [k \in JournalKeys |->
                         IF d.schemaName < 7 THEN "none" ELSE "kept"]
        /\ attempts = [o \in Operators |-> atRest]
  BY DEF UpgradeInit
<1>2. TextsFit(d) /\ journalsIn(d) \subseteq JournalKeys
  BY StartingTextsFit
<1>3. TextsFit(Missing)
  BY DEF TextsFit, Missing
<1>4. databases["prod"] = d /\ origins["prod"] = d
  BY <1>1 DEF Targets
<1>5. \A t \in Targets : TextsFit(databases[t])
  BY <1>1, <1>2, <1>3
<1>6. d.schemaName \in Versions
  BY StartsFit
<1>7. JournalsAreKept
  BY <1>1, <1>2, <1>4, <1>6 DEF JournalsAreKept, OriginJournals, Versions
<1>8. \A o \in Operators : attempts[o].files = <<>> /\ ~at(o, "hook")
  BY <1>1 DEF at, atRest
<1>9. FilesAreTexts(<<>>)
  <2>. DEFINE S == {<<"path", "text">>}
  <2>1. \A file \in S : file[2] # "none"
    OBVIOUS
  <2>. HIDE DEF S
  <2>2. <<>> \in Seq(S)
    OBVIOUS
  <2>. QED
    BY <2>1, <2>2 DEF FilesAreTexts
<1>. QED
  BY <1>5, <1>7, <1>8, <1>9 DEF JournalsInv

\* What a hook reads is a text for every journal of the table.
LEMMA ExportsAreTexts ==
  ASSUME NEW d, NEW v \in {6, 7}, NEW t \in JournalTables, HasTexts(d, t),
         DOMAIN d.rows = DOMAIN d.tables, t \in DOMAIN d.tables
  PROVE  LET list == SetToSeq(exports(d, v, t))
         IN  /\ FilesAreTexts(list)
             /\ v = 6 => \A k \in journalsOf(d, t) :
                           \E n \in DOMAIN list : list[n][1] = k
<1>. DEFINE c == journalColumn(v, t)
            rows == {r \in d.rows[t] : c \in DOMAIN r}
            export == [row \in rows |-> <<pathOf(t, row), row[c]>>]
            S == exports(d, v, t)
            list == SetToSeq(S)
<1>1. c \in fileColumns \cup {"journal"} /\ (v = 6 => c = "journal")
  BY DEF journalColumn, fileColumns, JournalTables
<1>. HIDE DEF c
<1>2. S = {export[row] : row \in rows}
  BY DEF exports, c
<1>3. IsFiniteSet(rows)
  BY FS_Subset DEF HasTexts
<1>4. IsFiniteSet(S)
  <2>1. DOMAIN export = rows
    OBVIOUS
  <2>. HIDE DEF rows, export, S
  <2>. QED
    BY <1>2, <1>3, <2>1, MappedSetsAreFinite
<1>5. ASSUME NEW file \in S
      PROVE  file[2] # "none"
  <2>1. PICK row \in rows : file = export[row]
    BY <1>2
  <2>2. row \in d.rows[t] /\ c \in DOMAIN row /\ file[2] = row[c]
    BY <2>1
  <2>. QED
    BY <1>1, <2>2 DEF HasTexts
<1>6. v = 6 => \A k \in journalsOf(d, t) : \E file \in S : file[1] = k
  <2>. SUFFICES ASSUME v = 6, NEW k \in journalsOf(d, t)
                PROVE  \E file \in S : file[1] = k
    OBVIOUS
  <2>1. PICK row \in d.rows[t] : "journal" \in DOMAIN row /\ k = pathOf(t, row)
    BY DEF journalsOf, rowsOf
  <2>2. row \in rows
    BY <1>1, <2>1
  <2>3. export[row] \in S /\ export[row][1] = k
    BY <1>2, <2>1, <2>2
  <2>. QED
    BY <2>3
<1>. HIDE DEF S, export, rows
<1>7. /\ Cardinality(S) \in Nat /\ list \in [1 .. Cardinality(S) -> S]
      /\ \A x \in S : \E n \in 1 .. Cardinality(S) : list[n] = x
  BY <1>4, SetsAreListed
<1>. HIDE DEF list
<1>8. list \in Seq(S)
  BY <1>7
<1>9. FilesAreTexts(list)
  BY <1>5, <1>8 DEF FilesAreTexts
<1>10. DOMAIN list = 1 .. Cardinality(S)
  BY <1>7
<1>11. v = 6 => \A k \in journalsOf(d, t) : \E n \in DOMAIN list : list[n][1] = k
  BY <1>6, <1>7, <1>10
<1>. QED
  BY <1>9, <1>11 DEF list, S

LEMMA JournalsNext ==
  OneOperator /\ Inv1 /\ JournalsInv /\ [UpgradeNext]_upgradeVars => JournalsInv'
<1>. SUFFICES ASSUME OneOperator, Inv1, JournalsInv, [UpgradeNext]_upgradeVars
              PROVE  JournalsInv'
  OBVIOUS
<1>1. CASE UNCHANGED upgradeVars
  BY <1>1 DEF JournalsInv, upgradeVars, JournalsAreKept, OriginJournals,
     ExportsAreKept, IsExported, at
<1>2. ASSUME NEW k \in JournalKeys, EditJournal(k)
      PROVE  JournalsInv'
  <2>1. /\ DOMAIN journals' = DOMAIN journals
        /\ \A p \in JournalKeys : journals[p] # "none" => journals'[p] # "none"
    BY <1>2 DEF EditJournal, JournalsInv, JournalsAreKept
  <2>2. UNCHANGED <<databases, attempts, origins>>
    BY <1>2 DEF EditJournal
  <2>. QED
    BY <2>1, <2>2 DEF JournalsInv, JournalsAreKept, OriginJournals,
       ExportsAreKept, IsExported, at
\* The databases are as they were, and no file is written.
<1>3. ASSUME NEW o \in Operators, NEW a, become(o, a),
             UNCHANGED <<databases, origins, journals>>,
             FilesAreTexts(a.files),
             a.step = "hook" /\ a.target = "prod" /\ a.from = 6 => ExportsAreKept(a)
      PROVE  JournalsInv'
  <2>1. \A p \in Operators : attempts'[p] = a
    BY <1>3, Becoming DEF Inv1
  <2>2. JournalsAreKept'
    BY <1>3 DEF JournalsInv, JournalsAreKept, OriginJournals
  <2>3. ExportsAreKept(a) => ExportsAreKept(a)'
    BY <1>3 DEF ExportsAreKept, IsExported
  <2>. QED
    BY <1>3, <2>1, <2>2, <2>3 DEF JournalsInv, at
<1>4. atRest.step = "idle" /\ FilesAreTexts(atRest.files)
  <2>1. atRest.step = "idle" /\ atRest.files = <<>>
    BY DEF atRest
  <2>. DEFINE S == {<<"path", "text">>}
  <2>2. \A file \in S : file[2] # "none"
    OBVIOUS
  <2>. HIDE DEF S
  <2>3. <<>> \in Seq(S)
    OBVIOUS
  <2>. QED
    BY <2>1, <2>2, <2>3 DEF FilesAreTexts
<1>5. ASSUME NEW o \in Operators, NEW t \in Targets, NEW v \in 1..10,
             StartMigration(o, t, v)
      PROVE  JournalsInv'
  <2>. DEFINE a == [atRest EXCEPT !.step = "open", !.target = t, !.from = v]
  <2>1. \A p \in Operators : attempts'[p] = a
    BY <1>5, Becoming DEF Inv1, StartMigration
  <2>2. a.step = "open" /\ a.files = atRest.files
    BY DEF atRest
  <2>3. \A u \in Targets : \E w \in Targets : databases'[u] = databases[w]
    BY <1>5 DEF StartMigration, CopyProduction, Inv1, DatabasesFit, Targets
  <2>4. /\ databases'["prod"] = databases["prod"] /\ origins'["prod"] = origins["prod"]
        /\ journals' = journals
    BY <1>5 DEF StartMigration, CopyProduction, Inv1, DatabasesFit, Targets
  <2>5. JournalsAreKept'
    BY <2>4 DEF JournalsInv, JournalsAreKept, OriginJournals
  <2>. HIDE DEF a
  <2>. QED
    BY <1>4, <2>1, <2>2, <2>3, <2>5 DEF JournalsInv, at
<1>6. ASSUME NEW o \in Operators, OpenDatabase(o)
      PROVE  JournalsInv'
  <2>. DEFINE a == [attempts[o] EXCEPT !.step = "hook",
                                       !.hook = hookOf(attempts[o].from)]
  <2>1. IsAttempt(attempts[o])
    BY DEF Inv1, AttemptsFit
  <2>2. /\ a.from = attempts[o].from /\ a.hook = hookOf(attempts[o].from)
        /\ a.files = attempts[o].files
    BY <2>1 DEF IsAttempt
  <2>3. a.from = 6 => ExportsAreKept(a)
    <3>1. <<"Projects", "Issues">> # <<>>
      OBVIOUS
    <3>2. a.from = 6 => a.hook = <<"Projects", "Issues">>
      BY <2>2 DEF hookOf
    <3>. HIDE DEF a
    <3>. QED
      BY <3>1, <3>2 DEF ExportsAreKept
  <2>4. become(o, a) \/ become(o, atRest)
    BY <1>6 DEF OpenDatabase, end
  <2>5. UNCHANGED <<databases, origins, journals>>
    BY <1>6 DEF OpenDatabase
  <2>6. FilesAreTexts(a.files)
    BY <2>2 DEF JournalsInv
  <2>. HIDE DEF a
  <2>. QED
    BY <1>3, <1>4, <2>3, <2>4, <2>5, <2>6
<1>7. ASSUME NEW o \in Operators, ReadJournals(o)
      PROVE  JournalsInv'
  <2>. DEFINE v == attempts[o].from
              t == Head(attempts[o].hook)
              d == database(o)
              list == SetToSeq(exports(d, v, t))
              a == [attempts[o] EXCEPT !.hook = Tail(@), !.files = list]
  <2>1. /\ IsAttempt(attempts[o]) /\ v \in {6, 7} /\ at(o, "hook")
        /\ attempts[o].hook # <<>> /\ attempts[o].files = <<>>
        /\ UNCHANGED <<databases, origins, journals>>
        /\ \/ HasColumn(d, t, journalColumn(v, t)) /\ become(o, a)
           \/ become(o, atRest)
    BY <1>7 DEF Inv1, AttemptsFit, ReadJournals, end
  <2>2. attempts[o].hook \in ExportsLeft \ {<<>>}
    BY <2>1 DEF IsAttempt, HooksLeft
  <2>3. t \in JournalTables
    BY <2>2, HeadsAndTails DEF JournalTables
  <2>4. d.schemaName = v /\ IsFile(d) /\ TextsFit(d)
    BY <2>1 DEF Inv1, HooksFindTheirVersion, DatabasesFit, JournalsInv, database,
       IsAttempt
  <2>5. CASE HasColumn(d, t, journalColumn(v, t)) /\ become(o, a)
    <3>1. t \in DOMAIN d.tables /\ HasTexts(d, t) /\ DOMAIN d.rows = DOMAIN d.tables
      BY <2>1, <2>3, <2>4, <2>5 DEF HasColumn, Has, TextsFit, IsFile
    <3>. HIDE DEF list
    <3>2. a.target = attempts[o].target /\ a.from = v /\ a.files = list
          /\ a.hook = Tail(attempts[o].hook)
      BY <2>1 DEF IsAttempt
    <3>. HIDE DEF t, v
    <3>3. /\ FilesAreTexts(list)
          /\ v = 6 => \A k \in journalsOf(d, t) : \E n \in DOMAIN list : list[n][1] = k
      BY <2>1, <2>3, <3>1, ExportsAreTexts DEF list
    <3>. HIDE DEF a
    <3>4. ASSUME a.target = "prod", a.from = 6
          PROVE  ExportsAreKept(a)
      <4>1. v = 6 /\ d = databases["prod"]
        BY <3>2, <3>4 DEF database
      <4>2. \A k : k \in journalsOf(databases["prod"], t) => IsExported(k, a.files)
        BY <3>2, <3>3, <4>1 DEF IsExported
      <4>3. CASE attempts[o].hook = <<"Projects", "Issues">>
        <5>1. t = "Projects" /\ a.hook = <<"Issues">> /\ <<"Issues">> # <<>>
          BY <3>2, <4>3 DEF t
        <5>. QED
          BY <4>2, <5>1 DEF ExportsAreKept
      <4>4. CASE attempts[o].hook = <<"Issues">>
        <5>1. t = "Issues" /\ <<"Issues">> # <<"Projects", "Issues">>
          BY <4>4 DEF t
        <5>2. ExportsAreKept(attempts[o])
          BY <2>1, <3>2, <3>4 DEF JournalsInv, v
        <5>3. \A k \in JournalKeys : k \in journalsOf(databases["prod"], "Projects")
                => IsExported(k, <<>>)
          BY <2>1, <4>4, <5>1, <5>2 DEF ExportsAreKept
        <5>4. \A k : IsExported(k, <<>>) => IsExported(k, a.files)
          BY DEF IsExported
        <5>. QED
          BY <4>2, <5>1, <5>3, <5>4 DEF ExportsAreKept
      <4>. QED
        BY <2>2, <4>3, <4>4 DEF ExportsLeft
    <3>. QED
      BY <1>3, <2>1, <2>5, <3>2, <3>3, <3>4
  <2>6. CASE become(o, atRest)
    BY <1>3, <1>4, <2>1, <2>6
  <2>. QED
    BY <2>1, <2>5, <2>6
<1>8. ASSUME NEW o \in Operators, WriteJournalFile(o)
      PROVE  JournalsInv'
  <2>. DEFINE list == attempts[o].files
              a == [attempts[o] EXCEPT !.files = Tail(@)]
              file == Head(list)
  <2>1. /\ IsAttempt(attempts[o]) /\ at(o, "hook") /\ list # <<>>
        /\ journals' = [journals EXCEPT ![file[1]] = file[2]]
        /\ become(o, a) /\ UNCHANGED <<databases, origins>>
    BY <1>8 DEF Inv1, AttemptsFit, WriteJournalFile
  <2>2. PICK S : list \in Seq(S) /\ \A text \in S : text[2] # "none"
    BY DEF JournalsInv, FilesAreTexts
  <2>3. a.target = attempts[o].target /\ a.from = attempts[o].from
        /\ a.hook = attempts[o].hook /\ a.files = Tail(list)
    BY <2>1 DEF IsAttempt
  <2>. HIDE DEF list, a
  <2>4. file \in S /\ Tail(list) \in Seq(S) /\ DOMAIN list = 1..Len(list)
        /\ Len(list) \in Nat \ {0} /\ file = list[1]
        /\ DOMAIN Tail(list) = 1..(Len(list) - 1)
        /\ \A n \in 1..(Len(list) - 1) : Tail(list)[n] = list[n + 1]
    BY <2>1, <2>2
  <2>. HIDE DEF file
  <2>5. file[2] # "none" /\ FilesAreTexts(Tail(list))
    BY <2>2, <2>4 DEF FilesAreTexts
  <2>6. /\ DOMAIN journals = JournalKeys /\ DOMAIN journals' = JournalKeys
        /\ \A k \in JournalKeys : k = file[1] \/ journals[k] # "none"
             => journals'[k] # "none"
    BY <2>1, <2>5 DEF JournalsInv, JournalsAreKept
  <2>7. PICK rest, b : rest = Tail(list) /\ b = a
    OBVIOUS
  <2>8. \A k \in JournalKeys : IsExported(k, list) => IsExported(k, rest)'
    <3>. SUFFICES ASSUME NEW k \in JournalKeys, IsExported(k, list)
                  PROVE  \/ journals'[k] # "none"
                         \/ \E n \in DOMAIN rest : rest[n][1] = k
      BY DEF IsExported
    <3>1. CASE journals[k] # "none"
      BY <2>6, <3>1
    <3>2. ASSUME NEW n \in DOMAIN list, list[n][1] = k
          PROVE  \/ journals'[k] # "none"
                 \/ \E m \in DOMAIN rest : rest[m][1] = k
      <4>1. CASE n = 1
        BY <2>4, <2>6, <3>2, <4>1
      <4>2. CASE n # 1
        <5>1. n - 1 \in 1..(Len(list) - 1) /\ (n - 1) + 1 = n
          BY <2>4, <4>2
        <5>2. rest[n - 1] = list[n] /\ n - 1 \in DOMAIN rest
          BY <2>4, <2>7, <5>1
        <5>. QED
          BY <3>2, <5>2
      <4>. QED
        BY <4>1, <4>2
    <3>. QED
      BY <3>1, <3>2 DEF IsExported
  <2>9. \A p \in Operators : p = o /\ attempts'[p] = b
    BY <2>1, <2>7, Becoming DEF Inv1
  <2>10. JournalsAreKept'
    BY <2>1, <2>6 DEF JournalsInv, JournalsAreKept, OriginJournals
  <2>11. b.target = "prod" /\ b.from = 6 => ExportsAreKept(b)'
    <3>. SUFFICES ASSUME b.target = "prod", b.from = 6 PROVE ExportsAreKept(b)'
      OBVIOUS
    <3>1. ExportsAreKept(attempts[o])
      BY <2>1, <2>3, <2>7 DEF JournalsInv
    <3>2. databases' = databases
      BY <2>1
    <3>3. b.hook = attempts[o].hook /\ b.files = rest
      BY <2>3, <2>7
    <3>. QED
      BY <2>8, <3>1, <3>2, <3>3 DEF ExportsAreKept, list
  <2>12. FilesAreTexts(b.files) /\ \A t \in Targets : TextsFit(databases'[t])
    BY <2>1, <2>3, <2>5, <2>7 DEF JournalsInv
  <2>. QED
    BY <2>9, <2>10, <2>11, <2>12 DEF JournalsInv
<1>9. ASSUME NEW o \in Operators, Repair(o)
      PROVE  JournalsInv'
  <2>. DEFINE a == attempts[o]
              d == database(o)
              new == RepairStep(Head(a.hook), d)
              b == [a EXCEPT !.hook = Tail(@)]
  <2>1. /\ IsAttempt(a) /\ a.from = 9 /\ at(o, "hook")
        /\ b.target = a.target /\ b.from = 9
        /\ SameFile(d, new)
        /\ \/ commit(o, new) /\ become(o, b)
           \/ databases' = databases /\ become(o, atRest)
        /\ origins' = origins /\ journals' = journals
    BY <1>9, RepairsOne DEF Inv1, at
  <2>2. d.schemaName = 9 /\ a.target \in Targets /\ d = databases[a.target]
    BY <2>1 DEF Inv1, HooksFindTheirVersion, IsAttempt, database
  <2>3. FilesAreTexts(b.files)
    BY <2>1 DEF JournalsInv, IsAttempt
  <2>. HIDE DEF new, b, d
  <2>4. CASE commit(o, new) /\ become(o, b)
    <3>1. \A p \in Operators : attempts'[p] = b
      BY <2>4, Becoming DEF Inv1
    <3>2. /\ databases'[a.target] = new
          /\ \A t \in Targets \ {a.target} : databases'[t] = databases[t]
      BY <2>4, Committing DEF Inv1
    <3>3. new.schemaName = 9
      BY <2>1, <2>2 DEF SameFile
    <3>4. \A t \in Targets : TextsFit(databases'[t])
      BY <3>2, <3>3 DEF JournalsInv, TextsFit
    <3>5. databases'["prod"].schemaName = databases["prod"].schemaName
          /\ (databases["prod"].schemaName # 9 => databases'["prod"] = databases["prod"])
      BY <2>2, <3>2, <3>3 DEF Targets
    <3>6. JournalsAreKept'
      BY <2>1, <3>5 DEF JournalsInv, JournalsAreKept, OriginJournals
    <3>. QED
      BY <2>1, <2>3, <3>1, <3>4, <3>6 DEF JournalsInv, at
  <2>5. CASE databases' = databases /\ become(o, atRest)
    BY <1>3, <1>4, <2>1, <2>5
  <2>. QED
    BY <2>1, <2>4, <2>5
<1>10. ASSUME NEW o \in Operators, RunMigration(o)
       PROVE  JournalsInv'
  <2>. DEFINE a == attempts[o]
              v == a.from
              d == database(o)
              new == Migrated(d, v)
  <2>1. /\ IsAttempt(a) /\ at(o, "hook") /\ v \in 1..10
        /\ a.hook = <<>> /\ a.files = <<>> /\ IsFile(d)
        /\ new.schemaName = v + 1
        /\ \/ RunSql(v, d).ok /\ commit(o, new)
           \/ databases' = databases
        /\ become(o, atRest) /\ origins' = origins /\ journals' = journals
    BY <1>10, RunsOne DEF Inv1, at
  <2>2. d.schemaName = v /\ TextsFit(d) /\ a.target \in Targets
        /\ d = databases[a.target]
    BY <2>1 DEF Inv1, HooksFindTheirVersion, JournalsInv, IsAttempt, database
  <2>3. RunSql(v, d).ok =>
          /\ TextsFit(new)
          /\ v \in 1..5 => journalsIn(d) \subseteq journalsIn(new)
    BY <2>1, <2>2, MigratingTexts
  <2>4. a.target = "prod" /\ v = 6 =>
          \A k \in JournalKeys : k \in journalsIn(databases["prod"]) => journals[k] # "none"
    <3>. SUFFICES ASSUME a.target = "prod", v = 6, NEW k \in JournalKeys,
                         k \in journalsIn(databases["prod"])
                  PROVE  journals[k] # "none"
      OBVIOUS
    <3>1. ExportsAreKept(a)
      BY <2>1 DEF JournalsInv
    <3>2. <<>> # <<"Projects", "Issues">>
      OBVIOUS
    <3>3. IsExported(k, <<>>)
      BY <2>1, <3>1, <3>2, JournalsOfBoth DEF ExportsAreKept
    <3>. QED
      BY <3>3 DEF IsExported
  <2>. HIDE DEF new, d
  <2>5. CASE RunSql(v, d).ok /\ commit(o, new)
    <3>1. \A p \in Operators : attempts'[p] = atRest
      BY <2>1, Becoming DEF Inv1
    <3>2. /\ databases'[a.target] = new
          /\ \A t \in Targets \ {a.target} : databases'[t] = databases[t]
      BY <2>5, Committing DEF Inv1
    <3>3. \A t \in Targets : TextsFit(databases'[t])
      BY <2>3, <2>5, <3>2 DEF JournalsInv
    <3>4. JournalsAreKept'
      <4>1. CASE a.target = "prod"
        <5>1. databases'["prod"] = new /\ d = databases["prod"]
          BY <2>2, <3>2, <4>1
        <5>2. OriginJournals' = OriginJournals
          BY <2>1 DEF OriginJournals
        <5>3. CASE v \in 1..5
          BY <2>1, <2>2, <2>3, <2>5, <5>1, <5>2, <5>3 DEF JournalsInv, JournalsAreKept
        <5>4. CASE v = 6
          BY <2>1, <2>2, <2>4, <4>1, <5>1, <5>2, <5>4 DEF JournalsInv, JournalsAreKept
        <5>5. CASE v \in 7..10
          BY <2>1, <2>2, <5>1, <5>2, <5>5 DEF JournalsInv, JournalsAreKept
        <5>. QED
          BY <2>1, <5>3, <5>4, <5>5
      <4>2. CASE a.target # "prod"
        <5>1. databases'["prod"] = databases["prod"]
          BY <3>2, <4>2 DEF Targets
        <5>. QED
          BY <2>1, <5>1 DEF JournalsInv, JournalsAreKept, OriginJournals
      <4>. QED
        BY <4>1, <4>2
    <3>. QED
      BY <1>4, <3>1, <3>3, <3>4 DEF JournalsInv, at
  <2>6. CASE databases' = databases
    BY <1>3, <1>4, <2>1, <2>6
  <2>. QED
    BY <2>1, <2>5, <2>6
<1>11. ASSUME NEW o \in Operators, MigrationFails(o)
       PROVE  JournalsInv'
  BY <1>3, <1>4, <1>11 DEF MigrationFails, end
<1>12. ASSUME NEW o \in Operators, at(o, "idle"), NEW d, create(d),
              TextsFit(d), journalsIn(d) = {}
       PROVE  JournalsInv'
  <2>1. \A p \in Operators : ~at(p, "hook")'
    BY <1>12 DEF OneOperator, create, at
  <2>2. /\ databases'["prod"] = d /\ databases'["proddev"] = databases["proddev"]
        /\ origins'["prod"] = d /\ journals' = journals /\ attempts' = attempts
    BY <1>12 DEF create, Inv1, DatabasesFit, Targets
  <2>3. JournalsAreKept'
    BY <1>12, <2>2 DEF JournalsInv, JournalsAreKept, OriginJournals
  <2>. QED
    BY <1>12, <2>1, <2>2, <2>3 DEF JournalsInv, Targets
<1>13. ASSUME NEW o \in Operators, NEW v \in NewVersions,
              CreateFromSchema(o, v) \/ CreationInterrupted(o, v)
       PROVE  JournalsInv'
  BY <1>12, <1>13, CreatingTexts DEF CreateFromSchema, CreationInterrupted
<1>14. ASSUME NEW o \in Operators, NEW t \in Targets, NEW v \in Versions,
              PrepareDatabase(o, t, v)
       PROVE  JournalsInv'
  <2>. DEFINE d == databases[t]
              new == [EnsureReferenceData(v, d) EXCEPT !.preparedFor = v]
  <2>1. IsFile(d) /\ TextsFit(d)
    BY DEF Inv1, DatabasesFit, JournalsInv
  <2>2. /\ EnsureReferenceData(v, d).ok /\ at(o, "idle")
        /\ databases' = [databases EXCEPT ![t] = new]
        /\ UNCHANGED <<journals, attempts, origins>>
    BY <1>14 DEF PrepareDatabase
  <2>3. /\ IsFile(new) /\ new.tables = d.tables
        /\ new.schemaName = d.schemaName
        /\ \A u \in JournalTables \cap DOMAIN d.tables : new.rows[u] = d.rows[u]
    BY <2>1, <2>2, PreparingSpares DEF ToldTables, IdentifiedTables, JournalTables
  <2>. HIDE DEF new
  <2>4. TextsFit(new)
    BY <2>1, <2>3 DEF TextsFit, HasTexts, HasNoFiles
  <2>5. journalsIn(new) = journalsIn(d)
    <3>1. \A u \in JournalTables : rowsOf(new, u) = rowsOf(d, u)
      BY <2>1, <2>3 DEF rowsOf, IsFile
    <3>. QED
      BY <3>1 DEF journalsIn, JournalTables
  <2>6. /\ DOMAIN databases' = Targets /\ databases'[t] = new
        /\ \A u \in Targets \ {t} : databases'[u] = databases[u]
    BY <2>2 DEF Inv1, DatabasesFit
  <2>7. \A p \in Operators : ~at(p, "hook")'
    BY <2>2 DEF OneOperator, at
  <2>8. /\ databases'["prod"].schemaName = databases["prod"].schemaName
        /\ journalsIn(databases'["prod"]) = journalsIn(databases["prod"])
    BY <2>3, <2>5, <2>6 DEF Targets
  <2>9. JournalsAreKept'
    BY <2>2, <2>8 DEF JournalsInv, JournalsAreKept, OriginJournals
  <2>. QED
    BY <2>2, <2>4, <2>6, <2>7, <2>9 DEF JournalsInv
<1>. QED
  BY <1>1, <1>2, <1>5, <1>6, <1>7, <1>8, <1>9, <1>10, <1>11, <1>13, <1>14
     DEF UpgradeNext

\* A database that reached version 7 has a file for every journal it had,
\* however often its migration was interrupted between two of the list.
THEOREM JournalsAreExported ==
  ASSUME OneOperator
  PROVE  UpgradeSpec => []JournalsReachTheirFiles
<1>1. UpgradeInit => Inv1 /\ JournalsInv
  BY Inv1Init, JournalsInit
<1>2. Inv1 /\ JournalsInv /\ [UpgradeNext]_upgradeVars => Inv1' /\ JournalsInv'
  BY Inv1Next, JournalsNext
<1>3. JournalsInv => JournalsReachTheirFiles
  BY DEF JournalsInv, JournalsAreKept, OriginJournals, JournalsReachTheirFiles
<1>. QED
  BY <1>1, <1>2, <1>3, PTL DEF UpgradeSpec

-----------------------------------------------------------------------------
(***************************************************************************)
(* The tables of each version, and the migrations that lead to them.       *)
(***************************************************************************)

(* Tables of both and of either *)

\* One table of names is another, but for what some give.
Gives(w, f, some) ==
  /\ DOMAIN w = DOMAIN f \cup DOMAIN some
  /\ \A t \in DOMAIN some : w[t] = some[t]
  /\ \A t \in DOMAIN f \ DOMAIN some : w[t] = f[t]
Apart(f, some) == \A t \in DOMAIN some : t \notin DOMAIN f

LEMMA GivesFirst == \A f, some : Gives(some ++ f, f, some)
<1>. SUFFICES ASSUME NEW f, NEW some
              PROVE  Gives(some ++ f, f, some)
  OBVIOUS
<1>1. PICK new : new = either(<<some, f>>)
  OBVIOUS
<1>2. Gives(new, f, some)
  BY <1>1, OfEither DEF Gives
<1>. QED
  BY <1>1, <1>2 DEF ++

LEMMA GivesLast == \A f, some : Apart(f, some) => Gives(f ++ some, f, some)
<1>. SUFFICES ASSUME NEW f, NEW some, Apart(f, some)
              PROVE  Gives(f ++ some, f, some)
  OBVIOUS
<1>1. PICK new : new = either(<<f, some>>)
  OBVIOUS
<1>2. /\ DOMAIN new = DOMAIN f \cup DOMAIN some
      /\ \A x \in DOMAIN f : new[x] = f[x]
      /\ \A x \in DOMAIN some \ DOMAIN f : new[x] = some[x]
  BY <1>1, OfEither
<1>3. Gives(new, f, some)
  BY <1>2 DEF Gives, Apart
<1>. QED
  BY <1>1, <1>3 DEF ++

LEMMA GivesAll ==
  \A f, some : DOMAIN f \subseteq DOMAIN some => Gives(some, f, some)
BY DEF Gives

LEMMA GivesBefore ==
  \A w, f, g, some : Gives(w, f, some) => Gives(w ++ g, f ++ g, some)
<1>. SUFFICES ASSUME NEW w, NEW f, NEW g, NEW some, Gives(w, f, some)
              PROVE  Gives(w ++ g, f ++ g, some)
  OBVIOUS
<1>1. PICK new, old : new = either(<<w, g>>) /\ old = either(<<f, g>>)
  OBVIOUS
<1>2. /\ DOMAIN new = DOMAIN w \cup DOMAIN g
      /\ \A x \in DOMAIN w : new[x] = w[x]
      /\ \A x \in DOMAIN g \ DOMAIN w : new[x] = g[x]
  BY <1>1, OfEither
<1>3. /\ DOMAIN old = DOMAIN f \cup DOMAIN g
      /\ \A x \in DOMAIN f : old[x] = f[x]
      /\ \A x \in DOMAIN g \ DOMAIN f : old[x] = g[x]
  BY <1>1, OfEither
<1>4. Gives(new, old, some)
  BY <1>2, <1>3 DEF Gives
<1>. QED
  BY <1>1, <1>4 DEF ++

LEMMA GivesAfter ==
  \A w, f, g, some : Gives(w, f, some) /\ Apart(g, some) =>
                       Gives(g ++ w, g ++ f, some)
<1>. SUFFICES ASSUME NEW w, NEW f, NEW g, NEW some, Gives(w, f, some),
                     Apart(g, some)
              PROVE  Gives(g ++ w, g ++ f, some)
  OBVIOUS
<1>1. PICK new, old : new = either(<<g, w>>) /\ old = either(<<g, f>>)
  OBVIOUS
<1>2. /\ DOMAIN new = DOMAIN w \cup DOMAIN g
      /\ \A x \in DOMAIN g : new[x] = g[x]
      /\ \A x \in DOMAIN w \ DOMAIN g : new[x] = w[x]
  BY <1>1, OfEither
<1>3. /\ DOMAIN old = DOMAIN f \cup DOMAIN g
      /\ \A x \in DOMAIN g : old[x] = g[x]
      /\ \A x \in DOMAIN f \ DOMAIN g : old[x] = f[x]
  BY <1>1, OfEither
<1>4. Gives(new, old, some)
  BY <1>2, <1>3 DEF Gives, Apart
<1>. QED
  BY <1>1, <1>4 DEF ++

LEMMA ApartFromBoth ==
  \A f, g, some : Apart(f, some) /\ Apart(g, some) <=> Apart(f ++ g, some)
BY InBoth DEF Apart

LEMMA FifthSnapshot ==
  ASSUME Apart(Snapshot4, Discussions5)
  PROVE  Gives(Snapshot5, Snapshot4, Discussions5)
<1>1. Apart(Entities4 ++ Issues4, Discussions5)
  BY ApartFromBoth DEF Snapshot4
<1>2. Gives(Entities4 ++ Issues4 ++ Discussions5, Entities4 ++ Issues4, Discussions5)
  BY <1>1, GivesLast
<1>. QED
  BY <1>2, GivesBefore DEF Snapshot5, Snapshot4, Entities5, Issues5, Bookkeeping5,
     Memberships5, Ownership5, Roles5, Credentials5, Scopes5

LEMMA SixthSnapshot ==
  ASSUME Apart(Snapshot5, Tasks6)
  PROVE  Gives(Snapshot6, Snapshot5, Tasks6)
<1>1. Apart(Entities5 ++ Issues5 ++ Discussions5, Tasks6)
  BY ApartFromBoth DEF Snapshot5
<1>2. Gives(Entities5 ++ Issues5 ++ Discussions5 ++ Tasks6,
            Entities5 ++ Issues5 ++ Discussions5, Tasks6)
  BY <1>1, GivesLast
<1>. QED
  BY <1>2, GivesBefore DEF Snapshot6, Snapshot5, Entities6, Issues6, Discussions6,
     Bookkeeping6, Memberships6, Ownership6, Roles6, Credentials6, Scopes6

LEMMA EighthSnapshot ==
  ASSUME Apart(Snapshot7, Notices8)
  PROVE  Gives(Snapshot8, Snapshot7, Notices8)
<1>1. Apart(Entities7 ++ Issues7 ++ Discussions7 ++ Tasks7, Notices8)
  BY ApartFromBoth DEF Snapshot7
<1>2. Gives(Entities7 ++ Issues7 ++ Discussions7 ++ Tasks7 ++ Notices8,
            Entities7 ++ Issues7 ++ Discussions7 ++ Tasks7, Notices8)
  BY <1>1, GivesLast
<1>. QED
  BY <1>2, GivesBefore DEF Snapshot8, Snapshot7, Entities8, Issues8, Discussions8,
     Tasks8, Bookkeeping8, Memberships8, Ownership8, Roles8, Credentials8, Scopes8

\* The tables that a version declares anew.
Sessions4 ==
  [Users_Sessions |->
         table(<<"id">>,
               {"authSourceCredentialTypeCode", "authSourceCredentialId"},
               {{"sessionTokenHash"}},
               {cascade(<<"userId">>, "Users")})]
Projects7 ==
  [Projects |-> table(<<"id">>, {"reusable-v7-projects-journal"}, {}, {})]
Notifications9 ==
  [Notifications |->
         table(<<"id">>, {}, {},
               {cascade(<<"issueId">>, "Issues"),
                cascade(<<"projectId">>, "Projects"),
                restrict(<<"actorUserId">>, "Users"),
                cascade(<<"mentionedUserId">>, "Users"),
                cascade(<<"attachmentId">>, "Attachments")}),
   Mentions |->
         table(<<"id">>, {"taskId", "commentId"},
               {{"mentionedUserId", "mentionContainerType", "containerKey"}},
               {cascade(<<"issueId">>, "Issues"),
                cascade(<<"projectId">>, "Projects"),
                cascade(<<"speakerUserId">>, "Users"),
                cascade(<<"mentionedUserId">>, "Users")})]
Charts11 ==
  [ProjectGanttCharts |->
         table(<<"id">>, {}, {{"projectId", "chartId"}},
               {cascade(<<"projectId">>, "Projects")})]

LEMMA NamesOfChanges ==
  /\ DOMAIN Sessions4 = {"Users_Sessions"}
  /\ DOMAIN Projects7 = {"Projects"} /\ DOMAIN Issues7 = {"Issues"}
  /\ DOMAIN Created7 = {"Projects_Attachments"}
  /\ DOMAIN Notifications9 = {"Notifications", "Mentions"}
  /\ DOMAIN Charts11 = {"ProjectGanttCharts"}
  /\ DOMAIN Tasks6 = TaskTables /\ DOMAIN Tasks11 = TaskTables
<1>1. DOMAIN Sessions4 = {"Users_Sessions"}
      /\ DOMAIN Projects7 = {"Projects"} /\ DOMAIN Issues7 = {"Issues"}
      /\ DOMAIN Created7 = {"Projects_Attachments"}
  BY DEF Sessions4, Projects7, Issues7, Created7
<1>2. DOMAIN Notifications9 = {"Notifications", "Mentions"}
      /\ DOMAIN Charts11 = {"ProjectGanttCharts"}
  BY DEF Notifications9, Charts11
<1>3. DOMAIN Tasks6 = TaskTables /\ DOMAIN Tasks11 = TaskTables
  BY DEF Tasks6, Tasks11, TaskTables
<1>. QED
  BY <1>1, <1>2, <1>3

LEMMA NamesOfParts ==
  /\ DOMAIN Entities2 =
       {"Users", "Projects", "Teams", "Organizations", "SystemRoles", "ProjectRoles",
        "TeamRoles", "OrganizationRoles", "IssueStatuses", "ClosedReasons"}
  /\ DOMAIN Issues2 = {"Issues"}
  /\ DOMAIN Bookkeeping2 = {"ManagedTestDataRecords", "CredentialTypes"}
  /\ DOMAIN Memberships2 =
       {"Projects_Users", "Teams_Users", "Projects_Teams", "Users_Organizations"}
  /\ DOMAIN Ownership2 = {"Projects_Organizations", "Organizations_Teams"}
  /\ DOMAIN Roles2 =
       {"Users_SystemRoles", "Users_Projects_ProjectRoles", "Users_Teams_TeamRoles",
        "Users_Organizations_OrganizationRoles"}
  /\ DOMAIN Credentials1 =
       {"Users_CredentialTypes", "Users_PasswordCredentials", "Users_Sessions"}
  /\ DOMAIN Scopes4 =
       {"ScopedAccessObjectTypes", "Users_ScopedAccessTokenCredentials",
        "ScopedAccessTokenCredentials_Objects"}
  /\ DOMAIN Discussions5 =
       {"Attachments", "Issues_Attachments", "IssueComments",
        "IssueComments_Attachments"}
  /\ DOMAIN Notices8 = {"Notifications", "Users_Notifications"}
<1>1. DOMAIN Entities2 =
       {"Users", "Projects", "Teams", "Organizations", "SystemRoles", "ProjectRoles",
        "TeamRoles", "OrganizationRoles", "IssueStatuses", "ClosedReasons"}
  BY DEF Entities2
<1>2. DOMAIN Issues2 = {"Issues"}
      /\ DOMAIN Bookkeeping2 = {"ManagedTestDataRecords", "CredentialTypes"}
  BY DEF Issues2, Bookkeeping2
<1>3. DOMAIN Memberships2 =
       {"Projects_Users", "Teams_Users", "Projects_Teams", "Users_Organizations"}
      /\ DOMAIN Ownership2 = {"Projects_Organizations", "Organizations_Teams"}
  BY DEF Memberships2, Ownership2
<1>4. DOMAIN Roles2 =
       {"Users_SystemRoles", "Users_Projects_ProjectRoles", "Users_Teams_TeamRoles",
        "Users_Organizations_OrganizationRoles"}
  BY DEF Roles2
<1>5. DOMAIN Credentials1 =
       {"Users_CredentialTypes", "Users_PasswordCredentials", "Users_Sessions"}
  BY DEF Credentials1
<1>6. DOMAIN Scopes4 =
       {"ScopedAccessObjectTypes", "Users_ScopedAccessTokenCredentials",
        "ScopedAccessTokenCredentials_Objects"}
  BY DEF Scopes4
<1>7. DOMAIN Discussions5 =
       {"Attachments", "Issues_Attachments", "IssueComments",
        "IssueComments_Attachments"}
  BY DEF Discussions5
<1>8. DOMAIN Notices8 = {"Notifications", "Users_Notifications"}
  BY DEF Notices8
<1>. QED
  BY <1>1, <1>2, <1>3, <1>4, <1>5, <1>6, <1>7, <1>8

\* The second version is the third, and the ninth is the tenth.
LEMMA EqualSnapshots == Snapshot3 = Snapshot2 /\ Snapshot10 = Snapshot9
<1>1. Snapshot3 = Snapshot2
  BY DEF Snapshot3, Snapshot2, Entities3, Issues3, Bookkeeping3, Memberships3,
         Ownership3, Roles3, Credentials3
<1>2. Snapshot10 = Snapshot9
  BY DEF Snapshot10, Snapshot9, Entities10, Issues10, Discussions10, Tasks10,
         Notices10, Bookkeeping10, Memberships10, Ownership10, Roles10,
         Credentials10, Scopes10
<1>. QED
  BY <1>1, <1>2

LEMMA FourthSnapshot ==
  ASSUME Apart(Snapshot3, Scopes4)
  PROVE  \E mid : Gives(mid, Snapshot3, Sessions4) /\ Gives(Snapshot4, mid, Scopes4)
<1>. DEFINE mid == Entities4 ++ Issues4 ++ Bookkeeping4 ++ Memberships4 ++
                   Ownership4 ++ Roles4 ++ Credentials4
<1>1. Gives(Credentials4, Credentials3, Sessions4)
  BY GivesFirst DEF Credentials4, Sessions4
<1>2. /\ Apart(Entities2, Sessions4) /\ Apart(Issues2, Sessions4)
      /\ Apart(Bookkeeping2, Sessions4) /\ Apart(Memberships2, Sessions4)
      /\ Apart(Ownership2, Sessions4) /\ Apart(Roles2, Sessions4)
  BY NamesOfChanges, NamesOfParts DEF Apart
<1>3. Apart(Entities3 ++ Issues3 ++ Bookkeeping3 ++ Memberships3 ++ Ownership3 ++
            Roles3, Sessions4)
  BY <1>2, ApartFromBoth
     DEF Entities3, Issues3, Bookkeeping3, Memberships3, Ownership3, Roles3
<1>4. Gives(mid, Snapshot3, Sessions4)
  BY <1>1, <1>3, GivesAfter
     DEF Snapshot3, Entities4, Issues4, Bookkeeping4, Memberships4, Ownership4, Roles4
<1>5. Snapshot4 = mid ++ Scopes4
  BY DEF Snapshot4
<1>. HIDE DEF mid
<1>6. Apart(mid, Scopes4)
  BY <1>4, NamesOfChanges, NamesOfParts DEF Apart, Gives
<1>7. Gives(Snapshot4, mid, Scopes4)
  BY <1>5, <1>6, GivesLast
<1>. QED
  BY <1>4, <1>7

LEMMA SeventhSnapshot ==
  ASSUME Apart(Snapshot6, Created7)
  PROVE  \E one, two : /\ Gives(one, Snapshot6, Projects7)
                       /\ Gives(two, one, Issues7)
                       /\ Gives(Snapshot7, two, Created7)
<1>. DEFINE one == Entities7 ++ Issues6 ++ Discussions6 ++ Tasks6 ++ Bookkeeping6 ++
                   Memberships6 ++ Ownership6 ++ Roles6 ++ Credentials6 ++ Scopes6
            two == Entities7 ++ Issues7 ++ Discussions6 ++ Tasks6 ++ Bookkeeping6 ++
                   Memberships6 ++ Ownership6 ++ Roles6 ++ Credentials6 ++ Scopes6
<1>1. Gives(Entities7, Entities6, Projects7)
  BY GivesFirst DEF Entities7, Projects7
<1>2. Gives(one, Snapshot6, Projects7)
  BY <1>1, GivesBefore DEF Snapshot6
<1>3. DOMAIN Issues6 \subseteq DOMAIN Issues7
  BY NamesOfChanges, NamesOfParts DEF Issues6, Issues5, Issues4, Issues3
<1>4. Gives(Issues7, Issues6, Issues7)
  BY <1>3, GivesAll
<1>5. Apart(Entities7, Issues7)
  BY <1>1, NamesOfChanges, NamesOfParts
     DEF Apart, Gives, Entities6, Entities5, Entities4, Entities3
<1>6. Gives(Entities7 ++ Issues7, Entities7 ++ Issues6, Issues7)
  BY <1>4, <1>5, GivesAfter
<1>7. Gives(two, one, Issues7)
  BY <1>6, GivesBefore
<1>8. Gives(Discussions7, Discussions6, Created7)
  BY GivesFirst DEF Discussions7, Created7
<1>9. Apart(Entities6, Created7) /\ Apart(Issues6, Created7)
  BY ApartFromBoth DEF Snapshot6
<1>10. Apart(Entities7, Created7) /\ Apart(Issues7, Created7)
  BY <1>1, <1>9, NamesOfChanges DEF Apart, Gives
<1>11. Gives(Entities7 ++ Issues7 ++ Discussions7,
             Entities7 ++ Issues7 ++ Discussions6, Created7)
  BY <1>8, <1>10, ApartFromBoth, GivesAfter
<1>12. Gives(Snapshot7, two, Created7)
  BY <1>11, GivesBefore
     DEF Snapshot7, Tasks7, Bookkeeping7, Memberships7, Ownership7, Roles7,
         Credentials7, Scopes7
<1>. QED
  BY <1>2, <1>7, <1>12

LEMMA NamesOfDiscussions ==
  /\ DOMAIN Entities10 = DOMAIN Entities2 /\ DOMAIN Issues10 = DOMAIN Issues2
  /\ DOMAIN Discussions10 = DOMAIN Discussions5 \cup {"Projects_Attachments"}
<1>1. Gives(Entities7, Entities6, Projects7)
  BY GivesFirst DEF Entities7, Projects7
<1>2. Gives(Discussions7, Discussions6, Created7)
  BY GivesFirst DEF Discussions7, Created7
<1>3. DOMAIN Entities7 = DOMAIN Entities6 \cup {"Projects"}
      /\ DOMAIN Discussions7 = DOMAIN Discussions6 \cup {"Projects_Attachments"}
  BY <1>1, <1>2, NamesOfChanges DEF Gives
<1>4. DOMAIN Entities7 = DOMAIN Entities2
  BY <1>3, NamesOfParts DEF Entities6, Entities5, Entities4, Entities3
<1>5. DOMAIN Issues7 = DOMAIN Issues2
  BY NamesOfChanges, NamesOfParts
<1>. QED
  BY <1>3, <1>4, <1>5 DEF Entities10, Entities9, Entities8, Issues10, Issues9, Issues8,
     Discussions10, Discussions9, Discussions8, Discussions6

LEMMA NinthSnapshot == Gives(Snapshot9, Snapshot8, Notifications9)
<1>1. Gives(Notices9, Notices8, Notifications9)
  BY GivesFirst DEF Notices9, Notifications9
<1>2. /\ Apart(Entities10, Notifications9) /\ Apart(Issues10, Notifications9)
      /\ Apart(Discussions10, Notifications9) /\ Apart(Tasks6, Notifications9)
  BY NamesOfDiscussions, NamesOfChanges, NamesOfParts DEF Apart, TaskTables
<1>3. Apart(Entities8 ++ Issues8 ++ Discussions8 ++ Tasks8, Notifications9)
  BY <1>2, ApartFromBoth
     DEF Entities10, Entities9, Issues10, Issues9, Discussions10, Discussions9,
         Tasks8, Tasks7
<1>4. Gives(Entities8 ++ Issues8 ++ Discussions8 ++ Tasks8 ++ Notices9,
            Entities8 ++ Issues8 ++ Discussions8 ++ Tasks8 ++ Notices8,
            Notifications9)
  BY <1>1, <1>3, GivesAfter
<1>. QED
  BY <1>4, GivesBefore DEF Snapshot9, Snapshot8, Entities9, Issues9, Discussions9,
     Tasks9, Bookkeeping9, Memberships9, Ownership9, Roles9, Credentials9, Scopes9

LEMMA EleventhSnapshot ==
  \E mid : Gives(mid, Snapshot10, Charts11) /\ Gives(Snapshot11, mid, Tasks11)
<1>. DEFINE mid == Entities11 ++ Issues10 ++ Discussions10 ++ Tasks10 ++ Notices10 ++
                   Bookkeeping10 ++ Memberships10 ++ Ownership10 ++ Roles10 ++
                   Credentials10 ++ Scopes10
<1>1. Gives(Entities11, Entities10, Charts11)
  BY GivesFirst DEF Entities11, Charts11
<1>2. Gives(mid, Snapshot10, Charts11)
  BY <1>1, GivesBefore DEF Snapshot10
<1>3. DOMAIN Tasks10 \subseteq DOMAIN Tasks11
  BY NamesOfChanges DEF Tasks10, Tasks9, Tasks8, Tasks7
<1>4. Gives(Tasks11, Tasks10, Tasks11)
  BY <1>3, GivesAll
<1>5. DOMAIN Entities11 = DOMAIN Entities10 \cup {"ProjectGanttCharts"}
  BY <1>1, NamesOfChanges DEF Gives
<1>6. /\ Apart(Entities11, Tasks11) /\ Apart(Issues10, Tasks11)
      /\ Apart(Discussions10, Tasks11)
  BY <1>5, NamesOfDiscussions, NamesOfChanges, NamesOfParts DEF Apart, TaskTables
<1>7. Apart(Entities11 ++ Issues10 ++ Discussions10, Tasks11)
  BY <1>6, ApartFromBoth
<1>8. Gives(Entities11 ++ Issues10 ++ Discussions10 ++ Tasks11,
            Entities11 ++ Issues10 ++ Discussions10 ++ Tasks10, Tasks11)
  BY <1>4, <1>7, GivesAfter
<1>9. Gives(Snapshot11, mid, Tasks11)
  BY <1>8, GivesBefore
     DEF Snapshot11, Issues11, Discussions11, Notices11, Bookkeeping11, Memberships11,
         Ownership11, Roles11, Credentials11, Scopes11
<1>. QED
  BY <1>2, <1>9

-----------------------------------------------------------------------------
(* References *)

\* A reference, and a table all of whose references are such, that names none
\* of the names that a migration gives for a while only.
Lasts(r, names) ==
  \E columns, parent, action :
    r = reference(columns, parent, action) /\ parent \notin names
IsLasting(def, names) ==
  /\ \E key, columns, unique, refs :
       def = [key |-> key, columns |-> columns, unique |-> unique, refs |-> refs]
  /\ \A r \in def.refs : Lasts(r, names)
AreLasting(f, names) == \A t \in DOMAIN f : IsLasting(f[t], names)

LEMMA LastingTables ==
  \A key, others, unique, refs, names :
    (\A r \in refs : Lasts(r, names)) =>
      IsLasting(table(key, others, unique, refs), names)
BY DEF table, IsLasting

LEMMA LastingReferences ==
  \A columns, parent, names : parent \notin names =>
    Lasts(cascade(columns, parent), names) /\ Lasts(restrict(columns, parent), names)
BY DEF Lasts, cascade, restrict

\* The tables of tasks may name each other.
NamesTasks(t, def, names) ==
  IsLasting(def, names) \/ (t \in TaskTables /\ def = Tasks6[t])
AreNamingTasks(f, names) == \A t \in DOMAIN f : NamesTasks(t, f[t], names)

LEMMA NamingTasksOfBoth ==
  \A f, g, names : AreNamingTasks(f, names) /\ AreNamingTasks(g, names) =>
                     AreNamingTasks(f ++ g, names)
<1>. SUFFICES ASSUME NEW f, NEW g, NEW names,
                     AreNamingTasks(f, names), AreNamingTasks(g, names)
              PROVE  AreNamingTasks(f ++ g, names)
  OBVIOUS
<1>1. PICK new : new = either(<<f, g>>)
  OBVIOUS
<1>2. /\ DOMAIN new = DOMAIN f \cup DOMAIN g
      /\ \A x \in DOMAIN f : new[x] = f[x]
      /\ \A x \in DOMAIN g \ DOMAIN f : new[x] = g[x]
  BY <1>1, OfEither
<1>3. \A x \in DOMAIN f : NamesTasks(x, f[x], names)
  BY DEF AreNamingTasks
<1>4. \A x \in DOMAIN g : NamesTasks(x, g[x], names)
  BY DEF AreNamingTasks
<1>5. \A x \in DOMAIN new : NamesTasks(x, new[x], names)
  BY <1>2, <1>3, <1>4
<1>6. AreNamingTasks(new, names)
  BY <1>5 DEF AreNamingTasks
<1>. QED
  BY <1>1, <1>6 DEF ++

\* Renaming a table that nothing refers to leaves the others as they are.
LEMMA RenamingKeeps ==
  ASSUME NEW names, NEW def, IsLasting(def, names), NEW t \in names, NEW name
  PROVE  [def EXCEPT !.refs = Follow(@, t, name)] = def
<1>1. PICK key, columns, unique, refs :
        def = [key |-> key, columns |-> columns, unique |-> unique, refs |-> refs]
  BY DEF IsLasting
<1>2. ASSUME NEW r \in refs
      PROVE  [r EXCEPT !.table = IF @ = t THEN name ELSE @] = r
  <2>1. PICK c, p, a : r = reference(c, p, a) /\ p \notin names
    BY <1>1, <1>2 DEF IsLasting, Lasts
  <2>2. r.table = p /\ p # t
    BY <2>1 DEF reference
  <2>. QED
    BY <2>1, <2>2 DEF reference
<1>3. Follow(refs, t, name) = refs
  BY <1>2 DEF Follow
<1>4. def.refs = refs
  BY <1>1
<1>5. [def EXCEPT !.refs = refs] = def
  BY <1>1
<1>. QED
  BY <1>3, <1>4, <1>5

MovesOne(names, d, t, name, new) ==
  /\ DOMAIN new.tables = (DOMAIN d.tables \ {t}) \cup {name}
  /\ \A u \in DOMAIN d.tables \ {t} :
       IsLasting(d.tables[u], names) => new.tables[u] = d.tables[u]
  /\ IsLasting(d.tables[t], names) => new.tables[name] = d.tables[t]

LEMMA RenamingOne ==
  \A names, d, t, name, new :
    t \in names /\ Renames(d, t, name, new) => MovesOne(names, d, t, name, new)
<1>. SUFFICES ASSUME NEW names, NEW d, NEW t, NEW name, NEW new,
                     t \in names, Renames(d, t, name, new)
              PROVE  MovesOne(names, d, t, name, new)
  OBVIOUS
<1>1. ASSUME NEW u \in DOMAIN d.tables \ {t}, IsLasting(d.tables[u], names)
      PROVE  new.tables[u] = d.tables[u]
  <2>1. new.tables[u] = [d.tables[u] EXCEPT !.refs = Follow(@, t, name)]
    BY DEF Renames
  <2>. QED
    BY <1>1, <2>1, RenamingKeeps
<1>2. ASSUME IsLasting(d.tables[t], names)
      PROVE  new.tables[name] = d.tables[t]
  <2>1. new.tables[name] = [d.tables[t] EXCEPT !.refs = Follow(@, t, name)]
    BY DEF Renames
  <2>. QED
    BY <1>2, <2>1, RenamingKeeps
<1>. QED
  BY <1>1, <1>2 DEF Renames, MovesOne

NewNames == {"__new_SystemRoles", "TaskMirror__new", "TaskAttachments__new",
             "TaskComments__new", "TaskComments_Attachments__new"}
OldNames == {"Roles", "Users_Roles", "__new_SystemRoles", "__legacy_Roles",
             "__legacy_Users_Roles"}

PartsLast(names) ==
  /\ AreLasting(Entities2, names) /\ AreLasting(Issues7, names)
  /\ AreLasting(Bookkeeping2, names) /\ AreLasting(Memberships2, names)
  /\ AreLasting(Ownership2, names) /\ AreLasting(Roles2, names)
  /\ AreLasting(Credentials1, names) /\ AreLasting(Scopes4, names)
  /\ AreLasting(Discussions5, names) /\ AreLasting(Notices8, names)
  /\ AreLasting(Sessions4, names) /\ AreLasting(Projects7, names)
  /\ AreLasting(Created7, names) /\ AreLasting(Notifications9, names)
  /\ AreLasting(Charts11, names) /\ AreLasting(Created2, names)

LEMMA LastingParts == \A names \in {NewNames, OldNames, TaskTables} : PartsLast(names)
<1>. SUFFICES ASSUME NEW names \in {NewNames, OldNames, TaskTables}
              PROVE  PartsLast(names)
  OBVIOUS
<1>0. IsLasting(codeTable, names)
  BY LastingTables DEF codeTable
<1>1. \A parent \in {"Users", "Projects", "Teams", "Organizations", "SystemRoles",
                     "ProjectRoles", "TeamRoles", "OrganizationRoles",
                     "IssueStatuses", "ClosedReasons", "Issues", "Attachments",
                     "IssueComments", "Notifications", "CredentialTypes",
                     "Users_CredentialTypes", "ScopedAccessObjectTypes",
                     "Users_ScopedAccessTokenCredentials"} :
        \A columns :
        Lasts(cascade(columns, parent), names)
        /\ Lasts(restrict(columns, parent), names)
  <2>1. \A parent \in {"Users", "Projects", "Teams", "Organizations", "SystemRoles",
                     "ProjectRoles", "TeamRoles", "OrganizationRoles",
                     "IssueStatuses", "ClosedReasons", "Issues", "Attachments",
                     "IssueComments", "Notifications", "CredentialTypes",
                     "Users_CredentialTypes", "ScopedAccessObjectTypes",
                     "Users_ScopedAccessTokenCredentials"} : parent \notin names
    BY DEF NewNames, OldNames, TaskTables
  <2>. QED
    BY <2>1, LastingReferences
<1>2. AreLasting(Entities2, names)
  BY <1>0, <1>1, LastingTables DEF Entities2, AreLasting
<1>3. AreLasting(Issues7, names)
  BY <1>1, LastingTables DEF Issues7, AreLasting
<1>4. AreLasting(Bookkeeping2, names)
  BY <1>0, LastingTables DEF Bookkeeping2, AreLasting
<1>5. AreLasting(Memberships2, names)
  BY <1>1, LastingTables DEF Memberships2, AreLasting
<1>6. AreLasting(Ownership2, names)
  BY <1>1, LastingTables DEF Ownership2, AreLasting
<1>7. AreLasting(Roles2, names)
  BY <1>1, LastingTables DEF Roles2, AreLasting
<1>8. AreLasting(Credentials1, names)
  BY <1>1, LastingTables DEF Credentials1, AreLasting
<1>9. AreLasting(Scopes4, names)
  BY <1>0, <1>1, LastingTables DEF Scopes4, AreLasting
<1>10. AreLasting(Discussions5, names)
  BY <1>1, LastingTables DEF Discussions5, AreLasting
<1>11. AreLasting(Notices8, names)
  BY <1>1, LastingTables DEF Notices8, AreLasting
<1>12. AreLasting(Sessions4, names)
  BY <1>1, LastingTables DEF Sessions4, AreLasting
<1>13. AreLasting(Projects7, names)
  BY LastingTables DEF Projects7, AreLasting
<1>14. AreLasting(Created7, names)
  BY <1>1, LastingTables DEF Created7, AreLasting
<1>15. AreLasting(Notifications9, names)
  BY <1>1, LastingTables DEF Notifications9, AreLasting
<1>16. AreLasting(Charts11, names)
  BY <1>1, LastingTables DEF Charts11, AreLasting
<1>17. AreLasting(Created2, names)
  BY <1>0, <1>1, LastingTables DEF Created2, AreLasting
<1>. QED
  BY <1>2, <1>3, <1>4, <1>5, <1>6, <1>7, <1>8, <1>9, <1>10, <1>11, <1>12, <1>13,
     <1>14, <1>15, <1>16, <1>17 DEF PartsLast

LEMMA TenthSnapshotNamesTasks ==
  ASSUME NEW names \in {NewNames, OldNames, TaskTables}
  PROVE  AreNamingTasks(Snapshot10, names)
<1>1. \A f : AreLasting(f, names) => AreNamingTasks(f, names)
  BY DEF AreLasting, AreNamingTasks, NamesTasks
<1>2. /\ AreNamingTasks(Entities2, names) /\ AreNamingTasks(Issues7, names)
      /\ AreNamingTasks(Bookkeeping2, names) /\ AreNamingTasks(Memberships2, names)
      /\ AreNamingTasks(Ownership2, names) /\ AreNamingTasks(Roles2, names)
      /\ AreNamingTasks(Credentials1, names) /\ AreNamingTasks(Scopes4, names)
      /\ AreNamingTasks(Discussions5, names) /\ AreNamingTasks(Notices8, names)
      /\ AreNamingTasks(Sessions4, names) /\ AreNamingTasks(Projects7, names)
      /\ AreNamingTasks(Created7, names) /\ AreNamingTasks(Notifications9, names)
  BY <1>1, LastingParts DEF PartsLast
<1>3. AreNamingTasks(Tasks6, names)
  BY NamesOfChanges DEF AreNamingTasks, NamesTasks
<1>4. AreNamingTasks(Entities10, names)
  BY <1>2, NamingTasksOfBoth DEF Entities10, Entities9, Entities8, Entities7, Entities6,
     Entities5, Entities4, Entities3, Projects7
<1>5. AreNamingTasks(Discussions10, names)
  BY <1>2, NamingTasksOfBoth DEF Discussions10, Discussions9, Discussions8, Discussions7,
     Discussions6, Created7
<1>6. AreNamingTasks(Notices10, names)
  BY <1>2, NamingTasksOfBoth DEF Notices10, Notices9, Notifications9
<1>7. AreNamingTasks(Credentials10, names)
  BY <1>2, NamingTasksOfBoth DEF Credentials10, Credentials9, Credentials8, Credentials7,
     Credentials6, Credentials5, Credentials4, Credentials3, Credentials2, Sessions4
<1>8. /\ Issues10 = Issues7 /\ Tasks10 = Tasks6 /\ Bookkeeping10 = Bookkeeping2
      /\ Memberships10 = Memberships2 /\ Ownership10 = Ownership2
      /\ Roles10 = Roles2 /\ Scopes10 = Scopes4
  BY DEF Issues10, Issues9, Issues8, Tasks10, Tasks9, Tasks8, Tasks7,
     Bookkeeping10, Bookkeeping9, Bookkeeping8, Bookkeeping7, Bookkeeping6,
     Bookkeeping5, Bookkeeping4, Bookkeeping3, Memberships10, Memberships9,
     Memberships8, Memberships7, Memberships6, Memberships5, Memberships4,
     Memberships3, Ownership10, Ownership9, Ownership8, Ownership7, Ownership6,
     Ownership5, Ownership4, Ownership3, Roles10, Roles9, Roles8, Roles7, Roles6,
     Roles5, Roles4, Roles3, Scopes10, Scopes9, Scopes8, Scopes7, Scopes6, Scopes5
<1>. QED
  BY <1>2, <1>3, <1>4, <1>5, <1>6, <1>7, <1>8, NamingTasksOfBoth DEF Snapshot10

LEMMA TenthSnapshotLasts == AreLasting(Snapshot10, NewNames)
<1>1. AreLasting(Tasks6, NewNames)
  <2>1. \A parent \in {"Projects", "Users", "Attachments", "TaskMirror",
                       "TaskComments"} : \A columns :
          Lasts(cascade(columns, parent), NewNames)
          /\ Lasts(restrict(columns, parent), NewNames)
    <3>1. \A parent \in {"Projects", "Users", "Attachments", "TaskMirror",
                         "TaskComments"} : parent \notin NewNames
      BY DEF NewNames
    <3>. QED
      BY <3>1, LastingReferences
  <2>. QED
    BY <2>1, LastingTables DEF Tasks6, AreLasting
<1>. QED
  BY <1>1, TenthSnapshotNamesTasks, NamesOfChanges
     DEF AreLasting, AreNamingTasks, NamesTasks

\* One table of names has what some give.
Holds(f, some) == \A t \in DOMAIN some : t \in DOMAIN f /\ f[t] = some[t]

LEMMA HoldsOfGiven == \A w, f, some : Gives(w, f, some) => Holds(w, some)
BY DEF Gives, Holds

LEMMA HoldsFirst == \A f, some : Holds(some ++ f, some)
BY GivesFirst, HoldsOfGiven

LEMMA HoldsLast == \A f, some : Apart(f, some) => Holds(f ++ some, some)
BY GivesLast, HoldsOfGiven

LEMMA HoldsBefore == \A f, g, some : Holds(f, some) => Holds(f ++ g, some)
<1>. SUFFICES ASSUME NEW f, NEW g, NEW some, Holds(f, some)
              PROVE  Holds(f ++ g, some)
  OBVIOUS
<1>1. PICK new : new = either(<<f, g>>)
  OBVIOUS
<1>2. /\ DOMAIN new = DOMAIN f \cup DOMAIN g
      /\ \A x \in DOMAIN f : new[x] = f[x]
  BY <1>1, OfEither
<1>3. Holds(new, some)
  BY <1>2 DEF Holds
<1>. QED
  BY <1>1, <1>3 DEF ++

Kept1 == {"Users", "CredentialTypes"} \cup DOMAIN Credentials1

LEMMA FirstSnapshot ==
  /\ DOMAIN Snapshot1 = Kept1 \cup {"Roles", "Users_Roles"}
  /\ Snapshot1["Users"] = Entities2["Users"]
  /\ Snapshot1["CredentialTypes"] = Bookkeeping2["CredentialTypes"]
  /\ Snapshot1["Roles"] = codeTable
  /\ \A t \in DOMAIN Credentials1 : Snapshot1[t] = Credentials1[t]
<1>1. DOMAIN Accounts1 = {"Users", "Roles", "CredentialTypes", "Users_Roles"}
  BY DEF Accounts1
<1>2. Accounts1["Users"] = Entities2["Users"]
  BY DEF Accounts1, Entities2
<1>3. Accounts1["CredentialTypes"] = Bookkeeping2["CredentialTypes"]
      /\ Accounts1["Roles"] = codeTable
  BY DEF Accounts1, Bookkeeping2
<1>4. Apart(Accounts1, Credentials1)
  BY <1>1, NamesOfParts DEF Apart
<1>5. Gives(Snapshot1, Accounts1, Credentials1)
  BY <1>4, GivesLast DEF Snapshot1
<1>. QED
  BY <1>1, <1>2, <1>3, <1>4, <1>5 DEF Gives, Apart, Kept1

LEMMA SecondSnapshot ==
  /\ DOMAIN Snapshot2 = Kept1 \cup DOMAIN Created2 \cup {"SystemRoles"}
  /\ \A t \in Kept1 : Snapshot2[t] = Snapshot1[t]
  /\ \A t \in DOMAIN Created2 : Snapshot2[t] = Created2[t]
  /\ Snapshot2["SystemRoles"] = codeTable
<1>1. Holds(Snapshot2, Entities2)
  BY HoldsFirst, HoldsBefore DEF Snapshot2
<1>2. Holds(Snapshot2, Issues2)
  <2>1. Apart(Entities2, Issues2)
    BY NamesOfParts DEF Apart
  <2>. QED
    BY <2>1, HoldsLast, HoldsBefore DEF Snapshot2
<1>3. Holds(Snapshot2, Bookkeeping2)
  <2>1. Apart(Entities2, Bookkeeping2) /\ Apart(Issues2, Bookkeeping2)
    BY NamesOfParts DEF Apart
  <2>2. Apart(Entities2 ++ Issues2, Bookkeeping2)
    BY <2>1, ApartFromBoth
  <2>. QED
    BY <2>2, HoldsLast, HoldsBefore DEF Snapshot2
<1>4. Holds(Snapshot2, Memberships2)
  <2>1. /\ Apart(Entities2, Memberships2) /\ Apart(Issues2, Memberships2)
        /\ Apart(Bookkeeping2, Memberships2)
    BY NamesOfParts DEF Apart
  <2>2. Apart(Entities2 ++ Issues2 ++ Bookkeeping2, Memberships2)
    BY <2>1, ApartFromBoth
  <2>. QED
    BY <2>2, HoldsLast, HoldsBefore DEF Snapshot2
<1>5. Holds(Snapshot2, Ownership2)
  <2>1. /\ Apart(Entities2, Ownership2) /\ Apart(Issues2, Ownership2)
        /\ Apart(Bookkeeping2, Ownership2) /\ Apart(Memberships2, Ownership2)
    BY NamesOfParts DEF Apart
  <2>2. Apart(Entities2 ++ Issues2 ++ Bookkeeping2 ++ Memberships2, Ownership2)
    BY <2>1, ApartFromBoth
  <2>. QED
    BY <2>2, HoldsLast, HoldsBefore DEF Snapshot2
<1>6. Holds(Snapshot2, Roles2)
  <2>1. /\ Apart(Entities2, Roles2) /\ Apart(Issues2, Roles2)
        /\ Apart(Bookkeeping2, Roles2) /\ Apart(Memberships2, Roles2)
        /\ Apart(Ownership2, Roles2)
    BY NamesOfParts DEF Apart
  <2>2. Apart(Entities2 ++ Issues2 ++ Bookkeeping2 ++ Memberships2 ++ Ownership2,
              Roles2)
    BY <2>1, ApartFromBoth
  <2>. QED
    BY <2>2, HoldsLast, HoldsBefore DEF Snapshot2
<1>7. Holds(Snapshot2, Credentials2)
  <2>1. /\ Apart(Entities2, Credentials2) /\ Apart(Issues2, Credentials2)
        /\ Apart(Bookkeeping2, Credentials2) /\ Apart(Memberships2, Credentials2)
        /\ Apart(Ownership2, Credentials2) /\ Apart(Roles2, Credentials2)
    BY NamesOfParts DEF Apart, Credentials2
  <2>2. Apart(Entities2 ++ Issues2 ++ Bookkeeping2 ++ Memberships2 ++ Ownership2 ++
              Roles2, Credentials2)
    BY <2>1, ApartFromBoth
  <2>. QED
    BY <2>2, HoldsLast DEF Snapshot2
<1>8. \A t : t \in DOMAIN Snapshot2 <=>
               \/ t \in DOMAIN Entities2 \/ t \in DOMAIN Issues2
               \/ t \in DOMAIN Bookkeeping2 \/ t \in DOMAIN Memberships2
               \/ t \in DOMAIN Ownership2 \/ t \in DOMAIN Roles2
               \/ t \in DOMAIN Credentials2
  BY InBoth DEF Snapshot2
<1>9. DOMAIN Created2 =
        {"ClosedReasons", "IssueStatuses", "Issues", "ManagedTestDataRecords",
         "Organizations", "Organizations_Teams", "OrganizationRoles", "ProjectRoles",
         "Projects", "Projects_Organizations", "Projects_Teams", "Projects_Users",
         "TeamRoles", "Teams", "Teams_Users", "Users_Organizations",
         "Users_Organizations_OrganizationRoles", "Users_Projects_ProjectRoles",
         "Users_SystemRoles", "Users_Teams_TeamRoles"}
  BY DEF Created2
<1>10. DOMAIN Snapshot2 = Kept1 \cup DOMAIN Created2 \cup {"SystemRoles"}
  <2>1. \A t : t \in DOMAIN Snapshot2 <=>
                 t \in Kept1 \cup DOMAIN Created2 \cup {"SystemRoles"}
    BY <1>8, <1>9, NamesOfParts DEF Kept1, Credentials2
  <2>. QED
    BY <2>1
<1>11. \A t \in Kept1 : Snapshot2[t] = Snapshot1[t]
  BY <1>1, <1>3, <1>7, FirstSnapshot, NamesOfParts DEF Holds, Kept1, Credentials2
<1>12. Snapshot2["SystemRoles"] = codeTable
  <2>1. "SystemRoles" \in DOMAIN Entities2 /\ Entities2["SystemRoles"] = codeTable
    BY DEF Entities2
  <2>. QED
    BY <1>1, <2>1 DEF Holds
<1>13. \A t \in DOMAIN Created2 : Snapshot2[t] = Created2[t]
  <2>1. \A t \in {"ClosedReasons", "IssueStatuses", "Organizations", "ProjectRoles",
                  "OrganizationRoles", "Projects", "TeamRoles", "Teams"} :
          t \in DOMAIN Entities2 /\ Created2[t] = Entities2[t]
    BY DEF Created2, Entities2
  <2>2. \A t \in {"Issues"} : t \in DOMAIN Issues2 /\ Created2[t] = Issues2[t]
    BY DEF Created2, Issues2
  <2>3. \A t \in {"ManagedTestDataRecords"} :
          t \in DOMAIN Bookkeeping2 /\ Created2[t] = Bookkeeping2[t]
    BY DEF Created2, Bookkeeping2
  <2>4. \A t \in {"Projects_Users", "Teams_Users", "Projects_Teams",
                  "Users_Organizations"} :
          t \in DOMAIN Memberships2 /\ Created2[t] = Memberships2[t]
    BY DEF Created2, Memberships2
  <2>5. \A t \in {"Projects_Organizations", "Organizations_Teams"} :
          t \in DOMAIN Ownership2 /\ Created2[t] = Ownership2[t]
    BY DEF Created2, Ownership2
  <2>6. \A t \in {"Users_SystemRoles", "Users_Projects_ProjectRoles",
                  "Users_Teams_TeamRoles", "Users_Organizations_OrganizationRoles"} :
          t \in DOMAIN Roles2 /\ Created2[t] = Roles2[t]
    BY DEF Created2, Roles2
  <2>. QED
    BY <1>1, <1>2, <1>3, <1>4, <1>5, <1>6, <1>9, <2>1, <2>2, <2>3, <2>4, <2>5, <2>6
       DEF Holds
<1>. QED
  BY <1>10, <1>11, <1>12, <1>13

-----------------------------------------------------------------------------
(* Arriving *)

SameTables(f, g) == DOMAIN f = DOMAIN g /\ \A t \in DOMAIN g : f[t] = g[t]

\* The statements of v1--v2, when all of them succeed.
CopiedAdmins(d) ==
  {[userId |-> row.userId, roleCode |-> "GGTC_SYSTEMROLE_ADMIN"] :
     row \in legacyAdmins(d)}
FirstSteps(d, put, aside, made, new, filled, named, admins, less, last) ==
  /\ Renames(d, "Roles", "__legacy_Roles", put)
  /\ Renames(put, "Users_Roles", "__legacy_Users_Roles", aside)
  /\ Creates(aside, Created2, made)
  /\ CreatesOne(made, "__new_SystemRoles", codeTable, new)
  /\ \E roles : Fills(new, "__new_SystemRoles",
                      new.rows["__new_SystemRoles"] \cup roles, filled)
  /\ Renames(filled, "__new_SystemRoles", "SystemRoles", named)
  /\ Fills(named, "Users_SystemRoles",
           named.rows["Users_SystemRoles"] \cup CopiedAdmins(made), admins)
  /\ less = DropTable(admins, "__legacy_Users_Roles") /\ less.ok
  /\ last = DropTable(less, "__legacy_Roles") /\ last.ok
AreFiles(d, put, aside, made, new, filled, named, admins, less) ==
  /\ IsFile(d) /\ IsFile(put) /\ IsFile(aside) /\ IsFile(made) /\ IsFile(new)
  /\ IsFile(filled) /\ IsFile(named) /\ IsFile(admins) /\ IsFile(less)

LEMMA FirstMigrationSteps ==
  ASSUME NEW d, IsFile(d), From1(d).ok
  PROVE  \E put, aside, made, new, filled, named, admins, less :
           /\ AreFiles(d, put, aside, made, new, filled, named, admins, less)
           /\ FirstSteps(d, put, aside, made, new, filled, named, admins, less,
                         From1(d))
<1>. DEFINE put == RenameTable(d, "Roles", "__legacy_Roles")
            aside == RenameTable(put, "Users_Roles", "__legacy_Users_Roles")
            made == CreateTables(aside, Created2)
            new == CreateTable(made, "__new_SystemRoles", codeTable)
            roles == IF [code |-> "GGTC_ROLE_ADMIN"]
                          \in made.rows["__legacy_Roles"]
                     THEN {[code |-> "GGTC_SYSTEMROLE_ADMIN"]} ELSE {}
            copies == CopiedAdmins(made)
            filled == Insert(new, "__new_SystemRoles", roles)
            named == RenameTable(filled, "__new_SystemRoles", "SystemRoles")
            admins == Insert(named, "Users_SystemRoles", copies)
            less == DropTable(admins, "__legacy_Users_Roles")
            last == DropTable(less, "__legacy_Roles")
<1>1. SameFile(d, put)
      /\ (put.ok => Renames(d, "Roles", "__legacy_Roles", put))
  BY RenamingTable
<1>2. SameFile(put, aside)
      /\ (aside.ok => put.ok /\ Renames(put, "Users_Roles",
                                       "__legacy_Users_Roles", aside))
  BY <1>1, RenamingTable DEF SameFile
<1>3. SameFile(aside, made) /\ (made.ok => aside.ok /\ Creates(aside, Created2, made))
  BY <1>2, CreatingTables, CreatedAreTables DEF SameFile, AreTables
<1>4. SameFile(made, new)
      /\ (new.ok => CreatesOne(made, "__new_SystemRoles", codeTable, new))
  BY <1>3, CreatingTable, CodeTableIsTable DEF SameFile
<1>5. /\ SameFile(new, filled)
      /\ filled.ok => new.ok /\ Fills(new, "__new_SystemRoles",
                        new.rows["__new_SystemRoles"] \cup roles, filled)
  <2>1. IsFile(new)
    BY <1>4 DEF SameFile
  <2>. HIDE DEF new, roles
  <2>. QED
    BY <2>1, Inserting
<1>6. /\ SameFile(filled, named)
      /\ named.ok => filled.ok
           /\ Renames(filled, "__new_SystemRoles", "SystemRoles", named)
  BY <1>5, RenamingTable DEF SameFile
<1>7. /\ SameFile(named, admins)
      /\ admins.ok => named.ok /\ Fills(named, "Users_SystemRoles",
                        named.rows["Users_SystemRoles"] \cup copies, admins)
  <2>1. IsFile(named)
    BY <1>6 DEF SameFile
  <2>. HIDE DEF named, copies
  <2>. QED
    BY <2>1, Inserting
<1>8. SameFile(admins, less) /\ (less.ok => admins.ok)
  BY <1>7, DroppingTable DEF SameFile
<1>9. last.ok => less.ok
  BY <1>8, DroppingTable DEF SameFile
<1>10. From1(d) = IF made.ok THEN last ELSE Fail(d)
  BY DEF From1, CopyAdmins, CopiedAdmins
<1>0. /\ less = DropTable(admins, "__legacy_Users_Roles")
      /\ last = DropTable(less, "__legacy_Roles")
      /\ copies = CopiedAdmins(made)
  OBVIOUS
<1>. HIDE DEF put, aside, made, new, filled, named, admins, less, last, roles, copies
<1>11. made.ok /\ last.ok /\ From1(d) = last
  BY <1>10, FailingIsNotOk
<1>12. AreFiles(d, put, aside, made, new, filled, named, admins, less)
  BY <1>1, <1>2, <1>3, <1>4, <1>5, <1>6, <1>7, <1>8 DEF SameFile, AreFiles
<1>13. FirstSteps(d, put, aside, made, new, filled, named, admins, less, From1(d))
  BY <1>0, <1>1, <1>2, <1>3, <1>4, <1>5, <1>6, <1>7, <1>8, <1>9, <1>11
     DEF FirstSteps
<1>. QED
  BY <1>12, <1>13

\* The tables before the two old ones are dropped.
LEMMA FirstMigrationTables ==
  ASSUME NEW d, NEW put, NEW aside, NEW made, NEW new, NEW filled, NEW named,
         NEW admins, NEW less, NEW last,
         FirstSteps(d, put, aside, made, new, filled, named, admins, less, last),
         SameTables(d.tables, Snapshot1)
  PROVE  /\ DOMAIN Created2 \cap (Kept1 \cup {"__legacy_Users_Roles", "__legacy_Roles"})
              = {}
         /\ DOMAIN admins.tables =
              Kept1 \cup DOMAIN Created2
                \cup {"SystemRoles", "__legacy_Users_Roles", "__legacy_Roles"}
         /\ \A t \in Kept1 : admins.tables[t] = Snapshot1[t]
         /\ \A t \in DOMAIN Created2 : admins.tables[t] = Created2[t]
         /\ admins.tables["SystemRoles"] = codeTable
         /\ admins.tables["__legacy_Roles"] = codeTable
         /\ \A t \in Kept1 \cup DOMAIN Created2 \cup {"SystemRoles", "__legacy_Roles"} :
              IsLasting(admins.tables[t], OldNames)
<1>0. IsLasting(codeTable, OldNames)
  BY LastingTables DEF codeTable
<1>12. /\ Renames(d, "Roles", "__legacy_Roles", put)
       /\ Renames(put, "Users_Roles", "__legacy_Users_Roles", aside)
       /\ Creates(aside, Created2, made)
  BY DEF FirstSteps
<1>13. /\ CreatesOne(made, "__new_SystemRoles", codeTable, new)
       /\ \E roles : Fills(new, "__new_SystemRoles",
                           new.rows["__new_SystemRoles"] \cup roles, filled)
       /\ Renames(filled, "__new_SystemRoles", "SystemRoles", named)
       /\ Fills(named, "Users_SystemRoles",
                named.rows["Users_SystemRoles"] \cup CopiedAdmins(made), admins)
  BY DEF FirstSteps
<1>14. \A t \in Kept1 : IsLasting(Snapshot1[t], OldNames)
  <2>1. /\ AreLasting(Entities2, OldNames) /\ AreLasting(Bookkeeping2, OldNames)
        /\ AreLasting(Credentials1, OldNames)
    BY LastingParts DEF PartsLast
  <2>. QED
    BY <2>1, FirstSnapshot, NamesOfParts DEF AreLasting, Kept1
<1>15. "Roles" \in OldNames /\ "Users_Roles" \in OldNames
       /\ "__new_SystemRoles" \in OldNames
  BY DEF OldNames
<1>16. Kept1 \cap {"Roles", "Users_Roles", "__legacy_Roles", "__legacy_Users_Roles",
                   "__new_SystemRoles", "SystemRoles"} = {}
  BY NamesOfParts DEF Kept1
<1>17. /\ DOMAIN put.tables = Kept1 \cup {"Users_Roles", "__legacy_Roles"}
       /\ \A t \in Kept1 : put.tables[t] = Snapshot1[t]
       /\ put.tables["__legacy_Roles"] = codeTable
  <2>1. \A t \in Kept1 : IsLasting(d.tables[t], OldNames)
    BY <1>14, FirstSnapshot DEF SameTables
  <2>2. MovesOne(OldNames, d, "Roles", "__legacy_Roles", put)
    BY <1>12, <1>15, RenamingOne
  <2>. QED
    BY <1>0, <1>16, <2>1, <2>2, FirstSnapshot DEF SameTables, MovesOne
<1>18. /\ DOMAIN aside.tables = Kept1 \cup {"__legacy_Users_Roles", "__legacy_Roles"}
       /\ \A t \in Kept1 : aside.tables[t] = Snapshot1[t]
       /\ aside.tables["__legacy_Roles"] = codeTable
  <2>1. \A t \in Kept1 : IsLasting(put.tables[t], OldNames)
    BY <1>14, <1>17
  <2>2. MovesOne(OldNames, put, "Users_Roles", "__legacy_Users_Roles", aside)
    BY <1>12, <1>15, RenamingOne
  <2>. QED
    BY <1>0, <1>16, <1>17, <2>1, <2>2 DEF MovesOne
<1>19. /\ DOMAIN made.tables = DOMAIN aside.tables \cup DOMAIN Created2
       /\ DOMAIN Created2 \cap DOMAIN aside.tables = {}
       /\ \A t \in Kept1 : made.tables[t] = Snapshot1[t]
       /\ made.tables["__legacy_Roles"] = codeTable
       /\ \A t \in DOMAIN Created2 : made.tables[t] = Created2[t]
  BY <1>12, <1>18 DEF Creates, Keeps
<1>20. "SystemRoles" \notin DOMAIN Created2 /\ "__new_SystemRoles" \notin DOMAIN Created2
  BY DEF Created2
<1>21. /\ DOMAIN filled.tables = DOMAIN made.tables \cup {"__new_SystemRoles"}
       /\ \A t \in Kept1 : filled.tables[t] = Snapshot1[t]
       /\ filled.tables["__legacy_Roles"] = codeTable
       /\ \A t \in DOMAIN Created2 : filled.tables[t] = Created2[t]
       /\ filled.tables["__new_SystemRoles"] = codeTable
  BY <1>13, <1>16, <1>18, <1>19, <1>20 DEF CreatesOne, Fills, Keeps
<1>22. /\ DOMAIN named.tables = DOMAIN made.tables \cup {"SystemRoles"}
       /\ \A t \in Kept1 : named.tables[t] = Snapshot1[t]
       /\ named.tables["__legacy_Roles"] = codeTable
       /\ \A t \in DOMAIN Created2 : named.tables[t] = Created2[t]
       /\ named.tables["SystemRoles"] = codeTable
  <2>1. \A t \in DOMAIN Created2 : IsLasting(Created2[t], OldNames)
    BY LastingParts DEF PartsLast, AreLasting
  <2>3. MovesOne(OldNames, filled, "__new_SystemRoles", "SystemRoles", named)
    BY <1>13, <1>15, RenamingOne
  <2>4. "__new_SystemRoles" \notin DOMAIN made.tables
    BY <1>13 DEF CreatesOne
  <2>5. \A t \in Kept1 \cup DOMAIN Created2 \cup {"__legacy_Roles"} :
          named.tables[t] = filled.tables[t]
    BY <1>0, <1>14, <1>16, <1>18, <1>19, <1>20, <1>21, <2>1, <2>3 DEF MovesOne
  <2>. QED
    BY <1>0, <1>21, <2>3, <2>4, <2>5 DEF MovesOne
<1>23. DOMAIN admins.tables = DOMAIN named.tables
       /\ \A t \in DOMAIN named.tables : admins.tables[t] = named.tables[t]
  BY <1>13 DEF Fills, Keeps
<1>24. \A t \in DOMAIN Created2 : IsLasting(Created2[t], OldNames)
  BY LastingParts DEF PartsLast, AreLasting
<1>. QED
  BY <1>0, <1>14, <1>16, <1>18, <1>19, <1>20, <1>22, <1>23, <1>24

LEMMA FirstMigrationArrives ==
  ASSUME NEW d, IsFile(d), SameTables(d.tables, Snapshot1), From1(d).ok
  PROVE  SameTables(From1(d).tables, Snapshot2)
<1>1. PICK put, aside, made, new, filled, named, admins, less :
        /\ AreFiles(d, put, aside, made, new, filled, named, admins, less)
        /\ FirstSteps(d, put, aside, made, new, filled, named, admins, less,
                      From1(d))
  BY FirstMigrationSteps
<1>2. PICK last : last = From1(d)
  OBVIOUS
<1>3. /\ Drops(admins, "__legacy_Users_Roles", less)
      /\ Drops(less, "__legacy_Roles", last)
  BY <1>1, <1>2, DroppingTable DEF AreFiles, FirstSteps
<1>4. /\ DOMAIN Created2 \cap (Kept1 \cup {"__legacy_Users_Roles", "__legacy_Roles"})
           = {}
      /\ DOMAIN admins.tables =
           Kept1 \cup DOMAIN Created2
             \cup {"SystemRoles", "__legacy_Users_Roles", "__legacy_Roles"}
      /\ \A t \in Kept1 : admins.tables[t] = Snapshot1[t]
      /\ \A t \in DOMAIN Created2 : admins.tables[t] = Created2[t]
      /\ admins.tables["SystemRoles"] = codeTable
  BY <1>1, FirstMigrationTables
<1>5. Kept1 \cap {"__legacy_Roles", "__legacy_Users_Roles"} = {}
  BY NamesOfParts DEF Kept1
<1>6. DOMAIN last.tables = DOMAIN admins.tables
                             \ {"__legacy_Users_Roles", "__legacy_Roles"}
      /\ \A t \in DOMAIN last.tables : last.tables[t] = admins.tables[t]
  BY <1>3 DEF Drops
<1>7. /\ DOMAIN last.tables = Kept1 \cup DOMAIN Created2 \cup {"SystemRoles"}
      /\ \A t \in Kept1 : last.tables[t] = Snapshot1[t]
      /\ \A t \in DOMAIN Created2 : last.tables[t] = Created2[t]
      /\ last.tables["SystemRoles"] = codeTable
  BY <1>4, <1>5, <1>6
<1>. QED
  BY <1>2, <1>7, SecondSnapshot DEF SameTables

LEMMA ThirdMigrationArrives ==
  ASSUME NEW d, IsFile(d), SameTables(d.tables, Snapshot3), From3(d).ok
  PROVE  SameTables(From3(d).tables, Snapshot4)
<1>. DEFINE made == CreateTables(d, Created4)
            typed == AddColumn(made, "Users_Sessions",
                               "authSourceCredentialTypeCode", {}, <<>>)
            new == AddColumn(typed, "Users_Sessions", "authSourceCredentialId",
                             {}, <<>>)
<1>1. SameFile(d, made) /\ (made.ok => d.ok /\ Creates(d, Created4, made))
  BY CreatingTables, CreatedAreTables DEF AreTables
<1>2. /\ SameFile(made, typed)
      /\ typed.ok => made.ok /\ AddsColumn(made, "Users_Sessions",
                       "authSourceCredentialTypeCode", {}, <<>>, typed)
  BY <1>1, AddingColumn DEF SameFile
<1>3. new.ok => typed.ok /\ AddsColumn(typed, "Users_Sessions",
                  "authSourceCredentialId", {}, <<>>, new)
  BY <1>2, AddingColumn DEF SameFile
<1>4. From3(d) = new
  BY DEF From3
<1>. HIDE DEF made, typed, new
<1>5. /\ Creates(d, Created4, made)
      /\ AddsColumn(made, "Users_Sessions", "authSourceCredentialTypeCode", {}, <<>>,
                    typed)
      /\ AddsColumn(typed, "Users_Sessions", "authSourceCredentialId", {}, <<>>, new)
  BY <1>1, <1>2, <1>3, <1>4
<1>6. DOMAIN Created4 = DOMAIN Scopes4
      /\ \A t \in DOMAIN Scopes4 : Created4[t] = Scopes4[t]
  BY DEF Created4, Scopes4
<1>7. Apart(Snapshot3, Scopes4)
  BY <1>5, <1>6 DEF Creates, Apart, SameTables
<1>8. PICK mid : Gives(mid, Snapshot3, Sessions4) /\ Gives(Snapshot4, mid, Scopes4)
  BY <1>7, FourthSnapshot
<1>9. "Users_Sessions" \in DOMAIN Snapshot3
      /\ Snapshot3["Users_Sessions"] = Credentials1["Users_Sessions"]
  BY EqualSnapshots, FirstSnapshot, SecondSnapshot, NamesOfParts DEF Kept1
<1>10. new.tables["Users_Sessions"] = Sessions4["Users_Sessions"]
  <2>1. made.tables["Users_Sessions"] = Credentials1["Users_Sessions"]
    BY <1>5, <1>9 DEF Creates, Keeps, SameTables
  <2>2. typed.tables["Users_Sessions"] =
          [Credentials1["Users_Sessions"] EXCEPT
             !.columns = @ \cup {"authSourceCredentialTypeCode"}, !.refs = @ \cup {}]
    BY <1>5, <2>1 DEF AddsColumn
  <2>3. new.tables["Users_Sessions"] =
          [typed.tables["Users_Sessions"] EXCEPT
             !.columns = @ \cup {"authSourceCredentialId"}, !.refs = @ \cup {}]
    BY <1>5 DEF AddsColumn
  <2>. QED
    BY <2>2, <2>3 DEF Credentials1, Sessions4, table
<1>11. /\ DOMAIN new.tables = DOMAIN Snapshot3 \cup DOMAIN Scopes4
       /\ \A t \in DOMAIN Snapshot3 \ {"Users_Sessions"} : new.tables[t] = Snapshot3[t]
       /\ \A t \in DOMAIN Scopes4 \ {"Users_Sessions"} : new.tables[t] = Scopes4[t]
  BY <1>5, <1>6 DEF Creates, AddsColumn, Keeps, SameTables
<1>. QED
  BY <1>4, <1>7, <1>8, <1>9, <1>10, <1>11, NamesOfChanges, NamesOfParts
     DEF Gives, SameTables, Apart

LEMMA Creating ==
  \A d, f, g, defs, some, new :
    /\ SameTables(d.tables, f) /\ Creates(d, defs, new)
    /\ SameTables(defs, some)
    /\ Apart(f, some) => Gives(g, f, some)
    => SameTables(new.tables, g)
<1>. SUFFICES ASSUME NEW d, NEW f, NEW g, NEW defs, NEW some, NEW new,
                     SameTables(d.tables, f), Creates(d, defs, new),
                     SameTables(defs, some), Apart(f, some) => Gives(g, f, some)
              PROVE  SameTables(new.tables, g)
  OBVIOUS
<1>1. Gives(g, f, some)
  BY DEF Apart, Creates, SameTables
<1>. QED
  BY <1>1 DEF Gives, Creates, Keeps, SameTables

LEMMA CreatingMigrationsArrive ==
  ASSUME NEW d, IsFile(d)
  PROVE  /\ SameTables(d.tables, Snapshot4) /\ From4(d).ok =>
              SameTables(From4(d).tables, Snapshot5)
         /\ SameTables(d.tables, Snapshot5) /\ From5(d).ok =>
              SameTables(From5(d).tables, Snapshot6)
         /\ SameTables(d.tables, Snapshot7) /\ From7(d).ok =>
              SameTables(From7(d).tables, Snapshot8)
<1>1. SameTables(Created5, Discussions5)
  BY DEF Created5, Discussions5, SameTables
<1>2. SameTables(Created6, Tasks6)
  BY DEF Created6, Tasks6, SameTables
<1>3. SameTables(Created8, Notices8)
  BY DEF Created8, Notices8, SameTables
<1>4. /\ SameTables(d.tables, Snapshot4) /\ From4(d).ok =>
           SameTables(From4(d).tables, Snapshot5)
  BY <1>1, CreatingMigrations, Creating, FifthSnapshot
<1>5. /\ SameTables(d.tables, Snapshot5) /\ From5(d).ok =>
           SameTables(From5(d).tables, Snapshot6)
  BY <1>2, CreatingMigrations, Creating, SixthSnapshot
<1>6. /\ SameTables(d.tables, Snapshot7) /\ From7(d).ok =>
           SameTables(From7(d).tables, Snapshot8)
  BY <1>3, CreatingMigrations, Creating, EighthSnapshot
<1>. QED
  BY <1>4, <1>5, <1>6

LEMMA ColumnsOfOne == \A c : ToSet(<<c>>) = {c}
BY DEF ToSet

LEMMA ColumnsOfReferences ==
  \A columns, parent :
    ToSet(cascade(columns, parent).columns) = ToSet(columns)
    /\ ToSet(restrict(columns, parent).columns) = ToSet(columns)
BY DEF cascade, restrict, reference

ColumnsOfRefs(refs) == UNION {ToSet(r.columns) : r \in refs}
ColumnsOfUnique(unique) == UNION unique
ColumnsOf(key, others, unique, refs) ==
  ToSet(key) \cup others \cup (UNION unique)
  \cup (UNION {ToSet(r.columns) : r \in refs})

LEMMA TablesOfColumns ==
  \A key, others, unique, refs :
    table(key, others, unique, refs)
      = [key |-> key, columns |-> ColumnsOf(key, others, unique, refs),
         unique |-> unique, refs |-> refs]
BY DEF table, ColumnsOf

LEMMA ColumnsInParts ==
  \A key, others, unique, refs :
    ColumnsOf(key, others, unique, refs)
      = ToSet(key) \cup others \cup ColumnsOfUnique(unique) \cup ColumnsOfRefs(refs)
BY DEF ColumnsOf, ColumnsOfRefs, ColumnsOfUnique

ColumnsAndOthersOf(old, bare, others) == old = bare \cup others

LEMMA ColumnsAndOthers ==
  \A key, others, unique, refs :
    ColumnsAndOthersOf(ColumnsOf(key, others, unique, refs),
                       ColumnsOf(key, {}, unique, refs), others)
BY DEF ColumnsOf, ColumnsAndOthersOf

Recolumned(def, c, name) == [def EXCEPT !.columns = (@ \ {c}) \cup {name}]

LEMMA RecolumnedRecords ==
  ASSUME NEW def, NEW c, NEW name, NEW key, NEW bare, NEW old, NEW new,
         NEW unique, NEW refs,
         def = [key |-> key, columns |-> old, unique |-> unique, refs |-> refs],
         old = bare \cup {c}, new = bare \cup {name}, c \notin bare
  PROVE  Recolumned(def, c, name)
           = [key |-> key, columns |-> new, unique |-> unique, refs |-> refs]
<1>1. (old \ {c}) \cup {name} = new
  OBVIOUS
<1>. QED
  BY <1>1 DEF Recolumned

LEMMA RenamedColumn ==
  ASSUME NEW key, NEW unique, NEW refs, NEW c, NEW name, NEW one, NEW other,
         one = {c}, other = {name},
         c \notin ColumnsOf(key, {}, unique, refs)
  PROVE  Recolumned(table(key, one, unique, refs), c, name)
           = table(key, other, unique, refs)
<1>1. PICK bare, old, new :
        /\ bare = ColumnsOf(key, {}, unique, refs)
        /\ old = ColumnsOf(key, one, unique, refs)
        /\ new = ColumnsOf(key, other, unique, refs)
  OBVIOUS
<1>2. /\ ColumnsAndOthersOf(old, bare, one)
      /\ ColumnsAndOthersOf(new, bare, other)
  BY <1>1, ColumnsAndOthers, Zenon
<1>3. old = bare \cup {c} /\ new = bare \cup {name} /\ c \notin bare
  BY <1>1, <1>2 DEF ColumnsAndOthersOf
<1>4. table(key, one, unique, refs)
        = [key |-> key, columns |-> old, unique |-> unique, refs |-> refs]
  BY <1>1, TablesOfColumns, Zenon
<1>5. table(key, other, unique, refs)
        = [key |-> key, columns |-> new, unique |-> unique, refs |-> refs]
  BY <1>1, TablesOfColumns, Zenon
<1>6. PICK def, after : def = table(key, one, unique, refs)
                        /\ after = table(key, other, unique, refs)
  OBVIOUS
<1>7. /\ def = [key |-> key, columns |-> old, unique |-> unique, refs |-> refs]
      /\ after = [key |-> key, columns |-> new, unique |-> unique, refs |-> refs]
  BY <1>4, <1>5, <1>6, Zenon
<1>8. Recolumned(def, c, name) = after
  BY <1>3, <1>7, RecolumnedRecords
<1>. QED
  BY <1>6, <1>8, Zenon

LEMMA NoColumnOf ==
  ASSUME NEW c, NEW key, NEW refs,
         c \notin ToSet(key), \A r \in refs : c \notin ToSet(r.columns)
  PROVE  c \notin ColumnsOf(key, {}, {}, refs)
<1>1. c \notin ColumnsOfRefs(refs)
  BY DEF ColumnsOfRefs
<1>2. \A unique : unique = {} => c \notin ColumnsOfUnique(unique)
  BY DEF ColumnsOfUnique
<1>. QED
  BY <1>1, <1>2, ColumnsInParts

LEMMA SixthMigrationArrives ==
  ASSUME NEW d, IsFile(d), SameTables(d.tables, Snapshot6), From6(d).ok
  PROVE  SameTables(From6(d).tables, Snapshot7)
<1>. DEFINE issues == RenameColumn(d, "Issues", "journal",
                                   "reusable-v7-issues-journal")
            projects == RenameColumn(issues, "Projects", "journal",
                                     "reusable-v7-projects-journal")
            new == CreateTables(projects, Created7)
<1>1. SameFile(d, issues)
      /\ (issues.ok => RenamesColumn(d, "Issues", "journal",
                                     "reusable-v7-issues-journal", issues))
  BY RenamingColumn
<1>2. SameFile(issues, projects)
      /\ (projects.ok => issues.ok
            /\ RenamesColumn(issues, "Projects", "journal",
                             "reusable-v7-projects-journal", projects))
  BY <1>1, RenamingColumn DEF SameFile
<1>3. new.ok => projects.ok /\ Creates(projects, Created7, new)
  BY <1>2, CreatingTables, CreatedAreTables DEF SameFile, AreTables
<1>4. From6(d) = new
  BY DEF From6
<1>. HIDE DEF issues, projects, new
<1>5. /\ RenamesColumn(d, "Issues", "journal", "reusable-v7-issues-journal", issues)
      /\ RenamesColumn(issues, "Projects", "journal",
                       "reusable-v7-projects-journal", projects)
      /\ Creates(projects, Created7, new)
  BY <1>1, <1>2, <1>3, <1>4
<1>6. Apart(Snapshot6, Created7)
  BY <1>5 DEF Creates, RenamesColumn, Apart, SameTables
<1>7. PICK one, two : /\ Gives(one, Snapshot6, Projects7)
                      /\ Gives(two, one, Issues7)
                      /\ Gives(Snapshot7, two, Created7)
  BY <1>6, SeventhSnapshot
<1>8. Snapshot6["Projects"] = Entities2["Projects"]
  <2>1. Holds(Snapshot6, Entities2)
    BY HoldsFirst, HoldsBefore DEF Snapshot6, Entities6, Entities5, Entities4, Entities3
  <2>. QED
    BY <2>1, NamesOfParts DEF Holds
<1>9. Snapshot6["Issues"] = Issues2["Issues"]
  <2>1. Apart(Entities2, Issues2)
    BY NamesOfParts DEF Apart
  <2>2. Holds(Snapshot6, Issues2)
    BY <2>1, HoldsLast, HoldsBefore DEF Snapshot6, Entities6, Entities5, Entities4,
       Entities3, Issues6, Issues5, Issues4, Issues3
  <2>. QED
    BY <2>2, NamesOfParts DEF Holds
<1>10. projects.tables["Projects"] = Projects7["Projects"]
  <2>1. issues.tables["Projects"] = Entities2["Projects"]
    BY <1>5, <1>8 DEF RenamesColumn, Keeps, SameTables
  <2>2. projects.tables["Projects"] =
          [Entities2["Projects"] EXCEPT
             !.columns = (@ \ {"journal"}) \cup {"reusable-v7-projects-journal"}]
    BY <1>5, <2>1 DEF RenamesColumn
  <2>3. Entities2["Projects"] = table(<<"id">>, {"journal"}, {}, {})
        /\ Projects7["Projects"] =
             table(<<"id">>, {"reusable-v7-projects-journal"}, {}, {})
    BY DEF Entities2, Projects7
  <2>4. "journal" \notin ColumnsOf(<<"id">>, {}, {}, {})
    BY ColumnsOfOne, NoColumnOf
  <2>5. PICK old, other : old = {"journal"}
                          /\ other = {"reusable-v7-projects-journal"}
    OBVIOUS
  <2>6. Recolumned(table(<<"id">>, old, {}, {}), "journal",
                   "reusable-v7-projects-journal")
          = table(<<"id">>, other, {}, {})
    BY <2>4, <2>5, RenamedColumn
  <2>7. Entities2["Projects"] = table(<<"id">>, old, {}, {})
        /\ Projects7["Projects"] = table(<<"id">>, other, {}, {})
    BY <2>3, <2>5, Zenon
  <2>8. projects.tables["Projects"] =
          Recolumned(Entities2["Projects"], "journal",
                     "reusable-v7-projects-journal")
    BY <2>2 DEF Recolumned
  <2>. QED
    BY <2>6, <2>7, <2>8, Zenon
<1>11. projects.tables["Issues"] = Issues7["Issues"]
  <2>1. issues.tables["Issues"] =
          [Issues2["Issues"] EXCEPT
             !.columns = (@ \ {"journal"}) \cup {"reusable-v7-issues-journal"}]
    BY <1>5, <1>9 DEF RenamesColumn, SameTables
  <2>2. projects.tables["Issues"] = issues.tables["Issues"]
    BY <1>5 DEF RenamesColumn, Keeps
  <2>. DEFINE refs == {cascade(<<"projectId">>, "Projects"),
                       restrict(<<"status">>, "IssueStatuses"),
                       restrict(<<"closedReason">>, "ClosedReasons")}
  <2>3. Issues2["Issues"] = table(<<"id">>, {"journal"}, {}, refs)
        /\ Issues7["Issues"] =
             table(<<"id">>, {"reusable-v7-issues-journal"}, {}, refs)
    BY DEF Issues2, Issues7
  <2>4. "journal" \notin ColumnsOf(<<"id">>, {}, {}, refs)
    <3>1. /\ "journal" \notin ToSet(cascade(<<"projectId">>, "Projects").columns)
          /\ "journal" \notin ToSet(restrict(<<"status">>, "IssueStatuses").columns)
          /\ "journal" \notin
               ToSet(restrict(<<"closedReason">>, "ClosedReasons").columns)
      BY ColumnsOfOne, ColumnsOfReferences
    <3>2. "journal" \notin ToSet(<<"id">>)
      BY ColumnsOfOne
    <3>. QED
      BY <3>1, <3>2, NoColumnOf
  <2>. HIDE DEF refs
  <2>5. PICK old, other : old = {"journal"}
                          /\ other = {"reusable-v7-issues-journal"}
    OBVIOUS
  <2>6. Recolumned(table(<<"id">>, old, {}, refs), "journal",
                   "reusable-v7-issues-journal")
          = table(<<"id">>, other, {}, refs)
    BY <2>4, <2>5, RenamedColumn
  <2>7. Issues2["Issues"] = table(<<"id">>, old, {}, refs)
        /\ Issues7["Issues"] = table(<<"id">>, other, {}, refs)
    BY <2>3, <2>5, Zenon
  <2>8. projects.tables["Issues"] =
          Recolumned(Issues2["Issues"], "journal", "reusable-v7-issues-journal")
    BY <2>1, <2>2 DEF Recolumned
  <2>. QED
    BY <2>6, <2>7, <2>8, Zenon
<1>12. /\ DOMAIN projects.tables = DOMAIN Snapshot6
       /\ \A t \in DOMAIN Snapshot6 \ {"Issues", "Projects"} :
            projects.tables[t] = Snapshot6[t]
       /\ "Issues" \in DOMAIN Snapshot6 /\ "Projects" \in DOMAIN Snapshot6
  BY <1>5 DEF RenamesColumn, Keeps, SameTables
<1>13. SameTables(projects.tables, two)
  BY <1>7, <1>10, <1>11, <1>12, NamesOfChanges DEF Gives, SameTables
<1>14. SameTables(Created7, Created7)
  BY DEF SameTables
<1>. QED
  BY <1>4, <1>5, <1>7, <1>13, <1>14, Creating

\* The tables of notifications and of mentions, in every form they have.
Def(key, columns, unique, refs) ==
  [key |-> key, columns |-> columns, unique |-> unique, refs |-> refs]
Widened(def, c, more) == [def EXCEPT !.columns = @ \cup {c}, !.refs = @ \cup more]
Relisted(def, gone, more) == [def EXCEPT !.refs = (@ \ gone) \cup more]
Indexing(def, more) == [def EXCEPT !.unique = @ \cup more]
Stripped(def, c) == [def EXCEPT !.columns = @ \ {c}, !.unique = {}]
Mapped(def) == {IF r.columns = <<"mentionedUserId">> THEN userReference("cascade")
                ELSE r : r \in def}

LEMMA WidenedTable ==
  \A key, columns, unique, refs, c, more :
    Widened(Def(key, columns, unique, refs), c, more)
      = Def(key, columns \cup {c}, unique, refs \cup more)
<1>. TAKE key, columns, unique, refs, c, more
<1>1. PICK columns2, refs2 : columns2 = columns \cup {c} /\ refs2 = refs \cup more
  OBVIOUS
<1>2. PICK def : def = Def(key, columns, unique, refs)
  OBVIOUS
<1>3. def.columns = columns /\ def.refs = refs
  BY <1>2 DEF Def
<1>4. PICK wide : wide = [def EXCEPT !.columns = columns2, !.refs = refs2]
  OBVIOUS
<1>5. wide = Def(key, columns2, unique, refs2)
  BY <1>2, <1>4 DEF Def
<1>6. Widened(def, c, more) = [def EXCEPT !.columns = def.columns \cup {c},
                                          !.refs = def.refs \cup more]
  BY DEF Widened
<1>. QED
  BY <1>1, <1>2, <1>3, <1>4, <1>5, <1>6, Zenon

LEMMA RelistedTable ==
  \A key, columns, unique, refs, gone, more :
    Relisted(Def(key, columns, unique, refs), gone, more)
      = Def(key, columns, unique, (refs \ gone) \cup more)
<1>. TAKE key, columns, unique, refs, gone, more
<1>1. PICK refs2 : refs2 = (refs \ gone) \cup more
  OBVIOUS
<1>2. PICK def : def = Def(key, columns, unique, refs)
  OBVIOUS
<1>3. def.refs = refs
  BY <1>2 DEF Def
<1>4. PICK other : other = [def EXCEPT !.refs = refs2]
  OBVIOUS
<1>5. other = Def(key, columns, unique, refs2)
  BY <1>2, <1>4 DEF Def
<1>6. Relisted(def, gone, more) = [def EXCEPT !.refs = (def.refs \ gone) \cup more]
  BY DEF Relisted
<1>. QED
  BY <1>1, <1>2, <1>3, <1>4, <1>5, <1>6, Zenon

LEMMA IndexedTable ==
  \A key, columns, unique, refs, more :
    Indexing(Def(key, columns, unique, refs), more)
      = Def(key, columns, unique \cup more, refs)
  BY DEF Indexing, Def

LEMMA StrippedTable ==
  \A key, columns, unique, refs, c :
    Stripped(Def(key, columns, unique, refs), c)
      = Def(key, columns \ {c}, {}, refs)
<1>. TAKE key, columns, unique, refs, c
<1>1. PICK columns2, none : columns2 = columns \ {c} /\ none = {}
  OBVIOUS
<1>2. PICK def : def = Def(key, columns, unique, refs)
  OBVIOUS
<1>3. def.columns = columns
  BY <1>2 DEF Def
<1>4. PICK thin : thin = [def EXCEPT !.columns = columns2, !.unique = none]
  OBVIOUS
<1>5. thin = Def(key, columns2, none, refs)
  BY <1>2, <1>4 DEF Def
<1>6. Stripped(def, c) = [def EXCEPT !.columns = def.columns \ {c}, !.unique = {}]
  BY DEF Stripped
<1>. QED
  BY <1>1, <1>2, <1>3, <1>4, <1>5, <1>6, Zenon

LEMMA LenientTable ==
  \A key, columns, unique, refs :
    leniently(Def(key, columns, unique, refs))
      = Def(key, columns, unique, Mapped(refs))
<1>. TAKE key, columns, unique, refs
<1>1. PICK refs2 : refs2 = Mapped(refs)
  OBVIOUS
<1>2. PICK def : def = Def(key, columns, unique, refs)
  OBVIOUS
<1>3. def.refs = refs
  BY <1>2 DEF Def
<1>4. PICK other : other = [def EXCEPT !.refs = refs2]
  OBVIOUS
<1>5. other = Def(key, columns, unique, refs2)
  BY <1>2, <1>4 DEF Def
<1>6. leniently(def) = [def EXCEPT !.refs = Mapped(def.refs)]
  BY DEF leniently, Mapped
<1>. QED
  BY <1>1, <1>2, <1>3, <1>4, <1>5, <1>6, Zenon

Refs8 == {cascade(<<"issueId">>, "Issues"), cascade(<<"projectId">>, "Projects"),
          restrict(<<"actorUserId">>, "Users"),
          cascade(<<"attachmentId">>, "Attachments")}
Columns8 == ColumnsOf(<<"id">>, {}, {}, Refs8)
Untold8 == Def(<<"id">>, Columns8, {}, Refs8)
Told(action) == Def(<<"id">>, Columns8 \cup {"mentionedUserId"}, {},
                    Refs8 \cup {userReference(action)})
MentionRefs == {cascade(<<"issueId">>, "Issues"), cascade(<<"projectId">>, "Projects"),
                cascade(<<"speakerUserId">>, "Users"),
                cascade(<<"mentionedUserId">>, "Users")}
MentionColumns ==
  ColumnsOf(<<"id">>, {"taskId", "commentId"}, {mentionIndex}, MentionRefs)
BareMentions == Def(<<"id">>, MentionColumns \ {"containerKey"}, {}, MentionRefs)
KeyedMentions == Def(<<"id">>, MentionColumns, {}, MentionRefs)
Mentions9 == Def(<<"id">>, MentionColumns, {mentionIndex}, MentionRefs)

LEMMA OneMoreReference ==
  \A key, others, unique, refs, r :
    ColumnsOf(key, others, unique, refs \cup {r})
      = ColumnsOf(key, others, unique, refs) \cup ToSet(r.columns)
<1>1. \A refs, r : ColumnsOfRefs(refs \cup {r}) = ColumnsOfRefs(refs) \cup ToSet(r.columns)
  BY DEF ColumnsOfRefs
<1>. QED
  BY <1>1, ColumnsInParts

LEMMA NotificationForms ==
  /\ Notices8["Notifications"] = Untold8
  /\ Notifications9["Notifications"] = Told("cascade")
  /\ Widened(Untold8, "mentionedUserId", {userReference("no action")})
       = Told("no action")
  /\ Relisted(Told("cascade"), {userReference("cascade")},
              {userReference("no action")}) = Told("no action")
  /\ leniently(Told("no action")) = Told("cascade")
  /\ "mentionedUserId" \notin Columns8
<1>1. \A r \in Refs8 : r.columns # <<"mentionedUserId">>
                       /\ "mentionedUserId" \notin ToSet(r.columns)
  <2>1. \A parent :
          /\ cascade(<<"issueId">>, parent).columns = <<"issueId">>
          /\ cascade(<<"projectId">>, parent).columns = <<"projectId">>
          /\ restrict(<<"actorUserId">>, parent).columns = <<"actorUserId">>
          /\ cascade(<<"attachmentId">>, parent).columns = <<"attachmentId">>
    BY DEF cascade, restrict, reference
  <2>2. /\ ToSet(<<"issueId">>) = {"issueId"} /\ ToSet(<<"projectId">>) = {"projectId"}
        /\ ToSet(<<"actorUserId">>) = {"actorUserId"}
        /\ ToSet(<<"attachmentId">>) = {"attachmentId"}
    BY ColumnsOfOne
  <2>3. /\ <<"issueId">> # <<"mentionedUserId">> /\ <<"projectId">> # <<"mentionedUserId">>
        /\ <<"actorUserId">> # <<"mentionedUserId">>
        /\ <<"attachmentId">> # <<"mentionedUserId">>
    OBVIOUS
  <2>. QED
    BY <2>1, <2>2, <2>3 DEF Refs8
<1>2. \A action : userReference(action).columns = <<"mentionedUserId">>
  BY DEF userReference, reference
<1>3. cascade(<<"mentionedUserId">>, "Users") = userReference("cascade")
  BY DEF cascade, userReference
<1>4. "mentionedUserId" \notin Columns8
  <2>1. "mentionedUserId" \notin ToSet(<<"id">>)
    BY ColumnsOfOne
  <2>. QED
    BY <1>1, <2>1, NoColumnOf DEF Columns8
<1>5. Notices8["Notifications"] = Untold8
  <2>1. Notices8["Notifications"] = table(<<"id">>, {}, {}, Refs8)
    BY DEF Notices8, Refs8
  <2>. QED
    BY <2>1, TablesOfColumns DEF Untold8, Columns8, Def
<1>6. Notifications9["Notifications"] = Told("cascade")
  <2>1. Notifications9["Notifications"]
          = table(<<"id">>, {}, {}, Refs8 \cup {userReference("cascade")})
    <3>1. PICK refs : refs = Refs8 \cup {userReference("cascade")}
      OBVIOUS
    <3>2. refs = {cascade(<<"issueId">>, "Issues"),
                  cascade(<<"projectId">>, "Projects"),
                  restrict(<<"actorUserId">>, "Users"),
                  cascade(<<"mentionedUserId">>, "Users"),
                  cascade(<<"attachmentId">>, "Attachments")}
      BY <1>3, <3>1 DEF Refs8
    <3>. QED
      BY <3>1, <3>2 DEF Notifications9
  <2>2. ColumnsOf(<<"id">>, {}, {}, Refs8 \cup {userReference("cascade")})
          = Columns8 \cup {"mentionedUserId"}
    BY <1>2, OneMoreReference, ColumnsOfOne DEF Columns8
  <2>. QED
    BY <2>1, <2>2, TablesOfColumns DEF Told, Def
<1>7. Widened(Untold8, "mentionedUserId", {userReference("no action")})
        = Told("no action")
  <2>1. PICK more : more = {userReference("no action")}
    OBVIOUS
  <2>2. Widened(Untold8, "mentionedUserId", more)
          = Def(<<"id">>, Columns8 \cup {"mentionedUserId"}, {}, Refs8 \cup more)
    BY WidenedTable DEF Untold8
  <2>. QED
    BY <2>1, <2>2, Zenon DEF Told
<1>8. userReference("cascade") \notin Refs8
  BY <1>1, <1>2
<1>9. Relisted(Told("cascade"), {userReference("cascade")},
               {userReference("no action")}) = Told("no action")
  <2>1. ((Refs8 \cup {userReference("cascade")}) \ {userReference("cascade")})
          \cup {userReference("no action")} = Refs8 \cup {userReference("no action")}
    BY <1>8
  <2>2. PICK gone, more : gone = {userReference("cascade")}
                          /\ more = {userReference("no action")}
    OBVIOUS
  <2>3. Relisted(Def(<<"id">>, Columns8 \cup {"mentionedUserId"}, {},
                     Refs8 \cup gone), gone, more)
          = Def(<<"id">>, Columns8 \cup {"mentionedUserId"}, {},
                ((Refs8 \cup gone) \ gone) \cup more)
    BY RelistedTable
  <2>. QED
    BY <2>1, <2>2, <2>3, Zenon DEF Told
<1>10. leniently(Told("no action")) = Told("cascade")
  <2>1. Mapped(Refs8 \cup {userReference("no action")})
          = Refs8 \cup {userReference("cascade")}
    BY <1>1, <1>2 DEF Mapped
  <2>2. PICK refs : refs = Refs8 \cup {userReference("no action")}
    OBVIOUS
  <2>3. leniently(Def(<<"id">>, Columns8 \cup {"mentionedUserId"}, {}, refs))
          = Def(<<"id">>, Columns8 \cup {"mentionedUserId"}, {}, Mapped(refs))
    BY LenientTable
  <2>. QED
    BY <2>1, <2>2, <2>3, Zenon DEF Told
<1>. QED
  BY <1>4, <1>5, <1>6, <1>7, <1>9, <1>10

LEMMA MentionForms ==
  /\ Notifications9["Mentions"] = Mentions9
  /\ Created9["Mentions"] = Mentions9
  /\ "containerKey" \in MentionColumns
  /\ Stripped(Mentions9, "containerKey") = BareMentions
  /\ Widened(BareMentions, "containerKey", {}) = KeyedMentions
  /\ \A def \in {KeyedMentions, Mentions9} :
       /\ Widened(def, "containerKey", {}) = def
       /\ Indexing(def, {mentionIndex}) = Mentions9
<1>1. /\ Notifications9["Mentions"]
           = table(<<"id">>, {"taskId", "commentId"}, {mentionIndex}, MentionRefs)
      /\ Created9["Mentions"]
           = table(<<"id">>, {"taskId", "commentId"}, {mentionIndex}, MentionRefs)
  BY DEF Notifications9, Created9, mentionIndex, MentionRefs
<1>2. Notifications9["Mentions"] = Mentions9 /\ Created9["Mentions"] = Mentions9
  BY <1>1, TablesOfColumns DEF Mentions9, Def, MentionColumns
<1>3. "containerKey" \in MentionColumns
  <2>1. "containerKey" \in ColumnsOfUnique({mentionIndex})
    BY DEF ColumnsOfUnique, mentionIndex
  <2>. QED
    BY <2>1, ColumnsInParts DEF MentionColumns
<1>4. Stripped(Mentions9, "containerKey") = BareMentions
  BY StrippedTable DEF Mentions9, BareMentions
<1>5. /\ (MentionColumns \ {"containerKey"}) \cup {"containerKey"} = MentionColumns
      /\ MentionColumns \cup {"containerKey"} = MentionColumns
      /\ MentionRefs \cup {} = MentionRefs
  BY <1>3
<1>6. Widened(BareMentions, "containerKey", {}) = KeyedMentions
  BY <1>5, WidenedTable DEF KeyedMentions, BareMentions
<1>7. Widened(KeyedMentions, "containerKey", {}) = KeyedMentions
      /\ Widened(Mentions9, "containerKey", {}) = Mentions9
  BY <1>5, WidenedTable DEF KeyedMentions, Mentions9
<1>8. {} \cup {mentionIndex} = {mentionIndex}
      /\ {mentionIndex} \cup {mentionIndex} = {mentionIndex}
  OBVIOUS
<1>9. Indexing(KeyedMentions, {mentionIndex}) = Mentions9
      /\ Indexing(Mentions9, {mentionIndex}) = Mentions9
  BY <1>8, IndexedTable DEF KeyedMentions, Mentions9
<1>. QED
  BY <1>2, <1>3, <1>4, <1>6, <1>7, <1>9

\* One table of names is another, but for some names.
Nearly(f, g, but) == DOMAIN f = DOMAIN g /\ \A t \in DOMAIN g \ but : f[t] = g[t]

LEMMA NoticesInSnapshots ==
  /\ "Notifications" \in DOMAIN Snapshot8 /\ Snapshot8["Notifications"] = Untold8
  /\ \A s \in {Snapshot9, Snapshot10} :
       /\ {"Mentions", "Notifications"} \subseteq DOMAIN s
       /\ s["Mentions"] = Mentions9
       /\ s["Notifications"] = Told("cascade")
  /\ {"Mentions", "Notifications"} \subseteq DOMAIN Snapshot11
  /\ Snapshot11["Notifications"] = Told("cascade")
<1>1. DOMAIN Notices8 = {"Notifications", "Users_Notifications"}
  BY DEF Notices8
<1>2. /\ Apart(Entities10, Notices8) /\ Apart(Issues10, Notices8)
      /\ Apart(Discussions10, Notices8) /\ Apart(Tasks6, Notices8)
  BY <1>1, NamesOfDiscussions, NamesOfChanges, NamesOfParts DEF Apart, TaskTables
<1>3. Apart(Entities8 ++ Issues8 ++ Discussions8 ++ Tasks8, Notices8)
  BY <1>2, ApartFromBoth
     DEF Entities10, Entities9, Issues10, Issues9, Discussions10, Discussions9,
         Tasks8, Tasks7
<1>4. Holds(Entities8 ++ Issues8 ++ Discussions8 ++ Tasks8 ++ Notices8, Notices8)
  BY <1>3, HoldsLast
<1>5. Holds(Snapshot8, Notices8)
  BY <1>4, HoldsBefore DEF Snapshot8
<1>6. "Notifications" \in DOMAIN Snapshot8 /\ Snapshot8["Notifications"] = Untold8
  BY <1>1, <1>5, NotificationForms DEF Holds
<1>7. /\ {"Mentions", "Notifications"} \subseteq DOMAIN Snapshot9
      /\ Snapshot9["Mentions"] = Mentions9
      /\ Snapshot9["Notifications"] = Told("cascade")
  BY NinthSnapshot, NotificationForms, MentionForms, NamesOfChanges DEF Gives
<1>8. /\ {"Mentions", "Notifications"} \subseteq DOMAIN Snapshot11
      /\ Snapshot11["Notifications"] = Told("cascade")
  <2>1. PICK mid : Gives(mid, Snapshot10, Charts11) /\ Gives(Snapshot11, mid, Tasks11)
    BY EleventhSnapshot
  <2>2. {"Mentions", "Notifications"} \cap (DOMAIN Charts11 \cup DOMAIN Tasks11) = {}
    BY NamesOfChanges DEF TaskTables
  <2>3. /\ {"Mentions", "Notifications"} \subseteq DOMAIN mid
        /\ mid["Notifications"] = Told("cascade")
    BY <1>7, <2>1, <2>2, EqualSnapshots DEF Gives
  <2>. QED
    BY <2>1, <2>2, <2>3 DEF Gives
<1>. QED
  BY <1>6, <1>7, <1>8, EqualSnapshots

LEMMA EighthMigrationArrives ==
  ASSUME NEW d, IsFile(d), SameTables(d.tables, Snapshot8), From8(d).ok
  PROVE  /\ Nearly(From8(d).tables, Snapshot9, {"Notifications"})
         /\ From8(d).tables["Notifications"] = Told("no action")
<1>. DEFINE made == CreateTables(d, Created9)
            refs == {userReference("no action")}
            new == AddColumn(made, "Notifications", "mentionedUserId", refs, <<>>)
<1>1. SameFile(d, made) /\ (made.ok => d.ok /\ Creates(d, Created9, made))
  BY CreatingTables, CreatedAreTables DEF AreTables
<1>2. new.ok => made.ok /\ AddsColumn(made, "Notifications",
                                      "mentionedUserId", refs, <<>>, new)
  BY <1>1, AddingColumn DEF SameFile
<1>3. From8(d) = new
  BY DEF From8, userReference
<1>4. refs = {userReference("no action")}
  OBVIOUS
<1>. HIDE DEF made, refs, new
<1>5. Creates(d, Created9, made)
      /\ AddsColumn(made, "Notifications", "mentionedUserId", refs, <<>>, new)
  BY <1>1, <1>2, <1>3
<1>6. DOMAIN Created9 = {"Mentions"}
  BY DEF Created9
<1>7. made.tables["Notifications"] = Untold8
  BY <1>5, <1>6, NoticesInSnapshots DEF Creates, Keeps, SameTables
<1>8. new.tables["Notifications"] = Widened(Untold8, "mentionedUserId", refs)
  BY <1>5, <1>7 DEF AddsColumn, Widened
<1>9. new.tables["Notifications"] = Told("no action")
  BY <1>4, <1>8, NotificationForms, Zenon
<1>10. new.tables["Mentions"] = Snapshot9["Mentions"]
  BY <1>5, <1>6, NoticesInSnapshots, MentionForms DEF Creates, AddsColumn, Keeps
<1>11. /\ DOMAIN new.tables = DOMAIN Snapshot8 \cup {"Mentions"}
       /\ \A t \in DOMAIN Snapshot8 \ {"Notifications"} : new.tables[t] = Snapshot8[t]
  BY <1>5, <1>6 DEF Creates, AddsColumn, Keeps, SameTables
<1>12. Nearly(new.tables, Snapshot9, {"Notifications"})
  BY <1>10, <1>11, NinthSnapshot, NamesOfChanges, NoticesInSnapshots DEF Gives, Nearly
<1>. QED
  BY <1>3, <1>9, <1>12

\* The references of a table follow a name.
Following(def, t, name) == [def EXCEPT !.refs = Follow(@, t, name)]
Followed(r, t, name) == [r EXCEPT !.table = IF @ = t THEN name ELSE @]
IsReference(r) ==
  \E columns, parent, action : r = reference(columns, parent, action)
AreReferences(refs) == \A r \in refs : IsReference(r)

LEMMA FollowedReferences ==
  /\ \A columns, parent, t, name :
       /\ parent = t =>
            Followed(cascade(columns, parent), t, name) = cascade(columns, name)
       /\ parent # t =>
            /\ Followed(cascade(columns, parent), t, name) = cascade(columns, parent)
            /\ Followed(restrict(columns, parent), t, name)
                 = restrict(columns, parent)
       /\ IsReference(cascade(columns, parent))
       /\ IsReference(restrict(columns, parent))
  /\ \A r, t, name : IsReference(r) => /\ Followed(r, t, name).columns = r.columns
                                       /\ IsReference(Followed(r, t, name))
<1>1. \A columns, parent, action, t, name :
        Followed(reference(columns, parent, action), t, name)
          = reference(columns, IF parent = t THEN name ELSE parent, action)
  BY DEF Followed, reference
<1>2. \A columns, parent, action : reference(columns, parent, action).columns = columns
  BY DEF reference
<1>. QED
  BY <1>1, <1>2 DEF IsReference, cascade, restrict

LEMMA FollowingTable ==
  \A key, others, unique, refs, t, name :
    AreReferences(refs) =>
      /\ Following(table(key, others, unique, refs), t, name)
           = table(key, others, unique, Follow(refs, t, name))
      /\ AreReferences(Follow(refs, t, name))
<1>. SUFFICES ASSUME NEW key, NEW others, NEW unique, NEW refs, NEW t, NEW name,
                     AreReferences(refs)
              PROVE  /\ Following(table(key, others, unique, refs), t, name)
                          = table(key, others, unique, Follow(refs, t, name))
                     /\ AreReferences(Follow(refs, t, name))
  OBVIOUS
<1>1. PICK refs2 : refs2 = Follow(refs, t, name)
  OBVIOUS
<1>2. refs2 = {Followed(r, t, name) : r \in refs}
  BY <1>1 DEF Follow, Followed
<1>3. AreReferences(refs2)
  BY <1>2, FollowedReferences DEF AreReferences
<1>4. ColumnsOfRefs(refs2) = ColumnsOfRefs(refs)
  <2>1. {ToSet(r.columns) : r \in refs2} = {ToSet(r.columns) : r \in refs}
    BY <1>2, FollowedReferences DEF AreReferences
  <2>. QED
    BY <2>1 DEF ColumnsOfRefs
<1>5. ColumnsOf(key, others, unique, refs2) = ColumnsOf(key, others, unique, refs)
  BY <1>4, ColumnsInParts
<1>6. PICK columns : columns = ColumnsOf(key, others, unique, refs)
  OBVIOUS
<1>7. PICK def : def = table(key, others, unique, refs)
  OBVIOUS
<1>8. def = [key |-> key, columns |-> columns, unique |-> unique, refs |-> refs]
  BY <1>6, <1>7, TablesOfColumns
<1>9. table(key, others, unique, refs2)
        = [key |-> key, columns |-> columns, unique |-> unique, refs |-> refs2]
  BY <1>5, <1>6, TablesOfColumns
<1>10. Following(def, t, name) = [def EXCEPT !.refs = Follow(def.refs, t, name)]
  BY DEF Following
<1>11. def.refs = refs
  BY <1>8
<1>12. PICK new : new = [def EXCEPT !.refs = refs2]
  OBVIOUS
<1>13. new = [key |-> key, columns |-> columns, unique |-> unique, refs |-> refs2]
  BY <1>8, <1>12
<1>14. Following(def, t, name) = new
  BY <1>1, <1>10, <1>11, <1>12, Zenon
<1>. QED
  BY <1>1, <1>3, <1>7, <1>9, <1>13, <1>14

LEMMA FollowingMany ==
  \A a, b, c, d, t, name :
    /\ Follow({a}, t, name) = {Followed(a, t, name)}
    /\ Follow({a, b, c}, t, name)
         = {Followed(a, t, name), Followed(b, t, name), Followed(c, t, name)}
    /\ Follow({a, b, c, d}, t, name)
         = {Followed(a, t, name), Followed(b, t, name), Followed(c, t, name),
            Followed(d, t, name)}
<1>1. \A refs, t, name : Follow(refs, t, name) = {Followed(r, t, name) : r \in refs}
  BY DEF Follow, Followed
<1>. QED
  BY <1>1

\* What the tables of v10--v11 refer to once both of their parents have names.
Settled(def) ==
  Following(Following(def, "TaskMirror__new", "TaskMirror"),
            "TaskComments__new", "TaskComments")

LEMMA SettledTables ==
  /\ Settled(Created11["TaskMirror__new"]) = Tasks11["TaskMirror"]
  /\ Settled(Created11["TaskAttachments__new"]) = Tasks11["TaskAttachments"]
  /\ Settled(Created11["TaskComments__new"]) = Tasks11["TaskComments"]
  /\ Settled(Created11["TaskComments_Attachments__new"])
       = Tasks11["TaskComments_Attachments"]
<1>. DEFINE mirror == "TaskMirror__new"
            comments == "TaskComments__new"
<1>1. PICK chart, task, file, user, note, task2, note2 :
        /\ chart = ofChart /\ task = ofTask
        /\ file = cascade(<<"attachmentId">>, "Attachments")
        /\ user = restrict(<<"createdByUserId">>, "Users")
        /\ note = cascade(<<"commentId">>, "TaskComments__new")
        /\ task2 = cascade(<<"projectGanttChartId", "taskId">>, "TaskMirror")
        /\ note2 = cascade(<<"commentId">>, "TaskComments")
  OBVIOUS
<1>2. /\ Followed(chart, mirror, "TaskMirror") = chart
      /\ Followed(task, mirror, "TaskMirror") = task2
      /\ Followed(file, mirror, "TaskMirror") = file
      /\ Followed(user, mirror, "TaskMirror") = user
      /\ Followed(note, mirror, "TaskMirror") = note
  BY <1>1, FollowedReferences DEF ofChart, ofTask
<1>3. /\ Followed(chart, comments, "TaskComments") = chart
      /\ Followed(task2, comments, "TaskComments") = task2
      /\ Followed(file, comments, "TaskComments") = file
      /\ Followed(user, comments, "TaskComments") = user
      /\ Followed(note, comments, "TaskComments") = note2
  BY <1>1, FollowedReferences DEF ofChart
<1>4. /\ IsReference(chart) /\ IsReference(task) /\ IsReference(file)
      /\ IsReference(user) /\ IsReference(note)
  BY <1>1, FollowedReferences DEF ofChart, ofTask
<1>. HIDE DEF mirror, comments
<1>5. ASSUME NEW key, NEW refs, NEW refs1, NEW refs2, AreReferences(refs),
             refs1 = Follow(refs, mirror, "TaskMirror"),
             refs2 = Follow(refs1, comments, "TaskComments")
      PROVE  Settled(table(key, {}, {}, refs)) = table(key, {}, {}, refs2)
  <2>1. Following(table(key, {}, {}, refs), mirror, "TaskMirror")
          = table(key, {}, {}, refs1)
        /\ AreReferences(refs1)
    BY <1>5, FollowingTable
  <2>2. Following(table(key, {}, {}, refs1), comments, "TaskComments")
          = table(key, {}, {}, refs2)
    BY <1>5, <2>1, FollowingTable
  <2>. QED
    BY <2>1, <2>2, Zenon DEF Settled, mirror, comments
<1>6. /\ {chart} = Follow({chart}, mirror, "TaskMirror")
      /\ {chart} = Follow({chart}, comments, "TaskComments")
      /\ {chart, task2, file} = Follow({chart, task, file}, mirror, "TaskMirror")
      /\ {chart, task2, file} = Follow({chart, task2, file}, comments, "TaskComments")
      /\ {chart, task2, user} = Follow({chart, task, user}, mirror, "TaskMirror")
      /\ {chart, task2, user} = Follow({chart, task2, user}, comments, "TaskComments")
      /\ {chart, task2, file, note}
           = Follow({chart, task, file, note}, mirror, "TaskMirror")
      /\ {chart, task2, file, note2}
           = Follow({chart, task2, file, note}, comments, "TaskComments")
  BY <1>2, <1>3, FollowingMany
<1>7. /\ AreReferences({chart}) /\ AreReferences({chart, task, file})
      /\ AreReferences({chart, task, user}) /\ AreReferences({chart, task, file, note})
  BY <1>4 DEF AreReferences
<1>8. \A key :
        /\ Settled(table(key, {}, {}, {chart})) = table(key, {}, {}, {chart})
        /\ Settled(table(key, {}, {}, {chart, task, file}))
             = table(key, {}, {}, {chart, task2, file})
        /\ Settled(table(key, {}, {}, {chart, task, user}))
             = table(key, {}, {}, {chart, task2, user})
        /\ Settled(table(key, {}, {}, {chart, task, file, note}))
             = table(key, {}, {}, {chart, task2, file, note2})
  <2>. TAKE key
  <2>1. Settled(table(key, {}, {}, {chart})) = table(key, {}, {}, {chart})
    BY <1>5, <1>6, <1>7
  <2>2. Settled(table(key, {}, {}, {chart, task, file}))
          = table(key, {}, {}, {chart, task2, file})
    BY <1>5, <1>6, <1>7
  <2>3. Settled(table(key, {}, {}, {chart, task, user}))
          = table(key, {}, {}, {chart, task2, user})
    BY <1>5, <1>6, <1>7
  <2>4. Settled(table(key, {}, {}, {chart, task, file, note}))
          = table(key, {}, {}, {chart, task2, file, note2})
    BY <1>5, <1>6, <1>7
  <2>. QED
    BY <2>1, <2>2, <2>3, <2>4
<1>9. /\ Created11["TaskMirror__new"]
           = table(<<"projectGanttChartId", "taskId">>, {}, {}, {chart})
      /\ Created11["TaskAttachments__new"]
           = table(<<"projectGanttChartId", "taskId", "attachmentId">>, {}, {},
                   {chart, task, file})
      /\ Created11["TaskComments__new"]
           = table(<<"id">>, {}, {}, {chart, task, user})
      /\ Created11["TaskComments_Attachments__new"]
           = table(<<"projectGanttChartId", "taskId", "commentId", "attachmentId">>,
                   {}, {}, {chart, task, file, note})
  BY <1>1 DEF Created11
<1>10. /\ {file, chart, task2} = {chart, task2, file}
       /\ {user, chart, task2} = {chart, task2, user}
       /\ {note2, file, chart, task2} = {chart, task2, file, note2}
  OBVIOUS
<1>11. /\ Tasks11["TaskMirror"]
            = table(<<"projectGanttChartId", "taskId">>, {}, {}, {chart})
       /\ Tasks11["TaskAttachments"]
            = table(<<"projectGanttChartId", "taskId", "attachmentId">>, {}, {},
                    {file, chart, task2})
       /\ Tasks11["TaskComments"]
            = table(<<"id">>, {}, {}, {user, chart, task2})
       /\ Tasks11["TaskComments_Attachments"]
            = table(<<"projectGanttChartId", "taskId", "commentId", "attachmentId">>,
                    {}, {}, {note2, file, chart, task2})
  BY <1>1 DEF Tasks11, ofChart
<1>. QED
  BY <1>8, <1>9, <1>10, <1>11, Zenon

\* What a statement takes away of the tables.
Leaves(d, new, gone) ==
  /\ SameFile(d, new)
  /\ new.ok => /\ d.ok
               /\ DOMAIN new.tables = DOMAIN d.tables \ gone
               /\ \A u \in DOMAIN new.tables : new.tables[u] = d.tables[u]

LEMMA LeavesIsTransitive ==
  \A d, mid, new, a, b :
    Leaves(d, mid, a) /\ Leaves(mid, new, b) => Leaves(d, new, a \cup b)
BY DEF Leaves, SameFile

LEMMA InsertingLeaves ==
  ASSUME NEW d, IsFile(d), NEW name, NEW rows
  PROVE  /\ Leaves(d, Insert(d, name, rows), {})
         /\ Leaves(d, InsertNew(d, name, rows), {})
<1>. DEFINE new == Insert(d, name, rows)
            some == InsertNew(d, name, rows)
<1>1. SameFile(d, new)
      /\ (new.ok => d.ok /\ Fills(d, name, d.rows[name] \cup rows, new))
  BY Inserting
<1>2. SameFile(d, some)
      /\ (some.ok => \E more \in SUBSET rows :
                       d.ok /\ Fills(d, name, d.rows[name] \cup more, some))
  BY InsertingNew
<1>0. new = Insert(d, name, rows) /\ some = InsertNew(d, name, rows)
  OBVIOUS
<1>. HIDE DEF new, some
<1>3. Leaves(d, new, {})
  BY <1>1 DEF Leaves, Fills, Keeps
<1>4. Leaves(d, some, {})
  BY <1>2 DEF Leaves, Fills, Keeps
<1>. QED
  BY <1>0, <1>3, <1>4

LEMMA FillingNewLeaves ==
  ASSUME NEW d, IsFile(d), NEW old
  PROVE  Leaves(d, FillNew(d, old), {})
<1>. DEFINE rows == UNION {onDefaultChart(row, d.rows["ProjectGanttCharts"]) :
                             row \in d.rows[old]}
<1>1. FillNew(d, old) = IF HasColumn(d, old, "projectId")
                         THEN Insert(d, NewName[old], rows) ELSE Fail(d)
  BY DEF FillNew
<1>. HIDE DEF rows
<1>2. Leaves(d, Insert(d, NewName[old], rows), {})
  BY InsertingLeaves
<1>3. Leaves(d, Fail(d), {})
  BY FailingIsNotOk DEF Leaves
<1>. QED
  BY <1>1, <1>2, <1>3

LEMMA DroppingLeaves ==
  ASSUME NEW d, IsFile(d), NEW name
  PROVE  Leaves(d, DropTable(d, name), {name})
<1>. DEFINE new == DropTable(d, name)
<1>1. SameFile(d, new) /\ (new.ok => d.ok /\ Drops(d, name, new))
  BY DroppingTable
<1>0. new = DropTable(d, name)
  OBVIOUS
<1>. HIDE DEF new
<1>. QED
  BY <1>0, <1>1 DEF Leaves, Drops

LEMMA NoChartsYet == "ProjectGanttCharts" \notin DOMAIN Snapshot10
<1>1. Gives(Notices9, Notices8, Notifications9)
  BY GivesFirst DEF Notices9, Notifications9
<1>2. Gives(Credentials4, Credentials3, Sessions4)
  BY GivesFirst DEF Credentials4, Sessions4
<1>3. /\ "ProjectGanttCharts" \notin DOMAIN Notices10
      /\ "ProjectGanttCharts" \notin DOMAIN Credentials10
  BY <1>1, <1>2, NamesOfChanges, NamesOfParts
     DEF Gives, Notices10, Credentials10, Credentials9, Credentials8, Credentials7,
         Credentials6, Credentials5, Credentials3, Credentials2
<1>4. /\ "ProjectGanttCharts" \notin DOMAIN Entities10
      /\ "ProjectGanttCharts" \notin DOMAIN Issues10
      /\ "ProjectGanttCharts" \notin DOMAIN Discussions10
  BY NamesOfDiscussions, NamesOfParts
<1>5. Tasks10 = Tasks6 /\ Bookkeeping10 = Bookkeeping2
      /\ Memberships10 = Memberships2 /\ Ownership10 = Ownership2
      /\ Roles10 = Roles2 /\ Scopes10 = Scopes4
  BY DEF Tasks10, Tasks9, Tasks8, Tasks7,
     Bookkeeping10, Bookkeeping9, Bookkeeping8, Bookkeeping7, Bookkeeping6,
     Bookkeeping5, Bookkeeping4, Bookkeeping3, Memberships10, Memberships9,
     Memberships8, Memberships7, Memberships6, Memberships5, Memberships4,
     Memberships3, Ownership10, Ownership9, Ownership8, Ownership7, Ownership6,
     Ownership5, Ownership4, Ownership3, Roles10, Roles9, Roles8, Roles7, Roles6,
     Roles5, Roles4, Roles3, Scopes10, Scopes9, Scopes8, Scopes7, Scopes6, Scopes5
<1>6. /\ "ProjectGanttCharts" \notin DOMAIN Tasks10
      /\ "ProjectGanttCharts" \notin DOMAIN Bookkeeping10
      /\ "ProjectGanttCharts" \notin DOMAIN Memberships10
      /\ "ProjectGanttCharts" \notin DOMAIN Ownership10
      /\ "ProjectGanttCharts" \notin DOMAIN Roles10
      /\ "ProjectGanttCharts" \notin DOMAIN Scopes10
  BY <1>5, NamesOfChanges, NamesOfParts DEF TaskTables
<1>. QED
  BY <1>3, <1>4, <1>6, InBoth DEF Snapshot10

\* The statements of v10--v11, when all of them succeed: the new tables are made
\* and filled, the old ones dropped and their names given to the new ones.
TenthSteps(d, charted, made, mirror, attachments, less, comments, links, lessLinks,
           lessComments, dropped) ==
  /\ \E chart : /\ IsFile(chart)
                /\ CreatesOne(d, "ProjectGanttCharts", chartTable, chart)
                /\ charted = DefaultCharts(chart) /\ charted.ok
  /\ Creates(charted, Created11, made)
  /\ mirror = FillNew(made, "TaskMirror") /\ mirror.ok
  /\ attachments = FillNew(mirror, "TaskAttachments") /\ attachments.ok
  /\ less = DropTable(attachments, "TaskAttachments") /\ less.ok
  /\ comments = FillNew(less, "TaskComments") /\ comments.ok
  /\ links = FillNew(comments, "TaskComments_Attachments") /\ links.ok
  /\ lessLinks = DropTable(links, "TaskComments_Attachments") /\ lessLinks.ok
  /\ lessComments = DropTable(lessLinks, "TaskComments") /\ lessComments.ok
  /\ dropped = DropTable(lessComments, "TaskMirror") /\ dropped.ok
TenthNames(dropped, mirror, comments, attachments, last) ==
  /\ Renames(dropped, "TaskMirror__new", "TaskMirror", mirror)
  /\ Renames(mirror, "TaskComments__new", "TaskComments", comments)
  /\ Renames(comments, "TaskAttachments__new", "TaskAttachments", attachments)
  /\ Renames(attachments, "TaskComments_Attachments__new",
             "TaskComments_Attachments", last)
TenthFiles(d, charted, made, mirror, attachments, less, comments, links, lessLinks,
           lessComments, dropped) ==
  /\ IsFile(d) /\ IsFile(charted) /\ IsFile(made) /\ IsFile(mirror)
  /\ IsFile(attachments) /\ IsFile(less) /\ IsFile(comments) /\ IsFile(links)
  /\ IsFile(lessLinks) /\ IsFile(lessComments) /\ IsFile(dropped)

LEMMA TenthMigrationSteps ==
  ASSUME NEW d, IsFile(d), From10(d).ok, "ProjectGanttCharts" \notin DOMAIN d.tables
  PROVE  \E charted, made, mirror, attachments, less, comments, links, lessLinks,
            lessComments, dropped :
           /\ TenthFiles(d, charted, made, mirror, attachments, less, comments,
                         links, lessLinks, lessComments, dropped)
           /\ TenthSteps(d, charted, made, mirror, attachments, less, comments,
                         links, lessLinks, lessComments, dropped)
           /\ \E named1, named2, named3 :
                TenthNames(dropped, named1, named2, named3, From10(d))
<1>. DEFINE chart == CreateTableIfMissing(d, "ProjectGanttCharts", chartTable)
            charted == DefaultCharts(chart)
            made == CreateTables(charted, Created11)
            mirror == FillNew(made, "TaskMirror")
            attachments == FillNew(mirror, "TaskAttachments")
            less == DropTable(attachments, "TaskAttachments")
            comments == FillNew(less, "TaskComments")
            links == FillNew(comments, "TaskComments_Attachments")
            lessLinks == DropTable(links, "TaskComments_Attachments")
            lessComments == DropTable(lessLinks, "TaskComments")
            dropped == DropTable(lessComments, "TaskMirror")
            named1 == TakeName(dropped, "TaskMirror")
            named2 == TakeName(named1, "TaskComments")
            named3 == TakeName(named2, "TaskAttachments")
            named4 == TakeName(named3, "TaskComments_Attachments")
<1>1. From10(d) = named4
  BY DEF From10
<1>2. SameFile(d, chart)
      /\ (chart.ok => CreatesOne(d, "ProjectGanttCharts", chartTable, chart))
  <2>1. chart = CreateTable(d, "ProjectGanttCharts", chartTable)
    BY DEF CreateTableIfMissing, Has
  <2>2. IsTable(chartTable)
    BY DefinitionsAreTables DEF chartTable
  <2>. HIDE DEF chart
  <2>. QED  BY <2>1, <2>2, CreatingTable
<1>3. Leaves(chart, charted, {})
  <2>. HIDE DEF chart
  <2>. QED  BY <1>2, InsertingLeaves DEF DefaultCharts, SameFile
<1>4. SameFile(charted, made) /\ (made.ok => charted.ok /\ Creates(charted, Created11, made))
  <2>. HIDE DEF charted
  <2>. QED  BY <1>3, CreatingTables, CreatedAreTables DEF AreTables, Leaves, SameFile
<1>5. Leaves(made, mirror, {})
  <2>. HIDE DEF made
  <2>. QED  BY <1>4, FillingNewLeaves DEF SameFile
<1>6. Leaves(mirror, attachments, {})
  <2>. HIDE DEF mirror
  <2>. QED  BY <1>5, FillingNewLeaves DEF Leaves, SameFile
<1>7. Leaves(attachments, less, {"TaskAttachments"})
  <2>. HIDE DEF attachments
  <2>. QED  BY <1>6, DroppingLeaves DEF Leaves, SameFile
<1>8. Leaves(less, comments, {})
  <2>. HIDE DEF less
  <2>. QED  BY <1>7, FillingNewLeaves DEF Leaves, SameFile
<1>9. Leaves(comments, links, {})
  <2>. HIDE DEF comments
  <2>. QED  BY <1>8, FillingNewLeaves DEF Leaves, SameFile
<1>10. Leaves(links, lessLinks, {"TaskComments_Attachments"})
  <2>. HIDE DEF links
  <2>. QED  BY <1>9, DroppingLeaves DEF Leaves, SameFile
<1>11. Leaves(lessLinks, lessComments, {"TaskComments"})
  <2>. HIDE DEF lessLinks
  <2>. QED  BY <1>10, DroppingLeaves DEF Leaves, SameFile
<1>12. Leaves(lessComments, dropped, {"TaskMirror"})
  <2>. HIDE DEF lessComments
  <2>. QED  BY <1>11, DroppingLeaves DEF Leaves, SameFile
<1>13. /\ NewName["TaskMirror"] = "TaskMirror__new"
       /\ NewName["TaskComments"] = "TaskComments__new"
       /\ NewName["TaskAttachments"] = "TaskAttachments__new"
       /\ NewName["TaskComments_Attachments"] = "TaskComments_Attachments__new"
  BY DEF NewName
<1>14. SameFile(dropped, named1)
       /\ (named1.ok => dropped.ok
             /\ Renames(dropped, "TaskMirror__new", "TaskMirror", named1))
  <2>. HIDE DEF dropped
  <2>. QED  BY <1>12, <1>13, RenamingTable DEF Leaves, SameFile, TakeName
<1>15. SameFile(named1, named2)
       /\ (named2.ok => named1.ok
             /\ Renames(named1, "TaskComments__new", "TaskComments", named2))
  <2>. HIDE DEF named1
  <2>. QED  BY <1>13, <1>14, RenamingTable DEF SameFile, TakeName
<1>16. SameFile(named2, named3)
       /\ (named3.ok => named2.ok
             /\ Renames(named2, "TaskAttachments__new", "TaskAttachments", named3))
  <2>. HIDE DEF named2
  <2>. QED  BY <1>13, <1>15, RenamingTable DEF SameFile, TakeName
<1>17. named4.ok => named3.ok
             /\ Renames(named3, "TaskComments_Attachments__new",
                        "TaskComments_Attachments", named4)
  <2>. HIDE DEF named3
  <2>. QED  BY <1>13, <1>16, RenamingTable DEF SameFile, TakeName
<1>18. /\ charted = DefaultCharts(chart)
       /\ mirror = FillNew(made, "TaskMirror")
       /\ attachments = FillNew(mirror, "TaskAttachments")
       /\ less = DropTable(attachments, "TaskAttachments")
       /\ comments = FillNew(less, "TaskComments")
       /\ links = FillNew(comments, "TaskComments_Attachments")
       /\ lessLinks = DropTable(links, "TaskComments_Attachments")
       /\ lessComments = DropTable(lessLinks, "TaskComments")
       /\ dropped = DropTable(lessComments, "TaskMirror")
  OBVIOUS
<1>. HIDE DEF chart, charted, made, mirror, attachments, less, comments, links,
              lessLinks, lessComments, dropped, named1, named2, named3, named4
<1>19. /\ named4.ok /\ named3.ok /\ named2.ok /\ named1.ok /\ dropped.ok
       /\ lessComments.ok /\ lessLinks.ok /\ links.ok /\ comments.ok /\ less.ok
       /\ attachments.ok /\ mirror.ok /\ made.ok /\ charted.ok /\ chart.ok
  BY <1>1, <1>3, <1>4, <1>5, <1>6, <1>7, <1>8, <1>9, <1>10, <1>11, <1>12, <1>14,
     <1>15, <1>16, <1>17 DEF Leaves
<1>20. TenthNames(dropped, named1, named2, named3, From10(d))
  BY <1>1, <1>14, <1>15, <1>16, <1>17, <1>19 DEF TenthNames
<1>21. TenthFiles(d, charted, made, mirror, attachments, less, comments, links,
                  lessLinks, lessComments, dropped)
  BY <1>3, <1>4, <1>5, <1>6, <1>7, <1>8, <1>9, <1>10, <1>11, <1>12
     DEF TenthFiles, Leaves, SameFile
<1>22. TenthSteps(d, charted, made, mirror, attachments, less, comments, links,
                  lessLinks, lessComments, dropped)
  BY <1>2, <1>4, <1>18, <1>19 DEF TenthSteps, SameFile
<1>. QED
  BY <1>20, <1>21, <1>22

\* v10--v11 up to its last four statements, which give the new tables their names.
LEMMA TenthMigrationPrepares ==
  ASSUME NEW d, IsFile(d), From10(d).ok, "ProjectGanttCharts" \notin DOMAIN d.tables
  PROVE  \E old, mirror, comments, attachments :
           /\ DOMAIN Created11
                \cap (DOMAIN d.tables \cup {"ProjectGanttCharts"}) = {}
           /\ DOMAIN old.tables =
                ((DOMAIN d.tables \cup {"ProjectGanttCharts"}) \ TaskTables)
                  \cup DOMAIN Created11
           /\ \A t \in DOMAIN d.tables \ TaskTables : old.tables[t] = d.tables[t]
           /\ old.tables["ProjectGanttCharts"] = chartTable
           /\ \A t \in DOMAIN Created11 : old.tables[t] = Created11[t]
           /\ Renames(old, "TaskMirror__new", "TaskMirror", mirror)
           /\ Renames(mirror, "TaskComments__new", "TaskComments", comments)
           /\ Renames(comments, "TaskAttachments__new", "TaskAttachments", attachments)
           /\ Renames(attachments, "TaskComments_Attachments__new",
                      "TaskComments_Attachments", From10(d))
<1>1. PICK charted, made, mirror, attachments, less, comments, links, lessLinks,
           lessComments, dropped :
        /\ TenthFiles(d, charted, made, mirror, attachments, less, comments, links,
                      lessLinks, lessComments, dropped)
        /\ TenthSteps(d, charted, made, mirror, attachments, less, comments, links,
                      lessLinks, lessComments, dropped)
        /\ \E named1, named2, named3 :
             TenthNames(dropped, named1, named2, named3, From10(d))
  BY TenthMigrationSteps
<1>2. PICK chart : /\ IsFile(chart)
                   /\ CreatesOne(d, "ProjectGanttCharts", chartTable, chart)
                   /\ charted = DefaultCharts(chart) /\ charted.ok
  BY <1>1 DEF TenthSteps
<1>3. Leaves(chart, charted, {})
  BY <1>2, InsertingLeaves DEF DefaultCharts
<1>4. Creates(charted, Created11, made)
  BY <1>1 DEF TenthSteps
<1>5. Leaves(made, mirror, {}) /\ Leaves(mirror, attachments, {})
  BY <1>1, FillingNewLeaves DEF TenthSteps, TenthFiles
<1>6. Leaves(attachments, less, {"TaskAttachments"})
  BY <1>1, DroppingLeaves DEF TenthSteps, TenthFiles
<1>7. Leaves(less, comments, {}) /\ Leaves(comments, links, {})
  BY <1>1, FillingNewLeaves DEF TenthSteps, TenthFiles
<1>8. Leaves(links, lessLinks, {"TaskComments_Attachments"})
      /\ Leaves(lessLinks, lessComments, {"TaskComments"})
      /\ Leaves(lessComments, dropped, {"TaskMirror"})
  BY <1>1, DroppingLeaves DEF TenthSteps, TenthFiles
<1>9. dropped.ok
  BY <1>1 DEF TenthSteps
<1>18. Leaves(made, dropped, {"TaskAttachments"} \cup {"TaskComments_Attachments"}
                               \cup {"TaskComments"} \cup {"TaskMirror"})
  <2>1. PICK none, a, l, c, m :
          /\ none = {} /\ a = {"TaskAttachments"} /\ l = {"TaskComments_Attachments"}
          /\ c = {"TaskComments"} /\ m = {"TaskMirror"}
    OBVIOUS
  <2>2. /\ Leaves(made, mirror, none) /\ Leaves(mirror, attachments, none)
        /\ Leaves(attachments, less, a) /\ Leaves(less, comments, none)
        /\ Leaves(comments, links, none) /\ Leaves(links, lessLinks, l)
        /\ Leaves(lessLinks, lessComments, c) /\ Leaves(lessComments, dropped, m)
    BY <1>5, <1>6, <1>7, <1>8, <2>1
  <2>3. Leaves(made, less, none \cup none \cup a)
    BY <2>2, LeavesIsTransitive
  <2>4. Leaves(made, lessLinks, none \cup none \cup a \cup none \cup none \cup l)
    BY <2>2, <2>3, LeavesIsTransitive
  <2>5. Leaves(made, dropped,
               none \cup none \cup a \cup none \cup none \cup l \cup c \cup m)
    BY <2>2, <2>4, LeavesIsTransitive
  <2>6. none \cup none \cup a \cup none \cup none \cup l \cup c \cup m
          = a \cup l \cup c \cup m
    BY <2>1
  <2>. QED
    BY <2>1, <2>5, <2>6
<1>21. /\ DOMAIN charted.tables = DOMAIN d.tables \cup {"ProjectGanttCharts"}
       /\ \A t \in DOMAIN d.tables : charted.tables[t] = d.tables[t]
       /\ charted.tables["ProjectGanttCharts"] = chartTable
  BY <1>2, <1>3 DEF Leaves, CreatesOne, Keeps
<1>22. /\ DOMAIN made.tables = DOMAIN charted.tables \cup DOMAIN Created11
       /\ DOMAIN Created11 \cap DOMAIN charted.tables = {}
       /\ \A t \in DOMAIN charted.tables : made.tables[t] = charted.tables[t]
       /\ \A t \in DOMAIN Created11 : made.tables[t] = Created11[t]
  BY <1>4 DEF Creates, Keeps
<1>23. DOMAIN dropped.tables = DOMAIN made.tables \ TaskTables
       /\ \A t \in DOMAIN dropped.tables : dropped.tables[t] = made.tables[t]
  <2>1. {"TaskAttachments"} \cup {"TaskComments_Attachments"}
          \cup {"TaskComments"} \cup {"TaskMirror"} = TaskTables
    BY DEF TaskTables
  <2>. QED
    BY <1>9, <1>18, <2>1 DEF Leaves
<1>24. DOMAIN Created11 \cap TaskTables = {} /\ "ProjectGanttCharts" \notin TaskTables
  BY DEF Created11, TaskTables
<1>25. /\ DOMAIN Created11
            \cap (DOMAIN d.tables \cup {"ProjectGanttCharts"}) = {}
       /\ DOMAIN dropped.tables =
            ((DOMAIN d.tables \cup {"ProjectGanttCharts"}) \ TaskTables)
              \cup DOMAIN Created11
       /\ \A t \in DOMAIN d.tables \ TaskTables : dropped.tables[t] = d.tables[t]
       /\ dropped.tables["ProjectGanttCharts"] = chartTable
       /\ \A t \in DOMAIN Created11 : dropped.tables[t] = Created11[t]
  BY <1>21, <1>22, <1>23, <1>24
<1>26. PICK named1, named2, named3 :
         TenthNames(dropped, named1, named2, named3, From10(d))
  BY <1>1
<1>27. /\ Renames(dropped, "TaskMirror__new", "TaskMirror", named1)
       /\ Renames(named1, "TaskComments__new", "TaskComments", named2)
       /\ Renames(named2, "TaskAttachments__new", "TaskAttachments", named3)
       /\ Renames(named3, "TaskComments_Attachments__new",
                  "TaskComments_Attachments", From10(d))
  BY <1>26 DEF TenthNames
<1>. QED
  BY <1>25, <1>27, Zenon

LEMMA TenthMigrationArrives ==
  ASSUME NEW d, IsFile(d), From10(d).ok,
         Nearly(d.tables, Snapshot10, {"Notifications"}),
         IsLasting(d.tables["Notifications"], NewNames)
  PROVE  /\ Nearly(From10(d).tables, Snapshot11, {"Notifications"})
         /\ From10(d).tables["Notifications"] = d.tables["Notifications"]
<1>. DEFINE new == From10(d)
            base == (DOMAIN d.tables \ TaskTables) \cup {"ProjectGanttCharts"}
<1>0. new = From10(d)
  OBVIOUS
<1>. HIDE DEF new
<1>1. PICK old, mirror, comments, attachments :
           /\ DOMAIN Created11
                \cap (DOMAIN d.tables \cup {"ProjectGanttCharts"}) = {}
           /\ DOMAIN old.tables =
                ((DOMAIN d.tables \cup {"ProjectGanttCharts"}) \ TaskTables)
                  \cup DOMAIN Created11
           /\ \A t \in DOMAIN d.tables \ TaskTables : old.tables[t] = d.tables[t]
           /\ old.tables["ProjectGanttCharts"] = chartTable
           /\ \A t \in DOMAIN Created11 : old.tables[t] = Created11[t]
           /\ Renames(old, "TaskMirror__new", "TaskMirror", mirror)
           /\ Renames(mirror, "TaskComments__new", "TaskComments", comments)
           /\ Renames(comments, "TaskAttachments__new", "TaskAttachments", attachments)
           /\ Renames(attachments, "TaskComments_Attachments__new",
                      "TaskComments_Attachments", new)
  BY <1>0, NoChartsYet, TenthMigrationPrepares DEF Nearly
<1>2. DOMAIN Created11 = {"TaskMirror__new", "TaskComments__new",
                          "TaskAttachments__new", "TaskComments_Attachments__new"}
  BY DEF Created11
<1>3. /\ "TaskMirror__new" \in NewNames /\ "TaskComments__new" \in NewNames
      /\ "TaskAttachments__new" \in NewNames
      /\ "TaskComments_Attachments__new" \in NewNames
      /\ NewNames \in {NewNames, OldNames, TaskTables}
  BY DEF NewNames
<1>4. /\ chartTable = Charts11["ProjectGanttCharts"]
      /\ IsLasting(chartTable, NewNames)
  <2>1. chartTable = Charts11["ProjectGanttCharts"]
    BY DEF chartTable, Charts11
  <2>. QED
    BY <1>3, <2>1, LastingParts, NamesOfChanges DEF PartsLast, AreLasting
<1>5. \A t \in DOMAIN d.tables : IsLasting(d.tables[t], NewNames)
  BY TenthSnapshotLasts DEF AreLasting, Nearly
<1>6. base \cap DOMAIN Created11 = {} /\ base \cap TaskTables = {}
      /\ "ProjectGanttCharts" \notin DOMAIN d.tables
      /\ DOMAIN old.tables = base \cup DOMAIN Created11
  <2>1. "ProjectGanttCharts" \notin TaskTables
    BY DEF TaskTables
  <2>2. "ProjectGanttCharts" \notin DOMAIN d.tables
    BY NoChartsYet DEF Nearly
  <2>3. DOMAIN Created11 \cap DOMAIN d.tables = {}
    BY <1>1
  <2>. QED
    BY <1>1, <1>2, <2>1, <2>2, <2>3
<1>7. \A t \in base : IsLasting(old.tables[t], NewNames)
  BY <1>1, <1>4, <1>5
<1>. HIDE DEF base
<1>8. /\ MovesOne(NewNames, old, "TaskMirror__new", "TaskMirror", mirror)
      /\ MovesOne(NewNames, mirror, "TaskComments__new", "TaskComments", comments)
      /\ MovesOne(NewNames, comments, "TaskAttachments__new", "TaskAttachments",
                  attachments)
      /\ MovesOne(NewNames, attachments, "TaskComments_Attachments__new",
                  "TaskComments_Attachments", new)
  BY <1>1, <1>3, RenamingOne
<1>9. /\ DOMAIN mirror.tables =
           base \cup {"TaskMirror", "TaskComments__new", "TaskAttachments__new",
                      "TaskComments_Attachments__new"}
      /\ \A t \in base : mirror.tables[t] = old.tables[t]
  BY <1>2, <1>6, <1>7, <1>8 DEF MovesOne
<1>10. /\ DOMAIN comments.tables =
            base \cup {"TaskMirror", "TaskComments", "TaskAttachments__new",
                       "TaskComments_Attachments__new"}
       /\ \A t \in base : comments.tables[t] = old.tables[t]
  BY <1>2, <1>6, <1>7, <1>8, <1>9 DEF MovesOne
<1>11. /\ comments.tables["TaskMirror"] = Tasks11["TaskMirror"]
       /\ comments.tables["TaskComments"] = Tasks11["TaskComments"]
       /\ comments.tables["TaskAttachments__new"] = Tasks11["TaskAttachments"]
       /\ comments.tables["TaskComments_Attachments__new"]
            = Tasks11["TaskComments_Attachments"]
  <2>1. /\ mirror.tables["TaskMirror"] =
             Following(Created11["TaskMirror__new"], "TaskMirror__new", "TaskMirror")
        /\ \A t \in {"TaskComments__new", "TaskAttachments__new",
                     "TaskComments_Attachments__new"} :
             mirror.tables[t]
               = Following(Created11[t], "TaskMirror__new", "TaskMirror")
    <3>1. \A t \in DOMAIN Created11 : t \in DOMAIN old.tables
                                       /\ old.tables[t] = Created11[t]
      BY <1>1
    <3>. QED
      BY <1>1, <1>2, <3>1 DEF Renames, Following
  <2>2. /\ comments.tables["TaskComments"] =
             Following(mirror.tables["TaskComments__new"],
                       "TaskComments__new", "TaskComments")
        /\ \A t \in {"TaskMirror", "TaskAttachments__new",
                     "TaskComments_Attachments__new"} :
             comments.tables[t]
               = Following(mirror.tables[t], "TaskComments__new", "TaskComments")
    BY <1>1, <1>9 DEF Renames, Following
  <2>. QED
    BY <2>1, <2>2, SettledTables DEF Settled
<1>12. AreLasting(Tasks11, NewNames)
  <2>1. \A parent \in {"ProjectGanttCharts", "Users", "Attachments", "TaskMirror",
                       "TaskComments"} : \A columns :
          Lasts(cascade(columns, parent), NewNames)
          /\ Lasts(restrict(columns, parent), NewNames)
    <3>1. \A parent \in {"ProjectGanttCharts", "Users", "Attachments", "TaskMirror",
                         "TaskComments"} : parent \notin NewNames
      BY DEF NewNames
    <3>. QED
      BY <3>1, LastingReferences
  <2>. QED
    BY <2>1, LastingTables DEF Tasks11, AreLasting
<1>13. \A t \in TaskTables : IsLasting(Tasks11[t], NewNames)
  BY <1>12, NamesOfChanges DEF AreLasting
<1>14. \A t \in DOMAIN comments.tables : IsLasting(comments.tables[t], NewNames)
  BY <1>7, <1>10, <1>11, <1>13 DEF TaskTables
<1>15. /\ DOMAIN attachments.tables =
            base \cup {"TaskMirror", "TaskComments", "TaskAttachments",
                       "TaskComments_Attachments__new"}
       /\ \A t \in base \cup {"TaskMirror", "TaskComments",
                              "TaskComments_Attachments__new"} :
            attachments.tables[t] = comments.tables[t]
       /\ attachments.tables["TaskAttachments"] = Tasks11["TaskAttachments"]
  BY <1>2, <1>6, <1>8, <1>10, <1>11, <1>14 DEF MovesOne
<1>16. \A t \in base \cup {"TaskMirror", "TaskComments", "TaskAttachments",
                           "TaskComments_Attachments__new"} :
         IsLasting(attachments.tables[t], NewNames)
  BY <1>10, <1>13, <1>14, <1>15 DEF TaskTables
<1>17. /\ DOMAIN new.tables = base \cup TaskTables
       /\ \A t \in base : new.tables[t] = old.tables[t]
       /\ \A t \in TaskTables : new.tables[t] = Tasks11[t]
  <2>1. /\ DOMAIN new.tables =
             base \cup {"TaskMirror", "TaskComments", "TaskAttachments",
                        "TaskComments_Attachments"}
        /\ \A t \in base \cup {"TaskMirror", "TaskComments", "TaskAttachments"} :
             new.tables[t] = attachments.tables[t]
        /\ new.tables["TaskComments_Attachments"] = Tasks11["TaskComments_Attachments"]
    BY <1>2, <1>6, <1>8, <1>11, <1>15, <1>16 DEF MovesOne
  <2>. QED
    BY <1>10, <1>11, <1>15, <2>1 DEF TaskTables
<1>18. PICK mid : Gives(mid, Snapshot10, Charts11) /\ Gives(Snapshot11, mid, Tasks11)
  BY EleventhSnapshot
<1>19. /\ DOMAIN Snapshot11 = base \cup TaskTables
       /\ \A t \in TaskTables : Snapshot11[t] = Tasks11[t]
       /\ Snapshot11["ProjectGanttCharts"] = chartTable
       /\ \A t \in DOMAIN d.tables \ TaskTables : Snapshot11[t] = Snapshot10[t]
  BY <1>4, <1>6, <1>18, NamesOfChanges DEF Gives, Nearly, base
<1>20. Nearly(new.tables, Snapshot11, {"Notifications"})
  BY <1>1, <1>17, <1>19 DEF Nearly, base
<1>21. "Notifications" \in DOMAIN d.tables /\ "Notifications" \notin TaskTables
  BY NoticesInSnapshots DEF Nearly, TaskTables
<1>22. new.tables["Notifications"] = d.tables["Notifications"]
  BY <1>1, <1>17, <1>21 DEF base
<1>. QED
  BY <1>0, <1>20, <1>22

\* The forms the two tables take until v9--v10 has repaired them, and the two
\* that the table of notifications keeps.
MentionsForms == {BareMentions, KeyedMentions, Mentions9}
ToldForms == {Told("cascade"), Told("no action")}

TablesFit(d) ==
  /\ d.schemaName \in 1..8 => SameTables(d.tables, Declared(d.schemaName))
  /\ d.schemaName = 9 =>
       /\ Nearly(d.tables, Snapshot9, {"Mentions", "Notifications"})
       /\ d.tables["Mentions"] \in MentionsForms
       /\ d.tables["Notifications"] \in ToldForms \cup {Untold8}
  /\ d.schemaName \in {10, 11} =>
       /\ Nearly(d.tables, Declared(d.schemaName), {"Notifications"})
       /\ d.tables["Notifications"] \in ToldForms
\* The last statement of the repair tells whom a notification is about.
UsersAreKept(hook, d) == hook = <<>> => d.tables["Notifications"] \in ToldForms
TablesInv ==
  /\ \A t \in Targets : TablesFit(databases[t])
  /\ \A o \in Operators :
       at(o, "hook") /\ attempts[o].from = 9 =>
         UsersAreKept(attempts[o].hook, database(o))

LEMMA ToldForward ==
  /\ Told("cascade") \in ToldForms /\ Told("no action") \in ToldForms
  /\ \A def \in ToldForms : /\ "mentionedUserId" \in def.columns
                            /\ IsLasting(def, NewNames)
                            /\ leniently(def) = Told("cascade")
  /\ "mentionedUserId" \notin Untold8.columns
  /\ \A def \in {BareMentions} : "containerKey" \notin def.columns
  /\ \A def \in {BareMentions, KeyedMentions} : mentionIndex \notin def.unique
<1>1. Told("cascade") \in ToldForms /\ Told("no action") \in ToldForms
  BY DEF ToldForms
<1>2. \A action : "mentionedUserId" \in Told(action).columns
  BY DEF Told, Def
<1>3. "mentionedUserId" \notin Untold8.columns
  BY NotificationForms DEF Untold8, Def
<1>4. "containerKey" \notin BareMentions.columns
  BY DEF BareMentions, Def
<1>5. mentionIndex \notin BareMentions.unique /\ mentionIndex \notin KeyedMentions.unique
  BY DEF BareMentions, KeyedMentions, Def
<1>6. IsLasting(Told("cascade"), NewNames)
  BY TenthSnapshotLasts, NoticesInSnapshots DEF AreLasting
<1>7. \A action : \A r \in Refs8 \cup {userReference(action)} : Lasts(r, NewNames)
  <2>1. \A r \in Refs8 : Lasts(r, NewNames)
    <3>1. Refs8 \subseteq Told("cascade").refs
      BY DEF Told, Def
    <3>. QED
      BY <1>6, <3>1 DEF IsLasting
  <2>2. \A action : Lasts(userReference(action), NewNames)
    <3>1. "Users" \notin NewNames
      BY DEF NewNames
    <3>. QED
      BY <3>1 DEF Lasts, userReference
  <2>. QED
    BY <2>1, <2>2
<1>8. \A action : IsLasting(Told(action), NewNames)
  <2>. TAKE action
  <2>1. PICK columns, refs : columns = Columns8 \cup {"mentionedUserId"}
                             /\ refs = Refs8 \cup {userReference(action)}
    OBVIOUS
  <2>2. Told(action) = [key |-> <<"id">>, columns |-> columns, unique |-> {},
                        refs |-> refs]
    BY <2>1 DEF Told, Def
  <2>3. Told(action).refs = refs /\ \A r \in refs : Lasts(r, NewNames)
    BY <1>7, <2>1, <2>2
  <2>. QED
    BY <2>2, <2>3 DEF IsLasting
<1>9. leniently(Told("cascade")) = Told("cascade")
  <2>1. \A r \in Refs8 : r.columns # <<"mentionedUserId">>
    <3>1. \A parent :
            /\ cascade(<<"issueId">>, parent).columns = <<"issueId">>
            /\ cascade(<<"projectId">>, parent).columns = <<"projectId">>
            /\ restrict(<<"actorUserId">>, parent).columns = <<"actorUserId">>
            /\ cascade(<<"attachmentId">>, parent).columns = <<"attachmentId">>
      BY DEF cascade, restrict, reference
    <3>2. /\ <<"issueId">> # <<"mentionedUserId">>
          /\ <<"projectId">> # <<"mentionedUserId">>
          /\ <<"actorUserId">> # <<"mentionedUserId">>
          /\ <<"attachmentId">> # <<"mentionedUserId">>
      OBVIOUS
    <3>. QED
      BY <3>1, <3>2 DEF Refs8
  <2>2. userReference("cascade").columns = <<"mentionedUserId">>
    BY DEF userReference, reference
  <2>3. Mapped(Refs8 \cup {userReference("cascade")})
          = Refs8 \cup {userReference("cascade")}
    BY <2>1, <2>2 DEF Mapped
  <2>4. PICK refs : refs = Refs8 \cup {userReference("cascade")}
    OBVIOUS
  <2>5. leniently(Def(<<"id">>, Columns8 \cup {"mentionedUserId"}, {}, refs))
          = Def(<<"id">>, Columns8 \cup {"mentionedUserId"}, {}, Mapped(refs))
    BY LenientTable
  <2>. QED
    BY <2>3, <2>4, <2>5, Zenon DEF Told
<1>. QED
  BY <1>1, <1>2, <1>3, <1>4, <1>5, <1>8, <1>9, NotificationForms DEF ToldForms

LEMMA DeclaredTablesFit ==
  ASSUME NEW d, NEW v \in Versions, d.schemaName = v, d.tables = Declared(v)
  PROVE  TablesFit(d)
<1>1. CASE v \in 1..8
  BY <1>1 DEF TablesFit, SameTables
<1>2. \A but : Nearly(d.tables, Declared(v), but)
  BY DEF Nearly
<1>3. CASE v = 9
  <2>1. d.tables = Snapshot9
    BY <1>3 DEF Declared
  <2>2. Nearly(d.tables, Snapshot9, {"Mentions", "Notifications"})
    BY <1>2, <2>1
  <2>3. d.tables["Mentions"] \in MentionsForms
    BY <2>1, NoticesInSnapshots DEF MentionsForms
  <2>4. d.tables["Notifications"] \in ToldForms
    BY <2>1, NoticesInSnapshots, ToldForward
  <2>5. d.schemaName = 9
    BY <1>3
  <2>. QED
    BY <2>2, <2>3, <2>4, <2>5 DEF TablesFit
<1>4. CASE v \in {10, 11}
  <2>1. d.tables = Snapshot10 \/ d.tables = Snapshot11
    <3>1. Declared(10) = Snapshot10 /\ Declared(11) = Snapshot11
      BY DEF Declared
    <3>. QED
      BY <1>4, <3>1
  <2>2. d.tables["Notifications"] \in ToldForms
    BY <2>1, NoticesInSnapshots, ToldForward
  <2>3. Nearly(d.tables, Declared(d.schemaName), {"Notifications"})
    BY <1>2
  <2>4. d.schemaName \in {10, 11}
    BY <1>4
  <2>. QED
    BY <2>2, <2>3, <2>4 DEF TablesFit
<1>. QED
  BY <1>1, <1>3, <1>4 DEF Versions

LEMMA LegacyTablesFit ==
  ASSUME NEW tables \in legacyTables
  PROVE  /\ Nearly(tables, Snapshot9, {"Mentions", "Notifications"})
         /\ tables["Mentions"] \in MentionsForms
         /\ tables["Notifications"] \in ToldForms \cup {Untold8}
<1>. DEFINE mentions == legacyMentions(Snapshot9)
<1>1. /\ "Mentions" \in DOMAIN Snapshot9 /\ "Notifications" \in DOMAIN Snapshot9
      /\ Snapshot9["Mentions"] = Mentions9
      /\ Snapshot9["Notifications"] = Told("cascade")
  BY NoticesInSnapshots
<1>2. IsTable(Mentions9) /\ IsTable(Told("cascade"))
  BY DEF Mentions9, Told, Def, IsTable
<1>3. /\ DOMAIN mentions = DOMAIN Snapshot9
      /\ \A t \in DOMAIN Snapshot9 \ {"Mentions"} : mentions[t] = Snapshot9[t]
      /\ mentions["Mentions"] = Stripped(Mentions9, "containerKey")
  BY <1>1, <1>2 DEF legacyMentions, Stripped, IsTable
<1>4. PICK gone, more, untold :
        /\ gone = {userReference("cascade")} /\ more = {userReference("no action")}
        /\ untold = Snapshot8["Notifications"]
  OBVIOUS
<1>5. tables = [mentions EXCEPT !["Notifications"] = untold]
      \/ tables = [mentions EXCEPT !["Notifications"].refs = (@ \ gone) \cup more]
  BY <1>4, Zenon DEF legacyTables
<1>. HIDE DEF mentions
<1>6. mentions["Notifications"] = Told("cascade")
  BY <1>1, <1>3
<1>7. /\ DOMAIN tables = DOMAIN Snapshot9
      /\ \A t \in DOMAIN Snapshot9 \ {"Notifications"} : tables[t] = mentions[t]
  BY <1>3, <1>5
<1>8. tables["Notifications"] \in ToldForms \cup {Untold8}
  <2>1. CASE tables = [mentions EXCEPT !["Notifications"] = untold]
    <3>1. untold = Untold8
      BY <1>4, NoticesInSnapshots
    <3>2. tables["Notifications"] = untold
      BY <1>1, <1>3, <2>1
    <3>. QED
      BY <3>1, <3>2
  <2>2. CASE tables = [mentions EXCEPT !["Notifications"].refs = (@ \ gone) \cup more]
    <3>1. tables["Notifications"] = Relisted(Told("cascade"), gone, more)
      BY <1>1, <1>3, <1>6, <2>2 DEF Relisted
    <3>2. tables["Notifications"] = Told("no action")
      BY <1>4, <3>1, NotificationForms, Zenon
    <3>. QED
      BY <3>2, ToldForward
  <2>. QED
    BY <1>5, <2>1, <2>2
<1>9. tables["Mentions"] = BareMentions
  BY <1>1, <1>3, <1>7, MentionForms
<1>. QED
  BY <1>3, <1>7, <1>8, <1>9 DEF Nearly, MentionsForms

LEMMA StartingTablesFit ==
  ASSUME NEW d \in startDatabases
  PROVE  TablesFit(d)
<1>1. CASE d \in {newDatabase(v, Declared(v), Fixture[v]) : v \in StartVersions}
  <2>1. PICK v \in StartVersions : d = newDatabase(v, Declared(v), Fixture[v])
    BY <1>1
  <2>2. v \in Versions
    BY VersionsExist
  <2>3. AreTables(Declared(v))
    BY <2>2, SnapshotsAreTables
  <2>4. d.schemaName = v /\ d.tables = Declared(v)
    BY <2>1, <2>3, NewDatabases
  <2>. QED
    BY <2>2, <2>4, DeclaredTablesFit
<1>2. CASE d \in {newDatabase(9, tables, rows) :
                     tables \in legacyTables, rows \in LegacyFixture}
  <2>1. PICK tables \in legacyTables, rows \in LegacyFixture :
          d = newDatabase(9, tables, rows)
    BY <1>2
  <2>2. AreTables(tables)
    BY LegacyTables
  <2>3. d.schemaName = 9 /\ d.tables = tables
    BY <2>1, <2>2, NewDatabases
  <2>. QED
    BY <2>3, LegacyTablesFit DEF TablesFit
<1>. QED
  BY <1>1, <1>2 DEF startDatabases

LEMMA TablesInit == UpgradeInit => TablesInv
<1>. SUFFICES ASSUME UpgradeInit PROVE TablesInv
  OBVIOUS
<1>1. PICK d \in startDatabases :
        /\ databases = [t \in Targets |-> IF t = "prod" THEN d ELSE Missing]
        /\ attempts = [o \in Operators |-> atRest]
  BY DEF UpgradeInit
<1>2. TablesFit(d)
  BY StartingTablesFit
<1>3. TablesFit(Missing)
  BY MissingFits DEF TablesFit, Unset
<1>4. \A o \in Operators : ~at(o, "hook")
  BY <1>1 DEF at, atRest
<1>. QED
  BY <1>1, <1>2, <1>3, <1>4 DEF TablesInv

LEMMA RepairsFitTables ==
  ASSUME NEW d, IsFile(d), d.schemaName = 9, TablesFit(d),
         NEW hook \in RepairsLeft \ {<<>>}, RepairsAreKept(hook, d),
         RepairStep(Head(hook), d).ok
  PROVE  LET new == RepairStep(Head(hook), d)
         IN  TablesFit(new) /\ UsersAreKept(Tail(hook), new)
<1>. DEFINE new == RepairStep(Head(hook), d)
            m == "Mentions"
            n == "Notifications"
<1>. SUFFICES TablesFit(new) /\ UsersAreKept(Tail(hook), new)
  OBVIOUS
<1>1. /\ Nearly(d.tables, Snapshot9, {m, n})
      /\ d.tables[m] \in MentionsForms
      /\ d.tables[n] \in ToldForms \cup {Untold8}
  BY DEF TablesFit
<1>2. m \in DOMAIN d.tables /\ n \in DOMAIN d.tables /\ m # n
  BY <1>1, NoticesInSnapshots DEF Nearly
<1>3. SameFile(d, new) /\ DOMAIN new.tables = DOMAIN d.tables
  BY HeadsAndTails, Repairing DEF Repairs
<1>4. new.schemaName = 9 /\ new.ok
  BY <1>3 DEF SameFile
<1>5. ASSUME \A t \in DOMAIN d.tables \ {m, n} : new.tables[t] = d.tables[t],
             new.tables[m] \in MentionsForms,
             new.tables[n] \in ToldForms \cup {Untold8}
      PROVE  TablesFit(new)
  <2>. HIDE DEF new
  <2>1. Nearly(new.tables, Snapshot9, {m, n})
    BY <1>1, <1>3, <1>5 DEF Nearly
  <2>. QED
    BY <1>4, <1>5, <2>1 DEF TablesFit
<1>6. CASE hook = <<"key", "backfill", "unique", "user">>
  <2>1. new = EnsureContainerKey(d) /\ Tail(hook) = <<"backfill", "unique", "user">>
    BY <1>6 DEF RepairStep
  <2>. HIDE DEF new
  <2>2. CASE new = d
    BY <1>1, <1>5, <2>1, <2>2 DEF UsersAreKept
  <2>3. CASE AddsColumn(d, m, "containerKey", {},
                        [containerKey |-> <<"-", "-", "-", "-">>], new)
    <3>1. new.tables[m] = Widened(d.tables[m], "containerKey", {})
      BY <2>3 DEF AddsColumn, Widened
    <3>2. new.tables[m] \in MentionsForms
      BY <1>1, <3>1, MentionForms DEF MentionsForms
    <3>3. \A t \in DOMAIN d.tables \ {m} : new.tables[t] = d.tables[t]
      BY <2>3 DEF AddsColumn, Keeps
    <3>. QED
      BY <1>1, <1>2, <1>5, <2>1, <3>2, <3>3 DEF UsersAreKept
  <2>. QED
    BY <1>4, <2>1, <2>2, <2>3, RepairingKey
<1>7. CASE hook = <<"backfill", "unique", "user">>
  <2>1. new = BackfillContainerKeys(d) /\ Tail(hook) = <<"unique", "user">>
    BY <1>7 DEF RepairStep
  <2>. HIDE DEF new
  <2>2. Fills(d, m, {Keyed(row) : row \in d.rows[m]}, new)
    BY <1>4, <2>1, RepairingRows
  <2>3. \A t \in DOMAIN d.tables : new.tables[t] = d.tables[t]
    BY <2>2 DEF Fills, Keeps
  <2>. QED
    BY <1>1, <1>2, <1>5, <2>1, <2>3 DEF UsersAreKept
<1>8. CASE hook = <<"unique", "user">>
  <2>1. new = EnsureMentionIndex(d) /\ Tail(hook) = <<"user">>
    BY <1>8 DEF RepairStep
  <2>. HIDE DEF new
  <2>2. CASE new = d
    BY <1>1, <1>5, <2>1, <2>2 DEF UsersAreKept
  <2>3. CASE AddsIndex(d, m, mentionIndex, new)
    <3>1. new.tables[m] = Indexing(d.tables[m], {mentionIndex})
      BY <2>3 DEF AddsIndex, Indexing
    <3>2. "containerKey" \in d.tables[m].columns
      BY <1>8 DEF RepairsAreKept
    <3>3. d.tables[m] \in {KeyedMentions, Mentions9}
      BY <1>1, <3>2, ToldForward DEF MentionsForms
    <3>4. new.tables[m] \in MentionsForms
      BY <3>1, <3>3, MentionForms DEF MentionsForms
    <3>5. \A t \in DOMAIN d.tables \ {m} : new.tables[t] = d.tables[t]
      BY <2>3 DEF AddsIndex, Keeps
    <3>6. new.tables[n] \in ToldForms \cup {Untold8}
      BY <1>1, <1>2, <3>5
    <3>7. TablesFit(new)
      BY <1>5, <3>4, <3>5, <3>6
    <3>. QED
      BY <2>1, <3>7 DEF UsersAreKept
  <2>. QED
    BY <1>4, <2>1, <2>2, <2>3, RepairingIndex
<1>9. CASE hook = <<"user">>
  <2>1. new = EnsureMentionedUser(d)
    BY <1>9 DEF RepairStep
  <2>. HIDE DEF new
  <2>2. CASE HasColumn(d, n, "mentionedUserId")
    <3>1. new = d
      BY <2>1, <2>2 DEF EnsureMentionedUser
    <3>2. d.tables[n] \in ToldForms
      BY <1>1, <2>2, ToldForward DEF HasColumn
    <3>. QED
      BY <3>1, <3>2 DEF UsersAreKept
  <2>3. CASE ~HasColumn(d, n, "mentionedUserId")
    <3>1. PICK more : more = {userReference("no action")}
      OBVIOUS
    <3>2. new = AddColumn(d, n, "mentionedUserId", more, <<>>)
      BY <2>1, <2>3, <3>1, Zenon DEF EnsureMentionedUser
    <3>3. AddsColumn(d, n, "mentionedUserId", more, <<>>, new)
      BY <1>4, <3>2, AddingColumn
    <3>4. d.tables[n] = Untold8
      BY <1>1, <1>2, <2>3, ToldForward DEF HasColumn, Has
    <3>5. new.tables[n] = Widened(Untold8, "mentionedUserId", more)
      BY <3>3, <3>4 DEF AddsColumn, Widened
    <3>6. new.tables[n] = Told("no action")
      BY <3>1, <3>5, NotificationForms, Zenon
    <3>7. new.tables[n] \in ToldForms
      BY <3>6, ToldForward
    <3>8. \A t \in DOMAIN d.tables \ {n} : new.tables[t] = d.tables[t]
      BY <3>3 DEF AddsColumn, Keeps
    <3>. QED
      BY <1>1, <1>2, <1>5, <3>7, <3>8 DEF UsersAreKept
  <2>. QED
    BY <2>2, <2>3
<1>. QED
  BY <1>6, <1>7, <1>8, <1>9 DEF RepairsLeft

LEMMA SqlOfVersions ==
  ASSUME NEW d, NEW v \in 1..10
  PROVE  /\ v = 1 => RunSql(v, d) = From1(d)
         /\ v = 2 => RunSql(v, d) = d
         /\ v = 3 => RunSql(v, d) = From3(d)
         /\ v = 4 => RunSql(v, d) = From4(d)
         /\ v = 5 => RunSql(v, d) = From5(d)
         /\ v = 6 => RunSql(v, d) = From6(d)
         /\ v = 7 => RunSql(v, d) = From7(d)
         /\ v = 8 => RunSql(v, d) = From8(d)
         /\ v = 9 => RunSql(v, d) = d
         /\ v = 10 => RunSql(v, d) = From10(d)
<1>1. ASSUME v = 1 PROVE RunSql(v, d) = From1(d)
  BY <1>1 DEF RunSql
<1>2. ASSUME v = 2 PROVE RunSql(v, d) = d
  BY <1>2 DEF RunSql, From2
<1>3. ASSUME v = 3 PROVE RunSql(v, d) = From3(d)
  BY <1>3 DEF RunSql
<1>4. ASSUME v = 4 PROVE RunSql(v, d) = From4(d)
  BY <1>4 DEF RunSql
<1>5. ASSUME v = 5 PROVE RunSql(v, d) = From5(d)
  BY <1>5 DEF RunSql
<1>6. ASSUME v = 6 PROVE RunSql(v, d) = From6(d)
  BY <1>6 DEF RunSql
<1>7. ASSUME v = 7 PROVE RunSql(v, d) = From7(d)
  BY <1>7 DEF RunSql
<1>8. ASSUME v = 8 PROVE RunSql(v, d) = From8(d)
  BY <1>8 DEF RunSql
<1>9. ASSUME v = 9 PROVE RunSql(v, d) = d
  BY <1>9 DEF RunSql, From9
<1>10. ASSUME v = 10 PROVE RunSql(v, d) = From10(d)
  BY <1>10 DEF RunSql
<1>. QED
  BY <1>1, <1>2, <1>3, <1>4, <1>5, <1>6, <1>7, <1>8, <1>9, <1>10

LEMMA MigratingTables ==
  ASSUME NEW d, IsFile(d), NEW v \in 1..10, d.schemaName = v, TablesFit(d),
         v = 9 => RepairsAreKept(<<>>, d) /\ UsersAreKept(<<>>, d),
         RunSql(v, d).ok
  PROVE  TablesFit(Migrated(d, v))
<1>. DEFINE sql == RunSql(v, d)
            new == Migrated(d, v)
            n == "Notifications"
<1>. SUFFICES TablesFit(new)
  OBVIOUS
<1>1. SameFile(d, sql) /\ sql.ok
  BY MigrationsKeepTheFile
<1>2. new = [sql EXCEPT !.schemaName = v + 1, !.preparedFor = Unset,
                        !.applied = @ \cup {v}]
  BY DEF Migrated
<1>3. /\ v = 1 => sql = From1(d)
      /\ v = 2 => sql = d
      /\ v = 3 => sql = From3(d)
      /\ v = 4 => sql = From4(d)
      /\ v = 5 => sql = From5(d)
      /\ v = 6 => sql = From6(d)
      /\ v = 7 => sql = From7(d)
      /\ v = 8 => sql = From8(d)
      /\ v = 9 => sql = d
      /\ v = 10 => sql = From10(d)
  BY SqlOfVersions
<1>. HIDE DEF new, sql
<1>4. new.schemaName = v + 1 /\ new.tables = sql.tables
  BY <1>1, <1>2 DEF SameFile, IsFile
<1>5. /\ Declared(1) = Snapshot1 /\ Declared(2) = Snapshot2 /\ Declared(3) = Snapshot3
      /\ Declared(4) = Snapshot4 /\ Declared(5) = Snapshot5 /\ Declared(6) = Snapshot6
  BY DEF Declared
<1>6. /\ Declared(7) = Snapshot7 /\ Declared(8) = Snapshot8 /\ Declared(9) = Snapshot9
      /\ Declared(10) = Snapshot10 /\ Declared(11) = Snapshot11
  BY DEF Declared
<1>7. v \in 1..8 => SameTables(d.tables, Declared(v))
  BY DEF TablesFit
<1>8. CASE v \in 1..7
  <2>1. SameTables(sql.tables, Declared(v + 1))
    <3>1. CASE v = 1
      BY <1>1, <1>3, <1>5, <1>7, <3>1, FirstMigrationArrives
    <3>2. CASE v = 2
      BY <1>3, <1>5, <1>7, <3>2, EqualSnapshots
    <3>3. CASE v = 3
      BY <1>1, <1>3, <1>5, <1>7, <3>3, ThirdMigrationArrives
    <3>4. CASE v = 4
      BY <1>1, <1>3, <1>5, <1>7, <3>4, CreatingMigrationsArrive
    <3>5. CASE v = 5
      BY <1>1, <1>3, <1>5, <1>7, <3>5, CreatingMigrationsArrive
    <3>6. CASE v = 6
      BY <1>1, <1>3, <1>5, <1>6, <1>7, <3>6, SixthMigrationArrives
    <3>7. CASE v = 7
      BY <1>1, <1>3, <1>6, <1>7, <3>7, CreatingMigrationsArrive
    <3>. QED
      BY <1>8, <3>1, <3>2, <3>3, <3>4, <3>5, <3>6, <3>7
  <2>. QED
    BY <1>4, <1>8, <2>1 DEF TablesFit
<1>9. CASE v = 8
  <2>1. /\ Nearly(sql.tables, Snapshot9, {n})
        /\ sql.tables[n] = Told("no action")
    <3>1. SameTables(d.tables, Snapshot8)
      BY <1>6, <1>7, <1>9
    <3>2. sql = From8(d) /\ From8(d).ok
      BY <1>1, <1>3, <1>9
    <3>. QED
      BY <3>1, <3>2, EighthMigrationArrives
  <2>2. sql.tables["Mentions"] \in MentionsForms
    BY <2>1, NoticesInSnapshots DEF Nearly, MentionsForms
  <2>3. Nearly(sql.tables, Snapshot9, {"Mentions", n})
    BY <2>1 DEF Nearly
  <2>4. sql.tables[n] \in ToldForms
    BY <2>1, ToldForward
  <2>5. new.schemaName = 9 /\ new.tables = sql.tables
    BY <1>4, <1>9
  <2>. QED
    BY <2>2, <2>3, <2>4, <2>5 DEF TablesFit
<1>10. CASE v = 9
  <2>1. /\ Nearly(d.tables, Snapshot9, {"Mentions", n})
        /\ d.tables["Mentions"] \in MentionsForms
        /\ d.tables[n] \in ToldForms
    BY <1>10 DEF TablesFit, UsersAreKept
  <2>2. mentionIndex \in d.tables["Mentions"].unique
    BY <1>10 DEF RepairsAreKept, IsIndexed
  <2>3. d.tables["Mentions"] = Mentions9
    BY <2>1, <2>2, ToldForward DEF MentionsForms
  <2>4. Nearly(d.tables, Snapshot10, {n})
    BY <2>1, <2>3, NoticesInSnapshots, EqualSnapshots DEF Nearly
  <2>. QED
    BY <1>3, <1>4, <1>6, <1>10, <2>1, <2>4 DEF TablesFit
<1>11. CASE v = 10
  <2>1. Nearly(d.tables, Snapshot10, {n}) /\ d.tables[n] \in ToldForms
    BY <1>6, <1>11 DEF TablesFit
  <2>2. /\ Nearly(sql.tables, Snapshot11, {n})
        /\ sql.tables[n] = d.tables[n]
    BY <1>1, <1>3, <1>11, <2>1, ToldForward, TenthMigrationArrives
  <2>. QED
    BY <1>4, <1>6, <1>11, <2>1, <2>2 DEF TablesFit
<1>. QED
  BY <1>8, <1>9, <1>10, <1>11

LEMMA CreatingTablesFit ==
  ASSUME NEW v \in NewVersions
  PROVE  /\ TablesFit(newDatabase(v, Declared(v), <<>>))
         /\ \A tables \in {<<>>, Declared(v)} :
              TablesFit(newDatabase(Unset, tables, <<>>))
<1>1. v \in Versions /\ AreTables(Declared(v))
  BY VersionsExist, SnapshotsAreTables
<1>2. TablesFit(newDatabase(v, Declared(v), <<>>))
  <2>. DEFINE d == newDatabase(v, Declared(v), <<>>)
  <2>1. d.schemaName = v /\ d.tables = Declared(v)
    BY <1>1, EmptyDatabases
  <2>. HIDE DEF d
  <2>2. TablesFit(d)
    BY <1>1, <2>1, DeclaredTablesFit
  <2>. QED
    BY <2>2 DEF d
<1>3. ASSUME NEW tables \in {<<>>, Declared(v)}
      PROVE  TablesFit(newDatabase(Unset, tables, <<>>))
  <2>1. newDatabase(Unset, tables, <<>>).schemaName = Unset
    BY DEF newDatabase
  <2>. QED
    BY <2>1 DEF TablesFit, Unset
<1>. QED
  BY <1>2, <1>3

LEMMA TablesNext ==
  OneOperator /\ Inv1 /\ MentionsInv /\ TablesInv /\ [UpgradeNext]_upgradeVars
    => TablesInv'
<1>. SUFFICES ASSUME OneOperator, Inv1, MentionsInv, TablesInv,
                     [UpgradeNext]_upgradeVars
              PROVE  TablesInv'
  OBVIOUS
<1>1. CASE UNCHANGED upgradeVars
  BY <1>1 DEF TablesInv, upgradeVars, at, database
<1>2. ASSUME NEW k \in JournalKeys, EditJournal(k)
      PROVE  TablesInv'
  BY <1>2 DEF TablesInv, EditJournal, at, database
\* The databases are as they were, and the operator does not begin the repair.
<1>3. ASSUME NEW o \in Operators, NEW a, become(o, a), UNCHANGED databases,
             a.step = "hook" /\ a.from = 9 =>
               UsersAreKept(a.hook, databases[a.target])
      PROVE  TablesInv'
  <2>1. \A p \in Operators : attempts'[p] = a
    BY <1>3, Becoming DEF Inv1
  <2>. QED
    BY <1>3, <2>1 DEF TablesInv, at, database
<1>4. atRest.step = "idle"
  BY DEF atRest
<1>5. ASSUME NEW o \in Operators, NEW t \in Targets, NEW v \in 1..10,
             StartMigration(o, t, v)
      PROVE  TablesInv'
  <2>1. \A p \in Operators : ~at(p, "hook")'
    <3>1. \A p \in Operators :
            attempts'[p] = [atRest EXCEPT !.step = "open", !.target = t, !.from = v]
      BY <1>5, Becoming DEF Inv1, StartMigration
    <3>. QED
      BY <3>1 DEF at, atRest
  <2>2. \A u \in Targets : \E w \in Targets : databases'[u] = databases[w]
    BY <1>5 DEF StartMigration, CopyProduction, Inv1, DatabasesFit, Targets
  <2>. QED
    BY <2>1, <2>2 DEF TablesInv
<1>6. ASSUME NEW o \in Operators, OpenDatabase(o)
      PROVE  TablesInv'
  <2>. DEFINE a == [attempts[o] EXCEPT !.step = "hook",
                                       !.hook = hookOf(attempts[o].from)]
  <2>1. IsAttempt(attempts[o])
    BY DEF Inv1, AttemptsFit
  <2>2. a.from = attempts[o].from /\ a.hook = hookOf(attempts[o].from)
    BY <2>1 DEF IsAttempt
  <2>3. a.from = 9 => UsersAreKept(a.hook, databases[a.target])
    <3>1. a.from = 9 => a.hook = <<"key", "backfill", "unique", "user">>
      BY <2>2 DEF hookOf
    <3>. HIDE DEF a
    <3>. QED
      BY <3>1 DEF UsersAreKept
  <2>4. become(o, a) \/ become(o, atRest)
    BY <1>6 DEF OpenDatabase, end
  <2>5. UNCHANGED databases
    BY <1>6 DEF OpenDatabase
  <2>. HIDE DEF a
  <2>. QED
    BY <1>3, <1>4, <2>3, <2>4, <2>5
<1>7. ASSUME NEW o \in Operators, ReadJournals(o)
      PROVE  TablesInv'
  <2>. DEFINE list == SetToSeq(exports(database(o), attempts[o].from,
                                        Head(attempts[o].hook)))
              a == [attempts[o] EXCEPT !.hook = Tail(@), !.files = list]
  <2>1. IsAttempt(attempts[o]) /\ attempts[o].from \in {6, 7}
    BY <1>7 DEF Inv1, AttemptsFit, ReadJournals
  <2>2. become(o, a) \/ become(o, atRest)
    BY <1>7 DEF ReadJournals, end
  <2>. HIDE DEF list
  <2>3. a.from # 9
    BY <2>1 DEF IsAttempt
  <2>4. UNCHANGED databases
    BY <1>7 DEF ReadJournals
  <2>. HIDE DEF a
  <2>. QED
    BY <1>3, <1>4, <2>2, <2>3, <2>4
<1>8. ASSUME NEW o \in Operators, WriteJournalFile(o)
      PROVE  TablesInv'
  <2>. DEFINE a == [attempts[o] EXCEPT !.files = Tail(@)]
  <2>1. IsAttempt(attempts[o]) /\ at(o, "hook")
    BY <1>8 DEF Inv1, AttemptsFit, WriteJournalFile
  <2>2. /\ a.from = attempts[o].from /\ a.hook = attempts[o].hook
        /\ a.target = attempts[o].target
    BY <2>1 DEF IsAttempt
  <2>3. a.from = 9 => UsersAreKept(a.hook, databases[a.target])
    BY <2>1, <2>2 DEF TablesInv, database
  <2>4. become(o, a) /\ UNCHANGED databases
    BY <1>8 DEF WriteJournalFile
  <2>. HIDE DEF a
  <2>. QED
    BY <1>3, <2>3, <2>4
<1>9. ASSUME NEW o \in Operators, Repair(o)
      PROVE  TablesInv'
  <2>. DEFINE hook == attempts[o].hook
              d == database(o)
              new == RepairStep(Head(hook), d)
              b == [attempts[o] EXCEPT !.hook = Tail(@)]
  <2>1. /\ IsAttempt(attempts[o]) /\ at(o, "hook") /\ attempts[o].from = 9
        /\ hook \in RepairsLeft \ {<<>>}
        /\ IsFile(d)
        /\ b.target = attempts[o].target
        /\ \/ new.ok /\ commit(o, new) /\ become(o, b)
           \/ databases' = databases /\ become(o, atRest)
    BY <1>9, RepairsOne DEF Inv1, at
  <2>2. d.schemaName = 9 /\ TablesFit(d) /\ RepairsAreKept(hook, d)
    BY <2>1 DEF Inv1, HooksFindTheirVersion, MentionsInv, TablesInv, database, IsAttempt
  <2>3. new.ok => TablesFit(new) /\ UsersAreKept(Tail(hook), new)
    BY <2>1, <2>2, RepairsFitTables
  <2>4. b.hook = Tail(hook)
    BY <2>1 DEF IsAttempt
  <2>. HIDE DEF new, b
  <2>5. CASE new.ok /\ commit(o, new) /\ become(o, b)
    <3>1. \A p \in Operators : attempts'[p] = b
      BY <2>5, Becoming DEF Inv1
    <3>2. /\ databases'[b.target] = new
          /\ \A t \in Targets \ {b.target} : databases'[t] = databases[t]
      BY <2>1, <2>5, Committing DEF Inv1
    <3>. QED
      BY <2>3, <2>4, <2>5, <3>1, <3>2 DEF TablesInv, at, database
  <2>6. CASE databases' = databases /\ become(o, atRest)
    BY <1>3, <1>4, <2>6
  <2>. QED
    BY <2>1, <2>5, <2>6
<1>10. ASSUME NEW o \in Operators, RunMigration(o)
       PROVE  TablesInv'
  <2>. DEFINE v == attempts[o].from
              d == database(o)
              new == Migrated(d, v)
  <2>1. /\ IsAttempt(attempts[o]) /\ at(o, "hook") /\ v \in 1..10
        /\ attempts[o].hook = <<>> /\ IsFile(d)
        /\ \/ RunSql(v, d).ok /\ commit(o, new)
           \/ databases' = databases
        /\ become(o, atRest)
    BY <1>10, RunsOne DEF Inv1, at
  <2>2. /\ d.schemaName = v /\ TablesFit(d)
        /\ v = 9 => RepairsAreKept(<<>>, d) /\ UsersAreKept(<<>>, d)
    BY <2>1 DEF Inv1, HooksFindTheirVersion, MentionsInv, TablesInv, database, IsAttempt
  <2>3. RunSql(v, d).ok => TablesFit(new)
    BY <2>1, <2>2, MigratingTables
  <2>. HIDE DEF new
  <2>4. CASE RunSql(v, d).ok /\ commit(o, new)
    <3>1. \A p \in Operators : attempts'[p] = atRest
      BY <2>1, Becoming DEF Inv1
    <3>2. /\ databases'[attempts[o].target] = new
          /\ \A t \in Targets \ {attempts[o].target} : databases'[t] = databases[t]
      BY <2>4, Committing DEF Inv1
    <3>. QED
      BY <1>4, <2>3, <2>4, <3>1, <3>2 DEF TablesInv, at
  <2>5. CASE databases' = databases
    BY <1>3, <1>4, <2>1, <2>5
  <2>. QED
    BY <2>1, <2>4, <2>5
<1>11. ASSUME NEW o \in Operators, MigrationFails(o)
       PROVE  TablesInv'
  BY <1>3, <1>4, <1>11 DEF MigrationFails, end
<1>12. ASSUME NEW o \in Operators, at(o, "idle"), NEW d, create(d), TablesFit(d)
       PROVE  TablesInv'
  <2>1. \A p \in Operators : ~at(p, "hook")'
    BY <1>12 DEF OneOperator, create, at
  <2>2. databases'["prod"] = d /\ databases'["proddev"] = databases["proddev"]
    BY <1>12 DEF create, Inv1, DatabasesFit, Targets
  <2>. QED
    BY <1>12, <2>1, <2>2 DEF TablesInv, Targets
<1>13. ASSUME NEW o \in Operators, NEW v \in NewVersions,
              CreateFromSchema(o, v) \/ CreationInterrupted(o, v)
       PROVE  TablesInv'
  BY <1>12, <1>13, CreatingTablesFit DEF CreateFromSchema, CreationInterrupted
<1>14. ASSUME NEW o \in Operators, NEW t \in Targets, NEW v \in Versions,
              PrepareDatabase(o, t, v)
       PROVE  TablesInv'
  <2>. DEFINE d == databases[t]
              new == [EnsureReferenceData(v, d) EXCEPT !.preparedFor = v]
  <2>1. IsFile(d) /\ TablesFit(d)
    BY DEF Inv1, DatabasesFit, TablesInv
  <2>2. /\ EnsureReferenceData(v, d).ok /\ databases' = [databases EXCEPT ![t] = new]
        /\ attempts' = attempts /\ at(o, "idle")
    BY <1>14 DEF PrepareDatabase
  <2>3. new.tables = d.tables /\ new.schemaName = d.schemaName
    BY <2>1, <2>2, PreparingSpares DEF ToldTables, IdentifiedTables
  <2>. HIDE DEF new
  <2>7. TablesFit(new)
    BY <2>1, <2>3 DEF TablesFit
  <2>8. \A p \in Operators : ~at(p, "hook")'
    BY <2>2 DEF OneOperator, at
  <2>9. \A u \in Targets : databases'[u] = new \/ databases'[u] = databases[u]
    BY <2>2 DEF Inv1, DatabasesFit
  <2>. QED
    BY <2>7, <2>8, <2>9 DEF TablesInv
<1>. QED
  BY <1>1, <1>2, <1>5, <1>6, <1>7, <1>8, <1>9, <1>10, <1>11, <1>13, <1>14
     DEF UpgradeNext

LEMMA TablesAreSnapshots ==
  Inv1 /\ TablesInv => SnapshotsAreReached
<1>. SUFFICES ASSUME Inv1, TablesInv, NEW t \in Targets,
                     databases[t].schemaName # Unset
              PROVE  /\ DOMAIN databases[t].tables
                          = DOMAIN Declared(databases[t].schemaName)
                     /\ \A name \in DOMAIN databases[t].tables :
                          sameTable(databases[t], name)
  BY DEF SnapshotsAreReached
<1>1. PICK d : d = databases[t]
  OBVIOUS
<1>2. d.schemaName \in Versions /\ TablesFit(d)
  BY <1>1 DEF Inv1, DatabasesFit, TablesInv
<1>3. CASE d.schemaName \in 1..8
  BY <1>1, <1>2, <1>3 DEF TablesFit, SameTables, sameTable
<1>4. CASE d.schemaName = 9
  <2>1. Nearly(d.tables, Snapshot9, {"Mentions", "Notifications"})
    BY <1>2, <1>4 DEF TablesFit
  <2>2. Declared(9) = Snapshot9
    BY DEF Declared
  <2>. QED
    BY <1>1, <1>4, <2>1, <2>2 DEF Nearly, sameTable
<1>5. CASE d.schemaName \in {10, 11}
  <2>1. /\ Nearly(d.tables, Declared(d.schemaName), {"Notifications"})
        /\ d.tables["Notifications"] \in ToldForms
    BY <1>2, <1>5 DEF TablesFit
  <2>2. Declared(d.schemaName)["Notifications"] = Told("cascade")
    <3>1. Declared(10) = Snapshot10 /\ Declared(11) = Snapshot11
      BY DEF Declared
    <3>. QED
      BY <1>5, <3>1, NoticesInSnapshots
  <2>3. leniently(d.tables["Notifications"]) = Declared(d.schemaName)["Notifications"]
    BY <2>1, <2>2, ToldForward
  <2>4. d.schemaName >= 9
    BY <1>5
  <2>. QED
    BY <1>1, <2>1, <2>3, <2>4 DEF Nearly, sameTable
<1>. QED
  BY <1>1, <1>2, <1>3, <1>4, <1>5 DEF Versions

\* Whatever version a database says it is of, it has the tables, columns and
\* references that the declarations of that version give, so that code written
\* against them finds what it expects: each migration with its hooks turns the
\* tables of its version into those of the next, from the legacy forms of
\* version 9 too.
THEOREM UpgradesReachTheirSnapshots ==
  ASSUME OneOperator
  PROVE  UpgradeSpec => []SnapshotsAreReached
<1>1. UpgradeInit => Inv1 /\ MentionsInv /\ TablesInv
  BY Inv1Init, MentionsInit, TablesInit
<1>2. Inv1 /\ MentionsInv /\ TablesInv /\ [UpgradeNext]_upgradeVars
        => Inv1' /\ MentionsInv' /\ TablesInv'
  BY Inv1Next, MentionsNext, TablesNext
<1>3. Inv1 /\ TablesInv => SnapshotsAreReached
  BY TablesAreSnapshots
<1>. QED
  BY <1>1, <1>2, <1>3, PTL DEF UpgradeSpec

-----------------------------------------------------------------------------
(* What a dropped table takes with it *)

\* Rows with all that would be deleted with them.
Closed(d, rows) == Referring(d, rows, {"cascade"}) \subseteq rows
Closure(d, rows) ==
  {entry \in AllRows(d) :
     \A all \in SUBSET AllRows(d) :
       rows \subseteq all /\ Closed(d, all) => entry \in all}

LEMMA ReferringGrows ==
  ASSUME NEW d, NEW rows, NEW more, rows \subseteq more
  PROVE  /\ Referring(d, rows, {"cascade"}) \subseteq AllRows(d)
         /\ Referring(d, rows, {"cascade"}) \subseteq Referring(d, more, {"cascade"})
BY DEF Referring

\* The recursion of WithReferring has a solution, so that its equation holds.
LEMMA WithReferringIsDefined ==
  ASSUME NEW d, NEW gone \in SUBSET AllRows(d), Closed(d, gone)
  PROVE  WithReferring(d, gone) = gone
<1>. DEFINE More(rows) == Referring(d, rows, {"cascade"}) \ rows
            Step(with) == [rows \in SUBSET AllRows(d) |->
                             IF More(rows) = {} THEN rows
                             ELSE with[rows \cup More(rows)]]
            closure == [rows \in SUBSET AllRows(d) |-> Closure(d, rows)]
            with == CHOOSE w : w = Step(w)
<1>1. \A rows \in SUBSET AllRows(d) :
        rows \cup More(rows) \in SUBSET AllRows(d)
  BY ReferringGrows
<1>2. ASSUME NEW rows \in SUBSET AllRows(d), More(rows) = {}
      PROVE  Closure(d, rows) = rows
  BY <1>2 DEF Closure, Closed
<1>3. ASSUME NEW rows \in SUBSET AllRows(d)
      PROVE  Closure(d, rows) = Closure(d, rows \cup More(rows))
  <2>1. ASSUME NEW all \in SUBSET AllRows(d), rows \subseteq all, Closed(d, all)
        PROVE  rows \cup More(rows) \subseteq all
    BY <2>1, ReferringGrows DEF Closed
  <2>. QED
    BY <2>1 DEF Closure
<1>4. closure = Step(closure)
  <2>. HIDE DEF More
  <2>1. \A rows \in SUBSET AllRows(d) :
          closure[rows] = IF More(rows) = {} THEN rows
                          ELSE closure[rows \cup More(rows)]
    BY <1>1, <1>2, <1>3
  <2>. QED
    BY <2>1
<1>5. with = Step(with)
  <2>. HIDE DEF Step, closure
  <2>. QED
    BY <1>4
<1>6. with[gone] = gone
  <2>1. More(gone) = {}
    BY DEF Closed
  <2>. HIDE DEF with, More
  <2>. QED
    BY <1>5, <2>1
<1>7. WithReferring(d, gone) = with[gone]
  BY DEF WithReferring
<1>. QED
  BY <1>6, <1>7

\* No reference to a table.
Unnamed(def, t) == \A ref \in def.refs : ref.table # t

\* Every table but one is as it was.
Alone(d, t, new) ==
  /\ t \in DOMAIN d.tables
  /\ DOMAIN new.tables = DOMAIN d.tables \ {t}
  /\ \A u \in DOMAIN new.tables : Keeps(d, new, u)

\* A table to which no other refers goes alone.
LEMMA DroppingAlone ==
  ASSUME NEW d, IsFile(d), NEW t,
         \A u \in DOMAIN d.tables \ {t} : Unnamed(d.tables[u], t)
  PROVE  LET new == DropTable(d, t)
         IN  SameFile(d, new) /\ (new.ok => d.ok /\ Alone(d, t, new))
<1>. DEFINE new == DropTable(d, t)
            gone == {t} \X d.rows[t]
<1>1. SameFile(d, new) /\ (new.ok => d.ok /\ Drops(d, t, new))
  BY DroppingTable
<1>0. new = DropTable(d, t)
  OBVIOUS
<1>. HIDE DEF new
<1>2. ASSUME t \in DOMAIN d.tables
      PROVE  WithReferring(d, gone) = gone
  <2>1. gone \in SUBSET AllRows(d)
    BY <1>2 DEF AllRows
  <2>2. ASSUME NEW entry \in Referring(d, gone, {"cascade"})
        PROVE  entry \in gone
    <3>1. PICK u, row : u \in DOMAIN d.tables /\ row \in d.rows[u] /\ entry = <<u, row>>
      BY <2>2 DEF Referring, AllRows
    <3>2. \E ref \in d.tables[u].refs : ref.table = t
      BY <2>2, <3>1 DEF Referring
    <3>3. u = t
      BY <3>1, <3>2 DEF Unnamed
    <3>. QED
      BY <3>1, <3>3
  <2>3. Closed(d, gone)
    BY <2>2 DEF Closed
  <2>. HIDE DEF gone
  <2>. QED
    BY <2>1, <2>3, WithReferringIsDefined
<1>3. ASSUME new.ok
      PROVE  Alone(d, t, new)
  <2>1. Drops(d, t, new) /\ WithReferring(d, {t} \X d.rows[t]) = {t} \X d.rows[t]
    BY <1>1, <1>2, <1>3 DEF Drops
  <2>2. \A u \in DOMAIN d.tables \ {t} : new.rows[u] = d.rows[u]
    <3>1. \A u, r : <<u, r>> \in {t} \X d.rows[t] => u = t
      OBVIOUS
    <3>. QED
      BY <2>1, <3>1 DEF Drops
  <2>. QED
    BY <2>1, <2>2 DEF Drops, Alone, Keeps
<1>. QED
  BY <1>0, <1>1, <1>3

-----------------------------------------------------------------------------
(* What a database says *)

Ids(d, t) == {row.id : row \in rowsOf(d, t)}
AdminIds(d) ==
  {row.userId : row \in {r \in rowsOf(d, "Users_Roles")
                             \cup rowsOf(d, "Users_SystemRoles") :
                           r.roleCode \in adminCodes}}
SaysTheSame(d, new) ==
  /\ \A t \in IdentifiedTables : Ids(new, t) = Ids(d, t)
  /\ AdminIds(new) = AdminIds(d)
  /\ \A t \in TaskTables : aboutTask(new, t) = aboutTask(d, t)

LEMMA SayingIsContent ==
  ASSUME NEW d, NEW new, SaysTheSame(d, new)
  PROVE  content(new) = content(d)
<1>1. \A db : content(db) = [ids |-> [t \in IdentifiedTables |-> Ids(db, t)],
                             admins |-> AdminIds(db),
                             tasks |-> [t \in TaskTables |-> aboutTask(db, t)]]
  BY DEF content, Ids, AdminIds
<1>2. [t \in IdentifiedTables |-> Ids(new, t)] = [t \in IdentifiedTables |-> Ids(d, t)]
  BY DEF SaysTheSame
<1>3. [t \in TaskTables |-> aboutTask(new, t)] = [t \in TaskTables |-> aboutTask(d, t)]
  BY DEF SaysTheSame
<1>. QED
  BY <1>1, <1>2, <1>3 DEF SaysTheSame

\* The rows of every table are the same but of some.
SameRows(d, new, but) == \A t : t \notin but => rowsOf(new, t) = rowsOf(d, t)

LEMMA SameRowsIsTransitive ==
  \A d, mid, new, a, b : SameRows(d, mid, a) /\ SameRows(mid, new, b)
                           => SameRows(d, new, a \cup b)
BY DEF SameRows

LEMMA SameRowsSayTheSame ==
  ASSUME NEW d, NEW new, NEW but, SameRows(d, new, but), but \cap ToldTables = {}
  PROVE  SaysTheSame(d, new)
<1>1. \A t \in ToldTables : rowsOf(new, t) = rowsOf(d, t)
  BY DEF SameRows
<1>2. \A t \in IdentifiedTables : Ids(new, t) = Ids(d, t)
  BY <1>1 DEF Ids, ToldTables
<1>3. AdminIds(new) = AdminIds(d)
  BY <1>1 DEF AdminIds, ToldTables
<1>4. \A row : projectOf(new, row) = projectOf(d, row)
  BY <1>1 DEF projectOf, ToldTables
<1>5. ASSUME NEW t \in TaskTables
      PROVE  aboutTask(new, t) = aboutTask(d, t)
  <2>1. rowsOf(new, t) = rowsOf(d, t)
    BY <1>1 DEF ToldTables
  <2>. QED
    BY <1>4, <2>1 DEF aboutTask
<1>. QED
  BY <1>2, <1>3, <1>5 DEF SaysTheSame

\* What the statements do to the rows of all tables.
LEMMA RowsOfCreated ==
  ASSUME NEW d, IsFile(d), NEW new, IsFile(new), NEW defs, Creates(d, defs, new)
  PROVE  /\ SameRows(d, new, {})
         /\ \A t \in DOMAIN defs : rowsOf(new, t) = {}
<1>1. DOMAIN d.rows = DOMAIN d.tables /\ DOMAIN new.rows = DOMAIN new.tables
  BY DEF IsFile
<1>2. \A t \in DOMAIN defs : rowsOf(new, t) = {} /\ rowsOf(d, t) = {}
  BY <1>1 DEF Creates, rowsOf
<1>3. \A t \in DOMAIN d.tables : rowsOf(new, t) = rowsOf(d, t)
  BY <1>1 DEF Creates, rowsOf, Keeps
<1>4. \A t : t \notin DOMAIN new.tables => rowsOf(new, t) = {} /\ rowsOf(d, t) = {}
  BY <1>1 DEF Creates, rowsOf
<1>. QED
  BY <1>2, <1>3, <1>4 DEF SameRows, Creates

LEMMA RowsOfOthers ==
  ASSUME NEW d, IsFile(d), NEW new, IsFile(new), NEW t,
         DOMAIN new.tables = DOMAIN d.tables,
         \A u \in DOMAIN d.tables \ {t} : Keeps(d, new, u)
  PROVE  SameRows(d, new, {t})
BY DEF IsFile, SameRows, rowsOf, Keeps

LEMMA RowsOfMentioned ==
  ASSUME NEW d, IsFile(d), NEW t \in DOMAIN d.tables
  PROVE  rowsOf(d, t) = d.rows[t]
BY DEF IsFile, rowsOf

-----------------------------------------------------------------------------
(* What the rows of a database have in each version *)

IdsFit(d) ==
  \A t \in IdentifiedTables : \A row \in rowsOf(d, t) : "id" \in DOMAIN row
TasksFit(d) ==
  \A t \in TaskTables : \A row \in rowsOf(d, t) :
    /\ "projectId" \in DOMAIN row /\ "taskId" \in DOMAIN row
    /\ \E p \in rowsOf(d, "Projects") : p.id = row.projectId
RolesFit(d) ==
  \A row \in rowsOf(d, "Users_Roles") : row.roleCode # "GGTC_SYSTEMROLE_ADMIN"
RowsFit(d) ==
  /\ d.schemaName \in 1..10 => IdsFit(d)
  /\ d.schemaName \in 6..10 => TasksFit(d)
  /\ d.schemaName = 1 => RolesFit(d)

LEMMA SameRowsFit ==
  ASSUME NEW d, NEW new, NEW but, SameRows(d, new, but), but \cap ToldTables = {}
  PROVE  /\ IdsFit(d) => IdsFit(new)
         /\ TasksFit(d) => TasksFit(new)
         /\ RolesFit(d) => RolesFit(new)
<1>1. \A t \in ToldTables : rowsOf(new, t) = rowsOf(d, t)
  BY DEF SameRows
<1>2. "Projects" \in ToldTables /\ "Users_Roles" \in ToldTables
      /\ IdentifiedTables \subseteq ToldTables /\ TaskTables \subseteq ToldTables
  BY DEF ToldTables, IdentifiedTables
<1>. QED
  BY <1>1, <1>2 DEF IdsFit, TasksFit, RolesFit

\* Rows of one table that only gain or lose columns other than the id.
LEMMA SameIdsFit ==
  ASSUME NEW d, NEW new, NEW but, SameRows(d, new, but),
         but \subseteq {"Projects", "Issues", "Mentions", "Notifications"},
         \A t \in but : Ids(new, t) = Ids(d, t),
         \A t \in but : \A row \in rowsOf(new, t) : "id" \in DOMAIN row
  PROVE  /\ SaysTheSame(d, new)
         /\ IdsFit(d) => IdsFit(new)
         /\ TasksFit(d) => TasksFit(new)
<1>1. \A t \in ToldTables \ but : rowsOf(new, t) = rowsOf(d, t)
  BY DEF SameRows
<1>2. TaskTables \cap but = {} /\ TaskTables \subseteq ToldTables
      /\ IdentifiedTables \subseteq ToldTables /\ "Projects" \in IdentifiedTables
      /\ {"Users_Roles", "Users_SystemRoles", "ProjectGanttCharts"}
           \subseteq ToldTables \ but
  BY DEF ToldTables, IdentifiedTables, TaskTables
<1>3. \A t \in IdentifiedTables : Ids(new, t) = Ids(d, t)
  BY <1>1, <1>2 DEF Ids
<1>4. AdminIds(new) = AdminIds(d)
  BY <1>1, <1>2 DEF AdminIds
<1>5. \A row : projectOf(new, row) = projectOf(d, row)
  BY <1>1, <1>2 DEF projectOf
<1>6. \A t \in TaskTables : rowsOf(new, t) = rowsOf(d, t)
  BY <1>1, <1>2
<1>7. \A t \in TaskTables : aboutTask(new, t) = aboutTask(d, t)
  BY <1>5, <1>6 DEF aboutTask
<1>8. IdsFit(d) => IdsFit(new)
  BY <1>1, <1>2 DEF IdsFit
<1>9. ASSUME TasksFit(d), NEW t \in TaskTables, NEW row \in rowsOf(new, t)
      PROVE  /\ "projectId" \in DOMAIN row /\ "taskId" \in DOMAIN row
             /\ \E p \in rowsOf(new, "Projects") : p.id = row.projectId
  <2>1. row \in rowsOf(d, t)
    BY <1>6, <1>9
  <2>2. PICK p \in rowsOf(d, "Projects") : p.id = row.projectId
    BY <1>9, <2>1 DEF TasksFit
  <2>3. row.projectId \in Ids(new, "Projects")
    BY <1>2, <1>3, <2>2 DEF Ids
  <2>. QED
    BY <1>9, <2>1, <2>3 DEF TasksFit, Ids
<1>. QED
  BY <1>3, <1>4, <1>7, <1>8, <1>9 DEF SaysTheSame, TasksFit

\* A statement loses nothing that the database says.
Saves(d, new) ==
  /\ SaysTheSame(d, new)
  /\ IdsFit(d) => IdsFit(new)
  /\ TasksFit(d) => TasksFit(new)

LEMMA SavesIsTransitive ==
  \A d, mid, new : Saves(d, mid) /\ Saves(mid, new) => Saves(d, new)
BY DEF Saves, SaysTheSame

LEMMA SavesIsReflexive == \A d : Saves(d, d)
BY DEF Saves, SaysTheSame

LEMMA CreatingSaves ==
  ASSUME NEW d, IsFile(d), NEW new, IsFile(new), NEW defs, Creates(d, defs, new)
  PROVE  Saves(d, new)
<1>1. SameRows(d, new, {})
  BY RowsOfCreated
<1>. QED
  BY <1>1, SameRowsSayTheSame, SameRowsFit DEF Saves

\* Rows changed one by one, each keeping its id.
KeepsIds(rows, changed) ==
  /\ \A row \in rows : "id" \in DOMAIN row =>
       \E other \in changed : other.id = row.id
  /\ \A other \in changed : \E row \in rows :
       "id" \in DOMAIN row => "id" \in DOMAIN other /\ other.id = row.id

LEMMA ChangingRowsSaves ==
  ASSUME NEW d, IsFile(d), IdsFit(d), NEW new, IsFile(new),
         NEW t \in {"Projects", "Issues", "Mentions", "Notifications"},
         t \in DOMAIN d.tables,
         DOMAIN new.tables = DOMAIN d.tables,
         \A u \in DOMAIN d.tables \ {t} : Keeps(d, new, u),
         KeepsIds(d.rows[t], new.rows[t])
  PROVE  Saves(d, new)
<1>1. SameRows(d, new, {t})
  BY RowsOfOthers
<1>2. rowsOf(d, t) = d.rows[t] /\ rowsOf(new, t) = new.rows[t]
  BY RowsOfMentioned
<1>3. \A row \in d.rows[t] : "id" \in DOMAIN row
  BY <1>2 DEF IdsFit, IdentifiedTables
<1>4. Ids(new, t) = Ids(d, t)
  BY <1>2, <1>3 DEF Ids, KeepsIds
<1>5. \A row \in rowsOf(new, t) : "id" \in DOMAIN row
  BY <1>2, <1>3 DEF KeepsIds
<1>. QED
  BY <1>1, <1>4, <1>5, SameIdsFit DEF Saves

LEMMA RenamingColumnSaves ==
  ASSUME NEW d, IsFile(d), IdsFit(d), NEW new, IsFile(new),
         NEW t \in {"Projects", "Issues"}, NEW c, NEW name, c # "id", name # "id",
         RenamesColumn(d, t, c, name, new)
  PROVE  Saves(d, new)
<1>1. ASSUME NEW row, "id" \in DOMAIN row
      PROVE  "id" \in DOMAIN Moved(row, c, name) /\ Moved(row, c, name).id = row.id
  BY <1>1 DEF Moved
<1>2. KeepsIds(d.rows[t], new.rows[t])
  BY <1>1 DEF RenamesColumn, KeepsIds
<1>. QED
  BY <1>2, ChangingRowsSaves DEF RenamesColumn

LEMMA AddingColumnSaves ==
  ASSUME NEW d, IsFile(d), IdsFit(d), NEW new, IsFile(new),
         NEW t \in {"Mentions", "Notifications"}, NEW c, NEW refs, NEW default,
         AddsColumn(d, t, c, refs, default, new)
  PROVE  Saves(d, new)
<1>1. PICK changed : changed = {row ++ default : row \in d.rows[t]}
  OBVIOUS
<1>2. ASSUME NEW row \in d.rows[t], "id" \in DOMAIN row
      PROVE  \E other \in changed : other.id = row.id
  <2>1. row ++ default \in changed /\ (row ++ default).id = row.id
    BY <1>1, <1>2, FromBoth, Zenon
  <2>. QED
    BY <2>1, Zenon
<1>3. ASSUME NEW other \in changed
      PROVE  \E row \in d.rows[t] :
               "id" \in DOMAIN row => "id" \in DOMAIN other /\ other.id = row.id
  <2>1. PICK row \in d.rows[t] : other = row ++ default
    BY <1>1, Zenon
  <2>2. "id" \in DOMAIN row => "id" \in DOMAIN other /\ other.id = row.id
    BY <2>1, FromBoth, InBoth, Zenon
  <2>. QED
    BY <2>2
<1>4. KeepsIds(d.rows[t], changed)
  BY <1>2, <1>3 DEF KeepsIds
<1>5. /\ t \in DOMAIN d.tables /\ DOMAIN new.tables = DOMAIN d.tables
      /\ \A u \in DOMAIN d.tables \ {t} : Keeps(d, new, u)
  BY DEF AddsColumn
<1>6. new.rows[t] = changed
  BY <1>1, Zenon DEF AddsColumn
<1>. QED
  BY <1>4, <1>5, <1>6, ChangingRowsSaves

-----------------------------------------------------------------------------
(* The migrations but the first and the last *)

LEMMA ThirdMigrationSaves ==
  ASSUME NEW d, IsFile(d), From3(d).ok
  PROVE  Saves(d, From3(d))
<1>. DEFINE made == CreateTables(d, Created4)
            typed == AddColumn(made, "Users_Sessions",
                               "authSourceCredentialTypeCode", {}, <<>>)
            new == AddColumn(typed, "Users_Sessions", "authSourceCredentialId",
                             {}, <<>>)
<1>1. SameFile(d, made) /\ (made.ok => d.ok /\ Creates(d, Created4, made))
  BY CreatingTables, CreatedAreTables DEF AreTables
<1>2. /\ SameFile(made, typed)
      /\ typed.ok => made.ok /\ AddsColumn(made, "Users_Sessions",
                       "authSourceCredentialTypeCode", {}, <<>>, typed)
  BY <1>1, AddingColumn DEF SameFile
<1>3. /\ SameFile(typed, new)
      /\ new.ok => typed.ok /\ AddsColumn(typed, "Users_Sessions",
                     "authSourceCredentialId", {}, <<>>, new)
  BY <1>2, AddingColumn DEF SameFile
<1>4. From3(d) = new
  BY DEF From3
<1>. HIDE DEF made, typed, new
<1>5. IsFile(made) /\ IsFile(typed) /\ IsFile(new)
  BY <1>1, <1>2, <1>3 DEF SameFile
<1>6. Saves(d, made)
  BY <1>1, <1>2, <1>3, <1>4, <1>5, CreatingSaves
<1>7. SameRows(made, typed, {"Users_Sessions"})
  BY <1>2, <1>3, <1>4, <1>5, RowsOfOthers DEF AddsColumn
<1>8. SameRows(typed, new, {"Users_Sessions"})
  BY <1>3, <1>4, <1>5, RowsOfOthers DEF AddsColumn
<1>9. {"Users_Sessions"} \cap ToldTables = {}
  BY DEF ToldTables, IdentifiedTables, TaskTables
<1>10. Saves(made, typed) /\ Saves(typed, new)
  BY <1>7, <1>8, <1>9, SameRowsSayTheSame, SameRowsFit DEF Saves
<1>. QED
  BY <1>4, <1>6, <1>10, SavesIsTransitive

LEMMA CreatingMigrationsSave ==
  ASSUME NEW d, IsFile(d)
  PROVE  /\ From4(d).ok => Saves(d, From4(d))
         /\ From5(d).ok => Saves(d, From5(d)) /\ TasksFit(From5(d))
         /\ From7(d).ok => Saves(d, From7(d))
<1>1. From4(d).ok => Saves(d, From4(d))
  BY CreatingMigrations, CreatingSaves DEF SameFile
<1>2. From7(d).ok => Saves(d, From7(d))
  BY CreatingMigrations, CreatingSaves DEF SameFile
<1>3. ASSUME From5(d).ok
      PROVE  Saves(d, From5(d)) /\ TasksFit(From5(d))
  <2>1. IsFile(From5(d)) /\ Creates(d, Created6, From5(d))
    BY <1>3, CreatingMigrations DEF SameFile
  <2>2. DOMAIN Created6 = TaskTables
    BY DEF Created6, TaskTables
  <2>3. \A t \in TaskTables : rowsOf(From5(d), t) = {}
    BY <2>1, <2>2, RowsOfCreated
  <2>. QED
    BY <2>1, <2>3, CreatingSaves DEF TasksFit
<1>. QED
  BY <1>1, <1>2, <1>3

LEMMA SixthMigrationSaves ==
  ASSUME NEW d, IsFile(d), IdsFit(d), From6(d).ok
  PROVE  Saves(d, From6(d))
<1>. DEFINE issues == RenameColumn(d, "Issues", "journal",
                                   "reusable-v7-issues-journal")
            projects == RenameColumn(issues, "Projects", "journal",
                                     "reusable-v7-projects-journal")
            new == CreateTables(projects, Created7)
<1>1. /\ SameFile(d, issues)
      /\ issues.ok => RenamesColumn(d, "Issues", "journal",
                                    "reusable-v7-issues-journal", issues)
  BY RenamingColumn
<1>2. /\ SameFile(issues, projects)
      /\ projects.ok => issues.ok /\ RenamesColumn(issues, "Projects", "journal",
                                    "reusable-v7-projects-journal", projects)
  BY <1>1, RenamingColumn DEF SameFile
<1>3. SameFile(projects, new) /\ (new.ok => projects.ok /\ Creates(projects, Created7, new))
  BY <1>2, CreatingTables, CreatedAreTables DEF SameFile, AreTables
<1>4. From6(d) = new
  BY DEF From6
<1>. HIDE DEF issues, projects, new
<1>5. IsFile(issues) /\ IsFile(projects) /\ IsFile(new)
      /\ new.ok /\ projects.ok /\ issues.ok
  BY <1>1, <1>2, <1>3, <1>4 DEF SameFile
<1>6. Saves(d, issues)
  BY <1>1, <1>5, RenamingColumnSaves
<1>7. Saves(issues, projects)
  BY <1>2, <1>5, <1>6, RenamingColumnSaves DEF Saves
<1>8. Saves(projects, new)
  BY <1>3, <1>5, CreatingSaves
<1>. QED
  BY <1>4, <1>6, <1>7, <1>8, SavesIsTransitive

LEMMA EighthMigrationSaves ==
  ASSUME NEW d, IsFile(d), IdsFit(d), From8(d).ok
  PROVE  Saves(d, From8(d))
<1>. DEFINE made == CreateTables(d, Created9)
            refs == {reference(<<"mentionedUserId">>, "Users", "no action")}
            new == AddColumn(made, "Notifications", "mentionedUserId", refs, <<>>)
<1>1. SameFile(d, made) /\ (made.ok => d.ok /\ Creates(d, Created9, made))
  BY CreatingTables, CreatedAreTables DEF AreTables
<1>2. /\ SameFile(made, new)
      /\ new.ok => made.ok /\ AddsColumn(made, "Notifications",
                                         "mentionedUserId", refs, <<>>, new)
  BY <1>1, AddingColumn DEF SameFile
<1>3. From8(d) = new
  BY DEF From8
<1>. HIDE DEF made, refs, new
<1>4. IsFile(made) /\ IsFile(new) /\ made.ok /\ new.ok
  BY <1>1, <1>2, <1>3 DEF SameFile
<1>5. Saves(d, made)
  BY <1>1, <1>4, CreatingSaves
<1>6. Saves(made, new)
  BY <1>2, <1>4, <1>5, AddingColumnSaves DEF Saves
<1>. QED
  BY <1>3, <1>5, <1>6, SavesIsTransitive

\* The repair of an older version 9.
LEMMA RepairsSave ==
  ASSUME NEW d, IsFile(d), IdsFit(d), NEW word \in RepairWords,
         RepairStep(word, d).ok
  PROVE  Saves(d, RepairStep(word, d))
<1>1. ASSUME word = "key", EnsureContainerKey(d).ok
      PROVE  Saves(d, EnsureContainerKey(d))
  <2>1. PICK new : new = EnsureContainerKey(d)
    OBVIOUS
  <2>2. PICK default : default = [containerKey |-> <<"-", "-", "-", "-">>]
    OBVIOUS
  <2>3. /\ SameFile(d, new)
        /\ new = d \/ AddsColumn(d, "Mentions", "containerKey", {}, default, new)
    BY <1>1, <2>1, <2>2, RepairingKey
  <2>. QED
    BY <2>1, <2>3, AddingColumnSaves, SavesIsReflexive DEF SameFile
<1>2. ASSUME word = "backfill", BackfillContainerKeys(d).ok
      PROVE  Saves(d, BackfillContainerKeys(d))
  <2>1. PICK new : new = BackfillContainerKeys(d)
    OBVIOUS
  <2>2. /\ SameFile(d, new)
        /\ Fills(d, "Mentions", {Keyed(row) : row \in d.rows["Mentions"]}, new)
    BY <1>2, <2>1, RepairingRows
  <2>3. \A row : "id" \in DOMAIN row =>
          "id" \in DOMAIN Keyed(row) /\ Keyed(row).id = row.id
    BY DEF Keyed
  <2>4. KeepsIds(d.rows["Mentions"], new.rows["Mentions"])
    BY <2>2, <2>3 DEF Fills, KeepsIds
  <2>. QED
    BY <2>1, <2>2, <2>4, ChangingRowsSaves DEF SameFile, Fills
<1>3. ASSUME word = "unique", EnsureMentionIndex(d).ok
      PROVE  Saves(d, EnsureMentionIndex(d))
  <2>1. PICK new : new = EnsureMentionIndex(d)
    OBVIOUS
  <2>2. /\ SameFile(d, new)
        /\ new = d \/ AddsIndex(d, "Mentions", mentionIndex, new)
    BY <1>3, <2>1, RepairingIndex
  <2>3. CASE AddsIndex(d, "Mentions", mentionIndex, new)
    <3>1. KeepsIds(d.rows["Mentions"], new.rows["Mentions"])
      BY <2>3 DEF AddsIndex, KeepsIds
    <3>. QED
      BY <2>1, <2>2, <2>3, <3>1, ChangingRowsSaves DEF SameFile, AddsIndex
  <2>. QED
    BY <2>1, <2>2, <2>3, SavesIsReflexive
<1>4. ASSUME word = "user", EnsureMentionedUser(d).ok
      PROVE  Saves(d, EnsureMentionedUser(d))
  <2>1. PICK new : new = EnsureMentionedUser(d)
    OBVIOUS
  <2>2. PICK refs, default :
          refs = {userReference("no action")} /\ default = <<>>
    OBVIOUS
  <2>3. /\ SameFile(d, new)
        /\ new = d \/ AddsColumn(d, "Notifications", "mentionedUserId", refs,
                                 default, new)
    BY <1>4, <2>1, <2>2, RepairingUser
  <2>. QED
    BY <2>1, <2>3, AddingColumnSaves, SavesIsReflexive DEF SameFile
<1>. QED
  BY <1>1, <1>2, <1>3, <1>4 DEF RepairStep, RepairWords

-----------------------------------------------------------------------------
(* The first migration *)

LEMMA LastingIsUnnamed ==
  \A def, names, t : IsLasting(def, names) /\ t \in names => Unnamed(def, t)
BY DEF IsLasting, Lasts, reference, Unnamed

\* What an old table is dropped without.
LEMMA FirstMigrationDrops ==
  ASSUME NEW d, NEW put, NEW aside, NEW made, NEW new, NEW filled, NEW named,
         NEW admins, NEW less, NEW last,
         AreFiles(d, put, aside, made, new, filled, named, admins, less),
         FirstSteps(d, put, aside, made, new, filled, named, admins, less, last),
         SameTables(d.tables, Snapshot1)
  PROVE  /\ IsFile(last)
         /\ DOMAIN last.tables = Kept1 \cup DOMAIN Created2 \cup {"SystemRoles"}
         /\ \A t \in DOMAIN last.tables : last.rows[t] = admins.rows[t]
<1>. DEFINE first == "__legacy_Users_Roles"
            second == "__legacy_Roles"
<1>1. /\ DOMAIN Created2 \cap (Kept1 \cup {first, second}) = {}
      /\ DOMAIN admins.tables =
           Kept1 \cup DOMAIN Created2 \cup {"SystemRoles", first, second}
      /\ \A t \in Kept1 \cup DOMAIN Created2 \cup {"SystemRoles", second} :
           IsLasting(admins.tables[t], OldNames)
  BY FirstMigrationTables
<1>2. first \in OldNames /\ second \in OldNames
  BY DEF OldNames
<1>3. Kept1 \cap {first, second} = {} /\ "SystemRoles" \notin {first, second}
  BY NamesOfParts DEF Kept1
<1>4. less = DropTable(admins, first) /\ less.ok
      /\ last = DropTable(less, second) /\ last.ok /\ IsFile(admins)
  BY DEF FirstSteps, AreFiles
<1>5. SameFile(admins, less) /\ Alone(admins, first, less)
  <2>1. \A u \in DOMAIN admins.tables \ {first} : Unnamed(admins.tables[u], first)
    BY <1>1, <1>2, LastingIsUnnamed
  <2>. QED
    BY <1>4, <2>1, DroppingAlone
<1>6. SameFile(less, last) /\ Alone(less, second, last)
  <2>1. \A u \in DOMAIN less.tables \ {second} : Unnamed(less.tables[u], second)
    BY <1>1, <1>2, <1>5, LastingIsUnnamed DEF Alone, Keeps
  <2>. QED
    BY <1>4, <1>5, <2>1, DroppingAlone DEF SameFile
<1>7. DOMAIN last.tables = DOMAIN admins.tables \ {first, second}
  BY <1>5, <1>6 DEF Alone
<1>. QED
  BY <1>1, <1>3, <1>5, <1>6, <1>7 DEF Alone, Keeps, SameFile

LEMMA FirstMigrationRows ==
  ASSUME NEW d, NEW put, NEW aside, NEW made, NEW new, NEW filled, NEW named,
         NEW admins, NEW less, NEW last,
         FirstSteps(d, put, aside, made, new, filled, named, admins, less, last),
         SameTables(d.tables, Snapshot1)
  PROVE  /\ \A t \in Kept1 : admins.rows[t] = d.rows[t]
         /\ \A t \in DOMAIN Created2 \ {"Users_SystemRoles"} : admins.rows[t] = {}
         /\ admins.rows["Users_SystemRoles"] = CopiedAdmins(made)
         /\ made.rows["__legacy_Users_Roles"] = d.rows["Users_Roles"]
<1>1. /\ Renames(d, "Roles", "__legacy_Roles", put)
      /\ Renames(put, "Users_Roles", "__legacy_Users_Roles", aside)
      /\ Creates(aside, Created2, made)
      /\ CreatesOne(made, "__new_SystemRoles", codeTable, new)
      /\ Renames(filled, "__new_SystemRoles", "SystemRoles", named)
      /\ Fills(named, "Users_SystemRoles",
               named.rows["Users_SystemRoles"] \cup CopiedAdmins(made), admins)
  BY DEF FirstSteps
<1>2. PICK roles : Fills(new, "__new_SystemRoles", roles, filled)
  BY Zenon DEF FirstSteps
<1>3. Kept1 \cap {"Roles", "Users_Roles", "__legacy_Roles", "__legacy_Users_Roles",
                  "__new_SystemRoles", "SystemRoles"} = {}
  BY NamesOfParts DEF Kept1
<1>4. /\ DOMAIN d.tables = Kept1 \cup {"Roles", "Users_Roles"}
      /\ "__legacy_Users_Roles" \notin DOMAIN d.tables
  BY <1>3, FirstSnapshot DEF SameTables
<1>5. /\ DOMAIN put.tables = Kept1 \cup {"__legacy_Roles", "Users_Roles"}
      /\ \A t \in Kept1 \cup {"Users_Roles"} : put.rows[t] = d.rows[t]
  BY <1>1, <1>3, <1>4 DEF Renames
<1>6. /\ DOMAIN aside.tables = Kept1 \cup {"__legacy_Roles", "__legacy_Users_Roles"}
      /\ \A t \in Kept1 : aside.rows[t] = d.rows[t]
      /\ aside.rows["__legacy_Users_Roles"] = d.rows["Users_Roles"]
  BY <1>1, <1>3, <1>5 DEF Renames
<1>7. /\ DOMAIN made.tables = DOMAIN aside.tables \cup DOMAIN Created2
      /\ DOMAIN Created2 \cap DOMAIN aside.tables = {}
      /\ \A t \in Kept1 : made.rows[t] = d.rows[t]
      /\ made.rows["__legacy_Users_Roles"] = d.rows["Users_Roles"]
      /\ \A t \in DOMAIN Created2 : made.rows[t] = {}
  BY <1>1, <1>6 DEF Creates, Keeps
<1>8. {"SystemRoles", "__new_SystemRoles"} \cap DOMAIN Created2 = {}
      /\ "Users_SystemRoles" \in DOMAIN Created2
  BY DEF Created2
<1>9. {"SystemRoles", "__new_SystemRoles"} \cap (Kept1 \cup DOMAIN Created2) = {}
  BY <1>3, <1>8
<1>10. \A t \in Kept1 \cup DOMAIN Created2 :
         t \in DOMAIN filled.tables /\ filled.rows[t] = made.rows[t]
  BY <1>1, <1>2, <1>6, <1>7, <1>9 DEF CreatesOne, Fills, Keeps
<1>11. \A t \in Kept1 \cup DOMAIN Created2 :
         t \in DOMAIN named.tables /\ named.rows[t] = made.rows[t]
  BY <1>1, <1>9, <1>10 DEF Renames
<1>12. "Users_SystemRoles" \notin Kept1
  BY <1>6, <1>7, <1>8
<1>13. \A t \in (Kept1 \cup DOMAIN Created2) \ {"Users_SystemRoles"} :
         admins.rows[t] = made.rows[t]
  BY <1>1, <1>11 DEF Fills, Keeps
<1>14. admins.rows["Users_SystemRoles"] = CopiedAdmins(made)
  BY <1>1, <1>7, <1>8, <1>11 DEF Fills
<1>. QED
  BY <1>7, <1>12, <1>13, <1>14

\* The administrators of the old roles are those of the system roles, and
\* no one else.
LEMMA FirstMigrationSaves ==
  ASSUME NEW d, IsFile(d), SameTables(d.tables, Snapshot1), IdsFit(d), RolesFit(d),
         From1(d).ok
  PROVE  SaysTheSame(d, From1(d)) /\ IdsFit(From1(d))
<1>1. PICK put, aside, made, new, filled, named, admins, less :
        /\ AreFiles(d, put, aside, made, new, filled, named, admins, less)
        /\ FirstSteps(d, put, aside, made, new, filled, named, admins, less,
                      From1(d))
  BY FirstMigrationSteps
<1>2. PICK last : last = From1(d)
  OBVIOUS
<1>3. /\ IsFile(last)
      /\ DOMAIN last.tables = Kept1 \cup DOMAIN Created2 \cup {"SystemRoles"}
      /\ \A t \in DOMAIN last.tables : last.rows[t] = admins.rows[t]
  BY <1>1, <1>2, FirstMigrationDrops
<1>4. /\ \A t \in Kept1 : admins.rows[t] = d.rows[t]
      /\ \A t \in DOMAIN Created2 \ {"Users_SystemRoles"} : admins.rows[t] = {}
      /\ admins.rows["Users_SystemRoles"] = CopiedAdmins(made)
      /\ made.rows["__legacy_Users_Roles"] = d.rows["Users_Roles"]
  BY <1>1, <1>2, FirstMigrationRows
<1>5. DOMAIN d.rows = Kept1 \cup {"Roles", "Users_Roles"}
      /\ DOMAIN last.rows = Kept1 \cup DOMAIN Created2 \cup {"SystemRoles"}
  BY <1>3, FirstSnapshot DEF SameTables, IsFile
<1>6. SameRows(d, last, {"Roles", "Users_Roles", "SystemRoles", "Users_SystemRoles"})
  <2>1. ASSUME NEW t, t \notin {"Roles", "Users_Roles", "SystemRoles",
                                "Users_SystemRoles"}
        PROVE  rowsOf(last, t) = rowsOf(d, t)
    <3>1. CASE t \in Kept1
      BY <1>3, <1>4, <1>5, <3>1 DEF rowsOf
    <3>2. CASE t \notin Kept1
      <4>1. rowsOf(d, t) = {}
        BY <1>5, <2>1, <3>2 DEF rowsOf
      <4>2. rowsOf(last, t) = {}
        BY <1>3, <1>4, <1>5, <2>1, <3>2 DEF rowsOf
      <4>. QED
        BY <4>1, <4>2
    <3>. QED
      BY <3>1, <3>2
  <2>. QED
    BY <2>1 DEF SameRows
<1>7. /\ {"Users_SystemRoles", "Users_Roles"} \cap Kept1 = {}
      /\ "Users_SystemRoles" \in DOMAIN Created2
      /\ "Users_Roles" \notin DOMAIN Created2
  BY NamesOfParts DEF Kept1, Created2
<1>8. /\ rowsOf(d, "Users_Roles") = d.rows["Users_Roles"]
      /\ rowsOf(d, "Users_SystemRoles") = {}
      /\ rowsOf(last, "Users_Roles") = {}
      /\ rowsOf(last, "Users_SystemRoles") = CopiedAdmins(made)
  BY <1>3, <1>4, <1>5, <1>7 DEF rowsOf
<1>9. AdminIds(last) = AdminIds(d)
  <2>1. AdminIds(d) = {row.userId : row \in legacyAdmins(made)}
    <3>1. \A row \in d.rows["Users_Roles"] :
            row.roleCode \in adminCodes <=> row.roleCode = "GGTC_ROLE_ADMIN"
      BY <1>8 DEF RolesFit, adminCodes
    <3>. QED
      BY <1>4, <1>8, <3>1 DEF AdminIds, legacyAdmins
  <2>2. AdminIds(last) = {row.userId : row \in CopiedAdmins(made)}
    <3>1. \A row \in CopiedAdmins(made) : row.roleCode \in adminCodes
      BY DEF CopiedAdmins, adminCodes
    <3>. QED
      BY <1>8, <3>1 DEF AdminIds
  <2>3. {row.userId : row \in CopiedAdmins(made)}
          = {row.userId : row \in legacyAdmins(made)}
    <3>1. \A copy \in CopiedAdmins(made) :
            \E row \in legacyAdmins(made) : copy.userId = row.userId
      BY DEF CopiedAdmins
    <3>2. \A row \in legacyAdmins(made) :
            \E copy \in CopiedAdmins(made) : copy.userId = row.userId
      <4>1. ASSUME NEW row \in legacyAdmins(made)
            PROVE  \E copy \in CopiedAdmins(made) : copy.userId = row.userId
        <5>. DEFINE copy == [userId |-> row.userId, roleCode |-> "GGTC_SYSTEMROLE_ADMIN"]
        <5>1. copy \in CopiedAdmins(made) /\ copy.userId = row.userId
          BY DEF CopiedAdmins
        <5>. QED
          BY <5>1
      <4>. QED
        BY <4>1
    <3>. QED
      BY <3>1, <3>2
  <2>. QED
    BY <2>1, <2>2, <2>3
<1>10. \A t \in IdentifiedTables \cup TaskTables \cup {"ProjectGanttCharts"} :
         rowsOf(last, t) = rowsOf(d, t)
  BY <1>6 DEF SameRows, IdentifiedTables, TaskTables
<1>11. \A t \in IdentifiedTables : Ids(last, t) = Ids(d, t)
  BY <1>10 DEF Ids
<1>12. \A row : projectOf(last, row) = projectOf(d, row)
  BY <1>10 DEF projectOf
<1>13. \A t \in TaskTables : aboutTask(last, t) = aboutTask(d, t)
  BY <1>10, <1>12 DEF aboutTask
<1>14. IdsFit(last)
  BY <1>10 DEF IdsFit
<1>. QED
  BY <1>2, <1>9, <1>11, <1>13, <1>14 DEF SaysTheSame

-----------------------------------------------------------------------------
(* The last migration: no row goes with the tables it drops *)

\* Who refers to the tables of tasks: only those tables themselves.
AboutTasks(t, def) == NamesTasks(t, def, TaskTables)

\* Comments and attachments refer to the tasks, the attachments of comments to
\* the comments, and nothing to attachments: that is the order they are dropped in.
LEMMA DroppedInOrder ==
  /\ \A t, def : AboutTasks(t, def) =>
       /\ Unnamed(def, "TaskAttachments")
       /\ Unnamed(def, "TaskComments_Attachments")
       /\ t # "TaskComments_Attachments" => Unnamed(def, "TaskComments")
       /\ t \notin TaskTables \ {"TaskMirror"} => Unnamed(def, "TaskMirror")
<1>. SUFFICES ASSUME NEW t, NEW def, AboutTasks(t, def)
     PROVE  /\ Unnamed(def, "TaskAttachments")
            /\ Unnamed(def, "TaskComments_Attachments")
            /\ t # "TaskComments_Attachments" => Unnamed(def, "TaskComments")
            /\ t \notin TaskTables \ {"TaskMirror"} => Unnamed(def, "TaskMirror")
  OBVIOUS
<1>1. CASE IsLasting(def, TaskTables)
  BY <1>1, LastingIsUnnamed DEF TaskTables
<1>2. CASE t \in TaskTables /\ def = Tasks6[t]
  <2>1. \A key, others, unique, refs : table(key, others, unique, refs).refs = refs
    BY DEF table
  <2>2. \A columns, parent :
          /\ cascade(columns, parent).table = parent
          /\ restrict(columns, parent).table = parent
    BY DEF cascade, restrict, reference
  <2>3. /\ Tasks6["TaskMirror"].refs = {cascade(<<"projectId">>, "Projects")}
        /\ Tasks6["TaskAttachments"].refs =
             {cascade(<<"projectId">>, "Projects"),
              cascade(<<"attachmentId">>, "Attachments"),
              cascade(<<"projectId", "taskId">>, "TaskMirror")}
        /\ Tasks6["TaskComments"].refs =
             {cascade(<<"projectId">>, "Projects"),
              restrict(<<"createdByUserId">>, "Users"),
              cascade(<<"projectId", "taskId">>, "TaskMirror")}
        /\ Tasks6["TaskComments_Attachments"].refs =
             {cascade(<<"projectId">>, "Projects"),
              cascade(<<"commentId">>, "TaskComments"),
              cascade(<<"attachmentId">>, "Attachments"),
              cascade(<<"projectId", "taskId">>, "TaskMirror")}
    BY <2>1 DEF Tasks6
  <2>4. CASE t = "TaskMirror"
    BY <1>2, <2>2, <2>3, <2>4 DEF Unnamed
  <2>5. CASE t = "TaskAttachments"
    BY <1>2, <2>2, <2>3, <2>5 DEF Unnamed, TaskTables
  <2>6. CASE t = "TaskComments"
    BY <1>2, <2>2, <2>3, <2>6 DEF Unnamed, TaskTables
  <2>7. CASE t = "TaskComments_Attachments"
    BY <1>2, <2>2, <2>3, <2>7 DEF Unnamed, TaskTables
  <2>. QED
    BY <1>2, <2>4, <2>5, <2>6, <2>7 DEF TaskTables
<1>. QED
  BY <1>1, <1>2 DEF AboutTasks, NamesTasks

LEMMA NewTablesOfTasks ==
  /\ \A t \in DOMAIN Created11 : AboutTasks(t, Created11[t])
  /\ AboutTasks("ProjectGanttCharts", chartTable)
  /\ \A def \in ToldForms : AboutTasks("Notifications", def)
<1>1. \A parent \in {"ProjectGanttCharts", "TaskMirror__new", "TaskComments__new",
                     "Users", "Attachments", "Projects", "Issues"} :
        parent \notin TaskTables
  BY DEF TaskTables
<1>2. \A parent \in {"ProjectGanttCharts", "TaskMirror__new", "TaskComments__new",
                     "Users", "Attachments", "Projects", "Issues"} : \A columns :
        Lasts(cascade(columns, parent), TaskTables)
        /\ Lasts(restrict(columns, parent), TaskTables)
  BY <1>1, LastingReferences
<1>3. AreLasting(Created11, TaskTables)
  BY <1>2, LastingTables DEF Created11, ofChart, ofTask, AreLasting
<1>4. IsLasting(chartTable, TaskTables)
  BY <1>2, LastingTables DEF chartTable
<1>5. \A action : Lasts(userReference(action), TaskTables)
  BY <1>1 DEF userReference, Lasts
<1>6. \A action : IsLasting(Told(action), TaskTables)
  <2>1. ASSUME NEW action
        PROVE  IsLasting(Told(action), TaskTables)
    <3>1. PICK refs : refs = Refs8 \cup {userReference(action)}
      OBVIOUS
    <3>2. \A r \in refs : Lasts(r, TaskTables)
      BY <1>2, <1>5, <3>1 DEF Refs8
    <3>. QED
      BY <3>1, <3>2 DEF Told, Def, IsLasting
  <2>. QED
    BY <2>1
<1>. QED
  BY <1>3, <1>4, <1>6 DEF AreLasting, AboutTasks, NamesTasks, ToldForms

\* Into an empty table every row is inserted that does not conflict with itself.
LEMMA InsertingIntoEmpty ==
  ASSUME NEW d, IsFile(d), NEW t, NEW rows, d.rows[t] = {},
         InsertNew(d, t, rows).ok
  PROVE  Fills(d, t, rows, InsertNew(d, t, rows))
<1>1. \A row : UniqueBy(d.tables[t], d.rows[t] \cup {row})
  BY DEF UniqueBy, Unique
<1>2. {row \in rows : UniqueBy(d.tables[t], d.rows[t] \cup {row})} = rows
  BY <1>1
<1>3. InsertNew(d, t, rows) = Insert(d, t, rows)
  BY <1>2 DEF InsertNew
<1>4. d.rows[t] \cup rows = rows
  OBVIOUS
<1>. QED
  BY <1>3, <1>4, Inserting

\* The rows of an old table, on the default charts of their projects.
ChartRows(rows, charts) == UNION {onDefaultChart(row, charts) : row \in rows}

LEMMA FillingNew ==
  ASSUME NEW d, IsFile(d), NEW old, d.rows[NewName[old]] = {}, FillNew(d, old).ok
  PROVE  /\ IsFile(FillNew(d, old))
         /\ Fills(d, NewName[old],
                  ChartRows(d.rows[old], d.rows["ProjectGanttCharts"]),
                  FillNew(d, old))
<1>. DEFINE rows == ChartRows(d.rows[old], d.rows["ProjectGanttCharts"])
<1>1. FillNew(d, old) = IF HasColumn(d, old, "projectId")
                         THEN Insert(d, NewName[old], rows) ELSE Fail(d)
  BY DEF FillNew, ChartRows
<1>2. ~Fail(d).ok
  BY FailingIsNotOk
<1>3. FillNew(d, old) = Insert(d, NewName[old], rows)
  BY <1>1, <1>2
<1>. HIDE DEF rows
<1>4. d.rows[NewName[old]] \cup rows = rows
  OBVIOUS
<1>5. PICK name : name = NewName[old]
  OBVIOUS
<1>6. SameFile(d, Insert(d, name, rows)) /\ Fills(d, name, rows, Insert(d, name, rows))
  BY <1>3, <1>4, <1>5, Inserting
<1>. QED
  BY <1>3, <1>5, <1>6 DEF SameFile, rows

\* A database in the middle of v10--v11: some old tables are gone already, and
\* some new ones have the rows of the old ones.
Ready(made) ==
  /\ IsFile(made)
  /\ TaskTables \cup DOMAIN Created11 \cup {"ProjectGanttCharts"}
       \subseteq DOMAIN made.tables
  /\ \A t \in DOMAIN made.tables : AboutTasks(t, made.tables[t])
  /\ \A t \in DOMAIN Created11 : made.rows[t] = {}
IsFilled(made, s, old) ==
  s.rows[NewName[old]] = ChartRows(made.rows[old], made.rows["ProjectGanttCharts"])
Stage(made, s, gone, olds) ==
  /\ IsFile(s)
  /\ DOMAIN s.tables = DOMAIN made.tables \ gone
  /\ \A u \in DOMAIN s.tables : s.tables[u] = made.tables[u]
  /\ \A u \in DOMAIN s.tables :
       (\A old \in olds : u # NewName[old]) => s.rows[u] = made.rows[u]
  /\ \A old \in olds : IsFilled(made, s, old)

LEMMA NewNamesOfTasks ==
  /\ \A old \in TaskTables : NewName[old] \in DOMAIN Created11
  /\ \A old, other \in TaskTables : NewName[old] = NewName[other] => old = other
  /\ DOMAIN Created11 \cap (TaskTables \cup {"ProjectGanttCharts"}) = {}
  /\ DOMAIN Created11 = {NewName[old] : old \in TaskTables}
<1>1. DOMAIN Created11 = {"TaskMirror__new", "TaskComments__new",
                          "TaskAttachments__new", "TaskComments_Attachments__new"}
  BY DEF Created11
<1>2. /\ NewName["TaskMirror"] = "TaskMirror__new"
      /\ NewName["TaskComments"] = "TaskComments__new"
      /\ NewName["TaskAttachments"] = "TaskAttachments__new"
      /\ NewName["TaskComments_Attachments"] = "TaskComments_Attachments__new"
  BY DEF NewName
<1>. QED
  BY <1>1, <1>2 DEF TaskTables

LEMMA StageFills ==
  ASSUME NEW made, Ready(made), NEW s,
         NEW gone \in SUBSET TaskTables, NEW olds \in SUBSET TaskTables,
         Stage(made, s, gone, olds),
         NEW old \in TaskTables, old \notin gone, old \notin olds,
         FillNew(s, old).ok
  PROVE  Stage(made, FillNew(s, old), gone, olds \cup {old})
<1>. DEFINE charts == "ProjectGanttCharts"
<1>1. PICK name : name = NewName[old]
  OBVIOUS
<1>2. /\ name \in DOMAIN Created11 /\ name \notin TaskTables
      /\ \A other \in olds : name # NewName[other]
      /\ \A other \in olds : old # NewName[other] /\ charts # NewName[other]
      /\ charts \notin TaskTables
  BY <1>1, NewNamesOfTasks DEF TaskTables
<1>3. {name, old, charts} \subseteq DOMAIN s.tables
  BY <1>2 DEF Ready, Stage
<1>4. /\ s.rows[name] = {} /\ s.rows[old] = made.rows[old]
      /\ s.rows[charts] = made.rows[charts]
  BY <1>2, <1>3 DEF Ready, Stage
<1>5. PICK new : new = FillNew(s, old)
  OBVIOUS
<1>6. IsFile(new)
      /\ Fills(s, name, ChartRows(made.rows[old], made.rows[charts]), new)
  BY <1>1, <1>4, <1>5, FillingNew DEF Stage
<1>7. /\ DOMAIN new.tables = DOMAIN made.tables \ gone
      /\ \A u \in DOMAIN new.tables : new.tables[u] = made.tables[u]
  BY <1>6 DEF Stage, Fills, Keeps
<1>8. \A u \in DOMAIN new.tables :
        (\A other \in olds \cup {old} : u # NewName[other])
          => new.rows[u] = made.rows[u]
  BY <1>1, <1>6 DEF Stage, Fills, Keeps
<1>9. ASSUME NEW other \in olds
      PROVE  IsFilled(made, new, other)
  <2>1. PICK place : place = NewName[other]
    OBVIOUS
  <2>2. place \in DOMAIN Created11 /\ place # name /\ place \notin TaskTables
    BY <1>2, <2>1, NewNamesOfTasks
  <2>3. place \in DOMAIN s.tables
    BY <2>2 DEF Ready, Stage
  <2>4. new.rows[place] = s.rows[place]
    BY <1>6, <2>2, <2>3 DEF Fills, Keeps
  <2>. QED
    BY <2>1, <2>4 DEF Stage, IsFilled
<1>10. IsFilled(made, new, old)
  BY <1>1, <1>6 DEF IsFilled, Fills
<1>11. Stage(made, new, gone, olds \cup {old})
  BY <1>6, <1>7, <1>8, <1>9, <1>10 DEF Stage
<1>. QED
  BY <1>5, <1>11

LEMMA StageDrops ==
  ASSUME NEW made, Ready(made), NEW s,
         NEW gone \in SUBSET TaskTables, NEW olds \in SUBSET TaskTables,
         Stage(made, s, gone, olds),
         NEW t \in TaskTables, t \notin gone,
         \A u \in DOMAIN s.tables \ {t} : Unnamed(s.tables[u], t),
         DropTable(s, t).ok
  PROVE  Stage(made, DropTable(s, t), gone \cup {t}, olds)
<1>1. PICK new : new = DropTable(s, t)
  OBVIOUS
<1>2. SameFile(s, new) /\ Alone(s, t, new)
  BY <1>1, DroppingAlone DEF Stage
<1>3. IsFile(new)
      /\ DOMAIN new.tables = DOMAIN made.tables \ (gone \cup {t})
      /\ \A u \in DOMAIN new.tables :
           /\ u \in DOMAIN s.tables
           /\ new.tables[u] = s.tables[u] /\ new.rows[u] = s.rows[u]
  BY <1>2 DEF Stage, Alone, Keeps, SameFile
<1>4. ASSUME NEW other \in olds
      PROVE  IsFilled(made, new, other)
  <2>1. PICK place : place = NewName[other]
    OBVIOUS
  <2>2. place \in DOMAIN Created11 /\ place \notin TaskTables
    BY <2>1, NewNamesOfTasks
  <2>3. place \in DOMAIN new.tables
    BY <1>3, <2>2 DEF Ready
  <2>4. new.rows[place] = s.rows[place]
    BY <1>3, <2>3
  <2>. QED
    BY <2>1, <2>4 DEF Stage, IsFilled
<1>5. Stage(made, new, gone \cup {t}, olds)
  BY <1>3, <1>4 DEF Stage
<1>. QED
  BY <1>1, <1>5

\* A row of every old task on the chart of its project, under the old name.
LEMMA TenthMigrationFills ==
  ASSUME NEW d, NEW charted, NEW made, NEW mirror, NEW attachments, NEW less,
         NEW comments, NEW links, NEW lessLinks, NEW lessComments, NEW dropped,
         TenthFiles(d, charted, made, mirror, attachments, less, comments, links,
                    lessLinks, lessComments, dropped),
         TenthSteps(d, charted, made, mirror, attachments, less, comments, links,
                    lessLinks, lessComments, dropped),
         Ready(made)
  PROVE  Stage(made, dropped, TaskTables, TaskTables)
<1>. DEFINE m == "TaskMirror"
            a == "TaskAttachments"
            c == "TaskComments"
            l == "TaskComments_Attachments"
<1>1. PICK none, m1, a1, c1, l1 :
        none = {} /\ m1 = {m} /\ a1 = {a} /\ c1 = {c} /\ l1 = {l}
  OBVIOUS
<1>2. m \in TaskTables /\ a \in TaskTables /\ c \in TaskTables /\ l \in TaskTables
      /\ TaskTables = {m, a, c, l}
  BY DEF TaskTables
<1>3. \A s, gone, olds, t : Stage(made, s, gone, olds) /\ t \in DOMAIN s.tables =>
        t \in DOMAIN made.tables \ gone /\ AboutTasks(t, s.tables[t])
  BY DEF Stage, Ready
<1>4. /\ mirror = FillNew(made, m) /\ mirror.ok
      /\ attachments = FillNew(mirror, a) /\ attachments.ok
      /\ less = DropTable(attachments, a) /\ less.ok
      /\ comments = FillNew(less, c) /\ comments.ok
      /\ links = FillNew(comments, l) /\ links.ok
      /\ lessLinks = DropTable(links, l) /\ lessLinks.ok
      /\ lessComments = DropTable(lessLinks, c) /\ lessComments.ok
      /\ dropped = DropTable(lessComments, m) /\ dropped.ok
  BY DEF TenthSteps
<1>5. Stage(made, made, none, none)
  BY <1>1 DEF Stage, Ready
<1>6. Stage(made, mirror, none, none \cup m1)
  BY <1>1, <1>2, <1>4, <1>5, StageFills
<1>7. Stage(made, attachments, none, none \cup m1 \cup a1)
  <2>1. PICK olds \in SUBSET TaskTables : olds = none \cup m1
    BY <1>1, <1>2
  <2>. QED
    BY <1>1, <1>2, <1>4, <1>6, <2>1, StageFills
<1>8. Stage(made, less, none \cup a1, none \cup m1 \cup a1)
  <2>1. PICK olds \in SUBSET TaskTables : olds = none \cup m1 \cup a1
    BY <1>1, <1>2
  <2>2. \A u \in DOMAIN attachments.tables : Unnamed(attachments.tables[u], a)
    BY <1>3, <1>7, DroppedInOrder
  <2>. QED
    BY <1>1, <1>2, <1>4, <1>7, <2>1, <2>2, StageDrops
<1>9. Stage(made, comments, none \cup a1, none \cup m1 \cup a1 \cup c1)
  <2>1. PICK olds \in SUBSET TaskTables, gone \in SUBSET TaskTables :
          olds = none \cup m1 \cup a1 /\ gone = none \cup a1
    BY <1>1, <1>2
  <2>. QED
    BY <1>1, <1>2, <1>4, <1>8, <2>1, StageFills
<1>10. Stage(made, links, none \cup a1, none \cup m1 \cup a1 \cup c1 \cup l1)
  <2>1. PICK olds \in SUBSET TaskTables, gone \in SUBSET TaskTables :
          olds = none \cup m1 \cup a1 \cup c1 /\ gone = none \cup a1
    BY <1>1, <1>2
  <2>. QED
    BY <1>1, <1>2, <1>4, <1>9, <2>1, StageFills
<1>11. Stage(made, links, a1, TaskTables)
  <2>1. none \cup a1 = a1 /\ none \cup m1 \cup a1 \cup c1 \cup l1 = TaskTables
    BY <1>1, <1>2
  <2>. QED
    BY <1>10, <2>1
<1>12. Stage(made, lessLinks, a1 \cup l1, TaskTables)
  <2>1. a1 \in SUBSET TaskTables /\ l \notin a1
    BY <1>1, <1>2
  <2>2. \A u \in DOMAIN links.tables : Unnamed(links.tables[u], l)
    BY <1>3, <1>11, DroppedInOrder
  <2>. QED
    BY <1>1, <1>2, <1>4, <1>11, <2>1, <2>2, StageDrops
<1>13. Stage(made, lessComments, a1 \cup l1 \cup c1, TaskTables)
  <2>0. PICK gone : gone = a1 \cup l1
    OBVIOUS
  <2>1. gone \in SUBSET TaskTables /\ c \notin gone
    BY <1>1, <1>2, <2>0
  <2>2. \A u \in DOMAIN lessLinks.tables : Unnamed(lessLinks.tables[u], c)
    <3>1. ASSUME NEW u \in DOMAIN lessLinks.tables
          PROVE  Unnamed(lessLinks.tables[u], c)
      <4>1. u \notin a1 \cup l1 /\ AboutTasks(u, lessLinks.tables[u])
        BY <1>3, <1>12
      <4>2. u # "TaskComments_Attachments"
        BY <1>1, <4>1
      <4>. QED
        BY <4>1, <4>2, DroppedInOrder
    <3>. QED
      BY <3>1
  <2>. QED
    BY <1>1, <1>2, <1>4, <1>12, <2>0, <2>1, <2>2, StageDrops
<1>14. Stage(made, dropped, a1 \cup l1 \cup c1 \cup m1, TaskTables)
  <2>1. PICK gone \in SUBSET TaskTables :
          gone = a1 \cup l1 \cup c1 /\ m \notin gone /\ TaskTables \ {m} = gone
    BY <1>1, <1>2
  <2>2. \A u \in DOMAIN lessComments.tables : Unnamed(lessComments.tables[u], m)
    BY <1>3, <1>13, <2>1, DroppedInOrder
  <2>. QED
    BY <1>1, <1>2, <1>4, <1>13, <2>1, <2>2, StageDrops
<1>. QED
  <2>1. a1 \cup l1 \cup c1 \cup m1 = TaskTables
    BY <1>1, <1>2
  <2>. QED
    BY <1>14, <2>1

\* The new names are taken with the rows.
LEMMA TakingNames ==
  ASSUME NEW made, Ready(made), NEW dropped,
         Stage(made, dropped, TaskTables, TaskTables),
         NEW mirror, NEW comments, NEW attachments, NEW last,
         TenthNames(dropped, mirror, comments, attachments, last)
  PROVE  /\ DOMAIN last.tables = DOMAIN made.tables \ DOMAIN Created11
         /\ \A old \in TaskTables :
              last.rows[old] = ChartRows(made.rows[old],
                                         made.rows["ProjectGanttCharts"])
         /\ \A t \in DOMAIN last.tables \ TaskTables : last.rows[t] = made.rows[t]
<1>1. /\ NewName["TaskMirror"] = "TaskMirror__new"
      /\ NewName["TaskComments"] = "TaskComments__new"
      /\ NewName["TaskAttachments"] = "TaskAttachments__new"
      /\ NewName["TaskComments_Attachments"] = "TaskComments_Attachments__new"
  BY DEF NewName
<1>2. DOMAIN Created11 = {"TaskMirror__new", "TaskComments__new",
                          "TaskAttachments__new", "TaskComments_Attachments__new"}
  BY DEF Created11
<1>3. TaskTables = {"TaskMirror", "TaskComments", "TaskAttachments",
                    "TaskComments_Attachments"}
  BY DEF TaskTables
<1>4. PICK base : base = DOMAIN made.tables \ (TaskTables \cup DOMAIN Created11)
  OBVIOUS
<1>5. /\ DOMAIN made.tables = base \cup TaskTables \cup DOMAIN Created11
      /\ base \cap TaskTables = {} /\ base \cap DOMAIN Created11 = {}
      /\ TaskTables \cap DOMAIN Created11 = {}
  BY <1>4, NewNamesOfTasks DEF Ready
<1>6. DOMAIN dropped.tables = base \cup DOMAIN Created11
  BY <1>5 DEF Stage
<1>7. \A t \in base : dropped.rows[t] = made.rows[t]
  <2>1. \A t \in base : \A old \in TaskTables : t # NewName[old]
    BY <1>5, NewNamesOfTasks
  <2>. QED
    BY <1>6, <2>1 DEF Stage
<1>8. Renames(dropped, "TaskMirror__new", "TaskMirror", mirror)
      /\ Renames(mirror, "TaskComments__new", "TaskComments", comments)
      /\ Renames(comments, "TaskAttachments__new", "TaskAttachments", attachments)
      /\ Renames(attachments, "TaskComments_Attachments__new",
                 "TaskComments_Attachments", last)
  BY DEF TenthNames
<1>9. /\ DOMAIN mirror.tables =
           base \cup {"TaskMirror", "TaskComments__new", "TaskAttachments__new",
                      "TaskComments_Attachments__new"}
      /\ mirror.rows["TaskMirror"] = dropped.rows["TaskMirror__new"]
      /\ \A t \in base \cup {"TaskComments__new", "TaskAttachments__new",
                             "TaskComments_Attachments__new"} :
           mirror.rows[t] = dropped.rows[t]
  BY <1>2, <1>3, <1>5, <1>6, <1>8 DEF Renames
<1>10. /\ DOMAIN comments.tables =
            base \cup {"TaskMirror", "TaskComments", "TaskAttachments__new",
                       "TaskComments_Attachments__new"}
       /\ comments.rows["TaskMirror"] = dropped.rows["TaskMirror__new"]
       /\ comments.rows["TaskComments"] = dropped.rows["TaskComments__new"]
       /\ \A t \in base \cup {"TaskAttachments__new",
                              "TaskComments_Attachments__new"} :
            comments.rows[t] = dropped.rows[t]
  BY <1>2, <1>3, <1>5, <1>8, <1>9 DEF Renames
<1>11. /\ DOMAIN attachments.tables =
            base \cup {"TaskMirror", "TaskComments", "TaskAttachments",
                       "TaskComments_Attachments__new"}
       /\ attachments.rows["TaskMirror"] = dropped.rows["TaskMirror__new"]
       /\ attachments.rows["TaskComments"] = dropped.rows["TaskComments__new"]
       /\ attachments.rows["TaskAttachments"] = dropped.rows["TaskAttachments__new"]
       /\ \A t \in base \cup {"TaskComments_Attachments__new"} :
            attachments.rows[t] = dropped.rows[t]
  BY <1>2, <1>3, <1>5, <1>8, <1>10 DEF Renames
<1>12. /\ DOMAIN last.tables = base \cup TaskTables
       /\ last.rows["TaskMirror"] = dropped.rows["TaskMirror__new"]
       /\ last.rows["TaskComments"] = dropped.rows["TaskComments__new"]
       /\ last.rows["TaskAttachments"] = dropped.rows["TaskAttachments__new"]
       /\ last.rows["TaskComments_Attachments"]
            = dropped.rows["TaskComments_Attachments__new"]
       /\ \A t \in base : last.rows[t] = dropped.rows[t]
  BY <1>2, <1>3, <1>5, <1>8, <1>11 DEF Renames
<1>13. \A old \in TaskTables : last.rows[old] = dropped.rows[NewName[old]]
  BY <1>1, <1>3, <1>12
<1>14. \A old \in TaskTables : last.rows[old] =
         ChartRows(made.rows[old], made.rows["ProjectGanttCharts"])
  BY <1>13 DEF Stage, IsFilled
<1>15. DOMAIN last.tables = DOMAIN made.tables \ DOMAIN Created11
  BY <1>5, <1>12
<1>16. \A t \in DOMAIN last.tables \ TaskTables : last.rows[t] = made.rows[t]
  BY <1>5, <1>7, <1>12
<1>. QED
  BY <1>14, <1>15, <1>16

LEMMA TenthSnapshotNames == TaskTables \cup {"Projects"} \subseteq DOMAIN Snapshot10
<1>1. "Projects" \in DOMAIN Entities10 /\ DOMAIN Tasks10 = TaskTables
  BY NamesOfDiscussions, NamesOfParts, NamesOfChanges
     DEF Tasks10, Tasks9, Tasks8, Tasks7
<1>2. ASSUME NEW t \in TaskTables \cup {"Projects"}
      PROVE  t \in DOMAIN Snapshot10
  <2>1. t \in DOMAIN Entities10 \/ t \in DOMAIN Tasks10
    BY <1>1
  <2>. QED
    BY <2>1, InBoth DEF Snapshot10
<1>. QED
  BY <1>2

DefaultRows(projects) ==
  {[id |-> p.id, projectId |-> p.id, chartId |-> 0] : p \in projects}

\* What v10--v11 does to the rows.
LEMMA TenthMigrationRows ==
  ASSUME NEW d, IsFile(d), From10(d).ok,
         Nearly(d.tables, Snapshot10, {"Notifications"}),
         d.tables["Notifications"] \in ToldForms
  PROVE  LET new == From10(d)
         IN  /\ DOMAIN new.tables = DOMAIN d.tables \cup {"ProjectGanttCharts"}
             /\ TaskTables \cup {"Projects"} \subseteq DOMAIN d.tables
             /\ \A t \in DOMAIN d.tables \ TaskTables : new.rows[t] = d.rows[t]
             /\ new.rows["ProjectGanttCharts"] = DefaultRows(d.rows["Projects"])
             /\ \A t \in TaskTables :
                  new.rows[t] = ChartRows(d.rows[t], DefaultRows(d.rows["Projects"]))
<1>1. PICK last : last = From10(d)
  OBVIOUS
<1>2. "ProjectGanttCharts" \notin DOMAIN d.tables
  BY NoChartsYet DEF Nearly
<1>3. PICK charted, made, mirror, attachments, less, comments, links, lessLinks,
           lessComments, dropped :
        /\ TenthFiles(d, charted, made, mirror, attachments, less, comments, links,
                      lessLinks, lessComments, dropped)
        /\ TenthSteps(d, charted, made, mirror, attachments, less, comments, links,
                      lessLinks, lessComments, dropped)
        /\ \E named1, named2, named3 :
             TenthNames(dropped, named1, named2, named3, last)
  BY <1>1, <1>2, TenthMigrationSteps
<1>4. PICK chart : /\ IsFile(chart)
                   /\ CreatesOne(d, "ProjectGanttCharts", chartTable, chart)
                   /\ charted = DefaultCharts(chart) /\ charted.ok
  BY <1>3 DEF TenthSteps
<1>5. TaskTables \cup {"Projects"} \subseteq DOMAIN d.tables
  BY TenthSnapshotNames DEF Nearly
<1>6. PICK projects : projects = d.rows["Projects"]
  OBVIOUS
<1>7. Fills(chart, "ProjectGanttCharts", DefaultRows(projects), charted)
  <2>1. chart.rows["Projects"] = projects /\ chart.rows["ProjectGanttCharts"] = {}
    BY <1>4, <1>5, <1>6 DEF CreatesOne, Keeps
  <2>2. charted = InsertNew(chart, "ProjectGanttCharts", DefaultRows(projects))
    BY <1>4, <2>1 DEF DefaultCharts, DefaultRows
  <2>. QED
    BY <1>4, <2>1, <2>2, InsertingIntoEmpty
<1>8. Creates(charted, Created11, made) /\ IsFile(made)
  BY <1>3 DEF TenthSteps, TenthFiles
<1>9. /\ DOMAIN charted.tables = DOMAIN d.tables \cup {"ProjectGanttCharts"}
      /\ charted.tables["ProjectGanttCharts"] = chartTable
      /\ charted.rows["ProjectGanttCharts"] = DefaultRows(projects)
      /\ \A t \in DOMAIN d.tables :
           charted.tables[t] = d.tables[t] /\ charted.rows[t] = d.rows[t]
  BY <1>2, <1>4, <1>7 DEF CreatesOne, Fills, Keeps
<1>10. /\ DOMAIN made.tables = DOMAIN charted.tables \cup DOMAIN Created11
       /\ DOMAIN Created11 \cap DOMAIN charted.tables = {}
       /\ made.rows["ProjectGanttCharts"] = DefaultRows(projects)
       /\ made.tables["ProjectGanttCharts"] = chartTable
       /\ \A t \in DOMAIN d.tables :
            made.tables[t] = d.tables[t] /\ made.rows[t] = d.rows[t]
       /\ \A t \in DOMAIN Created11 : made.tables[t] = Created11[t] /\ made.rows[t] = {}
  BY <1>8, <1>9 DEF Creates, Keeps
<1>11. \A t \in DOMAIN d.tables : AboutTasks(t, d.tables[t])
  BY TenthSnapshotNamesTasks, NewTablesOfTasks DEF Nearly, AreNamingTasks, AboutTasks
<1>12. Ready(made)
  BY <1>5, <1>8, <1>9, <1>10, <1>11, NewTablesOfTasks DEF Ready
<1>13. Stage(made, dropped, TaskTables, TaskTables)
  BY <1>3, <1>12, TenthMigrationFills
<1>14. PICK named1, named2, named3 : TenthNames(dropped, named1, named2, named3, last)
  BY <1>3
<1>15. /\ DOMAIN last.tables = DOMAIN made.tables \ DOMAIN Created11
       /\ \A t \in TaskTables :
            last.rows[t] = ChartRows(made.rows[t], made.rows["ProjectGanttCharts"])
       /\ \A t \in DOMAIN last.tables \ TaskTables : last.rows[t] = made.rows[t]
  BY <1>12, <1>13, <1>14, TakingNames
<1>16. DOMAIN last.tables = DOMAIN d.tables \cup {"ProjectGanttCharts"}
  BY <1>9, <1>10, <1>15
<1>17. \A t \in DOMAIN d.tables \ TaskTables : last.rows[t] = d.rows[t]
  BY <1>10, <1>15, <1>16
<1>18. last.rows["ProjectGanttCharts"] = DefaultRows(projects)
  BY <1>2, <1>5, <1>10, <1>15, <1>16
<1>19. \A t \in TaskTables :
         last.rows[t] = ChartRows(d.rows[t], DefaultRows(projects))
  BY <1>5, <1>10, <1>15
<1>. QED
  BY <1>1, <1>5, <1>6, <1>16, <1>17, <1>18, <1>19

\* A row of an old task table as it is in the new one.
Charted(row) ==
  [k \in (DOMAIN row \ {"projectId"}) \cup {"projectGanttChartId"} |->
     IF k = "projectGanttChartId" THEN row.projectId ELSE row[k]]
About(db, row) ==
  <<projectOf(db, row), row.taskId, column(row, "id"),
    column(row, "commentId"), column(row, "attachmentId")>>

\* The inner join finds one chart for a row: the default chart of its project.
LEMMA ChartedRows ==
  ASSUME NEW projects, NEW rows,
         \A row \in rows : \E p \in projects : p.id = row.projectId
  PROVE  ChartRows(rows, DefaultRows(projects)) = {Charted(row) : row \in rows}
<1>1. PICK charts : charts = DefaultRows(projects)
  OBVIOUS
<1>2. \A c \in charts : c.id = c.projectId /\ c.chartId = 0
  BY <1>1 DEF DefaultRows
<1>3. \A p \in projects : \E c \in charts : c.projectId = p.id
  <2>1. ASSUME NEW p \in projects
        PROVE  \E c \in charts : c.projectId = p.id
    <3>1. PICK c : c = [id |-> p.id, projectId |-> p.id, chartId |-> 0]
      OBVIOUS
    <3>2. c \in charts /\ c.projectId = p.id
      BY <1>1, <3>1 DEF DefaultRows
    <3>. QED
      BY <3>2
  <2>. QED
    BY <2>1
<1>4. ASSUME NEW row \in rows
      PROVE  onDefaultChart(row, charts) = {Charted(row)}
  <2>1. PICK own : own = {x \in charts : x.projectId = row.projectId /\ x.chartId = 0}
    OBVIOUS
  <2>2. onDefaultChart(row, charts) =
          {[k \in (DOMAIN row \ {"projectId"}) \cup {"projectGanttChartId"} |->
              IF k = "projectGanttChartId" THEN c.id ELSE row[k]] : c \in own}
    BY <2>1 DEF onDefaultChart
  <2>3. \A c \in own : c.id = row.projectId
    BY <1>2, <2>1
  <2>4. \A c \in own :
          [k \in (DOMAIN row \ {"projectId"}) \cup {"projectGanttChartId"} |->
              IF k = "projectGanttChartId" THEN c.id ELSE row[k]] = Charted(row)
    BY <2>3 DEF Charted
  <2>5. \E c \in own : TRUE
    BY <1>2, <1>3, <2>1
  <2>. QED
    BY <2>2, <2>4, <2>5
<1>5. ChartRows(rows, charts) = {Charted(row) : row \in rows}
  BY <1>4 DEF ChartRows
<1>. QED
  BY <1>1, <1>5

\* It says of its task what it said before.
LEMMA ChartedRowsSayTheSame ==
  ASSUME NEW d, NEW new, NEW projects, NEW row,
         rowsOf(new, "ProjectGanttCharts") = DefaultRows(projects),
         "projectId" \in DOMAIN row, "taskId" \in DOMAIN row,
         \E p \in projects : p.id = row.projectId
  PROVE  About(new, Charted(row)) = About(d, row)
<1>1. PICK charts : charts = DefaultRows(projects)
  OBVIOUS
<1>2. PICK p \in projects : p.id = row.projectId
  OBVIOUS
<1>3. PICK chart : chart = [id |-> p.id, projectId |-> p.id, chartId |-> 0]
  OBVIOUS
<1>4. chart \in charts /\ chart.id = row.projectId /\ chart.projectId = row.projectId
  BY <1>1, <1>2, <1>3 DEF DefaultRows
<1>5. \A c \in charts : c.id = c.projectId
  BY <1>1 DEF DefaultRows
<1>6. PICK other : other = Charted(row)
  OBVIOUS
<1>7. /\ DOMAIN other = (DOMAIN row \ {"projectId"}) \cup {"projectGanttChartId"}
      /\ other.projectGanttChartId = row.projectId
      /\ \A k \in DOMAIN row \ {"projectId", "projectGanttChartId"} : other[k] = row[k]
  BY <1>6 DEF Charted
<1>8. projectOf(d, row) = {row.projectId}
  BY DEF projectOf
<1>9. {c.projectId : c \in {x \in charts : x.id = row.projectId}} = {row.projectId}
  BY <1>4, <1>5
<1>10. projectOf(new, other) = {row.projectId}
  BY <1>1, <1>7, <1>9 DEF projectOf
<1>11. /\ other.taskId = row.taskId
       /\ \A k \in {"id", "commentId", "attachmentId"} : column(other, k) = column(row, k)
  BY <1>7 DEF column
<1>. QED
  BY <1>6, <1>8, <1>10, <1>11 DEF About

LEMMA TenthMigrationSaves ==
  ASSUME NEW d, IsFile(d), TasksFit(d), From10(d).ok,
         Nearly(d.tables, Snapshot10, {"Notifications"}),
         d.tables["Notifications"] \in ToldForms
  PROVE  SaysTheSame(d, From10(d))
<1>1. PICK new : new = From10(d)
  OBVIOUS
<1>2. PICK projects : projects = d.rows["Projects"]
  OBVIOUS
<1>3. /\ DOMAIN new.tables = DOMAIN d.tables \cup {"ProjectGanttCharts"}
      /\ TaskTables \cup {"Projects"} \subseteq DOMAIN d.tables
      /\ \A t \in DOMAIN d.tables \ TaskTables : new.rows[t] = d.rows[t]
      /\ new.rows["ProjectGanttCharts"] = DefaultRows(projects)
      /\ \A t \in TaskTables :
           new.rows[t] = ChartRows(d.rows[t], DefaultRows(projects))
  BY <1>1, <1>2, TenthMigrationRows
<1>4. IsFile(new)
  BY <1>1, TenthMigration DEF Spares, SameFile
<1>5. DOMAIN d.rows = DOMAIN d.tables /\ DOMAIN new.rows = DOMAIN new.tables
  BY <1>4 DEF IsFile
<1>6. \A t : t \notin TaskTables \cup {"ProjectGanttCharts"} =>
               rowsOf(new, t) = rowsOf(d, t)
  BY <1>3, <1>5 DEF rowsOf
<1>7. rowsOf(new, "ProjectGanttCharts") = DefaultRows(projects)
  BY <1>3, <1>5 DEF rowsOf
<1>8. (IdentifiedTables \cup {"Users_Roles", "Users_SystemRoles"})
        \cap (TaskTables \cup {"ProjectGanttCharts"}) = {}
  BY DEF IdentifiedTables, TaskTables
<1>9. \A t \in IdentifiedTables : Ids(new, t) = Ids(d, t)
  BY <1>6, <1>8 DEF Ids
<1>10. AdminIds(new) = AdminIds(d)
  BY <1>6, <1>8 DEF AdminIds
<1>11. ASSUME NEW t \in TaskTables
       PROVE  aboutTask(new, t) = aboutTask(d, t)
  <2>1. PICK rows : rows = d.rows[t]
    OBVIOUS
  <2>2. rowsOf(d, t) = rows /\ rowsOf(d, "Projects") = projects
    BY <1>2, <1>3, <1>5, <2>1 DEF rowsOf
  <2>3. \A row \in rows : /\ "projectId" \in DOMAIN row /\ "taskId" \in DOMAIN row
                          /\ \E p \in projects : p.id = row.projectId
    BY <2>2 DEF TasksFit
  <2>4. rowsOf(new, t) = {Charted(row) : row \in rows}
    BY <1>3, <1>5, <2>1, <2>3, ChartedRows DEF rowsOf
  <2>5. aboutTask(new, t) = {About(new, row) : row \in rowsOf(new, t)}
        /\ aboutTask(d, t) = {About(d, row) : row \in rows}
    BY <2>2 DEF aboutTask, About
  <2>6. \A row \in rows : About(new, Charted(row)) = About(d, row)
    BY <1>7, <2>3, ChartedRowsSayTheSame
  <2>. QED
    BY <2>4, <2>5, <2>6
<1>. QED
  BY <1>1, <1>9, <1>10, <1>11 DEF SaysTheSame

-----------------------------------------------------------------------------
(* Every migration *)

LEMMA MigratingRows ==
  ASSUME NEW d, IsFile(d), NEW v \in 1..10, d.schemaName = v, TablesFit(d),
         RowsFit(d), RunSql(v, d).ok
  PROVE  SaysTheSame(d, Migrated(d, v)) /\ RowsFit(Migrated(d, v))
<1>. DEFINE sql == RunSql(v, d)
            new == Migrated(d, v)
<1>1. SameFile(d, sql) /\ sql.ok
  BY MigrationsKeepTheFile
<1>2. new = [sql EXCEPT !.schemaName = v + 1, !.preparedFor = Unset,
                        !.applied = @ \cup {v}]
  BY DEF Migrated
<1>3. /\ v = 1 => sql = From1(d)
      /\ v = 2 => sql = d
      /\ v = 3 => sql = From3(d)
      /\ v = 4 => sql = From4(d)
      /\ v = 5 => sql = From5(d)
      /\ v = 6 => sql = From6(d)
      /\ v = 7 => sql = From7(d)
      /\ v = 8 => sql = From8(d)
      /\ v = 9 => sql = d
      /\ v = 10 => sql = From10(d)
  BY SqlOfVersions
<1>0. new = Migrated(d, v)
  OBVIOUS
<1>. HIDE DEF new, sql
<1>4. new.schemaName = v + 1 /\ new.rows = sql.rows
  BY <1>1, <1>2 DEF SameFile, IsFile
<1>5. Saves(sql, new)
  <2>1. SameRows(sql, new, {})
    BY <1>4 DEF SameRows, rowsOf
  <2>. QED
    BY <2>1, SameRowsSayTheSame, SameRowsFit DEF Saves
<1>6. IdsFit(d) /\ (v \in 6..10 => TasksFit(d)) /\ (v = 1 => RolesFit(d))
  BY DEF RowsFit
<1>7. /\ SaysTheSame(d, sql)
      /\ v \in 1..9 => IdsFit(sql)
      /\ v \in 5..9 => TasksFit(sql)
  <2>1. CASE v = 1
    <3>1. SameTables(d.tables, Snapshot1)
      BY <2>1 DEF TablesFit, Declared
    <3>. QED
      BY <1>1, <1>3, <1>6, <2>1, <3>1, FirstMigrationSaves
  <2>2. CASE v = 2 \/ v = 9
    BY <1>3, <1>6, <2>2, SavesIsReflexive DEF Saves
  <2>3. CASE v = 3
    BY <1>1, <1>3, <1>6, <2>3, ThirdMigrationSaves DEF Saves
  <2>4. CASE v = 4
    BY <1>1, <1>3, <1>6, <2>4, CreatingMigrationsSave DEF Saves
  <2>5. CASE v = 5
    BY <1>1, <1>3, <1>6, <2>5, CreatingMigrationsSave DEF Saves
  <2>6. CASE v = 6
    BY <1>1, <1>3, <1>6, <2>6, SixthMigrationSaves DEF Saves
  <2>7. CASE v = 7
    BY <1>1, <1>3, <1>6, <2>7, CreatingMigrationsSave DEF Saves
  <2>8. CASE v = 8
    BY <1>1, <1>3, <1>6, <2>8, EighthMigrationSaves DEF Saves
  <2>9. CASE v = 10
    <3>1. Nearly(d.tables, Snapshot10, {"Notifications"})
          /\ d.tables["Notifications"] \in ToldForms
      BY <2>9 DEF TablesFit, Declared
    <3>. QED
      BY <1>1, <1>3, <1>6, <2>9, <3>1, TenthMigrationSaves
  <2>. QED
    BY <2>1, <2>2, <2>3, <2>4, <2>5, <2>6, <2>7, <2>8, <2>9
<1>8. SaysTheSame(d, new)
  BY <1>5, <1>7 DEF Saves, SaysTheSame
<1>9. RowsFit(new)
  BY <1>4, <1>5, <1>7 DEF Saves, RowsFit
<1>. QED
  BY <1>0, <1>8, <1>9

-----------------------------------------------------------------------------
(* RowsSurvive *)

SurvivalInv ==
  \A t \in Targets : SaysTheSame(origins[t], databases[t]) /\ RowsFit(databases[t])

LEMMA SayingIsTransitive ==
  /\ \A d : SaysTheSame(d, d)
  /\ \A d, mid, new :
       SaysTheSame(d, mid) /\ SaysTheSame(mid, new) => SaysTheSame(d, new)
BY DEF SaysTheSame

\* Rows that a database starts with.
LEMMA StartingRows ==
  ASSUME NEW v \in 1..10, NEW tables, AreTables(tables), NEW rows, holdsKeys(rows),
         v >= 6 => "Projects" \in DOMAIN tables,
         v = 1 /\ "Users_Roles" \in DOMAIN rows =>
           \A row \in rows["Users_Roles"] : row.roleCode # "GGTC_SYSTEMROLE_ADMIN"
  PROVE  RowsFit(newDatabase(v, tables, rows))
<1>1. PICK d : d = newDatabase(v, tables, rows)
  OBVIOUS
<1>2. /\ IsFile(d) /\ d.schemaName = v /\ d.tables = tables
      /\ \A t \in DOMAIN tables :
           d.rows[t] = IF t \in DOMAIN rows THEN rows[t] ELSE {}
  BY <1>1, NewDatabases
<1>3. \A t : \A row \in rowsOf(d, t) : t \in DOMAIN rows /\ row \in rows[t]
  BY <1>2 DEF rowsOf, IsFile
<1>4. IdsFit(d)
  BY <1>3 DEF IdsFit, holdsKeys
<1>5. ASSUME v >= 6
      PROVE  TasksFit(d)
  <2>1. "Projects" \in DOMAIN rows => rowsOf(d, "Projects") = rows["Projects"]
    BY <1>2, <1>5 DEF rowsOf, IsFile
  <2>. QED
    BY <1>3, <2>1 DEF TasksFit, holdsKeys
<1>6. v = 1 => RolesFit(d)
  BY <1>3 DEF RolesFit
<1>. QED
  BY <1>1, <1>2, <1>4, <1>5, <1>6 DEF RowsFit

LEMMA EmptyRowsFit ==
  /\ \A v, tables : RowsFit(newDatabase(v, tables, <<>>))
  /\ RowsFit(Missing)
<1>1. ASSUME NEW d, \A t : rowsOf(d, t) = {}
      PROVE  RowsFit(d)
  BY <1>1 DEF RowsFit, IdsFit, TasksFit, RolesFit
<1>2. \A v, tables, t : rowsOf(newDatabase(v, tables, <<>>), t) = {}
  BY DEF newDatabase, rowsOf
<1>3. \A t : rowsOf(Missing, t) = {}
  BY DEF Missing, rowsOf
<1>. QED
  BY <1>1, <1>2, <1>3

LEMMA StartingRowsFit ==
  ASSUME NEW d \in startDatabases
  PROVE  RowsFit(d)
<1>1. \A v \in 6..10 : "Projects" \in DOMAIN Declared(v)
  <2>1. "Projects" \in DOMAIN Entities2
    BY NamesOfParts
  <2>2. "Projects" \in DOMAIN Entities6 /\ "Projects" \in DOMAIN Entities7
        /\ "Projects" \in DOMAIN Entities8
    BY <2>1, InBoth DEF Entities8, Entities7, Entities6, Entities5, Entities4, Entities3
  <2>3. "Projects" \in DOMAIN Snapshot6 /\ "Projects" \in DOMAIN Snapshot7
        /\ "Projects" \in DOMAIN Snapshot8
    BY <2>2, InBoth DEF Snapshot6, Snapshot7, Snapshot8
  <2>4. Snapshot10 = Snapshot9
    BY EqualSnapshots
  <2>. QED
    BY <2>3, <2>4, TenthSnapshotNames DEF Declared
<1>2. CASE d \in {newDatabase(v, Declared(v), Fixture[v]) : v \in StartVersions}
  <2>1. PICK v \in StartVersions : d = newDatabase(v, Declared(v), Fixture[v])
    BY <1>2
  <2>2. v \in Versions /\ AreTables(Declared(v))
    BY VersionsExist, SnapshotsAreTables
  <2>3. CASE v \in 1..10
    <3>1. /\ holdsKeys(Fixture[v])
          /\ v = 1 /\ "Users_Roles" \in DOMAIN Fixture[v] =>
               \A row \in Fixture[v]["Users_Roles"] :
                 row.roleCode # "GGTC_SYSTEMROLE_ADMIN"
      BY <2>3, RowsHaveTheirKeys
    <3>. QED
      BY <1>1, <2>1, <2>2, <2>3, <3>1, StartingRows
  <2>4. CASE v = 11
    <3>1. d.schemaName = 11
      BY <2>1, <2>2, <2>4, NewDatabases
    <3>. QED
      BY <3>1 DEF RowsFit
  <2>. QED
    BY <2>2, <2>3, <2>4 DEF Versions
<1>3. CASE d \in {newDatabase(9, tables, rows) :
                     tables \in legacyTables, rows \in LegacyFixture}
  <2>1. PICK tables \in legacyTables, rows \in LegacyFixture :
          d = newDatabase(9, tables, rows)
    BY <1>3
  <2>2. AreTables(tables) /\ DOMAIN tables = DOMAIN Snapshot9
    BY LegacyTables, LegacyTablesFit DEF Nearly
  <2>3. "Projects" \in DOMAIN tables
    BY <2>2, EqualSnapshots, TenthSnapshotNames
  <2>4. holdsKeys(rows)
    BY RowsHaveTheirKeys
  <2>. QED
    BY <2>1, <2>2, <2>3, <2>4, StartingRows
<1>. QED
  BY <1>2, <1>3 DEF startDatabases

LEMMA SurvivalInit == UpgradeInit => SurvivalInv
<1>. SUFFICES ASSUME UpgradeInit PROVE SurvivalInv
  OBVIOUS
<1>1. PICK d \in startDatabases :
        /\ databases = [t \in Targets |-> IF t = "prod" THEN d ELSE Missing]
        /\ origins = databases
  BY DEF UpgradeInit
<1>2. RowsFit(d) /\ RowsFit(Missing)
  BY StartingRowsFit, EmptyRowsFit
<1>. QED
  BY <1>1, <1>2, SayingIsTransitive DEF SurvivalInv

LEMMA SurvivalNext ==
  OneOperator /\ Inv1 /\ TablesInv /\ SurvivalInv /\ [UpgradeNext]_upgradeVars
    => SurvivalInv'
<1>. SUFFICES ASSUME OneOperator, Inv1, TablesInv, SurvivalInv,
                     [UpgradeNext]_upgradeVars
              PROVE  SurvivalInv'
  OBVIOUS
<1>1. ASSUME UNCHANGED <<databases, origins>>
      PROVE  SurvivalInv'
  BY <1>1 DEF SurvivalInv
<1>2. ASSUME NEW t \in Targets, NEW new, origins' = origins,
             databases' = [databases EXCEPT ![t] = new],
             SaysTheSame(databases[t], new), RowsFit(new)
      PROVE  SurvivalInv'
  <2>1. \A u \in Targets : databases'[u] = IF u = t THEN new ELSE databases[u]
    BY <1>2 DEF Inv1, DatabasesFit
  <2>2. SaysTheSame(origins[t], new)
    BY <1>2, SayingIsTransitive DEF SurvivalInv
  <2>. QED
    BY <1>2, <2>1, <2>2 DEF SurvivalInv
<1>3. ASSUME NEW o \in Operators, NEW t \in Targets, NEW v \in 1..10,
             StartMigration(o, t, v)
      PROVE  SurvivalInv'
  <2>1. \A u \in Targets : \E w \in Targets :
          databases'[u] = databases[w] /\ origins'[u] = origins[w]
    BY <1>3 DEF StartMigration, CopyProduction, Inv1, DatabasesFit, Targets
  <2>. QED
    BY <2>1 DEF SurvivalInv
<1>4. ASSUME NEW o \in Operators, Repair(o)
      PROVE  SurvivalInv'
  <2>1. PICK d, new, word :
          d = database(o) /\ new = RepairStep(word, d) /\ word = Head(attempts[o].hook)
    OBVIOUS
  <2>2. /\ IsAttempt(attempts[o]) /\ at(o, "hook") /\ attempts[o].from = 9
        /\ attempts[o].hook \in RepairsLeft \ {<<>>}
        /\ IsFile(d) /\ SameFile(d, new)
        /\ (new.ok /\ commit(o, new)) \/ databases' = databases
        /\ origins' = origins
    BY <1>4, <2>1, RepairsOne DEF Inv1, at
  <2>3. word \in RepairWords
    BY <2>1, <2>2 DEF RepairsLeft, RepairWords
  <2>4. attempts[o].target \in Targets /\ d = databases[attempts[o].target]
    BY <2>1, <2>2 DEF database, IsAttempt
  <2>5. d.schemaName = 9 /\ RowsFit(d)
    BY <2>1, <2>2, <2>4 DEF Inv1, HooksFindTheirVersion, SurvivalInv
  <2>6. CASE new.ok /\ commit(o, new)
    <3>1. Saves(d, new)
      BY <2>1, <2>2, <2>3, <2>5, <2>6, RepairsSave DEF RowsFit
    <3>2. RowsFit(new) /\ SaysTheSame(d, new)
      BY <2>2, <2>5, <3>1 DEF RowsFit, SameFile, Saves
    <3>. QED
      BY <1>2, <2>2, <2>4, <2>6, <3>2 DEF commit
  <2>. QED
    BY <1>1, <2>2, <2>6
<1>5. ASSUME NEW o \in Operators, RunMigration(o)
      PROVE  SurvivalInv'
  <2>1. PICK v, d, new :
          v = attempts[o].from /\ d = database(o) /\ new = Migrated(d, v)
    OBVIOUS
  <2>2. /\ IsAttempt(attempts[o]) /\ at(o, "hook") /\ v \in 1..10 /\ IsFile(d)
        /\ (RunSql(v, d).ok /\ commit(o, new)) \/ databases' = databases
    BY <1>5, <2>1, RunsOne DEF Inv1, at
  <2>3. attempts[o].target \in Targets /\ d = databases[attempts[o].target]
    BY <2>1, <2>2 DEF database, IsAttempt
  <2>4. d.schemaName = v /\ TablesFit(d) /\ RowsFit(d)
    BY <2>1, <2>2, <2>3 DEF Inv1, HooksFindTheirVersion, TablesInv, SurvivalInv
  <2>5. origins' = origins
    BY <1>5 DEF RunMigration
  <2>6. CASE RunSql(v, d).ok /\ commit(o, new)
    <3>1. SaysTheSame(d, new) /\ RowsFit(new)
      BY <2>1, <2>2, <2>4, <2>6, MigratingRows
    <3>. QED
      BY <1>2, <2>3, <2>6, <2>5, <3>1 DEF commit
  <2>. QED
    BY <1>1, <2>2, <2>6, <2>5
<1>6. ASSUME NEW d, create(d), RowsFit(d)
      PROVE  SurvivalInv'
  BY <1>6, SayingIsTransitive DEF create, SurvivalInv, Inv1, DatabasesFit, Targets
<1>7. ASSUME NEW o \in Operators, NEW v \in NewVersions,
             CreateFromSchema(o, v) \/ CreationInterrupted(o, v)
      PROVE  SurvivalInv'
  BY <1>6, <1>7, EmptyRowsFit DEF CreateFromSchema, CreationInterrupted
<1>8. ASSUME NEW o \in Operators, NEW t \in Targets, NEW v \in Versions,
             PrepareDatabase(o, t, v)
      PROVE  SurvivalInv'
  <2>1. PICK d, new : /\ d = databases[t]
                      /\ new = [EnsureReferenceData(v, d) EXCEPT !.preparedFor = v]
    OBVIOUS
  <2>2. IsFile(d) /\ RowsFit(d)
    BY <2>1 DEF Inv1, DatabasesFit, SurvivalInv
  <2>3. /\ EnsureReferenceData(v, d).ok /\ origins' = origins
        /\ databases' = [databases EXCEPT ![t] = new]
    BY <1>8, <2>1 DEF PrepareDatabase
  <2>4. /\ IsFile(new) /\ new.tables = d.tables /\ new.schemaName = d.schemaName
        /\ \A u \in ToldTables \cap DOMAIN d.tables : new.rows[u] = d.rows[u]
    BY <2>1, <2>2, <2>3, PreparingSpares
  <2>5. \A u \in ToldTables : rowsOf(new, u) = rowsOf(d, u)
    BY <2>2, <2>4 DEF rowsOf, IsFile
  <2>6. PICK but : but = {u \in DOMAIN d.tables : u \notin ToldTables}
    OBVIOUS
  <2>7. SameRows(d, new, but) /\ but \cap ToldTables = {}
    <3>1. \A u : u \notin DOMAIN d.tables => rowsOf(new, u) = rowsOf(d, u)
      BY <2>2, <2>4 DEF rowsOf, IsFile
    <3>. QED
      BY <2>5, <2>6, <3>1 DEF SameRows
  <2>8. SaysTheSame(d, new) /\ RowsFit(new)
    BY <2>2, <2>4, <2>7, SameRowsSayTheSame, SameRowsFit DEF RowsFit
  <2>. QED
    BY <1>2, <2>1, <2>3, <2>8
<1>9. ASSUME NEW o \in Operators, OpenDatabase(o) \/ ReadJournals(o)
                                  \/ WriteJournalFile(o) \/ MigrationFails(o)
      PROVE  SurvivalInv'
  BY <1>1, <1>9 DEF OpenDatabase, ReadJournals, WriteJournalFile, MigrationFails
<1>10. ASSUME UNCHANGED upgradeVars \/ \E k \in JournalKeys : EditJournal(k)
       PROVE  SurvivalInv'
  BY <1>1, <1>10 DEF upgradeVars, EditJournal
<1>. QED
  BY <1>3, <1>4, <1>5, <1>7, <1>8, <1>9, <1>10 DEF UpgradeNext

\* No upgrade loses or invents an administrator, a project, an issue, a task, a
\* comment, one of their attachments, a notification or a mention, from whatever
\* version to whatever version it goes, whatever rows there are: the administrators
\* of version 1 are those of the system roles, and a task is about the project it
\* was about after v10--v11 has copied its rows to the new tables and dropped the
\* old ones, whose references to each other take none of the rows away that are
\* still to be copied.
THEOREM UpgradesKeepTheirRows ==
  ASSUME OneOperator
  PROVE  UpgradeSpec => []RowsSurvive
<1>1. UpgradeInit => Inv1 /\ MentionsInv /\ TablesInv /\ SurvivalInv
  BY Inv1Init, MentionsInit, TablesInit, SurvivalInit
<1>2. Inv1 /\ MentionsInv /\ TablesInv /\ SurvivalInv /\ [UpgradeNext]_upgradeVars
        => Inv1' /\ MentionsInv' /\ TablesInv' /\ SurvivalInv'
  BY Inv1Next, MentionsNext, TablesNext, SurvivalNext
<1>3. SurvivalInv => RowsSurvive
  <2>1. ASSUME NEW t \in Targets, SaysTheSame(origins[t], databases[t])
        PROVE  content(databases[t]) = content(origins[t])
    BY <2>1, SayingIsContent
  <2>. QED
    BY <2>1 DEF SurvivalInv, RowsSurvive
<1>. QED
  BY <1>1, <1>2, <1>3, PTL DEF UpgradeSpec

-----------------------------------------------------------------------------
(***************************************************************************)
(* What holds of Sessions for every number of users, sessions, tokens,     *)
(* objects and requests.                                                   *)
(***************************************************************************)

\* A freshly seeded database has rows of the right types.
LEMMA InitTypeOK == Init => TypeOK
BY AdminsAreUsers, MaxHashesPositive DEF Init, TypeOK, SessionState, TokenState

\* What the bearer of a standard session does to accounts keeps the types.
LEMMA AccountHandlersTypeOK ==
  ASSUME TypeOK, NothingOutlivesItsUser, NEW a \in Users, AccountHandlers(a)
  PROVE  TypeOK'
<1>. USE DEF TypeOK, credentialVars, sessionVars, tokenVars, objectVars
<1>1. ASSUME NEW ids \in SUBSET sessionRows, revokeSessions(a, ids)
      PROVE  TypeOK'
  BY <1>1 DEF revokeSessions, SessionState
<1>2. ASSUME NEW id \in RequestIds, NEW u \in users, NEW matches \in BOOLEAN,
             NEW all \in BOOLEAN, BeginChange(a, id, u, matches, all)
      PROVE  TypeOK'
  <2>. DEFINE r == [id |-> id, kind |-> IF a = u THEN "change" ELSE "reset",
                    user |-> u, hash |-> passwordHash[u], matches |-> matches,
                    revokeSessions |-> all]
  <2>1. passwordHash[u] \in 1..MaxHashes
    BY MaxHashesPositive DEF NothingOutlivesItsUser
  <2>2. r \in Request
    BY <2>1 DEF Request
  <2>. QED
    BY <1>2, <2>2 DEF BeginChange
<1>3. ASSUME NEW u \in users, deleteUser(a, u)
      PROVE  TypeOK'
  BY <1>3, MaxHashesPositive DEF deleteUser, SessionState, TokenState
<1>. QED
  BY <1>1, <1>2, <1>3, AccountHandlers(a) DEF AccountHandlers

\* What the bearer of a standard session does to tokens keeps the types.
LEMMA TokenHandlersTypeOK ==
  ASSUME TypeOK, NEW a \in Users, TokenHandlers(a)
  PROVE  TypeOK'
<1>. USE DEF TypeOK, credentialVars, sessionVars, tokenVars, objectVars
<1>1. PICK t \in Tokens :
        \/ createToken(a, t)
        \/ revokeToken(a, t)
        \/ \E o \in Objects : addScope(a, t, o) \/ removeScope(a, t, o)
  BY DEF TokenHandlers
<1>2. CASE createToken(a, t)
  BY <1>2 DEF createToken, TokenState
<1>3. CASE revokeToken(a, t)
  BY <1>3 DEF revokeToken, TokenState
<1>4. ASSUME NEW o \in Objects, addScope(a, t, o)
      PROVE  TypeOK'
  BY <1>4 DEF addScope
<1>5. ASSUME NEW o \in Objects, removeScope(a, t, o)
      PROVE  TypeOK'
  BY <1>5 DEF removeScope
<1>. QED
  BY <1>1, <1>2, <1>3, <1>4, <1>5

\* Registration, logins and redemption keep the types.
LEMMA OpenHandlersTypeOK ==
  ASSUME TypeOK, NothingOutlivesItsUser, OpenHandlers
  PROVE  TypeOK'
<1>. USE DEF TypeOK, credentialVars, sessionVars, tokenVars, objectVars
<1>1. ASSUME NEW u \in Users, register(u)
      PROVE  TypeOK'
  BY <1>1, MaxHashesPositive DEF register
<1>2. ASSUME NEW id \in RequestIds, NEW u \in users, NEW matches \in BOOLEAN,
             BeginLogin(id, u, matches)
      PROVE  TypeOK'
  <2>. DEFINE r == [id |-> id, kind |-> "login", user |-> u,
                    hash |-> passwordHash[u], matches |-> matches,
                    revokeSessions |-> FALSE]
  <2>1. passwordHash[u] \in 1..MaxHashes
    BY MaxHashesPositive DEF NothingOutlivesItsUser
  <2>2. r \in Request
    BY <2>1 DEF Request
  <2>. QED
    BY <1>2, <2>2 DEF BeginLogin
<1>3. ASSUME NEW t \in Tokens, NEW s \in SessionIds, redeemToken(t, s)
      PROVE  TypeOK'
  BY <1>3 DEF redeemToken, createSessionForUser, SessionState
<1>. QED
  BY <1>1, <1>2, <1>3, OpenHandlers DEF OpenHandlers

\* The end of a request keeps the types.
LEMMA CompletionsTypeOK ==
  ASSUME TypeOK, Completions
  PROVE  TypeOK'
<1>. USE DEF TypeOK, credentialVars, sessionVars, tokenVars, objectVars
<1>1. PICK r \in pending : \/ \E s \in SessionIds : FinishLogin(r, s)
                           \/ FinishChange(r)
                           \/ Reject(r)
  BY DEF Completions
<1>2. r.user \in Users
  BY DEF Request
<1>3. ASSUME NEW s \in SessionIds, FinishLogin(r, s)
      PROVE  TypeOK'
  BY <1>2, <1>3 DEF FinishLogin, createSessionForUser, SessionState
<1>4. CASE FinishChange(r)
  <2>1. passwordHash' \in [Users -> 0..MaxHashes]
    BY <1>2, <1>4, MaxHashesPositive DEF FinishChange
  <2>2. sessionState' \in [SessionIds -> SessionState]
    BY <1>4 DEF FinishChange, revokeSessionsOfUser, SessionState
  <2>. QED
    BY <1>4, <2>1, <2>2 DEF FinishChange
<1>5. CASE Reject(r)
  BY <1>5 DEF Reject
<1>. QED
  BY <1>1, <1>3, <1>4, <1>5

\* Time and the other services keep the types.
LEMMA EnvironmentTypeOK ==
  ASSUME TypeOK, Environment
  PROVE  TypeOK'
<1>. USE DEF TypeOK, credentialVars, sessionVars, tokenVars, objectVars
<1>1. ASSUME NEW s \in SessionIds, SessionExpires(s)
      PROVE  TypeOK'
  BY <1>1 DEF SessionExpires, SessionState
<1>2. ASSUME NEW t \in Tokens, TokenExpires(t)
      PROVE  TypeOK'
  BY <1>2 DEF TokenExpires, TokenState
<1>3. ASSUME NEW o \in Objects, deleteObject(o)
      PROVE  TypeOK'
  BY <1>3 DEF deleteObject
<1>4. ASSUME NEW o \in Objects, NEW u \in Users, createObject(u, o)
      PROVE  TypeOK'
  BY <1>4 DEF createObject
<1>5. ASSUME NEW o \in Objects, NEW u \in Users, changeAccess(u, o)
      PROVE  TypeOK'
  BY <1>5 DEF changeAccess
<1>. QED
  BY <1>1, <1>2, <1>3, <1>4, <1>5, Environment DEF Environment

-----------------------------------------------------------------------------
(***************************************************************************)
(* Nothing outlives its user.  Types and ownership are one inductive       *)
(* invariant: a pending request has read a hash only because a live user   *)
(* has a credential row.                                                   *)
(***************************************************************************)
LEMMA InitNothingOutlives == Init => NothingOutlivesItsUser
BY AdminsAreUsers DEF Init, NothingOutlivesItsUser, sessionRows, tokenRows

\* What the bearer of a standard session does to accounts leaves no row behind.
LEMMA AccountHandlersOutlive ==
  ASSUME TypeOK, NothingOutlivesItsUser, NEW a \in Users, AccountHandlers(a)
  PROVE  NothingOutlivesItsUser'
<1>. USE DEF TypeOK, NothingOutlivesItsUser, sessionRows, tokenRows,
             credentialVars, sessionVars, tokenVars, objectVars
<1>1. ASSUME NEW ids \in SUBSET sessionRows, revokeSessions(a, ids)
      PROVE  NothingOutlivesItsUser'
  BY <1>1 DEF revokeSessions
<1>2. ASSUME NEW id \in RequestIds, NEW u \in users, NEW matches \in BOOLEAN,
             NEW all \in BOOLEAN, BeginChange(a, id, u, matches, all)
      PROVE  NothingOutlivesItsUser'
  BY <1>2 DEF BeginChange
<1>3. ASSUME NEW u \in users, deleteUser(a, u)
      PROVE  NothingOutlivesItsUser'
  <2>1. \A v \in Users : passwordHash'[v] # 0 <=> v \in users'
    BY <1>3 DEF deleteUser
  <2>2. \A s \in sessionRows' : sessionUser'[s] \in users'
    BY <1>3 DEF deleteUser
  <2>3. \A t \in tokenRows' : tokenOwner'[t] \in users'
    BY <1>3 DEF deleteUser
  <2>4. ASSUME NEW x \in scopes'
        PROVE  x[1] \in tokenRows'
    BY <1>3, <2>4 DEF deleteUser
  <2>. QED
    BY <2>1, <2>2, <2>3, <2>4
<1>. QED
  BY <1>1, <1>2, <1>3, AccountHandlers(a) DEF AccountHandlers

\* Neither does what it does to tokens.
LEMMA TokenHandlersOutlive ==
  ASSUME TypeOK, NothingOutlivesItsUser, NEW a \in Users, TokenHandlers(a)
  PROVE  NothingOutlivesItsUser'
<1>. USE DEF TypeOK, NothingOutlivesItsUser, sessionRows, tokenRows,
             credentialVars, sessionVars, tokenVars, objectVars
<1>1. PICK t \in Tokens :
        \/ createToken(a, t)
        \/ revokeToken(a, t)
        \/ \E o \in Objects : addScope(a, t, o) \/ removeScope(a, t, o)
  BY DEF TokenHandlers
<1>2. CASE createToken(a, t)
  BY <1>2 DEF createToken
<1>3. CASE revokeToken(a, t)
  BY <1>3 DEF revokeToken, isOwnToken
<1>4. ASSUME NEW o \in Objects, addScope(a, t, o)
      PROVE  NothingOutlivesItsUser'
  BY <1>4 DEF addScope, isOwnToken
<1>5. ASSUME NEW o \in Objects, removeScope(a, t, o)
      PROVE  NothingOutlivesItsUser'
  BY <1>5 DEF removeScope
<1>. QED
  BY <1>1, <1>2, <1>3, <1>4, <1>5

\* Registration, logins and redemption create rows of live users only.
LEMMA OpenHandlersOutlive ==
  ASSUME TypeOK, NothingOutlivesItsUser, OpenHandlers
  PROVE  NothingOutlivesItsUser'
<1>. USE DEF TypeOK, NothingOutlivesItsUser, sessionRows, tokenRows,
             credentialVars, sessionVars, tokenVars, objectVars
<1>1. ASSUME NEW u \in Users, register(u)
      PROVE  NothingOutlivesItsUser'
  BY <1>1 DEF register
<1>2. ASSUME NEW id \in RequestIds, NEW u \in users, NEW matches \in BOOLEAN,
             BeginLogin(id, u, matches)
      PROVE  NothingOutlivesItsUser'
  BY <1>2 DEF BeginLogin
<1>3. ASSUME NEW t \in Tokens, NEW s \in SessionIds, redeemToken(t, s)
      PROVE  NothingOutlivesItsUser'
  BY <1>3 DEF redeemToken, createSessionForUser
<1>. QED
  BY <1>1, <1>2, <1>3, OpenHandlers DEF OpenHandlers

\* A request that ends after its user was deleted writes nothing: the foreign
\* key refuses the session, and the update of the credential matches no row.
LEMMA CompletionsOutlive ==
  ASSUME TypeOK, NothingOutlivesItsUser, Completions
  PROVE  NothingOutlivesItsUser'
<1>. USE DEF TypeOK, NothingOutlivesItsUser, sessionRows, tokenRows,
             credentialVars, sessionVars, tokenVars, objectVars
<1>1. PICK r \in pending : \/ \E s \in SessionIds : FinishLogin(r, s)
                           \/ FinishChange(r)
                           \/ Reject(r)
  BY DEF Completions
<1>2. r.user \in Users
  BY DEF Request
<1>3. ASSUME NEW s \in SessionIds, FinishLogin(r, s)
      PROVE  NothingOutlivesItsUser'
  BY <1>2, <1>3 DEF FinishLogin, createSessionForUser
<1>4. CASE FinishChange(r)
  <2>1. \A v \in Users : passwordHash'[v] # 0 <=> v \in users'
    BY <1>2, <1>4, MaxHashesPositive DEF FinishChange
  <2>2. \A s \in sessionRows' : sessionUser'[s] \in users'
    BY <1>4 DEF FinishChange, revokeSessionsOfUser
  <2>. QED
    BY <1>4, <2>1, <2>2 DEF FinishChange
<1>5. CASE Reject(r)
  BY <1>5 DEF Reject
<1>. QED
  BY <1>1, <1>3, <1>4, <1>5

\* Nor do time and the other services leave a row behind.
LEMMA EnvironmentOutlive ==
  ASSUME TypeOK, NothingOutlivesItsUser, Environment
  PROVE  NothingOutlivesItsUser'
<1>. USE DEF TypeOK, NothingOutlivesItsUser, sessionRows, tokenRows,
             credentialVars, sessionVars, tokenVars, objectVars
<1>1. ASSUME NEW s \in SessionIds, SessionExpires(s)
      PROVE  NothingOutlivesItsUser'
  BY <1>1 DEF SessionExpires
<1>2. ASSUME NEW t \in Tokens, TokenExpires(t)
      PROVE  NothingOutlivesItsUser'
  BY <1>2 DEF TokenExpires
<1>3. ASSUME NEW o \in Objects, deleteObject(o)
      PROVE  NothingOutlivesItsUser'
  BY <1>3 DEF deleteObject
<1>4. ASSUME NEW o \in Objects, NEW u \in Users, createObject(u, o)
      PROVE  NothingOutlivesItsUser'
  BY <1>4 DEF createObject
<1>5. ASSUME NEW o \in Objects, NEW u \in Users, changeAccess(u, o)
      PROVE  NothingOutlivesItsUser'
  BY <1>5 DEF changeAccess
<1>. QED
  BY <1>1, <1>2, <1>3, <1>4, <1>5, Environment DEF Environment

\* Types and ownership survive every step.
LEMMA NextInv ==
  ASSUME TypeOK, NothingOutlivesItsUser, [Next]_vars
  PROVE  TypeOK' /\ NothingOutlivesItsUser'
<1>1. CASE UNCHANGED vars
  BY <1>1 DEF vars, credentialVars, sessionVars, tokenVars, objectVars,
              TypeOK, NothingOutlivesItsUser, sessionRows, tokenRows
<1>2. ASSUME NEW s \in SessionIds, AccountHandlers(sessionUser[s])
      PROVE  TypeOK' /\ NothingOutlivesItsUser'
  <2>1. sessionUser[s] \in Users
    BY DEF TypeOK
  <2>. QED
    BY <1>2, <2>1, AccountHandlersTypeOK, AccountHandlersOutlive
<1>3. ASSUME NEW s \in SessionIds, TokenHandlers(sessionUser[s])
      PROVE  TypeOK' /\ NothingOutlivesItsUser'
  <2>1. sessionUser[s] \in Users
    BY DEF TypeOK
  <2>. QED
    BY <1>3, <2>1, TokenHandlersTypeOK, TokenHandlersOutlive
<1>4. CASE OpenHandlers
  BY <1>4, OpenHandlersTypeOK, OpenHandlersOutlive
<1>5. CASE Completions
  BY <1>5, CompletionsTypeOK, CompletionsOutlive
<1>6. CASE Environment
  BY <1>6, EnvironmentTypeOK, EnvironmentOutlive
<1>. QED
  BY <1>1, <1>2, <1>3, <1>4, <1>5, <1>6, [Next]_vars DEF Next

\* Rows of credentials, sessions, tokens and scopes always belong to a live
\* user, whatever requests of auth.service, users.service and
\* scoped-access.service are under way when the user is deleted.
THEOREM NothingOutlives == Spec => []NothingOutlivesItsUser
<1>1. TypeOK /\ NothingOutlivesItsUser /\ [Next]_vars
        => (TypeOK /\ NothingOutlivesItsUser)'
  BY NextInv
<1>. QED
  BY <1>1, InitTypeOK, InitNothingOutlives, PTL DEF Spec

\* The tables of Sessions keep their types.
THEOREM SessionTypes == Spec => []TypeOK
<1>1. TypeOK /\ NothingOutlivesItsUser /\ [Next]_vars
        => (TypeOK /\ NothingOutlivesItsUser)'
  BY NextInv
<1>. QED
  BY <1>1, InitTypeOK, InitNothingOutlives, PTL DEF Spec

LEMMA SessionInvariant == Spec => [](TypeOK /\ NothingOutlivesItsUser)
<1>1. TypeOK /\ NothingOutlivesItsUser /\ [Next]_vars
        => (TypeOK /\ NothingOutlivesItsUser)'
  BY NextInv
<1>. QED
  BY <1>1, InitTypeOK, InitNothingOutlives, PTL DEF Spec

-----------------------------------------------------------------------------
(***************************************************************************)
(* Sessions end for a reason.                                              *)
(***************************************************************************)
deletedSessions == {s \in usableSessionsEnded : sessionState'[s] = "deleted"}

endsForAReason(s) ==
    \/ sessionState'[s] = "expired"
    \/ sessionSource[s] # Password /\ tokenState' # tokenState
    \/ \E r \in pending \ pending' :
          r.user = sessionUser[s] /\ r.matches /\ r.revokeSessions

mayHaveDeleted ==
    \E a \in SessionIds :
       /\ isStandardSession(a)
       /\ \A s \in deletedSessions : canActFor(sessionUser[a], sessionUser[s])

StepEndsForAReason ==
    /\ \A s \in usableSessionsEnded \ deletedSessions : endsForAReason(s)
    /\ deletedSessions # {} => mayHaveDeleted

\* Rows go in two handlers, of one user or with the right to act for all.
LEMMA RevokedForAReason ==
    ASSUME TypeOK, NEW a \in SessionIds, isStandardSession(a),
           NEW ids \in SUBSET sessionRows, revokeSessions(sessionUser[a], ids)
    PROVE  StepEndsForAReason
<1>1. ASSUME NEW s \in usableSessionsEnded
      PROVE  s \in ids
  BY <1>1 DEF revokeSessions, usableSessionsEnded, authenticateBearerToken,
              resolveSessionAuth, tokenVars, TypeOK
<1>2. usableSessionsEnded \subseteq SessionIds
  BY DEF usableSessionsEnded
<1>3. usableSessionsEnded \subseteq deletedSessions
  BY <1>1, <1>2 DEF revokeSessions, deletedSessions
<1>4. \A s \in deletedSessions : canActFor(sessionUser[a], sessionUser[s])
  BY <1>1 DEF deletedSessions, revokeSessions, assertCanManageUserSessions
<1>. QED
  BY <1>3, <1>4 DEF StepEndsForAReason, mayHaveDeleted

LEMMA DeletedForAReason ==
    ASSUME TypeOK, NEW a \in SessionIds, isStandardSession(a),
           NEW u \in users, deleteUser(sessionUser[a], u)
    PROVE  StepEndsForAReason
<1>. USE DEF TypeOK
<1>1. ASSUME NEW s \in usableSessionsEnded, s \notin deletedSessions
      PROVE  sessionSource[s] # Password /\ tokenState' # tokenState
  <2>1. /\ s \in SessionIds /\ sessionState[s] = "active"
        /\ resolveSessionAuth(s) # "rejected"
        /\ ~ authenticateBearerToken(s)'
    BY <1>1 DEF usableSessionsEnded, authenticateBearerToken
  <2>2. sessionState'[s] = "active" /\ sessionSource' = sessionSource
    BY <1>1, <2>1 DEF deletedSessions, deleteUser, sessionRows
  <2>3. resolveSessionAuth(s)' = "rejected"
    BY <2>1, <2>2 DEF authenticateBearerToken
  <2>. QED
    BY <2>1, <2>2, <2>3 DEF resolveSessionAuth
<1>2. ASSUME NEW s \in deletedSessions
      PROVE  canActFor(sessionUser[a], sessionUser[s])
  <2>1. s \in SessionIds /\ sessionState[s] = "active" /\ sessionState'[s] = "deleted"
    BY <1>2 DEF deletedSessions, usableSessionsEnded, authenticateBearerToken
  <2>2. sessionUser[s] = u
    BY <2>1 DEF deleteUser
  <2>. QED
    BY <2>2 DEF deleteUser
<1>. QED
  BY <1>1, <1>2 DEF StepEndsForAReason, endsForAReason, mayHaveDeleted

\* All other handlers leave the row of a session that can be used.
LEMMA KeptForAReason ==
    ASSUME TypeOK,
           \A s \in SessionIds : sessionState[s] = "active" =>
               /\ sessionSource'[s] = sessionSource[s]
               /\ \/ sessionState'[s] = "active"
                  \/ sessionState'[s] # "deleted" /\ endsForAReason(s)
    PROVE  StepEndsForAReason
<1>1. ASSUME NEW s \in usableSessionsEnded
      PROVE  s \notin deletedSessions /\ endsForAReason(s)
  <2>1. /\ s \in SessionIds /\ sessionState[s] = "active"
        /\ resolveSessionAuth(s) # "rejected"
        /\ ~ authenticateBearerToken(s)'
    BY <1>1 DEF usableSessionsEnded, authenticateBearerToken
  <2>2. CASE sessionState'[s] = "active"
    <3>1. resolveSessionAuth(s)' = "rejected"
      BY <2>1, <2>2 DEF authenticateBearerToken
    <3>2. sessionSource[s] # Password /\ tokenState' # tokenState
      BY <2>1, <3>1 DEF resolveSessionAuth
    <3>. QED
      BY <2>2, <3>2 DEF deletedSessions, endsForAReason
  <2>3. CASE sessionState'[s] # "active"
    BY <2>1, <2>3 DEF deletedSessions
  <2>. QED
    BY <2>2, <2>3
<1>2. deletedSessions \subseteq usableSessionsEnded
  BY DEF deletedSessions
<1>. QED
  BY <1>1, <1>2 DEF StepEndsForAReason

LEMMA NextEndsForAReason ==
    ASSUME TypeOK, [Next]_vars
    PROVE  StepEndsForAReason
<1>. USE DEF sessionVars
<1>1. ASSUME UNCHANGED sessionVars
      PROVE  StepEndsForAReason
  BY <1>1, KeptForAReason
<1>2. ASSUME NEW a \in SessionIds, isStandardSession(a), AccountHandlers(sessionUser[a])
      PROVE  StepEndsForAReason
  <2>1. ASSUME NEW id \in RequestIds, NEW u \in users, NEW matches \in BOOLEAN,
               NEW all \in BOOLEAN, BeginChange(sessionUser[a], id, u, matches, all)
        PROVE  StepEndsForAReason
    BY <1>1, <2>1 DEF BeginChange
  <2>. QED
    BY <1>2, <2>1, RevokedForAReason, DeletedForAReason DEF AccountHandlers
<1>3. ASSUME NEW a \in SessionIds, TokenHandlers(sessionUser[a])
      PROVE  StepEndsForAReason
  BY <1>1, <1>3 DEF TokenHandlers, createToken, revokeToken, addScope, removeScope
<1>4. ASSUME NEW s \in SessionIds, NEW u, NEW source, createSessionForUser(s, u, source)
      PROVE  StepEndsForAReason
  <2>1. ASSUME NEW other \in SessionIds, sessionState[other] = "active"
        PROVE  /\ sessionSource'[other] = sessionSource[other]
               /\ sessionState'[other] = "active"
    BY <1>4, <2>1 DEF createSessionForUser, TypeOK
  <2>. QED
    BY <2>1, KeptForAReason
<1>5. CASE OpenHandlers
  BY <1>1, <1>4, <1>5 DEF OpenHandlers, register, BeginLogin, redeemToken
<1>6. ASSUME NEW r \in pending, FinishChange(r)
      PROVE  StepEndsForAReason
  <2>1. r \in pending \ pending' /\ r.matches /\ sessionSource' = sessionSource
    BY <1>6 DEF FinishChange
  <2>2. ASSUME NEW s \in SessionIds, sessionState[s] = "active",
               sessionState'[s] # "active"
        PROVE  /\ r.revokeSessions /\ sessionUser[s] = r.user
               /\ sessionState'[s] = "revoked"
    BY <1>6, <2>2 DEF FinishChange, revokeSessionsOfUser
  <2>. QED
    BY <2>1, <2>2, KeptForAReason DEF endsForAReason
<1>7. CASE Completions
  BY <1>1, <1>4, <1>6, <1>7 DEF Completions, FinishLogin, Reject
<1>8. ASSUME NEW s \in SessionIds, SessionExpires(s)
      PROVE  StepEndsForAReason
  <2>1. ASSUME NEW other \in SessionIds, sessionState[other] = "active"
        PROVE  /\ sessionSource'[other] = sessionSource[other]
               /\ sessionState'[other] \in {"active", "expired"}
    BY <1>8, <2>1 DEF SessionExpires, TypeOK
  <2>. QED
    BY <2>1, KeptForAReason DEF endsForAReason
<1>9. CASE Environment
  BY <1>1, <1>8, <1>9
  DEF Environment, TokenExpires, deleteObject, createObject, changeAccess
<1>10. CASE UNCHANGED vars
  BY <1>1, <1>10 DEF vars
<1>. QED
  BY <1>2, <1>3, <1>5, <1>7, <1>9, <1>10 DEF Next

\* A session that could be used ends when its time or its token's is over,
\* when its token goes, by a change of password that asks for it, or with its
\* row, which only its user or an administrator deletes.
THEOREM EndsHaveReasons == Spec => SessionsEndForAReason
<1>1. TypeOK /\ [Next]_vars => [StepEndsForAReason]_vars
  BY NextEndsForAReason
<1>2. SessionsEndForAReason <=> [][StepEndsForAReason]_vars
  BY DEF SessionsEndForAReason, StepEndsForAReason, deletedSessions,
         endsForAReason, mayHaveDeleted
<1>. QED
  BY <1>1, <1>2, SessionInvariant, PTL DEF Spec

-----------------------------------------------------------------------------
(***************************************************************************)
(* Scoped sessions reach no more than they were granted.  A new project or *)
(* organization is in no scope, for its id was never handed out before:    *)
(* scopes that outlive their object stay dead.                             *)
(***************************************************************************)
ScopesAreOfUsedIds == objects \subseteq used /\ \A x \in scopes : x[2] \in used

LEMMA InitScopesAreOfUsedIds == Init => ScopesAreOfUsedIds
BY DEF Init, ScopesAreOfUsedIds

LEMMA NextScopesAreOfUsedIds == ScopesAreOfUsedIds /\ [Next]_vars => ScopesAreOfUsedIds'
<1>. SUFFICES ASSUME ScopesAreOfUsedIds, [Next]_vars
              PROVE  ScopesAreOfUsedIds'
  OBVIOUS
<1>. USE DEF ScopesAreOfUsedIds, tokenVars, objectVars
<1>1. ASSUME objects' \subseteq objects, scopes' \subseteq scopes, used \subseteq used'
      PROVE  ScopesAreOfUsedIds'
  BY <1>1
<1>2. ASSUME NEW a, AccountHandlers(a)
      PROVE  ScopesAreOfUsedIds'
  <2>1. objects' = objects /\ scopes' \subseteq scopes /\ used' = used
    BY <1>2 DEF AccountHandlers, revokeSessions, BeginChange, deleteUser
  <2>. QED
    BY <1>1, <2>1
<1>3. ASSUME NEW a, TokenHandlers(a)
      PROVE  ScopesAreOfUsedIds'
  <2>1. PICK t \in Tokens :
          \/ createToken(a, t)
          \/ revokeToken(a, t)
          \/ \E o \in Objects : addScope(a, t, o) \/ removeScope(a, t, o)
    BY <1>3 DEF TokenHandlers
  <2>2. CASE createToken(a, t) \/ revokeToken(a, t)
    BY <1>1, <2>2 DEF createToken, revokeToken
  <2>3. ASSUME NEW o \in Objects, addScope(a, t, o)
        PROVE  ScopesAreOfUsedIds'
    <3>1. o \in used /\ scopes' = scopes \cup {<<t, o>>}
      BY <2>3 DEF addScope
    <3>. QED
      BY <2>3, <3>1 DEF addScope
  <2>4. ASSUME NEW o \in Objects, removeScope(a, t, o)
        PROVE  ScopesAreOfUsedIds'
    BY <1>1, <2>4 DEF removeScope
  <2>. QED
    BY <2>1, <2>2, <2>3, <2>4
<1>4. CASE OpenHandlers
  BY <1>4 DEF OpenHandlers, register, BeginLogin, redeemToken
<1>5. CASE Completions
  BY <1>5 DEF Completions, FinishLogin, FinishChange, Reject
<1>6. CASE Environment
  BY <1>6 DEF Environment, SessionExpires, TokenExpires, deleteObject,
              createObject, changeAccess
<1>7. CASE UNCHANGED vars
  BY <1>7 DEF vars
<1>. QED
  BY <1>2, <1>3, <1>4, <1>5, <1>6, <1>7 DEF Next

\* A session that is there keeps its user and its source, and one that is over
\* does not come back; a token becomes active only as it is made.
LEMMA SessionsAreMadeOnce ==
    ASSUME TypeOK, [Next]_vars, NEW s \in SessionIds, sessionState[s] # "unused"
    PROVE  /\ sessionUser'[s] = sessionUser[s]
           /\ sessionSource'[s] = sessionSource[s]
           /\ sessionState'[s] = "active" => sessionState[s] = "active"
<1>. USE DEF TypeOK, sessionVars
<1>1. ASSUME NEW a, AccountHandlers(a)
      PROVE  /\ UNCHANGED <<sessionUser, sessionSource>>
             /\ sessionState'[s] = "active" => sessionState[s] = "active"
  BY <1>1 DEF AccountHandlers, revokeSessions, BeginChange, deleteUser
<1>2. ASSUME NEW a, TokenHandlers(a)
      PROVE  UNCHANGED sessionVars
  BY <1>2 DEF TokenHandlers, createToken, revokeToken, addScope, removeScope
<1>3. ASSUME NEW new \in SessionIds, NEW u, NEW source,
             createSessionForUser(new, u, source)
      PROVE  /\ sessionUser'[s] = sessionUser[s]
             /\ sessionSource'[s] = sessionSource[s]
             /\ sessionState'[s] = sessionState[s]
  BY <1>3 DEF createSessionForUser
<1>4. CASE OpenHandlers
  BY <1>3, <1>4 DEF OpenHandlers, register, BeginLogin, redeemToken
<1>5. CASE Completions
  BY <1>3, <1>5 DEF Completions, FinishLogin, FinishChange, Reject,
                    revokeSessionsOfUser
<1>6. CASE Environment
  BY <1>6 DEF Environment, SessionExpires, TokenExpires, deleteObject,
              createObject, changeAccess
<1>7. CASE UNCHANGED vars
  BY <1>7 DEF vars
<1>. QED
  BY <1>1, <1>2, <1>4, <1>5, <1>6, <1>7 DEF Next

LEMMA TokensAreMadeOnce ==
    ASSUME TypeOK, [Next]_vars, NEW t \in Tokens, tokenState'[t] = "active"
    PROVE  tokenState[t] \in {"unused", "active"}
<1>. USE DEF TypeOK, tokenVars
<1>1. ASSUME NEW a, AccountHandlers(a)
      PROVE  tokenState[t] = "active"
  BY <1>1 DEF AccountHandlers, revokeSessions, BeginChange, deleteUser
<1>2. ASSUME NEW a, TokenHandlers(a)
      PROVE  tokenState[t] \in {"unused", "active"}
  BY <1>2 DEF TokenHandlers, createToken, revokeToken, addScope, removeScope
<1>3. CASE OpenHandlers \/ Completions
  BY <1>3 DEF OpenHandlers, register, BeginLogin, redeemToken,
              Completions, FinishLogin, FinishChange, Reject
<1>4. CASE Environment
  BY <1>4 DEF Environment, SessionExpires, TokenExpires, deleteObject,
              createObject, changeAccess
<1>5. CASE UNCHANGED vars
  BY <1>5 DEF vars
<1>. QED
  BY <1>1, <1>2, <1>3, <1>4, <1>5 DEF Next

\* A user comes to reach an object that exists, or a new one.
LEMMA ReachGrowsToUsedIds ==
    ASSUME TypeOK, ScopesAreOfUsedIds, [Next]_vars, NEW u \in Users,
           NEW o \in reach'[u] \ reach[u]
    PROVE  o \in objects \/ o \notin used
<1>. USE DEF TypeOK, objectVars
<1>1. ASSUME NEW a, AccountHandlers(a) \/ TokenHandlers(a)
      PROVE  reach'[u] \subseteq reach[u]
  <2>1. CASE AccountHandlers(a)
    BY <2>1 DEF AccountHandlers, revokeSessions, BeginChange, deleteUser
  <2>2. CASE TokenHandlers(a)
    BY <2>2 DEF TokenHandlers, createToken, revokeToken, addScope, removeScope
  <2>. QED
    BY <1>1, <2>1, <2>2
<1>2. CASE OpenHandlers \/ Completions
  BY <1>2 DEF OpenHandlers, register, BeginLogin, redeemToken,
              Completions, FinishLogin, FinishChange, Reject
<1>3. CASE Environment
  BY <1>3 DEF Environment, SessionExpires, TokenExpires, deleteObject,
              createObject, changeAccess
<1>4. CASE UNCHANGED vars
  BY <1>4 DEF vars
<1>. QED
  BY <1>1, <1>2, <1>3, <1>4 DEF Next

\* A session redeemed from a token comes to reach an object only by a new
\* scope, or when its owner regains access to an object that exists: no new
\* object, no end of a token and no change of time widens what it reaches.
THEOREM ScopedReachIsGranted == Spec => ScopedReachGrowsOnlyByGrant
<1>. DEFINE Granted ==
       \A s \in SessionIds :
         sessionState[s] # "unused" /\ sessionSource[s] # Password =>
           \A o \in accessible(s)' \ accessible(s) :
               \/ <<sessionSource[s], o>> \notin scopes
               \/ o \in objects /\ o \notin reach[sessionUser[s]]
<1>1. ASSUME TypeOK, NothingOutlivesItsUser, ScopesAreOfUsedIds, [Next]_vars
      PROVE  Granted
  <2>. SUFFICES ASSUME NEW s \in SessionIds, sessionState[s] # "unused",
                       sessionSource[s] # Password,
                       NEW o \in accessible(s)', o \notin accessible(s),
                       <<sessionSource[s], o>> \in scopes
                PROVE  o \in objects /\ o \notin reach[sessionUser[s]]
    OBVIOUS
  <2>1. /\ sessionUser'[s] = sessionUser[s] /\ sessionSource'[s] = sessionSource[s]
        /\ sessionState'[s] = "active" => sessionState[s] = "active"
    BY <1>1, SessionsAreMadeOnce
  <2>2. /\ sessionState'[s] = "active"
        /\ tokenState'[sessionSource[s]] = "active"
        /\ o \in reach'[sessionUser[s]]
    BY <2>1 DEF accessible, authenticateBearerToken, resolveSessionAuth
  <2>3. sessionSource[s] \in Tokens /\ sessionUser[s] \in Users
    BY <1>1 DEF TypeOK
  <2>4. tokenState[sessionSource[s]] = "active"
    BY <1>1, <2>2, <2>3, TokensAreMadeOnce DEF NothingOutlivesItsUser, tokenRows
  <2>5. o \notin reach[sessionUser[s]]
    BY <2>1, <2>2, <2>4 DEF accessible, authenticateBearerToken,
                             resolveSessionAuth, tokenGrantsProjectAccess
  <2>6. o \in used
    BY <1>1 DEF ScopesAreOfUsedIds
  <2>. QED
    BY <1>1, <2>2, <2>3, <2>5, <2>6, ReachGrowsToUsedIds
<1>2. TypeOK /\ NothingOutlivesItsUser /\ ScopesAreOfUsedIds /\ [Next]_vars
        => [Granted]_vars
  BY <1>1
<1>3. ScopedReachGrowsOnlyByGrant <=> [][Granted]_vars
  BY DEF ScopedReachGrowsOnlyByGrant
<1>. QED
  BY <1>2, <1>3, InitScopesAreOfUsedIds, NextScopesAreOfUsedIds,
     SessionInvariant, PTL DEF Spec

=============================================================================
