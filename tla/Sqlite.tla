------------------------------- MODULE Sqlite -------------------------------
(* What the statements of a migration do to a SQLite database opened with   *)
(* foreign_keys = ON.  A database is its tables (Schemas) and their rows; a *)
(* row gives the columns that hold something, a column it lacks is NULL.    *)
(* A statement that fails makes every later one fail: ok records it.        *)
EXTENDS Schemas, FiniteSets

Fail(db) == [db EXCEPT !.ok = FALSE]
Has(db, t) == t \in DOMAIN db.tables
HasColumn(db, t, c) == Has(db, t) /\ c \in db.tables[t].columns
Try(db, possible, result) == IF db.ok /\ possible THEN result ELSE Fail(db)

Agree(row, other, columns) ==
  \A c \in columns : c \in DOMAIN row /\ c \in DOMAIN other /\ row[c] = other[c]
Unique(rows, columns) ==
  \A row, other \in rows : Agree(row, other, columns) => row = other
UniqueBy(def, rows) ==
  \A columns \in def.unique \cup {ToSet(def.key)} : Unique(rows, columns)

CreateTables(db, defs) ==
  Try(db, DOMAIN defs \cap DOMAIN db.tables = {},
      [db EXCEPT !.tables = @ ++ defs,
                 !.rows = @ ++ [t \in DOMAIN defs |-> {}]])
CreateTable(db, t, def) == CreateTables(db, [name \in {t} |-> def])
CreateTableIfMissing(db, t, def) ==
  IF db.ok /\ Has(db, t) THEN db ELSE CreateTable(db, t, def)

Insert(db, t, rows) ==
  Try(db, Has(db, t) /\ UniqueBy(db.tables[t], db.rows[t] \cup rows),
      [db EXCEPT !.rows[t] = @ \cup rows])
(* INSERT OR IGNORE; the rows given do not conflict with each other.        *)
InsertNew(db, t, rows) ==
  Insert(db, t, {row \in rows : UniqueBy(db.tables[t], db.rows[t] \cup {row})})

Refers(ref, row, parentKey, parent) ==
  \A i \in DOMAIN ref.columns :
    /\ ref.columns[i] \in DOMAIN row
    /\ row[ref.columns[i]] = parent[parentKey[i]]
AllRows(db) == UNION {{t} \X db.rows[t] : t \in DOMAIN db.tables}
Referring(db, gone, actions) ==
  {entry \in AllRows(db) :
     \E ref \in db.tables[entry[1]].refs, p \in gone :
       /\ ref.onDelete \in actions /\ ref.table = p[1]
       /\ Refers(ref, entry[2], db.tables[p[1]].key, p[2])}
WithReferring(db, gone) ==
  LET with[rows \in SUBSET AllRows(db)] ==
        LET more == Referring(db, rows, {"cascade"}) \ rows
        IN  IF more = {} THEN rows ELSE with[rows \cup more]
  IN  with[gone]
(* DROP TABLE deletes the rows of the table first: what refers to them goes *)
(* with them or forbids it.                                                 *)
DropTable(db, t) ==
  LET gone == WithReferring(db, {t} \X db.rows[t])
      kept == [u \in DOMAIN db.rows |-> {r \in db.rows[u] : <<u, r>> \notin gone}]
      others == DOMAIN db.tables \ {t}
  IN  Try(db, Has(db, t) /\ Referring(db, gone, {"restrict", "no action"})
                              \subseteq gone,
          [db EXCEPT !.tables = [u \in others |-> db.tables[u]],
                     !.rows = [u \in others |-> kept[u]]])
(* The references of the other tables follow the new name.                  *)
RenameTable(db, t, name) ==
  LET rename(u) == IF u = t THEN name ELSE u
      old(u) == IF u = name THEN t ELSE u
      names == {rename(u) : u \in DOMAIN db.tables}
      follow(def) == [def EXCEPT !.refs = {[r EXCEPT !.table = rename(@)] : r \in @}]
  IN  Try(db, Has(db, t) /\ ~Has(db, name),
          [db EXCEPT !.tables = [u \in names |-> follow(db.tables[old(u)])],
                     !.rows = [u \in names |-> db.rows[old(u)]]])

RenameColumn(db, t, c, name) ==
  LET moved(row) == [k \in {IF d = c THEN name ELSE d : d \in DOMAIN row} |->
                       IF k = name THEN row[c] ELSE row[k]]
  IN  Try(db, HasColumn(db, t, c) /\ ~HasColumn(db, t, name),
          [db EXCEPT !.tables[t].columns = (@ \ {c}) \cup {name},
                     !.rows[t] = {moved(row) : row \in @}])
AddColumn(db, t, c, refs, default) ==
  Try(db, Has(db, t) /\ ~HasColumn(db, t, c),
      [db EXCEPT !.tables[t].columns = @ \cup {c},
                 !.tables[t].refs = @ \cup refs,
                 !.rows[t] = {row ++ default : row \in @}])
AddUniqueIndex(db, t, columns) ==
  Try(db, Has(db, t) /\ columns \notin db.tables[t].unique
          /\ Unique(db.rows[t], columns),
      [db EXCEPT !.tables[t].unique = @ \cup {columns}])
Update(db, t, rows) ==
  Try(db, Has(db, t) /\ UniqueBy(db.tables[t], rows),
      [db EXCEPT !.rows[t] = rows])
=============================================================================
