------------------------------- MODULE Schema -------------------------------
(***************************************************************************)
(* A SQLite database as far as a schema migration can tell: which tables   *)
(* exist with which columns, which indexes lie on them, which tables hold  *)
(* rows, in which of them a narrower key would find two rows alike, and    *)
(* the scan_status lookup table, whose rows the migrations write.  SQLite  *)
(* is not part of the repository: when a statement fails and what it       *)
(* leaves behind is taken from how migrations.go uses it.                  *)
(***************************************************************************)
EXTENDS Naturals, Sequences, FiniteSets

(***************************************************************************)
(* A database: tables maps a table to its columns, indexes maps an index   *)
(* to the table and the columns it is on, rows are the tables that hold    *)
(* any row, twins those that hold two rows which the narrower key of a     *)
(* later version takes for one, ranks maps a scan status to its sort       *)
(* order.                                                                  *)
(***************************************************************************)
NoFunction == [x \in {} |-> {}]

EmptyDatabase == [tables |-> NoFunction, indexes |-> NoFunction,
                  rows |-> {}, twins |-> {}, ranks |-> NoFunction]

HasColumns(db, t, cols) == t \in DOMAIN db.tables /\ cols \subseteq db.tables[t]

(***************************************************************************)
(* The statements.  A lenient one says IF [NOT] EXISTS or OR IGNORE.       *)
(***************************************************************************)
Create(t, cols)         == [op |-> "create", table |-> t, columns |-> cols, lenient |-> FALSE]
CreateIfAbsent(t, cols) == [op |-> "create", table |-> t, columns |-> cols, lenient |-> TRUE]
DropTable(t)            == [op |-> "drop", table |-> t, lenient |-> FALSE]
DropIfPresent(t)        == [op |-> "drop", table |-> t, lenient |-> TRUE]
Rename(t, new)          == [op |-> "rename", table |-> t, to |-> new]
AddColumn(t, c)         == [op |-> "add", table |-> t, column |-> c]
Index(i, t, cols)       == [op |-> "index", name |-> i, table |-> t, columns |-> cols, lenient |-> FALSE]
IndexIfAbsent(i, t, cols) == [Index(i, t, cols) EXCEPT !.lenient = TRUE]
DropIndex(i)            == [op |-> "unindex", name |-> i]
\* A SELECT, UPDATE or DELETE that leaves rows where rows were.
Uses(t, cols)           == [op |-> "use", table |-> t, columns |-> cols]
Clear(t)                == [op |-> "clear", table |-> t]
\* INSERT INTO to SELECT ...: needs maps every table read to the columns read.
Copy(from, needs, to, cols) ==
    [op |-> "copy", table |-> from, needs |-> needs, to |-> to, columns |-> cols,
     narrows |-> FALSE]
\* The same into a table whose UNIQUE key may take two of the rows for one.
CopyNarrower(from, needs, to, cols) ==
    [op |-> "copy", table |-> from, needs |-> needs, to |-> to, columns |-> cols,
     narrows |-> TRUE]
CopySame(from, to, cols) == Copy(from, [t \in {from} |-> cols], to, cols)
Seed(ranks)             == [op |-> "seed", ranks |-> ranks, lenient |-> FALSE]
SeedIfAbsent(ranks)     == [op |-> "seed", ranks |-> ranks, lenient |-> TRUE]
Rank(status, order)     == [op |-> "rank", status |-> status, order |-> order]
\* Store the stored documents of kind doc again, in one transaction per row of
\* images; a document that cannot be stored is only logged.
Reparse(images, doc, needs, fills) ==
    [op |-> "reparse", table |-> images, doc |-> doc, needs |-> needs, fills |-> fills]

AddColumns(t, cs) == [i \in DOMAIN cs |-> AddColumn(t, cs[i])]

(***************************************************************************)
(* When a statement fails, for a reason that lies in the schema or in the  *)
(* rows: a plain INSERT is refused when the key finds two rows alike.  No  *)
(* copy leaves a column empty that may not be.                             *)
(***************************************************************************)
Refused(db, s) ==
    CASE s.op = "create"  -> s.table \in DOMAIN db.tables /\ ~s.lenient
      [] s.op = "drop"    -> s.table \notin DOMAIN db.tables /\ ~s.lenient
      [] s.op = "rename"  -> s.table \notin DOMAIN db.tables \/ s.to \in DOMAIN db.tables
      [] s.op = "add"     -> s.table \notin DOMAIN db.tables \/ s.column \in db.tables[s.table]
      [] s.op = "index"   -> \/ ~HasColumns(db, s.table, s.columns)
                             \/ s.name \in DOMAIN db.indexes /\ ~s.lenient
      [] s.op = "use"     -> ~HasColumns(db, s.table, s.columns)
      [] s.op = "clear"   -> s.table \notin DOMAIN db.tables
      [] s.op = "copy"    -> \/ \E t \in DOMAIN s.needs : ~HasColumns(db, t, s.needs[t])
                             \/ ~HasColumns(db, s.to, s.columns)
                             \/ s.narrows /\ s.table \in db.twins
      [] s.op = "seed"    -> \/ "scan_status" \notin DOMAIN db.tables
                             \/ ~s.lenient /\ DOMAIN s.ranks \cap DOMAIN db.ranks # {}
      [] s.op = "rank"    -> "scan_status" \notin DOMAIN db.tables
      [] s.op = "unindex" -> FALSE
      [] s.op = "reparse" -> FALSE

(***************************************************************************)
(* What a statement that does not fail leaves behind.  A dropped table     *)
(* takes its indexes along; a renamed one keeps them, under their names.   *)
(***************************************************************************)
Keys(f, keep) == [x \in DOMAIN f \cap keep |-> f[x]]
\* TLC's @@, which the provers cannot expand: where both are defined, f counts.
Merge(f, g) == [x \in DOMAIN f \cup DOMAIN g |-> IF x \in DOMAIN f THEN f[x] ELSE g[x]]
With(f, x, y) == Merge(f, [z \in {x} |-> y])

DropFrom(db, t) ==
    [db EXCEPT !.tables = Keys(@, DOMAIN @ \ {t}),
               !.indexes = Keys(@, {i \in DOMAIN @ : @[i].table # t}),
               !.rows = @ \ {t}, !.twins = @ \ {t}]

\* A set of tables once one of them is called new.
Recalled(tables, t, new) == IF t \in tables THEN (tables \ {t}) \cup {new} ELSE tables

RenameIn(db, t, new) ==
    [db EXCEPT !.tables = With(Keys(@, DOMAIN @ \ {t}), new, @[t]),
               !.indexes = [i \in DOMAIN @ |->
                   IF @[i].table = t THEN [@[i] EXCEPT !.table = new] ELSE @[i]],
               !.rows = Recalled(@, t, new), !.twins = Recalled(@, t, new)]

\* A set of tables once to holds what from does.
Joined(tables, from, to) == IF from \in tables THEN tables \cup {to} ELSE tables

Stores(db, s) == /\ s.table \in db.rows
                 /\ \A t \in DOMAIN s.needs : HasColumns(db, t, s.needs[t])

After(db, s) ==
    CASE s.op = "create"  -> IF s.table \in DOMAIN db.tables THEN db
                             ELSE [db EXCEPT !.tables = With(@, s.table, s.columns)]
      [] s.op = "drop"    -> DropFrom(db, s.table)
      [] s.op = "rename"  -> RenameIn(db, s.table, s.to)
      [] s.op = "add"     -> [db EXCEPT !.tables[s.table] = @ \cup {s.column}]
      [] s.op = "index"   -> IF s.name \in DOMAIN db.indexes THEN db
                             ELSE [db EXCEPT !.indexes =
                                    With(@, s.name, [table |-> s.table, columns |-> s.columns])]
      [] s.op = "unindex" -> [db EXCEPT !.indexes = Keys(@, DOMAIN @ \ {s.name})]
      [] s.op = "clear"   -> [db EXCEPT !.rows = @ \ {s.table}, !.twins = @ \ {s.table}]
      [] s.op = "copy"    -> [db EXCEPT !.rows = Joined(@, s.table, s.to),
                                        !.twins = Joined(@, s.table, s.to)]
      [] s.op = "seed"    -> [db EXCEPT !.ranks = Merge(@, s.ranks)]
      [] s.op = "rank"    -> [db EXCEPT !.ranks = [x \in DOMAIN @ |->
                                    IF x = s.status THEN s.order ELSE @[x]]]
      [] s.op = "reparse" -> IF Stores(db, s) THEN [db EXCEPT !.rows = @ \cup s.fills] ELSE db
      [] s.op = "use"     -> db

(***************************************************************************)
(* A migration: the statements of its transaction, then those that commit  *)
(* one by one.                                                             *)
(***************************************************************************)
InTx(stmts)          == [tx |-> stmts, auto |-> << >>]
OneByOne(stmts)      == [tx |-> << >>, auto |-> stmts]
Statements(m)        == m.tx \o m.auto

=============================================================================
