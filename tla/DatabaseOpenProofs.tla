-------------------------- MODULE DatabaseOpenProofs --------------------------
(***************************************************************************)
(* What holds of opening and migrating the database for every set of       *)
(* releases it may come from, and any number of crashes, failed statements *)
(* and damaged files.  In this order: every statement leaves a database a  *)
(* database; the statuses stay listed; the tables are those of the version *)
(* that is recorded; the rows are kept; only a migration that was cut      *)
(* short is refused, or one over the rows it finds.  The invariants are in *)
(* DatabaseInvariants.                                                     *)
(***************************************************************************)
EXTENDS DatabaseInvariants, SequenceTheorems, TLAPS

-----------------------------------------------------------------------------
(* What a statement does to a database *)

LEMMA EmptyIsDatabase == IsDatabase(EmptyDatabase)
BY DEF IsDatabase, EmptyDatabase, NoFunction

LEMMA CreateKeeps ==
    ASSUME NEW db, IsDatabase(db), NEW s, s.op = "create", ~Refused(db, s)
    PROVE  IsDatabase(After(db, s))
<1>1. CASE s.table \in DOMAIN db.tables
  BY <1>1 DEF After
<1>2. CASE s.table \notin DOMAIN db.tables
  <2> DEFINE new == [db EXCEPT !.tables = With(@, s.table, s.columns)]
  <2>1. After(db, s) = new
    BY <1>2 DEF After
  <2>2. /\ DOMAIN new = DOMAIN db
        /\ new.tables = With(db.tables, s.table, s.columns)
        /\ new.indexes = db.indexes /\ new.rows = db.rows /\ new.ranks = db.ranks
        /\ new.twins = db.twins
    BY DEF IsDatabase
  <2> HIDE DEF new
  <2>3. /\ DOMAIN new.tables = DOMAIN db.tables \cup {s.table}
        /\ \A t \in DOMAIN db.tables : new.tables[t] = db.tables[t]
    BY <2>2 DEF With, Merge
  <2>4. IsDatabase(new)
    BY <2>2, <2>3 DEF IsDatabase, HasColumns
  <2> QED
    BY <2>1, <2>4
<1> QED
  BY <1>1, <1>2

LEMMA DropKeeps ==
    ASSUME NEW db, IsDatabase(db), NEW s, s.op = "drop", ~Refused(db, s)
    PROVE  IsDatabase(After(db, s))
<1> DEFINE new == DropFrom(db, s.table)
<1>1. After(db, s) = new
  BY DEF After
<1>2. /\ DOMAIN new = DOMAIN db
      /\ new.tables = Keys(db.tables, DOMAIN db.tables \ {s.table})
      /\ new.indexes = Keys(db.indexes, {i \in DOMAIN db.indexes : db.indexes[i].table # s.table})
      /\ new.rows = db.rows \ {s.table} /\ new.twins = db.twins \ {s.table}
      /\ new.ranks = db.ranks
  BY DEF IsDatabase, DropFrom
<1> HIDE DEF new
<1>3. /\ DOMAIN new.tables = DOMAIN db.tables \ {s.table}
      /\ \A t \in DOMAIN new.tables : new.tables[t] = db.tables[t]
  BY <1>2 DEF Keys
<1>4. /\ DOMAIN new.indexes = {i \in DOMAIN db.indexes : db.indexes[i].table # s.table}
      /\ \A i \in DOMAIN new.indexes : new.indexes[i] = db.indexes[i]
  BY <1>2 DEF Keys
<1>5. ASSUME NEW i \in DOMAIN new.indexes
      PROVE  /\ DOMAIN new.indexes[i] = {"table", "columns"}
             /\ HasColumns(new, new.indexes[i].table, new.indexes[i].columns)
  BY <1>3, <1>4 DEF IsDatabase, HasColumns
<1>6. /\ DOMAIN new = {"tables", "indexes", "rows", "twins", "ranks"}
      /\ new.rows \subseteq DOMAIN new.tables /\ new.twins \subseteq new.rows
      /\ DOMAIN new.ranks \subseteq Status
  BY <1>2, <1>3 DEF IsDatabase
<1> QED
  BY <1>1, <1>5, <1>6 DEF IsDatabase

LEMMA RenameKeeps ==
    ASSUME NEW db, IsDatabase(db), NEW s, s.op = "rename", ~Refused(db, s)
    PROVE  IsDatabase(After(db, s))
<1> DEFINE t == s.table
           to == s.to
           new == RenameIn(db, t, to)
<1>1. After(db, s) = new
  BY DEF After
<1>2. t \in DOMAIN db.tables /\ to \notin DOMAIN db.tables
  BY DEF Refused
<1>3. /\ DOMAIN new = DOMAIN db
      /\ new.tables = With(Keys(db.tables, DOMAIN db.tables \ {t}), to, db.tables[t])
      /\ new.indexes = [i \in DOMAIN db.indexes |->
            IF db.indexes[i].table = t THEN [db.indexes[i] EXCEPT !.table = to] ELSE db.indexes[i]]
      /\ new.rows = Recalled(db.rows, t, to) /\ new.twins = Recalled(db.twins, t, to)
      /\ new.ranks = db.ranks
  BY DEF IsDatabase, RenameIn
<1> HIDE DEF new, t, to
<1>4. /\ DOMAIN new.tables = (DOMAIN db.tables \ {t}) \cup {to}
      /\ new.tables[to] = db.tables[t]
      /\ \A u \in DOMAIN db.tables \ {t} : new.tables[u] = db.tables[u]
  BY <1>2, <1>3 DEF Keys, With, Merge
<1>5. ASSUME NEW i \in DOMAIN new.indexes
      PROVE  /\ DOMAIN new.indexes[i] = {"table", "columns"}
             /\ HasColumns(new, new.indexes[i].table, new.indexes[i].columns)
  <2>1. /\ i \in DOMAIN db.indexes
        /\ DOMAIN db.indexes[i] = {"table", "columns"}
        /\ db.indexes[i].table \in DOMAIN db.tables
        /\ db.indexes[i].columns \subseteq db.tables[db.indexes[i].table]
    BY <1>3, <1>5 DEF IsDatabase, HasColumns
  <2>2. CASE db.indexes[i].table = t
    <3>1. /\ DOMAIN new.indexes[i] = {"table", "columns"}
          /\ new.indexes[i].table = to /\ new.indexes[i].columns = db.indexes[i].columns
      BY <1>3, <2>1, <2>2
    <3> QED
      BY <1>4, <2>1, <2>2, <3>1 DEF HasColumns
  <2>3. CASE db.indexes[i].table # t
    BY <1>3, <1>4, <2>1, <2>3 DEF HasColumns
  <2> QED
    BY <2>2, <2>3
<1>6. new.rows \subseteq DOMAIN new.tables /\ new.twins \subseteq new.rows
  BY <1>3, <1>4 DEF IsDatabase, Recalled
<1>7. IsDatabase(new)
  BY <1>3, <1>5, <1>6 DEF IsDatabase
<1> QED
  BY <1>1, <1>7 DEF t, to

LEMMA AddKeeps ==
    ASSUME NEW db, IsDatabase(db), NEW s, s.op = "add", ~Refused(db, s)
    PROVE  IsDatabase(After(db, s))
<1> DEFINE new == [db EXCEPT !.tables[s.table] = @ \cup {s.column}]
<1>1. After(db, s) = new
  BY DEF After
<1>2. /\ DOMAIN new = DOMAIN db
      /\ DOMAIN new.tables = DOMAIN db.tables
      /\ \A t \in DOMAIN db.tables : db.tables[t] \subseteq new.tables[t]
      /\ new.indexes = db.indexes /\ new.rows = db.rows /\ new.ranks = db.ranks
      /\ new.twins = db.twins
  BY DEF IsDatabase
<1> HIDE DEF new
<1>3. IsDatabase(new)
  BY <1>2 DEF IsDatabase, HasColumns
<1> QED
  BY <1>1, <1>3

LEMMA IndexKeeps ==
    ASSUME NEW db, IsDatabase(db), NEW s, s.op = "index", ~Refused(db, s)
    PROVE  IsDatabase(After(db, s))
<1>1. CASE s.name \in DOMAIN db.indexes
  BY <1>1 DEF After
<1>2. CASE s.name \notin DOMAIN db.indexes
  <2> DEFINE entry == [table |-> s.table, columns |-> s.columns]
             new == [db EXCEPT !.indexes = With(@, s.name, entry)]
  <2>1. After(db, s) = new
    BY <1>2 DEF After
  <2>2. /\ DOMAIN new = DOMAIN db
        /\ new.indexes = With(db.indexes, s.name, entry)
        /\ new.tables = db.tables /\ new.rows = db.rows /\ new.ranks = db.ranks
        /\ new.twins = db.twins
    BY DEF IsDatabase
  <2>3. HasColumns(db, s.table, s.columns)
    BY DEF Refused
  <2>4. /\ DOMAIN entry = {"table", "columns"}
        /\ entry.table = s.table /\ entry.columns = s.columns
    OBVIOUS
  <2> HIDE DEF new, entry
  <2>5. /\ DOMAIN new.indexes = DOMAIN db.indexes \cup {s.name}
        /\ new.indexes[s.name] = entry
        /\ \A i \in DOMAIN db.indexes : new.indexes[i] = db.indexes[i]
    BY <1>2, <2>2 DEF With, Merge
  <2>6. IsDatabase(new)
    BY <2>2, <2>3, <2>4, <2>5 DEF IsDatabase, HasColumns
  <2> QED
    BY <2>1, <2>6
<1> QED
  BY <1>1, <1>2

\* The statements that change no table and no column.
LEMMA RowsOnlyKeeps ==
    ASSUME NEW db, IsDatabase(db), NEW s, Sound(s), ~Refused(db, s),
           s.op \in {"unindex", "use", "clear", "copy", "seed", "rank", "reparse"}
    PROVE  IsDatabase(After(db, s))
<1> DEFINE new == After(db, s)
<1>1. CASE s.op = "unindex"
  <2>1. new = [db EXCEPT !.indexes = Keys(@, DOMAIN @ \ {s.name})]
    BY <1>1 DEF After
  <2>2. /\ DOMAIN new = DOMAIN db
        /\ new.indexes = Keys(db.indexes, DOMAIN db.indexes \ {s.name})
        /\ new.tables = db.tables /\ new.rows = db.rows /\ new.ranks = db.ranks
        /\ new.twins = db.twins
    BY <2>1 DEF IsDatabase
  <2>3. /\ DOMAIN new.indexes \subseteq DOMAIN db.indexes
        /\ \A i \in DOMAIN new.indexes : new.indexes[i] = db.indexes[i]
    BY <2>2 DEF Keys
  <2> QED
    BY <2>2, <2>3 DEF IsDatabase, HasColumns
<1>2. CASE s.op = "use"
  BY <1>2 DEF After
<1>3. CASE s.op = "clear"
  <2>1. new = [db EXCEPT !.rows = @ \ {s.table}, !.twins = @ \ {s.table}]
    BY <1>3 DEF After
  <2> QED
    BY <2>1 DEF IsDatabase, HasColumns
<1>4. CASE s.op = "copy"
  <2>1. /\ new = [db EXCEPT !.rows = Joined(@, s.table, s.to),
                           !.twins = Joined(@, s.table, s.to)]
        /\ s.to \in DOMAIN db.tables
    BY <1>4 DEF After, Refused, HasColumns
  <2> QED
    BY <2>1 DEF IsDatabase, HasColumns, Joined
<1>5. CASE s.op = "seed"
  <2>1. new = [db EXCEPT !.ranks = Merge(@, s.ranks)]
    BY <1>5 DEF After
  <2>2. /\ DOMAIN new = DOMAIN db
        /\ DOMAIN new.ranks = DOMAIN db.ranks \cup DOMAIN s.ranks
        /\ new.tables = db.tables /\ new.rows = db.rows /\ new.indexes = db.indexes
        /\ new.twins = db.twins
    BY <2>1 DEF IsDatabase, Merge
  <2>3. DOMAIN s.ranks \subseteq Status
    BY <1>5, SMTT(30) DEF Sound
  <2> QED
    BY <2>2, <2>3 DEF IsDatabase, HasColumns
<1>6. CASE s.op = "rank"
  BY <1>6 DEF After, IsDatabase, HasColumns
<1>7. CASE s.op = "reparse"
  BY <1>7 DEF After, Stores, Sound, IsDatabase, HasColumns
<1> QED
  BY <1>1, <1>2, <1>3, <1>4, <1>5, <1>6, <1>7

\* A statement that is not refused leaves a database.
LEMMA StatementKeeps ==
    ASSUME NEW db, IsDatabase(db), NEW s, Sound(s), ~Refused(db, s)
    PROVE  IsDatabase(After(db, s))
BY CreateKeeps, DropKeeps, RenameKeeps, AddKeeps, IndexKeeps, RowsOnlyKeeps
   DEF Sound, Operations

-----------------------------------------------------------------------------
(* The statements of the fifty-one migrations are sound *)

LEMMA CreateSound == \A t, cols : Sound(Create(t, cols))
BY DEF Sound, Operations, Create

LEMMA CreateIfAbsentSound == \A t, cols : Sound(CreateIfAbsent(t, cols))
BY DEF Sound, Operations, CreateIfAbsent

LEMMA DropTableSound == \A t : Sound(DropTable(t))
BY DEF Sound, Operations, DropTable

LEMMA DropIfPresentSound == \A t : Sound(DropIfPresent(t))
BY DEF Sound, Operations, DropIfPresent

LEMMA ClearSound == \A t : Sound(Clear(t))
BY DEF Sound, Operations, Clear

LEMMA RenameSound == \A t, new : Sound(Rename(t, new))
BY DEF Sound, Operations, Rename

LEMMA AddColumnSound == \A t, c : Sound(AddColumn(t, c))
BY DEF Sound, Operations, AddColumn

LEMMA IndexSound == \A i, t, cols : Sound(Index(i, t, cols))
BY DEF Sound, Operations, Index

LEMMA IndexIfAbsentSound == \A i, t, cols : Sound(IndexIfAbsent(i, t, cols))
BY DEF Sound, Operations, IndexIfAbsent, Index

LEMMA DropIndexSound == \A i : Sound(DropIndex(i))
BY DEF Sound, Operations, DropIndex

LEMMA UsesSound == \A t, cols : Sound(Uses(t, cols))
BY DEF Sound, Operations, Uses

LEMMA CopySound == \A t, needs, to, cols : Sound(Copy(t, needs, to, cols))
BY DEF Sound, Operations, Copy

LEMMA CopyNarrowerSound == \A t, needs, to, cols : Sound(CopyNarrower(t, needs, to, cols))
BY DEF Sound, Operations, CopyNarrower

LEMMA CopySameSound == \A t, to, cols : Sound(CopySame(t, to, cols))
BY DEF Sound, Operations, CopySame, Copy

LEMMA RankSound == \A status, order : Sound(Rank(status, order))
BY DEF Sound, Operations, Rank

LEMMA SoundSeeds == Sound(Seed(FirstRanks)) /\ Sound(SeedIfAbsent(FirstRanks))
BY DEF Sound, Operations, Seed, SeedIfAbsent, FirstRanks, Status

LEMMA SoundLateSeed == Sound(SeedIfAbsent([sbom_failed |-> 5]))
BY DEF Sound, Operations, SeedIfAbsent, Status

LEMMA SoundReparses == Sound(ReparseSBOMs) /\ Sound(ReparseReports)
BY DEF Sound, Operations, ReparseSBOMs, ReparseReports, Reparse, SBOMTables, ReportTables

LEMMA SoundConcat ==
    ASSUME NEW s, NEW t, IsSound(s), IsSound(t)
    PROVE  /\ IsSound(s \o t)
           /\ Len(s) \in Nat /\ Len(t) \in Nat /\ Len(s \o t) = Len(s) + Len(t)
<1> DEFINE S == {s[i] : i \in 1 .. Len(s)} \cup {t[i] : i \in 1 .. Len(t)}
<1>1. s \in Seq(S) /\ t \in Seq(S)
  BY DEF IsSound
<1>2. \A x \in S : Sound(x)
  BY DEF IsSound
<1> HIDE DEF S
<1>3. s \o t \in Seq(S) /\ Len(s \o t) = Len(s) + Len(t)
  BY <1>1
<1>4. ASSUME NEW l \in Seq(S) PROVE IsSound(l)
  <2>1. Len(l) \in Nat /\ l = [i \in 1 .. Len(l) |-> l[i]]
    OBVIOUS
  <2>2. \A i \in 1 .. Len(l) : l[i] \in S
    OBVIOUS
  <2> QED
    BY <1>2, <2>1, <2>2 DEF IsSound
<1> QED
  BY <1>3, <1>4 DEF IsSound

LEMMA SoundAddColumns ==
    ASSUME NEW t, NEW cs, NEW n \in Nat, DOMAIN cs = 1 .. n
    PROVE  IsSound(AddColumns(t, cs)) /\ Len(AddColumns(t, cs)) = n
<1> DEFINE list == AddColumns(t, cs)
<1>1. list = [i \in 1 .. n |-> AddColumn(t, cs[i])]
  BY DEF AddColumns
<1> HIDE DEF list
<1>2. Len(list) = n
  BY <1>1
<1>3. \A i \in 1 .. n : Sound(list[i])
  BY <1>1, AddColumnSound
<1>4. list = [i \in 1 .. Len(list) |-> list[i]]
  BY <1>1, <1>2
<1>5. IsSound(list)
  BY <1>1, <1>2, <1>3, <1>4 DEF IsSound
<1> QED
  BY <1>2, <1>5 DEF list

LEMMA SoundEmpty == IsSound(<< >>) /\ Len(<< >>) = 0
BY DEF IsSound

LEMMA SoundInTx ==
    ASSUME NEW list, IsSound(list), Len(list) > 0
    PROVE  SoundMigration(InTx(list)) /\ SoundMigration(OneByOne(list))
<1>1. /\ InTx(list).tx = list /\ InTx(list).auto = << >>
      /\ OneByOne(list).tx = << >> /\ OneByOne(list).auto = list
  BY DEF InTx, OneByOne
<1> QED
  BY <1>1, SoundEmpty DEF SoundMigration, IsSound

\* Every migration, by number.
LEMMA MigrationsSound == \A n \in 1 .. Latest : SoundMigration(migrations[n])
<1>1. SoundMigration(V1)
  <2>1. V1.tx = << >> /\ Len(V1.auto) = 8 /\ V1.auto = [i \in 1 .. 8 |-> V1.auto[i]]
    BY DEF V1, OneByOne
  <2>2. \A i \in 1 .. 8 : Sound(V1.auto[i])
    BY CreateIfAbsentSound, IndexIfAbsentSound, SoundSeeds DEF V1, OneByOne
  <2> QED
    BY <2>1, <2>2, SoundEmpty DEF SoundMigration, IsSound
<1>2. SoundMigration(V2)
  <2>1. V2.auto = << >> /\ Len(V2.tx) = 10 /\ V2.tx = [i \in 1 .. 10 |-> V2.tx[i]]
    BY DEF V2, InTx
  <2>2. \A i \in 1 .. 10 : Sound(V2.tx[i])
    BY CreateSound, DropTableSound, RenameSound, IndexIfAbsentSound, CopySound, CopySameSound DEF V2, InTx
  <2> QED
    BY <2>1, <2>2, SoundEmpty DEF SoundMigration, IsSound
<1>3. SoundMigration(V3)
  <2> DEFINE images == AddColumns("container_images", <<"sbom", "scan_status", "scan_error", "scanned_at">>)
             instances == AddColumns("container_instances", <<"node_name", "container_runtime">>)
             index == << IndexIfAbsent("idx_images_scan_status", "container_images", {"scan_status"}) >>
  <2>1. IsSound(images) /\ Len(images) = 4
    <3>1. DOMAIN <<"sbom", "scan_status", "scan_error", "scanned_at">> = 1 .. 4
      OBVIOUS
    <3> QED
      BY <3>1, SoundAddColumns
  <2>2. IsSound(instances)
    <3>1. DOMAIN <<"node_name", "container_runtime">> = 1 .. 2
      OBVIOUS
    <3> QED
      BY <3>1, SoundAddColumns
  <2>3. IsSound(index)
    BY IndexIfAbsentSound DEF IsSound
  <2>4. V3 = InTx((images \o instances) \o index)
    BY DEF V3
  <2> HIDE DEF images, instances, index
  <2>5. IsSound(images \o instances) /\ Len(images \o instances) > 0
    BY <2>1, <2>2, SoundConcat
  <2>6. IsSound((images \o instances) \o index) /\ Len((images \o instances) \o index) > 0
    BY <2>3, <2>5, SoundConcat
  <2> QED
    BY <2>4, <2>6, SoundInTx
<1>4. SoundMigration(V4)
  <2> DEFINE images == AddColumns("container_images", <<"vulnerabilities", "vulnerability_status",
                                    "vulnerability_error", "vulnerabilities_scanned_at">>)
             index == << IndexIfAbsent("idx_images_vulnerability_status", "container_images",
                                       {"vulnerability_status"}) >>
  <2>1. IsSound(images) /\ Len(images) > 0
    <3>1. DOMAIN <<"vulnerabilities", "vulnerability_status", "vulnerability_error",
            "vulnerabilities_scanned_at">> = 1 .. 4
      OBVIOUS
    <3> QED
      BY <3>1, SoundAddColumns
  <2>2. IsSound(index)
    BY IndexIfAbsentSound DEF IsSound
  <2>3. V4 = InTx(images \o index)
    BY DEF V4
  <2> HIDE DEF images, index
  <2>4. IsSound(images \o index) /\ Len(images \o index) > 0
    BY <2>1, <2>2, SoundConcat
  <2> QED
    BY <2>3, <2>4, SoundInTx
<1>5. SoundMigration(V5)
  <2>1. V5.auto = << >> /\ Len(V5.tx) = 6 /\ V5.tx = [i \in 1 .. 6 |-> V5.tx[i]]
    BY DEF V5, InTx
  <2>2. \A i \in 1 .. 6 : Sound(V5.tx[i])
    BY CreateSound, DropTableSound, RenameSound, IndexIfAbsentSound, CopySameSound DEF V5, InTx
  <2> QED
    BY <2>1, <2>2, SoundEmpty DEF SoundMigration, IsSound
<1>6. SoundMigration(V6)
  <2>1. Len(V6.tx) = 8 /\ V6.tx = [i \in 1 .. 8 |-> V6.tx[i]]
    BY DEF V6
  <2>2. \A i \in 1 .. 8 : Sound(V6.tx[i])
    BY CreateSound, IndexSound DEF V6
  <2>3. IsSound(V6.auto)
    BY SoundReparses DEF V6, IsSound
  <2> QED
    BY <2>1, <2>2, <2>3 DEF SoundMigration, IsSound
<1>7. SoundMigration(V7)
  <2> DEFINE list == AddColumns("vulnerabilities", <<"risk", "epss_score", "epss_percentile", "known_exploited">>)
  <2>1. DOMAIN <<"risk", "epss_score", "epss_percentile", "known_exploited">> = 1 .. 4
    OBVIOUS
  <2>2. IsSound(list) /\ Len(list) > 0
    BY <2>1, SoundAddColumns
  <2>3. V7 = InTx(list)
    BY DEF V7
  <2> HIDE DEF list
  <2> QED
    BY <2>2, <2>3, SoundInTx
<1>8. SoundMigration(V8)
  <2> DEFINE added == AddColumns("container_images",
                                 <<"status", "status_error", "sbom_scanned_at", "vulns_scanned_at">>)
             images == {"id", "digest", "status", "status_error", "sbom", "vulnerabilities",
                        "sbom_scanned_at", "vulns_scanned_at"} \cup Stamps
             rest == <<
        Uses("container_images", {"status", "status_error", "sbom_scanned_at",
            "vulns_scanned_at", "vulnerability_status", "scan_status",
            "vulnerability_error", "scan_error", "scanned_at",
            "vulnerabilities_scanned_at"}),
        IndexIfAbsent("idx_images_status", "container_images", {"status"}),
        Create("container_images_new", images),
        CopySame("container_images", "container_images_new", images),
        DropTable("container_images"),
        Rename("container_images_new", "container_images"),
        Index("idx_images_digest", "container_images", {"digest"}),
        Index("idx_images_status", "container_images", {"status"}) >>
  <2>1. IsSound(added) /\ Len(added) > 0
    <3>1. DOMAIN <<"status", "status_error", "sbom_scanned_at", "vulns_scanned_at">> = 1 .. 4
      OBVIOUS
    <3> QED
      BY <3>1, SoundAddColumns
  <2>2. V8 = InTx(added \o rest)
    BY DEF V8
  <2>3. Len(rest) = 8 /\ rest = [i \in 1 .. 8 |-> rest[i]]
    OBVIOUS
  <2>4. \A i \in 1 .. 8 : Sound(rest[i])
    BY UsesSound, IndexIfAbsentSound, CreateSound, CopySameSound, DropTableSound, RenameSound, IndexSound
  <2> HIDE DEF added, rest
  <2>5. IsSound(rest)
    BY <2>3, <2>4 DEF IsSound
  <2>6. IsSound(added \o rest) /\ Len(added \o rest) > 0
    BY <2>1, <2>5, SoundConcat
  <2> QED
    BY <2>2, <2>6, SoundInTx
<1>9. SoundMigration(V9)
  <2> DEFINE images == AddColumns("container_images", <<"os_name", "os_version">>)
             summary == << Uses("image_summary", {"image_id", "os_name", "os_version"}) >>
  <2>1. IsSound(images) /\ Len(images) > 0
    <3>1. DOMAIN <<"os_name", "os_version">> = 1 .. 2
      OBVIOUS
    <3> QED
      BY <3>1, SoundAddColumns
  <2>2. IsSound(summary)
    BY UsesSound DEF IsSound
  <2>3. V9 = InTx(images \o summary)
    BY DEF V9
  <2> HIDE DEF images, summary
  <2>4. IsSound(images \o summary) /\ Len(images \o summary) > 0
    BY <2>1, <2>2, SoundConcat
  <2> QED
    BY <2>3, <2>4, SoundInTx
<1>10. SoundMigration(V10)
  BY DropIfPresentSound, SoundInTx
     DEF IsSound, V10
<1>11. SoundMigration(V11)
  BY CreateIfAbsentSound, SoundSeeds, SoundInTx
     DEF IsSound, V11
<1>12. SoundMigration(V12)
  <2>1. V12.auto = << >> /\ Len(V12.tx) = 6 /\ V12.tx = [i \in 1 .. 6 |-> V12.tx[i]]
    BY DEF V12, InTx
  <2>2. \A i \in 1 .. 6 : Sound(V12.tx[i])
    BY CreateSound, DropTableSound, RenameSound, IndexSound, CopySameSound DEF V12, InTx
  <2> QED
    BY <2>1, <2>2, SoundEmpty DEF SoundMigration, IsSound
<1>13. SoundMigration(V13)
  <2>1. V13.auto = << >> /\ Len(V13.tx) = 4 /\ V13.tx = [i \in 1 .. 4 |-> V13.tx[i]]
    BY DEF V13, InTx
  <2>2. \A i \in 1 .. 4 : Sound(V13.tx[i])
    BY CreateSound, IndexSound DEF V13, InTx
  <2> QED
    BY <2>1, <2>2, SoundEmpty DEF SoundMigration, IsSound
<1>14. SoundMigration(V14)
  BY UsesSound, SoundReparses, SoundInTx
     DEF IsSound, V14, StoredDocuments
<1>15. SoundMigration(V15)
  <2>1. V15.tx = << >> /\ Len(V15.auto) = 5 /\ V15.auto = [i \in 1 .. 5 |-> V15.auto[i]]
    BY DEF V15, OneByOne
  <2>2. \A i \in 1 .. 5 : Sound(V15.auto[i])
    BY ClearSound, UsesSound, SoundReparses DEF V15, OneByOne, StoredDocuments
  <2> QED
    BY <2>1, <2>2, SoundEmpty DEF SoundMigration, IsSound
<1>16. SoundMigration(V16)
  BY ClearSound, UsesSound, SoundReparses, SoundInTx, SMTT(30)
     DEF IsSound, V16, StoredDocuments
<1>17. SoundMigration(V17)
  BY ClearSound, UsesSound, SoundReparses, SoundInTx, SMTT(30)
     DEF IsSound, V17, StoredDocuments
<1>18. SoundMigration(V18)
  BY ClearSound, UsesSound, SoundReparses, SoundInTx, SMTT(30)
     DEF IsSound, V18, StoredDocuments
<1>19. SoundMigration(V19)
  <2>1. V19.auto = << >> /\ Len(V19.tx) = 7 /\ V19.tx = [i \in 1 .. 7 |-> V19.tx[i]]
    BY DEF V19, InTx
  <2>2. \A i \in 1 .. 7 : Sound(V19.tx[i])
    BY CreateSound, DropTableSound, RenameSound, IndexSound, CopySameSound DEF V19, InTx
  <2> QED
    BY <2>1, <2>2, SoundEmpty DEF SoundMigration, IsSound
<1>20. SoundMigration(V20)
  BY IndexIfAbsentSound, SoundInTx
     DEF IsSound, V20
<1>21. SoundMigration(V21)
  BY AddColumnSound, SoundInTx
     DEF IsSound, V21
<1>22. SoundMigration(V22)
  <2>1. V22.auto = << >> /\ Len(V22.tx) = 4 /\ V22.tx = [i \in 1 .. 4 |-> V22.tx[i]]
    BY DEF V22, InTx
  <2>2. \A i \in 1 .. 4 : Sound(V22.tx[i])
    BY CreateSound, IndexSound DEF V22, InTx
  <2> QED
    BY <2>1, <2>2, SoundEmpty DEF SoundMigration, IsSound
<1>23. SoundMigration(V23)
  BY CreateSound, SoundInTx
     DEF IsSound, V23
<1>24. SoundMigration(V24)
  BY AddColumnSound, SoundInTx
     DEF IsSound, V24
<1>25. SoundMigration(V25)
  BY UsesSound, SoundInTx
     DEF IsSound, V25
<1>26. SoundMigration(V26)
  BY RenameSound, SoundInTx
     DEF IsSound, V26
<1>27. SoundMigration(V27)
  BY AddColumnSound, UsesSound, SoundInTx
     DEF IsSound, V27
<1>28. SoundMigration(V28)
  <2>1. V28.auto = << >> /\ Len(V28.tx) = 7 /\ V28.tx = [i \in 1 .. 7 |-> V28.tx[i]]
    BY DEF V28, InTx
  <2>2. \A i \in 1 .. 7 : Sound(V28.tx[i])
    BY CreateSound, DropTableSound, RenameSound, IndexSound, CopySameSound DEF V28, InTx
  <2> QED
    BY <2>1, <2>2, SoundEmpty DEF SoundMigration, IsSound
<1>29. SoundMigration(V29)
  <2>1. V29.auto = << >> /\ Len(V29.tx) = 7 /\ V29.tx = [i \in 1 .. 7 |-> V29.tx[i]]
    BY DEF V29, InTx
  <2>2. \A i \in 1 .. 7 : Sound(V29.tx[i])
    BY CreateSound, DropTableSound, RenameSound, IndexSound, CopySound DEF V29, InTx
  <2> QED
    BY <2>1, <2>2, SoundEmpty DEF SoundMigration, IsSound
<1>30. SoundMigration(V30)
  <2>1. V30.auto = << >> /\ Len(V30.tx) = 9 /\ V30.tx = [i \in 1 .. 9 |-> V30.tx[i]]
    BY DEF V30, InTx
  <2>2. \A i \in 1 .. 9 : Sound(V30.tx[i])
    BY CreateSound, IndexSound DEF V30, InTx
  <2> QED
    BY <2>1, <2>2, SoundEmpty DEF SoundMigration, IsSound
<1>31. SoundMigration(V31)
  <2>1. V31.auto = << >> /\ Len(V31.tx) = 4 /\ V31.tx = [i \in 1 .. 4 |-> V31.tx[i]]
    BY DEF V31, InTx
  <2>2. \A i \in 1 .. 4 : Sound(V31.tx[i])
    BY IndexIfAbsentSound DEF V31, InTx
  <2> QED
    BY <2>1, <2>2, SoundEmpty DEF SoundMigration, IsSound
<1>32. SoundMigration(V32)
  BY AddColumnSound, SoundInTx
     DEF IsSound, V32
<1>33. SoundMigration(V33)
  <2>1. V33.auto = << >> /\ Len(V33.tx) = 8 /\ V33.tx = [i \in 1 .. 8 |-> V33.tx[i]]
    BY DEF V33, InTx
  <2>2. \A i \in 1 .. 8 : Sound(V33.tx[i])
    BY CreateSound, DropTableSound, RenameSound, IndexSound, CopySound DEF V33, InTx
  <2> QED
    BY <2>1, <2>2, SoundEmpty DEF SoundMigration, IsSound
<1>34. SoundMigration(V34)
  <2>1. V34.auto = << >> /\ Len(V34.tx) = 6 /\ V34.tx = [i \in 1 .. 6 |-> V34.tx[i]]
    BY DEF V34, InTx
  <2>2. \A i \in 1 .. 6 : Sound(V34.tx[i])
    BY CreateSound, IndexSound, CopySound DEF V34, InTx
  <2> QED
    BY <2>1, <2>2, SoundEmpty DEF SoundMigration, IsSound
<1>35. SoundMigration(V35)
  <2> DEFINE list == AddColumns("nodes", <<"sbom", "vulnerabilities">>)
  <2>1. DOMAIN <<"sbom", "vulnerabilities">> = 1 .. 2
    OBVIOUS
  <2>2. IsSound(list) /\ Len(list) > 0
    BY <2>1, SoundAddColumns
  <2>3. V35 = OneByOne(list)
    BY DEF V35
  <2> HIDE DEF list
  <2> QED
    BY <2>2, <2>3, SoundInTx
<1>36. SoundMigration(V36)
  BY CreateIfAbsentSound, IndexIfAbsentSound, SoundInTx, SMTT(30)
     DEF IsSound, V36
<1>37. SoundMigration(V37)
  <2>1. V37.tx = << >> /\ Len(V37.auto) = 5 /\ V37.auto = [i \in 1 .. 5 |-> V37.auto[i]]
    BY DEF V37, OneByOne
  <2>2. \A i \in 1 .. 5 : Sound(V37.auto[i])
    BY CreateSound, DropTableSound, RenameSound, IndexIfAbsentSound, CopySound DEF V37, OneByOne
  <2> QED
    BY <2>1, <2>2, SoundEmpty DEF SoundMigration, IsSound
<1>38. SoundMigration(V38)
  BY IndexIfAbsentSound, SoundInTx
     DEF IsSound, V38
<1>39. SoundMigration(V39)
  BY IndexIfAbsentSound, SoundInTx
     DEF IsSound, V39
<1>40. SoundMigration(V40)
  BY IndexIfAbsentSound, SoundInTx
     DEF IsSound, V40
<1>41. SoundMigration(V41)
  BY DropIndexSound, SoundInTx
     DEF IsSound, V41
<1>42. SoundMigration(V42)
  <2>1. V42.auto = << >> /\ Len(V42.tx) = 11 /\ V42.tx = [i \in 1 .. 11 |-> V42.tx[i]]
    BY DEF V42, InTx
  <2>2. \A i \in 1 .. 11 : Sound(V42.tx[i])
    BY CreateSound, DropTableSound, RenameSound, IndexSound, CopyNarrowerSound DEF V42, InTx
  <2> QED
    BY <2>1, <2>2, SoundEmpty DEF SoundMigration, IsSound
<1>43. SoundMigration(V43)
  <2>1. V43.tx = << >> /\ Len(V43.auto) = 4 /\ V43.auto = [i \in 1 .. 4 |-> V43.auto[i]]
    BY DEF V43, OneByOne
  <2>2. \A i \in 1 .. 4 : Sound(V43.auto[i])
    BY RenameSound DEF V43, OneByOne
  <2> QED
    BY <2>1, <2>2, SoundEmpty DEF SoundMigration, IsSound
<1>44. SoundMigration(V44)
  <2> DEFINE list == AddColumns("image_packages", <<"language", "purl">>)
  <2>1. DOMAIN <<"language", "purl">> = 1 .. 2
    OBVIOUS
  <2>2. IsSound(list) /\ Len(list) > 0
    BY <2>1, SoundAddColumns
  <2>3. V44 = OneByOne(list)
    BY DEF V44
  <2> HIDE DEF list
  <2> QED
    BY <2>2, <2>3, SoundInTx
<1>45. SoundMigration(V45)
  <2>1. V45.tx = << >> /\ Len(V45.auto) = 22 /\ V45.auto = [i \in 1 .. 22 |-> V45.auto[i]]
    BY DEF V45, OneByOne
  <2>2. \A i \in 1 .. 22 : Sound(V45.auto[i])
    BY IndexIfAbsentSound, DropIndexSound DEF V45, OneByOne
  <2> QED
    BY <2>1, <2>2, SoundEmpty DEF SoundMigration, IsSound
<1>46. SoundMigration(V46)
  BY UsesSound, SoundInTx
     DEF IsSound, V46
<1>47. SoundMigration(V47)
  <2> DEFINE cols == <<"vulnerabilities_compressed", "sbom_compressed">>
  <2>1. DOMAIN cols = 1 .. 2
    OBVIOUS
  <2>2. V47 = OneByOne(AddColumns("nodes", cols) \o AddColumns("images", cols))
    BY DEF V47
  <2> HIDE DEF cols
  <2>3. /\ IsSound(AddColumns("nodes", cols)) /\ Len(AddColumns("nodes", cols)) = 2
        /\ IsSound(AddColumns("images", cols)) /\ Len(AddColumns("images", cols)) = 2
    BY <2>1, SoundAddColumns
  <2> DEFINE list == AddColumns("nodes", cols) \o AddColumns("images", cols)
  <2>4. IsSound(list) /\ Len(list) > 0
    BY <2>3, SoundConcat
  <2> HIDE DEF list
  <2>5. SoundMigration(OneByOne(list))
    BY <2>4, SoundInTx
  <2> QED
    BY <2>2, <2>5 DEF list
<1>48. SoundMigration(V48)
  BY CreateSound, DropIfPresentSound, IndexSound, SoundInTx
     DEF IsSound, V48
<1>49. SoundMigration(V49)
  BY IndexIfAbsentSound, SoundInTx
     DEF IsSound, V49
<1>50. SoundMigration(V50)
  BY IndexIfAbsentSound, SoundInTx
     DEF IsSound, V50
<1>51. SoundMigration(V51)
  <2>1. V51.tx = << >> /\ Len(V51.auto) = 8 /\ V51.auto = [i \in 1 .. 8 |-> V51.auto[i]]
    BY DEF V51, OneByOne
  <2>2. \A i \in 1 .. 8 : Sound(V51.auto[i])
    BY RankSound, SoundLateSeed DEF V51, OneByOne
  <2> QED
    BY <2>1, <2>2, SoundEmpty DEF SoundMigration, IsSound
<1>52. Latest = 51
  BY DEF Latest, migrations
<1> QED
  BY <1>52, <1>1, <1>2, <1>3, <1>4, <1>5, <1>6, <1>7, <1>8, <1>9, <1>10, <1>11, <1>12,
     <1>13, <1>14, <1>15, <1>16, <1>17, <1>18, <1>19, <1>20, <1>21, <1>22, <1>23,
     <1>24, <1>25, <1>26, <1>27, <1>28, <1>29, <1>30, <1>31, <1>32, <1>33, <1>34,
     <1>35, <1>36, <1>37, <1>38, <1>39, <1>40, <1>41, <1>42, <1>43, <1>44, <1>45,
     <1>46, <1>47, <1>48, <1>49, <1>50, <1>51
  DEF migrations

LEMMA LatestIsNatural == Latest \in Nat /\ Latest > 0
<1>1. Latest = 51
  BY DEF Latest, migrations
<1> QED
  BY <1>1

LEMMA MigrationShape ==
    ASSUME NEW n \in 1 .. Latest
    PROVE  /\ Len(migrations[n].tx) \in Nat
           /\ Len(Statements(migrations[n])) \in Nat
           /\ Len(Statements(migrations[n])) > 0
           /\ Len(migrations[n].tx) <= Len(Statements(migrations[n]))
           /\ \A i \in 1 .. Len(Statements(migrations[n])) : Sound(Statements(migrations[n])[i])
<1> DEFINE m == migrations[n]
           list == m.tx \o m.auto
<1>1. SoundMigration(m)
  BY MigrationsSound
<1> HIDE DEF m
<1>2. /\ IsSound(list)
      /\ Len(m.tx) \in Nat /\ Len(m.auto) \in Nat
      /\ Len(list) = Len(m.tx) + Len(m.auto)
      /\ Len(m.tx) + Len(m.auto) > 0
  BY <1>1, SoundConcat DEF SoundMigration
<1>3. Statements(m) = list
  BY DEF Statements
<1> HIDE DEF list
<1>4. \A i \in 1 .. Len(list) : Sound(list[i])
  BY <1>2 DEF IsSound
<1>5. /\ Len(Statements(m)) \in Nat /\ Len(Statements(m)) > 0
      /\ Len(m.tx) <= Len(Statements(m))
  <2> DEFINE a == Len(m.tx)
             b == Len(m.auto)
             n1 == Len(list)
  <2>1. Len(Statements(m)) = n1
    BY <1>3
  <2>2. a \in Nat /\ b \in Nat /\ n1 = a + b /\ a + b > 0
    BY <1>2
  <2> HIDE DEF a, b, n1
  <2>3. n1 \in Nat /\ n1 > 0 /\ a <= n1
    BY <2>2
  <2> QED
    BY <2>1, <2>3 DEF a
<1>6. \A i \in 1 .. Len(Statements(m)) : Sound(Statements(m)[i])
  BY <1>3, <1>4
<1> QED
  BY <1>2, <1>5, <1>6 DEF m

-----------------------------------------------------------------------------
(* The invariant *)

LEMMA InitInv == Init => OpenInv
<1> SUFFICES ASSUME Init PROVE OpenInv
  OBVIOUS
<1>1. release \in 1 .. Latest
  BY ReleasesAssumption DEF Init
<1>2. Types
  <2>1. applied \in 0 .. release /\ cur \in 0 .. release /\ torn \in {0, applied + 1} /\ at \in Nat
    BY <1>1, LatestIsNatural DEF Init
  <2>2. phase \in Phases /\ damage \in Damages /\ wal \in BOOLEAN /\ why = "none"
    BY DEF Init, Phases, Damages
  <2>3. boot \in [unclean : BOOLEAN, checked : BOOLEAN]
    BY DEF Init
  <2> QED
    BY <1>1, <2>1, <2>2, <2>3 DEF Types
<1>3. IsDatabase(disk) /\ IsDatabase(work)
  BY EmptyIsDatabase DEF Init
<1>4. Progress
  BY DEF Init, Progress
<1> QED
  BY <1>2, <1>3, <1>4 DEF OpenInv

\* The three ways out that many actions share.
LEMMA DeleteInv ==
    ASSUME OpenInv, DeleteDatabase, UNCHANGED release, phase' \in {"opening", "checkpoint"},
           UNCHANGED why
    PROVE  OpenInv'
<1>1. Types'
  <2>1. release' \in 1 .. Latest
    BY DEF OpenInv, Types
  <2>2. applied' \in 0 .. release' /\ cur' \in 0 .. release' /\ torn' \in {0, applied' + 1} /\ at' \in Nat
    BY <2>1, LatestIsNatural DEF DeleteDatabase
  <2>3. phase' \in Phases /\ damage' \in Damages /\ wal' \in BOOLEAN
    BY DEF DeleteDatabase, Phases, Damages
  <2>4. boot' \in [unclean : BOOLEAN, checked : BOOLEAN]
    BY DEF OpenInv, Types, DeleteDatabase
  <2> QED
    BY <2>1, <2>2, <2>3, <2>4 DEF OpenInv, Types
<1>2. IsDatabase(disk)' /\ IsDatabase(work)'
  BY EmptyIsDatabase DEF DeleteDatabase, IsDatabase
<1>3. Progress'
  BY DEF DeleteDatabase, Progress
<1> QED
  BY <1>1, <1>2, <1>3 DEF OpenInv

LEMMA RefuseInv ==
    ASSUME OpenInv, NEW reason \in {"statement", "fault", "header"}, Refuse(reason),
           UNCHANGED release
    PROVE  OpenInv'
<1>1. Types'
  BY DEF OpenInv, Types, Refuse, Phases
<1>2. IsDatabase(disk)' /\ IsDatabase(work)'
  BY DEF OpenInv, Refuse, IsDatabase, HasColumns
<1>3. Progress'
  BY DEF Refuse, Progress
<1> QED
  BY <1>1, <1>2, <1>3 DEF OpenInv

LEMMA DatabasesKept ==
    ASSUME OpenInv, UNCHANGED <<disk, work>>
    PROVE  IsDatabase(disk)' /\ IsDatabase(work)'
BY DEF OpenInv, IsDatabase, HasColumns

\* Steps between the phases that touch neither the database nor the version.
LEMMA KeepInv ==
    ASSUME OpenInv, Keep, Types',
           phase \notin {"stepping", "committing", "recording"},
           phase' \notin {"stepping", "committing", "recording"}
    PROVE  OpenInv'
<1>1. IsDatabase(disk)' /\ IsDatabase(work)'
  BY DatabasesKept DEF Keep
<1>2. Progress'
  BY DEF OpenInv, Keep, Progress
<1> QED
  BY <1>1, <1>2 DEF OpenInv

LEMMA StartInv == ASSUME OpenInv, Start PROVE OpenInv'
<1>1. Types'
  BY DEF OpenInv, Types, Start, Keep, Phases
<1> QED
  BY <1>1, KeepInv DEF Start

LEMMA ProbeInv == ASSUME OpenInv, Probe PROVE OpenInv'
<1>1. CASE damage \in {"none", "page"} /\ phase' = "checkpoint" /\ Keep /\ UNCHANGED <<wal, damage, boot, why>>
  <2>1. Types'
    BY <1>1 DEF OpenInv, Types, Probe, Keep, Phases
  <2> QED
    BY <1>1, <2>1, KeepInv DEF Probe
<1>2. CASE DeleteDatabase /\ phase' \in {"opening", "checkpoint"} /\ UNCHANGED why
  BY <1>2, DeleteInv DEF Probe
<1>3. CASE Refuse("header")
  BY <1>3, RefuseInv DEF Probe
<1> QED
  BY <1>1, <1>2, <1>3 DEF Probe

LEMMA CheckpointInv ==
    ASSUME OpenInv, CheckpointTruncates \/ CheckpointBusy \/ CheckpointFails
    PROVE  OpenInv'
<1>1. CASE CheckpointTruncates
  <2>1. Types'
    BY <1>1 DEF OpenInv, Types, CheckpointTruncates, Keep, Phases
  <2> QED
    BY <1>1, <2>1, KeepInv DEF CheckpointTruncates
<1>2. CASE CheckpointBusy /\ damage = "page"
  BY <1>2, DeleteInv DEF CheckpointBusy
<1>3. CASE CheckpointBusy /\ damage # "page"
  <2>1. Types'
    BY <1>3 DEF OpenInv, Types, CheckpointBusy, Keep, Phases
  <2> QED
    BY <1>3, <2>1, KeepInv DEF CheckpointBusy
<1>4. CASE CheckpointFails
  <2>1. Types'
    BY <1>4 DEF OpenInv, Types, CheckpointFails, Keep, Phases
  <2> QED
    BY <1>4, <2>1, KeepInv DEF CheckpointFails
<1> QED
  BY <1>1, <1>2, <1>3, <1>4

-----------------------------------------------------------------------------
(* The loop of ensureSchemaVersion *)

LEMMA NextMigrationInv == ASSUME OpenInv, NextMigration PROVE OpenInv'
<1>1. CASE applied < release
  <2>1. cur' = applied + 1 /\ cur' \in 1 .. Latest /\ phase' = "stepping" /\ at' = 0
    BY <1>1, LatestIsNatural DEF OpenInv, Types, NextMigration
  <2>2. cur' \in 0 .. release'
    BY <1>1, <2>1 DEF OpenInv, Types, NextMigration
  <2>3. Types'
    BY <2>1, <2>2 DEF OpenInv, Types, NextMigration, Phases
  <2>4. 0 < Len(Statements(migrations[cur']))
    BY <2>1, MigrationShape
  <2>5. Progress'
    BY <2>1, <2>4 DEF OpenInv, Progress, NextMigration, Migration
  <2> QED
    BY <2>3, <2>5, DatabasesKept DEF OpenInv, NextMigration
<1>2. CASE ~(applied < release)
  <2>1. Types'
    BY <1>2 DEF OpenInv, Types, NextMigration, Phases
  <2>2. Progress'
    BY <1>2 DEF OpenInv, Progress, NextMigration
  <2> QED
    BY <2>1, <2>2, DatabasesKept DEF OpenInv, NextMigration
<1> QED
  BY <1>1, <1>2

\* The migration under way is one of the list.
LEMMA UnderWay ==
    ASSUME OpenInv, phase \in {"stepping", "committing", "recording"}
    PROVE  cur = applied + 1 /\ cur \in 1 .. Latest /\ cur <= release
BY LatestIsNatural DEF OpenInv, Types, Progress

LEMMA StatementInv == ASSUME OpenInv, Statement PROVE OpenInv'
<1> DEFINE list == Statements(Migration)
           s == list[at + 1]
<1>1. CASE Refused(work, s)
  BY <1>1, RefuseInv DEF Statement
<1>2. CASE ~Refused(work, s)
  <2>1. /\ phase = "stepping" /\ at \in Nat /\ at < Len(list)
        /\ cur = applied + 1 /\ cur \in 1 .. Latest
    BY UnderWay DEF Statement, OpenInv, Types, Progress
  <2>2. /\ Len(Migration.tx) \in Nat /\ Len(list) \in Nat
        /\ Len(Migration.tx) <= Len(list)
        /\ \A i \in 1 .. Len(list) : Sound(list[i])
    BY <2>1, MigrationShape DEF Migration
  <2>3. Sound(s)
    BY <2>1, <2>2
  <2>4. /\ work' = After(work, s) /\ at' = at + 1 /\ phase' = PhaseAfter(at + 1)
        /\ IF at < Len(Migration.tx) THEN UNCHANGED <<disk, torn, wal>>
           ELSE disk' = work' /\ torn' = cur /\ wal' = TRUE
        /\ UNCHANGED <<release, applied, cur, damage, boot, why, owed>>
    BY <1>2 DEF Statement
  <2>5. IsDatabase(work')
    BY <1>2, <2>3, <2>4, StatementKeeps DEF OpenInv
  <2>6. IsDatabase(disk')
    BY <2>4, <2>5 DEF OpenInv
  <2>7. phase' = IF at + 1 = Len(Migration.tx) /\ at + 1 > 0 THEN "committing"
                 ELSE IF at + 1 = Len(list) THEN "recording" ELSE "stepping"
    BY <2>4 DEF PhaseAfter
  <2> HIDE DEF list, s
  <2>8. Types'
    <3>1. phase' \in Phases
      BY <2>7 DEF Phases
    <3>2. torn' \in {0, applied' + 1} /\ wal' \in BOOLEAN
      BY <2>1, <2>4 DEF OpenInv, Types
    <3>3. at' \in Nat
      BY <2>1, <2>4
    <3> QED
      BY <2>4, <3>1, <3>2, <3>3 DEF OpenInv, Types
  <2>9. Migration' = Migration /\ Statements(Migration)' = list
    BY <2>4 DEF Migration, list
  <2>10. Progress'
    <3>1. phase' = "stepping" => at' < Len(list)
      BY <2>1, <2>2, <2>4, <2>7
    <3>2. phase' = "committing" => at' = Len(Migration.tx)
      BY <2>4, <2>7
    <3>3. phase' = "recording" => at' = Len(list) /\ ~(at < Len(Migration.tx))
      BY <2>1, <2>2, <2>4, <2>7
    <3>4. work' # disk' => \/ phase' = "stepping" /\ at' < Len(Migration.tx)
                           \/ phase' = "committing"
      BY <2>1, <2>2, <2>4, <2>7
    <3> QED
      BY <2>1, <2>4, <2>9, <3>1, <3>2, <3>3, <3>4 DEF Progress
  <2> QED
    BY <2>5, <2>6, <2>8, <2>10 DEF OpenInv, IsDatabase, HasColumns
<1> QED
  BY <1>1, <1>2

LEMMA CommitInv == ASSUME OpenInv, Commit PROVE OpenInv'
<1>1. /\ cur = applied + 1 /\ cur \in 1 .. Latest /\ at = Len(Migration.tx)
  BY UnderWay DEF OpenInv, Progress, Commit
<1>2. Len(Migration.tx) \in Nat /\ Len(Statements(Migration)) \in Nat
      /\ Len(Migration.tx) <= Len(Statements(Migration))
  BY <1>1, MigrationShape DEF Migration
<1>3. Types'
  BY <1>1 DEF OpenInv, Types, Commit, Phases
<1>4. IsDatabase(disk)' /\ IsDatabase(work)'
  BY DEF OpenInv, Commit, IsDatabase, HasColumns
<1>5. Migration' = Migration
  BY DEF Migration, Commit
<1>6. Progress'
  BY <1>1, <1>2, <1>5 DEF Progress, Commit
<1> QED
  BY <1>3, <1>4, <1>6 DEF OpenInv

LEMMA RecordInv == ASSUME OpenInv, Record PROVE OpenInv'
<1>1. cur = applied + 1 /\ cur <= release
  BY UnderWay DEF Record
<1>2. Types'
  BY <1>1 DEF OpenInv, Types, Record, Phases
<1>3. Progress'
  BY DEF OpenInv, Progress, Record
<1> QED
  BY <1>2, <1>3, DatabasesKept DEF OpenInv, Record

LEMMA AccessFailsInv == ASSUME OpenInv, AccessFails PROVE OpenInv'
BY RefuseInv, DeleteInv DEF AccessFails

-----------------------------------------------------------------------------
(* The process around New *)

\* Every table holds rows from then on; nothing else changes but for twins.
LEMMA ServeEffect ==
    ASSUME OpenInv, Serve
    PROVE  /\ IsDatabase(work') /\ disk' = work'
           /\ work'.tables = work.tables /\ work'.indexes = work.indexes
           /\ work'.ranks = work.ranks /\ work'.rows = DOMAIN work.tables
<1>1. PICK twins \in SUBSET (Twinned \cap DOMAIN work.tables) :
          work' = [work EXCEPT !.rows = DOMAIN work.tables, !.twins = twins]
  BY DEF Serve
<1>2. IsDatabase(work) /\ disk' = work'
  BY DEF OpenInv, Serve
<1> QED
  BY <1>1, <1>2 DEF IsDatabase, HasColumns

LEMMA ServeInv == ASSUME OpenInv, Serve PROVE OpenInv'
<1>1. Types'
  BY DEF OpenInv, Types, Serve
<1>2. IsDatabase(work')
  BY ServeEffect
<1>3. disk' = work'
  BY ServeEffect
<1>4. Progress'
  BY <1>3 DEF Progress, Serve
<1>5. IsDatabase(disk')
  BY <1>2, <1>3
<1> QED
  BY <1>1, <1>2, <1>4, <1>5 DEF OpenInv, IsDatabase, HasColumns

LEMMA EndInv == ASSUME OpenInv, Close \/ ExitOnCorruption PROVE OpenInv'
<1>1. Types'
  BY DEF OpenInv, Types, Close, ExitOnCorruption, Keep, Phases
<1> QED
  BY <1>1, KeepInv DEF Close, ExitOnCorruption

LEMMA UpgradeInv == ASSUME OpenInv, Upgrade PROVE OpenInv'
<1>1. Types'
  BY LatestIsNatural DEF OpenInv, Types, Upgrade, Keep
<1> QED
  BY <1>1, KeepInv DEF Upgrade

LEMMA CrashInv == ASSUME OpenInv, Crash PROVE OpenInv'
<1>1. Types'
  <2>1. damage' \in Damages
    BY DEF OpenInv, Types, Crash
  <2> QED
    BY <2>1 DEF OpenInv, Types, Crash, Phases
<1>2. IsDatabase(disk)' /\ IsDatabase(work)'
  BY DEF OpenInv, Crash, IsDatabase, HasColumns
<1>3. Progress'
  BY DEF Progress, Crash
<1> QED
  BY <1>1, <1>2, <1>3 DEF OpenInv

-----------------------------------------------------------------------------
(* The theorems *)

LEMMA NextInv == OpenInv /\ [Next]_vars => OpenInv'
<1> SUFFICES ASSUME OpenInv, [Next]_vars PROVE OpenInv'
  OBVIOUS
<1>1. CASE Start \/ Probe \/ CheckpointTruncates \/ CheckpointBusy \/ CheckpointFails
  BY <1>1, StartInv, ProbeInv, CheckpointInv
<1>2. CASE NextMigration \/ Statement \/ Commit \/ Record \/ AccessFails
  BY <1>2, NextMigrationInv, StatementInv, CommitInv, RecordInv, AccessFailsInv
<1>3. CASE Serve \/ Close \/ ExitOnCorruption \/ Upgrade \/ Crash
  BY <1>3, ServeInv, EndInv, UpgradeInv, CrashInv
<1>4. CASE UNCHANGED vars
  <2>1. Types' /\ Progress'
    BY <1>4 DEF OpenInv, Types, Progress, Migration, vars
  <2> QED
    BY <1>4, <2>1, DatabasesKept DEF OpenInv, vars
<1> QED
  BY <1>1, <1>2, <1>3, <1>4 DEF Next

LEMMA Invariant == Spec => []OpenInv
<1> QED
  BY InitInv, NextInv, PTL DEF Spec

\* Whatever release a database comes from and however often its migrations are
\* cut short, repeated or undone by a deletion, an index always lies on columns
\* of a table that exists, only tables hold rows, the lookup table names only
\* statuses, and what is on disk without being recorded is at most the next
\* migration (ensureSchemaVersion in migrations.go).
THEOREM SchemaIsSchema == Spec => []TypeOK
<1>1. OpenInv => TypeOK
  BY DEF OpenInv, Types, IsDatabase, TypeOK
<1> QED
  BY <1>1, Invariant, PTL

\* A version is recorded only when every statement of its migration has been
\* executed by this run of the loop and is on disk, and never skips one: what
\* schema_migrations says is always true (migrations.go:300-321).
VersionsAreEarned ==
    [][applied' > applied => /\ applied' = applied + 1
                             /\ at = Len(Statements(migrations[applied']))
                             /\ disk' = work]_vars

THEOREM RecordsAreTrue == Spec => VersionsAreEarned
<1> DEFINE Earned == applied' > applied => /\ applied' = applied + 1
                                           /\ at = Len(Statements(migrations[applied']))
                                           /\ disk' = work
<1>1. ASSUME OpenInv, [Next]_vars PROVE [Earned]_vars
  <2>1. CASE Record
    <3>1. /\ cur = applied + 1 /\ at = Len(Statements(migrations[cur])) /\ work = disk
          /\ applied' = cur /\ disk' = disk
      BY <1>1, <2>1 DEF Record, OpenInv, Progress, Migration
    <3> QED
      BY <3>1
  <2>2. CASE DeleteDatabase
    BY <1>1, <2>2 DEF OpenInv, Types, DeleteDatabase
  <2>3. CASE UNCHANGED applied
    BY <1>1, <2>3 DEF OpenInv, Types
  <2>4. CASE Next
    BY <2>1, <2>2, <2>3, <2>4
       DEF Next, Start, Probe, CheckpointTruncates, CheckpointBusy, CheckpointFails, Keep, Refuse,
           NextMigration, Statement, Commit, AccessFails, Serve, Close, ExitOnCorruption, Upgrade,
           Crash
  <2> QED
    BY <1>1, <2>4
<1> QED
  BY <1>1, Invariant, PTL DEF Spec, VersionsAreEarned

-----------------------------------------------------------------------------
(* The lookup table of scan statuses *)

LEMMA LatestIs51 == Latest = 51
BY DEF Latest, migrations

\* No statement removes a status.
LEMMA RanksGrow ==
    ASSUME NEW db, IsDatabase(db), NEW s, Sound(s), ~Refused(db, s)
    PROVE  DOMAIN db.ranks \subseteq DOMAIN After(db, s).ranks
<1> USE DEF IsDatabase
<1>1. CASE s.op = "create"
  BY <1>1 DEF After
<1>2. CASE s.op = "drop"
  BY <1>2 DEF After, DropFrom
<1>3. CASE s.op = "rename"
  BY <1>3 DEF After, RenameIn
<1>4. CASE s.op = "add"
  BY <1>4 DEF After
<1>5. CASE s.op = "index"
  BY <1>5 DEF After
<1>6. CASE s.op \in {"unindex", "use", "clear", "copy", "reparse"}
  BY <1>6 DEF After
<1>7. CASE s.op = "seed"
  BY <1>7 DEF After, Merge
<1>8. CASE s.op = "rank"
  BY <1>8 DEF After
<1> QED
  BY <1>1, <1>2, <1>3, <1>4, <1>5, <1>6, <1>7, <1>8 DEF Sound, Operations

\* The one statement of V1 that lists the statuses is its eighth and last.
LEMMA FirstListed ==
    ASSUME NEW db, IsDatabase(db)
    PROVE  /\ Len(Statements(migrations[1])) = 8
           /\ Listed(After(db, Statements(migrations[1])[8]))
<1> DEFINE s == Seed(FirstRanks)
<1>1. migrations[1] = V1
  BY DEF migrations
<1>2. Len(Statements(V1)) = 8 /\ Statements(V1)[8] = s
  BY DEF V1, OneByOne, Statements
<1>3. s.op = "seed" /\ s.ranks = FirstRanks
  BY DEF Seed
<1> HIDE DEF s
<1>4. After(db, s) = [db EXCEPT !.ranks = Merge(@, FirstRanks)]
  BY <1>3 DEF After
<1>5. Listed(After(db, s))
  BY <1>4 DEF Listed, IsDatabase, Merge
<1> QED
  BY <1>1, <1>2, <1>5

\* Each statement of V51 does its part and leaves what the earlier have done.
LEMMA LastRanked ==
    ASSUME NEW db, IsDatabase(db), Listed(db), NEW k \in 0 .. 7, Ranked(db, k)
    PROVE  /\ Len(Statements(migrations[51])) = 8
           /\ Ranked(After(db, Statements(migrations[51])[k + 1]), k + 1)
<1> DEFINE s == Statements(V51)[k + 1]
           new == After(db, s)
<1>1. migrations[51] = V51
  BY DEF migrations
<1>2. /\ Len(Statements(V51)) = 8
      /\ Statements(V51)[1] = SeedIfAbsent([sbom_failed |-> 5])
      /\ Statements(V51)[2] = Rank("completed", 1)
      /\ Statements(V51)[3] = Rank("scanning_vulnerabilities", 2)
      /\ Statements(V51)[4] = Rank("generating_sbom", 3)
      /\ Statements(V51)[5] = Rank("pending", 4)
      /\ Statements(V51)[6] = Rank("sbom_failed", 5)
      /\ Statements(V51)[7] = Rank("sbom_unavailable", 6)
      /\ Statements(V51)[8] = Rank("vuln_scan_failed", 7)
  BY DEF V51, OneByOne, Statements
<1>3. CASE k = 0
  <2>1. s.op = "seed" /\ s.ranks = [sbom_failed |-> 5]
    BY <1>2, <1>3 DEF SeedIfAbsent
  <2>2. new = [db EXCEPT !.ranks = Merge(@, [sbom_failed |-> 5])]
    BY <2>1 DEF After
  <2>3. "sbom_failed" \in DOMAIN new.ranks
    BY <2>2 DEF IsDatabase, Merge
  <2> QED
    BY <1>1, <1>2, <1>3, <2>3 DEF Ranked
<1>4. CASE k # 0
  <2>1. /\ s.op = "rank"
        /\ k = 2 => s.status = "scanning_vulnerabilities" /\ s.order = 2
        /\ k = 3 => s.status = "generating_sbom" /\ s.order = 3
        /\ k = 4 => s.status = "pending" /\ s.order = 4
        /\ k > 2 => s.status # "scanning_vulnerabilities"
        /\ k > 3 => s.status # "generating_sbom"
        /\ k > 4 => s.status # "pending"
    BY <1>2, <1>4 DEF Rank
  <2> HIDE DEF s
  <2>3. new = [db EXCEPT !.ranks = [y \in DOMAIN @ |-> IF y = s.status THEN s.order ELSE @[y]]]
    BY <2>1 DEF After
  <2>4. new.ranks = [y \in DOMAIN db.ranks |-> IF y = s.status THEN s.order ELSE db.ranks[y]]
    BY <2>3 DEF IsDatabase
  <2>5. {"scanning_vulnerabilities", "generating_sbom", "pending"} \subseteq DOMAIN db.ranks
    BY DEF Listed, FirstRanks
  <2> HIDE DEF new
  <2>6. Ranked(new, k + 1)
    BY <1>4, <2>1, <2>4, <2>5 DEF Ranked
  <2> QED
    BY <1>1, <1>2, <2>6 DEF s, new
<1> QED
  BY <1>3, <1>4

\* A step that leaves the databases and what is recorded alone.
LEMMA RanksSame ==
    ASSUME RanksInv, UNCHANGED <<disk, work, applied>>, UNCHANGED <<cur, at>> \/ at' = 0,
           phase' = "up" => applied' = release'
    PROVE  RanksInv'
BY DEF RanksInv, Listed, Ranked

\* One that loses what is not on disk.
LEMMA RanksLost ==
    ASSUME RanksInv, UNCHANGED <<disk, applied>>, work' = disk, cur' = 0, phase' # "up"
    PROVE  RanksInv'
BY DEF RanksInv, Listed, Ranked

LEMMA RanksDeleted == ASSUME RanksInv, DeleteDatabase, phase' # "up" PROVE RanksInv'
BY DEF RanksInv, DeleteDatabase

LEMMA RanksRefused == ASSUME RanksInv, NEW reason, Refuse(reason) PROVE RanksInv'
BY RanksLost DEF Refuse

LEMMA RanksStatement == ASSUME OpenInv, RanksInv, Statement PROVE RanksInv'
<1> DEFINE list == Statements(Migration)
           s == list[at + 1]
<1>1. CASE Refused(work, s)
  BY <1>1, RanksRefused DEF Statement
<1>2. CASE ~Refused(work, s)
  <2>1. /\ phase = "stepping" /\ at \in Nat /\ at < Len(list)
        /\ cur = applied + 1 /\ cur \in 1 .. 51 /\ applied \in Nat
    BY UnderWay, LatestIs51, SMTT(30) DEF Statement, OpenInv, Types, Progress
  <2>2. Len(list) \in Nat /\ \A i \in 1 .. Len(list) : Sound(list[i])
    BY <2>1, MigrationShape, LatestIs51 DEF Migration
  <2>3. Sound(s)
    BY <2>1, <2>2
  <2>4. /\ work' = After(work, s) /\ at' = at + 1 /\ phase' = PhaseAfter(at + 1)
        /\ disk' = disk \/ disk' = work'
        /\ UNCHANGED <<release, applied, cur>>
    BY <1>2 DEF Statement
  <2>5. IsDatabase(work) /\ DOMAIN work.ranks \subseteq DOMAIN work'.ranks
    BY <1>2, <2>3, <2>4, RanksGrow DEF OpenInv
  <2>6. phase' # "up"
    BY <2>4 DEF PhaseAfter
  <2>7. applied' >= 1 => Listed(disk') /\ Listed(work')
    BY <2>4, <2>5 DEF RanksInv, Listed
  <2>8. cur' = 1 /\ at' = 8 => Listed(work')
    <3>1. SUFFICES ASSUME cur' = 1, at' = 8 PROVE Listed(work')
      OBVIOUS
    <3>2. at = 7 /\ cur = 1
      BY <2>1, <2>4, <3>1
    <3>3. s = Statements(migrations[1])[8]
      BY <3>2 DEF Migration
    <3> QED
      BY <2>4, <2>5, <3>3, FirstListed
  <2>9. cur' = 51 => Ranked(work', at')
    <3>1. SUFFICES ASSUME cur' = 51 PROVE Ranked(work', at')
      OBVIOUS
    <3>2. cur = 51 /\ Listed(work) /\ Ranked(work, at)
      BY <2>1, <2>4, <3>1 DEF RanksInv
    <3>3. Ranked(work, 0)
      BY DEF Ranked
    <3>4. Len(list) = 8
      BY <2>5, <3>2, <3>3, LastRanked DEF Migration
    <3>5. at \in 0 .. 7
      BY <2>1, <3>4
    <3>6. Ranked(After(work, Statements(migrations[51])[at + 1]), at + 1)
      BY <2>5, <3>2, <3>5, LastRanked
    <3> QED
      BY <2>4, <3>2, <3>6 DEF Migration
  <2>10. applied' # 51
    BY <2>1, <2>4
  <2> HIDE DEF s, list
  <2> QED
    BY <2>6, <2>7, <2>8, <2>9, <2>10 DEF RanksInv
<1> QED
  BY <1>1, <1>2

LEMMA RanksCommit == ASSUME OpenInv, RanksInv, Commit PROVE RanksInv'
<1>1. phase' # "up" /\ work' = work /\ disk' = work /\ UNCHANGED <<applied, cur, at>>
  BY DEF Commit
<1> QED
  BY <1>1 DEF RanksInv, Listed, Ranked

LEMMA RanksRecord == ASSUME OpenInv, RanksInv, Record PROVE RanksInv'
<1>1. /\ applied' = cur /\ phase' = "migrating" /\ disk = work
      /\ UNCHANGED <<disk, work, cur, at>>
      /\ at = Len(Statements(migrations[cur]))
  BY DEF Record, OpenInv, Progress, Migration
<1>2. cur = applied + 1 /\ cur \in 1 .. 51 /\ applied \in Nat
  BY UnderWay, LatestIs51 DEF Record, OpenInv, Types
<1>3. IsDatabase(work)
  BY DEF OpenInv
<1>4. Listed(work)
  <2>1. CASE cur = 1
    BY <1>1, <1>3, <2>1, FirstListed DEF RanksInv
  <2>2. CASE cur # 1
    BY <1>2, <2>2 DEF RanksInv
  <2> QED
    BY <2>1, <2>2
<1>5. cur = 51 => Ranked(work, 8)
  <2>1. SUFFICES ASSUME cur = 51 PROVE Ranked(work, 8)
    OBVIOUS
  <2>2. Ranked(work, 0) /\ 0 \in 0 .. 7
    BY DEF Ranked
  <2>3. at = 8
    BY <1>1, <1>3, <1>4, <2>1, <2>2, LastRanked
  <2> QED
    BY <2>1, <2>3 DEF RanksInv
<1>6. Listed(work)' /\ Listed(disk)'
  BY <1>1, <1>4 DEF Listed
<1>7. (cur = 51 => Ranked(work, at))' /\ (applied = 51 => Ranked(disk, 8) /\ Ranked(work, 8))'
  BY <1>1, <1>5 DEF RanksInv, Ranked
<1> QED
  BY <1>1, <1>6, <1>7 DEF RanksInv

LEMMA RanksNext == OpenInv /\ RanksInv /\ [Next]_vars => RanksInv'
<1> SUFFICES ASSUME OpenInv, RanksInv, [Next]_vars PROVE RanksInv'
  OBVIOUS
<1>1. CASE Start \/ CheckpointTruncates \/ CheckpointFails
  BY <1>1, RanksSame DEF Start, CheckpointTruncates, CheckpointFails, Keep
<1>2. CASE Probe
  BY <1>2, RanksSame, RanksDeleted, RanksRefused DEF Probe, Keep
<1>3. CASE CheckpointBusy
  BY <1>3, RanksSame, RanksDeleted DEF CheckpointBusy, Keep
<1>4. CASE NextMigration
  <2>1. phase' = "up" => applied' = release'
    BY <1>4 DEF NextMigration, OpenInv, Types
  <2> QED
    BY <1>4, <2>1, RanksSame DEF NextMigration
<1>5. CASE AccessFails
  BY <1>5, RanksDeleted, RanksRefused DEF AccessFails
<1>6. CASE Serve
  <2>1. /\ work'.ranks = work.ranks /\ disk' = work'
        /\ UNCHANGED <<release, phase, applied, cur, at>>
    BY <1>6, ServeEffect DEF Serve
  <2> QED
    BY <2>1 DEF RanksInv, Listed, Ranked
<1>7. CASE Close \/ ExitOnCorruption \/ Upgrade
  <2>1. phase' # "up"
    BY <1>7 DEF Close, ExitOnCorruption, Upgrade
  <2> QED
    BY <1>7, <2>1, RanksSame DEF Close, ExitOnCorruption, Upgrade, Keep
<1>8. CASE Crash
  BY <1>8, RanksLost DEF Crash
<1>9. CASE UNCHANGED vars
  BY <1>9 DEF RanksInv, Listed, Ranked, vars
<1> QED
  BY <1>1, <1>2, <1>3, <1>4, <1>5, <1>6, <1>7, <1>8, <1>9, RanksStatement, RanksCommit,
     RanksRecord DEF Next

\* Whatever release a database comes from and however its migrations were
\* interrupted, once the current release serves, every scan status has its row in
\* the lookup table, and a scan under way comes before one that waits
\* (migrateToV1 and migrateToV51; the image listing joins scan_status).
THEOREM StatusesAlwaysListed == Spec => [](phase = "up" /\ release = Latest => StatusesServe)
<1>1. Init => RanksInv
  BY DEF Init, RanksInv
<1>2. OpenInv /\ RanksInv => (phase = "up" /\ release = Latest => StatusesServe)
  <2>1. SUFFICES ASSUME OpenInv, RanksInv, phase = "up", release = Latest
                 PROVE  StatusesServe
    OBVIOUS
  <2>2. applied = 51 /\ Listed(work) /\ Ranked(work, 8)
    BY <2>1, LatestIs51 DEF RanksInv
  <2>3. DOMAIN work.ranks \subseteq Status
    BY <2>1 DEF OpenInv, IsDatabase
  <2>4. /\ "sbom_failed" \in DOMAIN work.ranks
        /\ work.ranks["scanning_vulnerabilities"] = 2
        /\ work.ranks["generating_sbom"] = 3 /\ work.ranks["pending"] = 4
    BY <2>2 DEF Ranked
  <2>5. Status \subseteq DOMAIN work.ranks
    BY <2>2, <2>4 DEF Listed, FirstRanks, Status
  <2> QED
    BY <2>3, <2>4, <2>5 DEF StatusesServe, Transient
<1> QED
  BY <1>1, <1>2, RanksNext, Invariant, PTL DEF Spec

-----------------------------------------------------------------------------
(* What a statement does to the tables *)

\* Most statements change no table and no column.
LEMMA QuietEffect ==
    ASSUME NEW db, IsDatabase(db), NEW s, s.op \in Quiet
    PROVE  After(db, s).tables = db.tables
<1> USE DEF IsDatabase
<1>1. CASE s.op = "index"
  BY <1>1 DEF After
<1>2. CASE s.op \in {"unindex", "use", "clear", "copy", "reparse"}
  BY <1>2 DEF After
<1>3. CASE s.op \in {"seed", "rank"}
  BY <1>3 DEF After
<1> QED
  BY <1>1, <1>2, <1>3 DEF Quiet

LEMMA CreateEffect ==
    ASSUME NEW db, IsDatabase(db), NEW t, NEW cols, ~Refused(db, Create(t, cols))
    PROVE  /\ No(db, t)
           /\ Is(After(db, Create(t, cols)), t, cols)
           /\ \A u : u # t => Same(db, After(db, Create(t, cols)), u)
<1> DEFINE s == Create(t, cols)
           new == [db EXCEPT !.tables = With(@, t, cols)]
<1>1. s.op = "create" /\ s.table = t /\ s.columns = cols /\ s.lenient = FALSE
  BY DEF Create
<1> HIDE DEF s
<1>2. t \notin DOMAIN db.tables
  BY <1>1 DEF Refused, s
<1>3. After(db, s) = new
  BY <1>1, <1>2 DEF After
<1>4. new.tables = With(db.tables, t, cols)
  BY DEF IsDatabase
<1> HIDE DEF new
<1>5. /\ DOMAIN new.tables = DOMAIN db.tables \cup {t}
      /\ new.tables[t] = cols
      /\ \A u \in DOMAIN db.tables : new.tables[u] = db.tables[u]
  BY <1>2, <1>4 DEF With, Merge
<1> QED
  BY <1>2, <1>3, <1>5 DEF No, Is, Same, s

LEMMA CreateIfAbsentEffect ==
    ASSUME NEW db, IsDatabase(db), NEW t, NEW cols
    PROVE  LET new == After(db, CreateIfAbsent(t, cols))
           IN  /\ t \in DOMAIN db.tables => new = db
               /\ No(db, t) => Is(new, t, cols)
               /\ \A u : u # t => Same(db, new, u)
<1> DEFINE s == CreateIfAbsent(t, cols)
<1>1. s.op = "create" /\ s.table = t /\ s.columns = cols
  BY DEF CreateIfAbsent
<1> HIDE DEF s
<1>2. CASE t \in DOMAIN db.tables
  BY <1>1, <1>2 DEF After, No, Same, s
<1>3. CASE t \notin DOMAIN db.tables
  <2> DEFINE new == [db EXCEPT !.tables = With(@, t, cols)]
  <2>1. After(db, s) = new
    BY <1>1, <1>3 DEF After
  <2>2. new.tables = With(db.tables, t, cols)
    BY DEF IsDatabase
  <2> HIDE DEF new
  <2>3. /\ DOMAIN new.tables = DOMAIN db.tables \cup {t}
        /\ new.tables[t] = cols
        /\ \A u \in DOMAIN db.tables : new.tables[u] = db.tables[u]
    BY <1>3, <2>2 DEF With, Merge
  <2> QED
    BY <1>3, <2>1, <2>3 DEF Is, Same, s
<1> QED
  BY <1>2, <1>3

LEMMA DropEffect ==
    ASSUME NEW db, IsDatabase(db), NEW s, s.op = "drop"
    PROVE  /\ No(After(db, s), s.table)
           /\ \A u : u # s.table => Same(db, After(db, s), u)
<1> DEFINE new == DropFrom(db, s.table)
<1>1. After(db, s) = new
  BY DEF After
<1>2. new.tables = Keys(db.tables, DOMAIN db.tables \ {s.table})
  BY DEF IsDatabase, DropFrom
<1> HIDE DEF new
<1>3. /\ DOMAIN new.tables = DOMAIN db.tables \ {s.table}
      /\ \A u \in DOMAIN new.tables : new.tables[u] = db.tables[u]
  BY <1>2 DEF Keys
<1> QED
  BY <1>1, <1>3 DEF No, Same

LEMMA DropTableEffect ==
    ASSUME NEW db, IsDatabase(db), NEW t
    PROVE  /\ No(After(db, DropTable(t)), t)
           /\ \A u : u # t => Same(db, After(db, DropTable(t)), u)
<1>1. DropTable(t).op = "drop" /\ DropTable(t).table = t
  BY DEF DropTable
<1> QED
  BY <1>1, DropEffect

LEMMA DropIfPresentEffect ==
    ASSUME NEW db, IsDatabase(db), NEW t
    PROVE  /\ No(After(db, DropIfPresent(t)), t)
           /\ \A u : u # t => Same(db, After(db, DropIfPresent(t)), u)
<1>1. DropIfPresent(t).op = "drop" /\ DropIfPresent(t).table = t
  BY DEF DropIfPresent
<1> QED
  BY <1>1, DropEffect

LEMMA RenameEffect ==
    ASSUME NEW db, IsDatabase(db), NEW t, NEW to, ~Refused(db, Rename(t, to))
    PROVE  LET new == After(db, Rename(t, to))
           IN  /\ t \in DOMAIN db.tables /\ No(db, to)
               /\ No(new, t) /\ Is(new, to, db.tables[t])
               /\ \A u : u # t /\ u # to => Same(db, new, u)
<1> DEFINE s == Rename(t, to)
           new == RenameIn(db, t, to)
<1>1. s.op = "rename" /\ s.table = t /\ s.to = to
  BY DEF Rename
<1> HIDE DEF s
<1>2. t \in DOMAIN db.tables /\ to \notin DOMAIN db.tables
  BY <1>1 DEF Refused, s
<1>3. After(db, s) = new
  BY <1>1 DEF After
<1>4. new.tables = With(Keys(db.tables, DOMAIN db.tables \ {t}), to, db.tables[t])
  BY DEF IsDatabase, RenameIn
<1> HIDE DEF new
<1>5. /\ DOMAIN new.tables = (DOMAIN db.tables \ {t}) \cup {to}
      /\ new.tables[to] = db.tables[t]
      /\ \A u \in DOMAIN db.tables \ {t} : new.tables[u] = db.tables[u]
  BY <1>2, <1>4 DEF Keys, With, Merge
<1> QED
  BY <1>2, <1>3, <1>5 DEF No, Is, Same, s

LEMMA AddEffect ==
    ASSUME NEW db, IsDatabase(db), NEW t, NEW c, ~Refused(db, AddColumn(t, c))
    PROVE  LET new == After(db, AddColumn(t, c))
           IN  /\ t \in DOMAIN db.tables /\ c \notin db.tables[t]
               /\ Is(new, t, db.tables[t] \cup {c})
               /\ \A u : u # t => Same(db, new, u)
<1> DEFINE s == AddColumn(t, c)
           new == [db EXCEPT !.tables[t] = @ \cup {c}]
<1>1. s.op = "add" /\ s.table = t /\ s.column = c
  BY DEF AddColumn
<1> HIDE DEF s
<1>2. t \in DOMAIN db.tables /\ c \notin db.tables[t]
  BY <1>1 DEF Refused, s
<1>3. After(db, s) = new
  BY <1>1 DEF After
<1>4. /\ DOMAIN new.tables = DOMAIN db.tables
      /\ new.tables[t] = db.tables[t] \cup {c}
      /\ \A u : u # t => new.tables[u] = db.tables[u]
  BY <1>2 DEF IsDatabase
<1> HIDE DEF new
<1> QED
  BY <1>2, <1>3, <1>4 DEF Is, Same, s

-----------------------------------------------------------------------------
(* The statements of the migrations, by their position *)

LEMMA Numbered ==
    /\ migrations[1] = V1 /\ migrations[2] = V2 /\ migrations[3] = V3 /\ migrations[4] = V4
    /\ migrations[5] = V5 /\ migrations[6] = V6 /\ migrations[7] = V7 /\ migrations[8] = V8
    /\ migrations[9] = V9 /\ migrations[10] = V10 /\ migrations[11] = V11 /\ migrations[12] = V12
    /\ migrations[13] = V13 /\ migrations[14] = V14 /\ migrations[15] = V15 /\ migrations[16] = V16
    /\ migrations[17] = V17 /\ migrations[18] = V18 /\ migrations[19] = V19 /\ migrations[20] = V20
    /\ migrations[21] = V21 /\ migrations[22] = V22 /\ migrations[23] = V23 /\ migrations[24] = V24
    /\ migrations[25] = V25 /\ migrations[26] = V26 /\ migrations[27] = V27 /\ migrations[28] = V28
    /\ migrations[29] = V29 /\ migrations[30] = V30 /\ migrations[31] = V31 /\ migrations[32] = V32
    /\ migrations[33] = V33 /\ migrations[34] = V34 /\ migrations[35] = V35 /\ migrations[36] = V36
    /\ migrations[37] = V37 /\ migrations[38] = V38 /\ migrations[39] = V39 /\ migrations[40] = V40
    /\ migrations[41] = V41 /\ migrations[42] = V42 /\ migrations[43] = V43 /\ migrations[44] = V44
    /\ migrations[45] = V45 /\ migrations[46] = V46 /\ migrations[47] = V47 /\ migrations[48] = V48
    /\ migrations[49] = V49 /\ migrations[50] = V50 /\ migrations[51] = V51
BY DEF migrations

LEMMA StepsShape ==
    ASSUME NEW n \in 1 .. 51
    PROVE  /\ Len(migrations[n].tx) \in Nat /\ Len(Steps(n)) \in Nat /\ Len(Steps(n)) > 0
           /\ Len(migrations[n].tx) <= Len(Steps(n))
           /\ \A i \in 1 .. Len(Steps(n)) : Sound(Steps(n)[i])
BY MigrationShape, LatestIs51 DEF Steps

LEMMA ConcatAt ==
    ASSUME NEW s, NEW t, IsList(s), IsList(t)
    PROVE  /\ IsList(s \o t) /\ Len(s \o t) = Len(s) + Len(t)
           /\ \A i \in 1 .. Len(s) : (s \o t)[i] = s[i]
           /\ \A i \in Len(s) + 1 .. Len(s) + Len(t) : (s \o t)[i] = t[i - Len(s)]
<1> DEFINE a == Len(s)
           b == Len(t)
           S == {s[i] : i \in 1 .. Len(s)} \cup {t[i] : i \in 1 .. Len(t)}
           st == s \o t
<1>1. s \in Seq(S) /\ t \in Seq(S) /\ a \in Nat /\ b \in Nat
  BY DEF IsList
<1> HIDE DEF S
<1>2. /\ st \in Seq(S) /\ Len(st) = a + b
      /\ \A i \in 1 .. a + b : st[i] = IF i <= a THEN s[i] ELSE t[i - a]
  BY <1>1, ConcatProperties
<1> HIDE DEF st, a, b
<1>3. IsList(st)
  <2>1. Len(st) \in Nat /\ st = [i \in 1 .. Len(st) |-> st[i]]
    BY <1>2
  <2> QED
    BY <2>1 DEF IsList
<1>4. \A i \in 1 .. a : i \in 1 .. a + b /\ i <= a
  BY <1>1
<1>5. \A i \in a + 1 .. a + b : i \in 1 .. a + b /\ ~(i <= a)
  BY <1>1
<1> QED
  BY <1>2, <1>3, <1>4, <1>5 DEF st, a, b

\* A migration whose statements are all in its transaction, and one that has none.
LEMMA InTxAt ==
    ASSUME NEW m, SoundMigration(m), m.auto = << >>
    PROVE  /\ Len(Statements(m)) = Len(m.tx)
           /\ \A i \in 1 .. Len(m.tx) : Statements(m)[i] = m.tx[i]
<1> DEFINE a == m.tx
<1>1. IsList(a) /\ IsList(<< >>) /\ Len(<< >>) = 0
  BY DEF SoundMigration, IsSound, IsList
<1>2. Statements(m) = a \o << >>
  BY DEF Statements
<1> HIDE DEF a
<1>3. /\ Len(a \o << >>) = Len(a) + Len(<< >>)
      /\ \A i \in 1 .. Len(a) : (a \o << >>)[i] = a[i]
  BY <1>1, ConcatAt
<1>4. Len(a) + Len(<< >>) = Len(a)
  BY <1>1 DEF IsList
<1> QED
  BY <1>2, <1>3, <1>4 DEF a

LEMMA OneByOneAt ==
    ASSUME NEW m, SoundMigration(m), m.tx = << >>
    PROVE  /\ Len(Statements(m)) = Len(m.auto) /\ Len(m.tx) = 0
           /\ \A i \in 1 .. Len(m.auto) : Statements(m)[i] = m.auto[i]
<1> DEFINE a == m.auto
<1>1. IsList(a) /\ IsList(<< >>) /\ Len(<< >>) = 0
  BY DEF SoundMigration, IsSound, IsList
<1>2. Statements(m) = << >> \o a
  BY DEF Statements
<1> HIDE DEF a
<1>3. /\ Len(<< >> \o a) = Len(<< >>) + Len(a)
      /\ \A i \in Len(<< >>) + 1 .. Len(<< >>) + Len(a) :
            (<< >> \o a)[i] = a[i - Len(<< >>)]
  BY <1>1, ConcatAt
<1>4. /\ Len(<< >>) + Len(a) = Len(a)
      /\ \A i \in 1 .. Len(a) :
            i \in Len(<< >>) + 1 .. Len(<< >>) + Len(a) /\ i - Len(<< >>) = i
  BY <1>1 DEF IsList
<1> QED
  BY <1>2, <1>3, <1>4 DEF a

LEMMA List1 ==
    LET list == Steps(1)
    IN  /\ Len(list) = 8 /\ Len(migrations[1].tx) = 0
        /\ list[1] = CreateIfAbsent("container_images", {"id", "repository", "tag", "digest",
            "sbom_requested", "sbom_received"} \cup Stamps)
        /\ list[2] = IndexIfAbsent("idx_images_repo_tag", "container_images", {"repository",
            "tag"})
        /\ list[3] = IndexIfAbsent("idx_images_digest", "container_images", {"digest"})
        /\ list[4] = CreateIfAbsent("container_instances", {"id", "namespace", "pod",
            "container", "image_id", "created_at"})
        /\ list[5] = IndexIfAbsent("idx_instances_namespace", "container_instances",
            {"namespace"})
        /\ list[6] = IndexIfAbsent("idx_instances_image", "container_instances", {"image_id"})
        /\ list[7] = CreateIfAbsent("scan_status", StatusColumns)
        /\ list[8] = Seed(FirstRanks)
<1>1. SoundMigration(V1) /\ V1.tx = << >> /\ Len(V1.auto) = 8
  BY MigrationsSound, LatestIs51 DEF migrations, V1, OneByOne
<1>2. /\ Len(Steps(1)) = 8 /\ Len(migrations[1].tx) = 0
      /\ \A i \in 1 .. 8 : Steps(1)[i] = V1.auto[i]
  BY <1>1, OneByOneAt, Numbered DEF Steps
<1> QED
  BY <1>2 DEF V1, OneByOne

LEMMA List2 ==
    LET list == Steps(2)
        images == {"id", "digest", "sbom_requested", "sbom_received"} \cup Stamps
        instances == {"id", "namespace", "pod", "container", "repository", "tag",
            "image_id", "created_at"}
    IN  /\ Len(list) = 10 /\ Len(migrations[2].tx) = 10
        /\ list[1] = Create("container_images_new", images)
        /\ list[2] = CopySame("container_images", "container_images_new", images)
        /\ list[3] = Create("container_instances_new", instances)
        /\ list[4] = Copy("container_instances", [container_instances |-> instances \
            {"repository", "tag"}, container_images |-> {"id", "digest", "repository", "tag"},
            container_images_new |-> {"id", "digest"}], "container_instances_new", instances)
        /\ list[5] = DropTable("container_instances")
        /\ list[6] = DropTable("container_images")
        /\ list[7] = Rename("container_images_new", "container_images")
        /\ list[8] = Rename("container_instances_new", "container_instances")
        /\ list[9] = IndexIfAbsent("idx_instances_namespace", "container_instances",
            {"namespace"})
        /\ list[10] = IndexIfAbsent("idx_instances_image", "container_instances", {"image_id"})
<1>1. SoundMigration(V2) /\ V2.auto = << >> /\ Len(migrations[2].tx) = 10
  BY MigrationsSound, LatestIs51 DEF migrations, V2, InTx
<1>2. /\ Len(Steps(2)) = 10 /\ Len(migrations[2].tx) = 10
      /\ \A i \in 1 .. 10 : Steps(2)[i] = V2.tx[i]
  BY <1>1, InTxAt, Numbered DEF Steps
<1> QED
  BY <1>2 DEF V2, InTx

LEMMA List3 ==
    LET list == Steps(3)
    IN  /\ Len(list) = 7 /\ Len(migrations[3].tx) = 7
        /\ list[1] = AddColumn("container_images", "sbom")
        /\ list[2] = AddColumn("container_images", "scan_status")
        /\ list[3] = AddColumn("container_images", "scan_error")
        /\ list[4] = AddColumn("container_images", "scanned_at")
        /\ list[5] = AddColumn("container_instances", "node_name")
        /\ list[6] = AddColumn("container_instances", "container_runtime")
        /\ list[7] = IndexIfAbsent("idx_images_scan_status", "container_images", {"scan_status"})
<1> DEFINE p1 == AddColumns("container_images", <<"sbom", "scan_status", "scan_error",
               "scanned_at">>)
           p2 == AddColumns("container_instances", <<"node_name", "container_runtime">>)
           p3 == << IndexIfAbsent("idx_images_scan_status", "container_images", {"scan_status"})
               >>
<1>1. V3 = InTx((p1 \o p2) \o p3)
  BY DEF V3
<1>2. /\ IsList(p1) /\ Len(p1) = 4
      /\ IsList(p2) /\ Len(p2) = 2
      /\ IsList(p3) /\ Len(p3) = 1
  BY DEF IsList, AddColumns
<1>3. /\ p1[1] = AddColumn("container_images", "sbom")
      /\ p1[2] = AddColumn("container_images", "scan_status")
      /\ p1[3] = AddColumn("container_images", "scan_error")
      /\ p1[4] = AddColumn("container_images", "scanned_at")
      /\ p2[1] = AddColumn("container_instances", "node_name")
      /\ p2[2] = AddColumn("container_instances", "container_runtime")
      /\ p3[1] = IndexIfAbsent("idx_images_scan_status", "container_images", {"scan_status"})
  BY DEF AddColumns
<1> HIDE DEF p1, p2, p3
<1> DEFINE q1 == p1 \o p2
<1>4. /\ IsList(q1) /\ Len(q1) = Len(p1) + Len(p2)
      /\ \A i \in 1 .. Len(p1) : q1[i] = p1[i]
      /\ \A i \in Len(p1) + 1 .. Len(p1) + Len(p2) : q1[i] = p2[i - Len(p1)]
  BY <1>2, ConcatAt
<1> HIDE DEF q1
<1>5. /\ Len(q1) = 6 /\ q1[1] = p1[1] /\ q1[2] = p1[2] /\ q1[3] = p1[3] /\ q1[4] = p1[4]
      /\ q1[5] = p2[1] /\ q1[6] = p2[2]
  BY <1>2, <1>4
<1> DEFINE q2 == q1 \o p3
<1>6. /\ IsList(q2) /\ Len(q2) = Len(q1) + Len(p3)
      /\ \A i \in 1 .. Len(q1) : q2[i] = q1[i]
      /\ \A i \in Len(q1) + 1 .. Len(q1) + Len(p3) : q2[i] = p3[i - Len(q1)]
  <2>1. IsList(q1) /\ IsList(p3)
    BY <1>2, <1>4
  <2> QED
    BY <2>1, ConcatAt
<1> HIDE DEF q2
<1>7. /\ Len(q2) = 7 /\ q2[1] = q1[1] /\ q2[2] = q1[2] /\ q2[3] = q1[3] /\ q2[4] = q1[4]
      /\ q2[5] = q1[5] /\ q2[6] = q1[6] /\ q2[7] = p3[1]
  BY <1>2, <1>5, <1>6
<1>8. V3.auto = << >> /\ V3.tx = q2
  BY <1>1 DEF InTx, q1, q2
<1>9. SoundMigration(V3)
  BY MigrationsSound, LatestIs51 DEF migrations
<1>10. /\ Len(Steps(3)) = 7 /\ Len(migrations[3].tx) = 7
      /\ \A i \in 1 .. 7 : Steps(3)[i] = q2[i]
  BY <1>7, <1>8, <1>9, InTxAt, Numbered DEF Steps
<1> QED
  BY <1>3, <1>5, <1>7, <1>10

LEMMA List4 ==
    LET list == Steps(4)
    IN  /\ Len(list) = 5 /\ Len(migrations[4].tx) = 5
        /\ list[1] = AddColumn("container_images", "vulnerabilities")
        /\ list[2] = AddColumn("container_images", "vulnerability_status")
        /\ list[3] = AddColumn("container_images", "vulnerability_error")
        /\ list[4] = AddColumn("container_images", "vulnerabilities_scanned_at")
        /\ list[5] = IndexIfAbsent("idx_images_vulnerability_status", "container_images",
            {"vulnerability_status"})
<1> DEFINE p1 == AddColumns("container_images", <<"vulnerabilities", "vulnerability_status",
               "vulnerability_error", "vulnerabilities_scanned_at">>)
           p2 == << IndexIfAbsent("idx_images_vulnerability_status", "container_images",
               {"vulnerability_status"}) >>
<1>1. V4 = InTx(p1 \o p2)
  BY DEF V4
<1>2. /\ IsList(p1) /\ Len(p1) = 4
      /\ IsList(p2) /\ Len(p2) = 1
  BY DEF IsList, AddColumns
<1>3. /\ p1[1] = AddColumn("container_images", "vulnerabilities")
      /\ p1[2] = AddColumn("container_images", "vulnerability_status")
      /\ p1[3] = AddColumn("container_images", "vulnerability_error")
      /\ p1[4] = AddColumn("container_images", "vulnerabilities_scanned_at")
      /\ p2[1] = IndexIfAbsent("idx_images_vulnerability_status", "container_images",
          {"vulnerability_status"})
  BY DEF AddColumns
<1> HIDE DEF p1, p2
<1> DEFINE q1 == p1 \o p2
<1>4. /\ IsList(q1) /\ Len(q1) = Len(p1) + Len(p2)
      /\ \A i \in 1 .. Len(p1) : q1[i] = p1[i]
      /\ \A i \in Len(p1) + 1 .. Len(p1) + Len(p2) : q1[i] = p2[i - Len(p1)]
  BY <1>2, ConcatAt
<1> HIDE DEF q1
<1>5. /\ Len(q1) = 5 /\ q1[1] = p1[1] /\ q1[2] = p1[2] /\ q1[3] = p1[3] /\ q1[4] = p1[4]
      /\ q1[5] = p2[1]
  BY <1>2, <1>4
<1>6. V4.auto = << >> /\ V4.tx = q1
  BY <1>1 DEF InTx, q1
<1>7. SoundMigration(V4)
  BY MigrationsSound, LatestIs51 DEF migrations
<1>8. /\ Len(Steps(4)) = 5 /\ Len(migrations[4].tx) = 5
      /\ \A i \in 1 .. 5 : Steps(4)[i] = q1[i]
  BY <1>5, <1>6, <1>7, InTxAt, Numbered DEF Steps
<1> QED
  BY <1>3, <1>5, <1>8

LEMMA List5 ==
    LET list == Steps(5)
        images == {"id", "digest", "sbom", "scan_status", "scan_error", "scanned_at",
            "vulnerabilities", "vulnerability_status", "vulnerability_error",
            "vulnerabilities_scanned_at"} \cup Stamps
    IN  /\ Len(list) = 6 /\ Len(migrations[5].tx) = 6
        /\ list[1] = Create("container_images_new", images)
        /\ list[2] = CopySame("container_images", "container_images_new", images)
        /\ list[3] = DropTable("container_images")
        /\ list[4] = Rename("container_images_new", "container_images")
        /\ list[5] = IndexIfAbsent("idx_images_scan_status", "container_images", {"scan_status"})
        /\ list[6] = IndexIfAbsent("idx_images_vulnerability_status", "container_images",
            {"vulnerability_status"})
<1>1. SoundMigration(V5) /\ V5.auto = << >> /\ Len(migrations[5].tx) = 6
  BY MigrationsSound, LatestIs51 DEF migrations, V5, InTx
<1>2. /\ Len(Steps(5)) = 6 /\ Len(migrations[5].tx) = 6
      /\ \A i \in 1 .. 6 : Steps(5)[i] = V5.tx[i]
  BY <1>1, InTxAt, Numbered DEF Steps
<1> QED
  BY <1>2 DEF V5, InTx

LEMMA List6 ==
    LET list == Steps(6)
    IN  /\ Len(list) = 10 /\ Len(migrations[6].tx) = 8
        /\ list[1] = Create("packages", PackageColumns)
        /\ list[2] = Index("idx_packages_image", "packages", {"image_id"})
        /\ list[3] = Index("idx_packages_type", "packages", {"type"})
        /\ list[4] = Create("vulnerabilities", VulnerabilityColumns \cup {"known_exploits"})
        /\ list[5] = Index("idx_vulnerabilities_image", "vulnerabilities", {"image_id"})
        /\ list[6] = Index("idx_vulnerabilities_severity", "vulnerabilities", {"severity"})
        /\ list[7] = Index("idx_vulnerabilities_cve", "vulnerabilities", {"cve_id"})
        /\ list[8] = Create("image_summary", {"image_id", "package_count", "os_name",
            "os_version", "updated_at"})
        /\ list[9] = ReparseSBOMs
        /\ list[10] = ReparseReports
<1> DEFINE tx == V6.tx
           auto == V6.auto
<1>1. IsList(tx) /\ IsList(auto)
  <2>1. SoundMigration(V6)
    BY MigrationsSound, LatestIs51 DEF migrations
  <2> QED
    BY <2>1 DEF SoundMigration, IsSound, IsList
<1>2. Len(tx) = 8 /\ Len(auto) = 2
  BY DEF V6
<1>3. Steps(6) = tx \o auto /\ migrations[6].tx = tx
  BY Numbered DEF Steps, Statements
<1> HIDE DEF tx, auto
<1> DEFINE list == tx \o auto
<1>4. /\ Len(list) = Len(tx) + Len(auto)
      /\ \A i \in 1 .. Len(tx) : list[i] = tx[i]
      /\ \A i \in Len(tx) + 1 .. Len(tx) + Len(auto) : list[i] = auto[i - Len(tx)]
  BY <1>1, ConcatAt
<1> HIDE DEF list
<1>5. /\ Len(list) = 10 /\ list[1] = tx[1] /\ list[2] = tx[2] /\ list[3] = tx[3]
      /\ list[4] = tx[4] /\ list[5] = tx[5] /\ list[6] = tx[6] /\ list[7] = tx[7]
      /\ list[8] = tx[8] /\ list[9] = auto[1] /\ list[10] = auto[2]
  BY <1>2, <1>4
<1>6. Steps(6) = list
  BY <1>3 DEF list
<1> QED
  BY <1>2, <1>3, <1>5, <1>6 DEF tx, auto, V6

LEMMA List7 ==
    LET list == Steps(7)
    IN  /\ Len(list) = 4 /\ Len(migrations[7].tx) = 4
        /\ list[1] = AddColumn("vulnerabilities", "risk")
        /\ list[2] = AddColumn("vulnerabilities", "epss_score")
        /\ list[3] = AddColumn("vulnerabilities", "epss_percentile")
        /\ list[4] = AddColumn("vulnerabilities", "known_exploited")
<1>1. SoundMigration(V7) /\ V7.auto = << >> /\ Len(migrations[7].tx) = 4
  BY MigrationsSound, LatestIs51 DEF migrations, V7, InTx, AddColumns
<1>2. /\ Len(Steps(7)) = 4 /\ Len(migrations[7].tx) = 4
      /\ \A i \in 1 .. 4 : Steps(7)[i] = V7.tx[i]
  BY <1>1, InTxAt, Numbered DEF Steps
<1> QED
  BY <1>2 DEF V7, InTx, AddColumns

LEMMA List8 ==
    LET list == Steps(8)
        images == {"id", "digest", "status", "status_error", "sbom", "vulnerabilities",
            "sbom_scanned_at", "vulns_scanned_at"} \cup Stamps
    IN  /\ Len(list) = 12 /\ Len(migrations[8].tx) = 12
        /\ list[1] = AddColumn("container_images", "status")
        /\ list[2] = AddColumn("container_images", "status_error")
        /\ list[3] = AddColumn("container_images", "sbom_scanned_at")
        /\ list[4] = AddColumn("container_images", "vulns_scanned_at")
        /\ list[5] = Uses("container_images", {"status", "status_error", "sbom_scanned_at",
            "vulns_scanned_at", "vulnerability_status", "scan_status", "vulnerability_error",
            "scan_error", "scanned_at", "vulnerabilities_scanned_at"})
        /\ list[6] = IndexIfAbsent("idx_images_status", "container_images", {"status"})
        /\ list[7] = Create("container_images_new", images)
        /\ list[8] = CopySame("container_images", "container_images_new", images)
        /\ list[9] = DropTable("container_images")
        /\ list[10] = Rename("container_images_new", "container_images")
        /\ list[11] = Index("idx_images_digest", "container_images", {"digest"})
        /\ list[12] = Index("idx_images_status", "container_images", {"status"})
<1> DEFINE images == {"id", "digest", "status", "status_error", "sbom", "vulnerabilities",
                    "sbom_scanned_at", "vulns_scanned_at"} \cup Stamps
           p1 == AddColumns("container_images", <<"status", "status_error", "sbom_scanned_at",
               "vulns_scanned_at">>)
           p2 == << Uses("container_images", {"status", "status_error", "sbom_scanned_at",
               "vulns_scanned_at", "vulnerability_status", "scan_status", "vulnerability_error",
               "scan_error", "scanned_at", "vulnerabilities_scanned_at"}),
               IndexIfAbsent("idx_images_status", "container_images", {"status"}),
               Create("container_images_new", images), CopySame("container_images",
               "container_images_new", images), DropTable("container_images"),
               Rename("container_images_new", "container_images"), Index("idx_images_digest",
               "container_images", {"digest"}), Index("idx_images_status", "container_images",
               {"status"}) >>
<1>1. V8 = InTx(p1 \o p2)
  BY DEF V8
<1>2. /\ IsList(p1) /\ Len(p1) = 4
      /\ IsList(p2) /\ Len(p2) = 8
  BY DEF IsList, AddColumns
<1>3. /\ p1[1] = AddColumn("container_images", "status")
      /\ p1[2] = AddColumn("container_images", "status_error")
      /\ p1[3] = AddColumn("container_images", "sbom_scanned_at")
      /\ p1[4] = AddColumn("container_images", "vulns_scanned_at")
      /\ p2[1] = Uses("container_images", {"status", "status_error", "sbom_scanned_at",
          "vulns_scanned_at", "vulnerability_status", "scan_status", "vulnerability_error",
          "scan_error", "scanned_at", "vulnerabilities_scanned_at"})
      /\ p2[2] = IndexIfAbsent("idx_images_status", "container_images", {"status"})
      /\ p2[3] = Create("container_images_new", images)
      /\ p2[4] = CopySame("container_images", "container_images_new", images)
      /\ p2[5] = DropTable("container_images")
      /\ p2[6] = Rename("container_images_new", "container_images")
      /\ p2[7] = Index("idx_images_digest", "container_images", {"digest"})
      /\ p2[8] = Index("idx_images_status", "container_images", {"status"})
  BY DEF AddColumns
<1> HIDE DEF p1, p2
<1> DEFINE q1 == p1 \o p2
<1>4. /\ IsList(q1) /\ Len(q1) = Len(p1) + Len(p2)
      /\ \A i \in 1 .. Len(p1) : q1[i] = p1[i]
      /\ \A i \in Len(p1) + 1 .. Len(p1) + Len(p2) : q1[i] = p2[i - Len(p1)]
  BY <1>2, ConcatAt
<1> HIDE DEF q1
<1>5. /\ Len(q1) = 12 /\ q1[1] = p1[1] /\ q1[2] = p1[2] /\ q1[3] = p1[3] /\ q1[4] = p1[4]
      /\ q1[5] = p2[1] /\ q1[6] = p2[2] /\ q1[7] = p2[3] /\ q1[8] = p2[4] /\ q1[9] = p2[5]
      /\ q1[10] = p2[6] /\ q1[11] = p2[7] /\ q1[12] = p2[8]
  BY <1>2, <1>4
<1>6. V8.auto = << >> /\ V8.tx = q1
  BY <1>1 DEF InTx, q1
<1>7. SoundMigration(V8)
  BY MigrationsSound, LatestIs51 DEF migrations
<1>8. /\ Len(Steps(8)) = 12 /\ Len(migrations[8].tx) = 12
      /\ \A i \in 1 .. 12 : Steps(8)[i] = q1[i]
  <2>1. migrations[8] = V8
    BY Numbered
  <2> QED
    <3>1. /\ Len(Steps(8)) = Len(V8.tx)
          /\ \A i \in 1 .. Len(V8.tx) : Steps(8)[i] = V8.tx[i]
      BY <1>6, <1>7, <2>1, InTxAt DEF Steps
    <3> QED
      BY <1>5, <1>6, <2>1, <3>1
<1> QED
  BY <1>3, <1>5, <1>8

LEMMA List9 ==
    LET list == Steps(9)
    IN  /\ Len(list) = 3 /\ Len(migrations[9].tx) = 3
        /\ list[1] = AddColumn("container_images", "os_name")
        /\ list[2] = AddColumn("container_images", "os_version")
        /\ list[3] = Uses("image_summary", {"image_id", "os_name", "os_version"})
<1> DEFINE p1 == AddColumns("container_images", <<"os_name", "os_version">>)
           p2 == << Uses("image_summary", {"image_id", "os_name", "os_version"}) >>
<1>1. V9 = InTx(p1 \o p2)
  BY DEF V9
<1>2. /\ IsList(p1) /\ Len(p1) = 2
      /\ IsList(p2) /\ Len(p2) = 1
  BY DEF IsList, AddColumns
<1>3. /\ p1[1] = AddColumn("container_images", "os_name")
      /\ p1[2] = AddColumn("container_images", "os_version")
      /\ p2[1] = Uses("image_summary", {"image_id", "os_name", "os_version"})
  BY DEF AddColumns
<1> HIDE DEF p1, p2
<1> DEFINE q1 == p1 \o p2
<1>4. /\ IsList(q1) /\ Len(q1) = Len(p1) + Len(p2)
      /\ \A i \in 1 .. Len(p1) : q1[i] = p1[i]
      /\ \A i \in Len(p1) + 1 .. Len(p1) + Len(p2) : q1[i] = p2[i - Len(p1)]
  BY <1>2, ConcatAt
<1> HIDE DEF q1
<1>5. /\ Len(q1) = 3 /\ q1[1] = p1[1] /\ q1[2] = p1[2] /\ q1[3] = p2[1]
  BY <1>2, <1>4
<1>6. V9.auto = << >> /\ V9.tx = q1
  BY <1>1 DEF InTx, q1
<1>7. SoundMigration(V9)
  BY MigrationsSound, LatestIs51 DEF migrations
<1>8. /\ Len(Steps(9)) = 3 /\ Len(migrations[9].tx) = 3
      /\ \A i \in 1 .. 3 : Steps(9)[i] = q1[i]
  BY <1>5, <1>6, <1>7, InTxAt, Numbered DEF Steps
<1> QED
  BY <1>3, <1>5, <1>8

LEMMA List10 ==
    LET list == Steps(10)
    IN  /\ Len(list) = 1 /\ Len(migrations[10].tx) = 1
        /\ list[1] = DropIfPresent("image_summary")
<1>1. SoundMigration(V10) /\ V10.auto = << >> /\ Len(migrations[10].tx) = 1
  BY MigrationsSound, LatestIs51 DEF migrations, V10, InTx
<1>2. /\ Len(Steps(10)) = 1 /\ Len(migrations[10].tx) = 1
      /\ \A i \in 1 .. 1 : Steps(10)[i] = V10.tx[i]
  BY <1>1, InTxAt, Numbered DEF Steps
<1> QED
  BY <1>2 DEF V10, InTx

LEMMA List11 ==
    LET list == Steps(11)
    IN  /\ Len(list) = 2 /\ Len(migrations[11].tx) = 2
        /\ list[1] = CreateIfAbsent("scan_status", StatusColumns)
        /\ list[2] = SeedIfAbsent(FirstRanks)
<1>1. SoundMigration(V11) /\ V11.auto = << >> /\ Len(migrations[11].tx) = 2
  BY MigrationsSound, LatestIs51 DEF migrations, V11, InTx
<1>2. /\ Len(Steps(11)) = 2 /\ Len(migrations[11].tx) = 2
      /\ \A i \in 1 .. 2 : Steps(11)[i] = V11.tx[i]
  BY <1>1, InTxAt, Numbered DEF Steps
<1> QED
  BY <1>2 DEF V11, InTx

LEMMA List12 ==
    LET list == Steps(12)
    IN  /\ Len(list) = 6 /\ Len(migrations[12].tx) = 6
        /\ list[1] = Create("packages_new", PackageColumns)
        /\ list[2] = CopySame("packages", "packages_new", PackageColumns \ {"id"})
        /\ list[3] = DropTable("packages")
        /\ list[4] = Rename("packages_new", "packages")
        /\ list[5] = Index("idx_packages_image", "packages", {"image_id"})
        /\ list[6] = Index("idx_packages_type", "packages", {"type"})
<1>1. SoundMigration(V12) /\ V12.auto = << >> /\ Len(migrations[12].tx) = 6
  BY MigrationsSound, LatestIs51 DEF migrations, V12, InTx
<1>2. /\ Len(Steps(12)) = 6 /\ Len(migrations[12].tx) = 6
      /\ \A i \in 1 .. 6 : Steps(12)[i] = V12.tx[i]
  BY <1>1, InTxAt, Numbered DEF Steps
<1> QED
  BY <1>2 DEF V12, InTx

LEMMA List13 ==
    LET list == Steps(13)
    IN  /\ Len(list) = 4 /\ Len(migrations[13].tx) = 4
        /\ list[1] = Create("vulnerability_details", {"id", "vulnerability_id", "details",
            "created_at"})
        /\ list[2] = Index("idx_vulnerability_details_vuln", "vulnerability_details",
            {"vulnerability_id"})
        /\ list[3] = Create("package_details", {"id", "package_id", "details", "created_at"})
        /\ list[4] = Index("idx_package_details_pkg", "package_details", {"package_id"})
<1>1. SoundMigration(V13) /\ V13.auto = << >> /\ Len(migrations[13].tx) = 4
  BY MigrationsSound, LatestIs51 DEF migrations, V13, InTx
<1>2. /\ Len(Steps(13)) = 4 /\ Len(migrations[13].tx) = 4
      /\ \A i \in 1 .. 4 : Steps(13)[i] = V13.tx[i]
  BY <1>1, InTxAt, Numbered DEF Steps
<1> QED
  BY <1>2 DEF V13, InTx

LEMMA List14 ==
    LET list == Steps(14)
    IN  /\ Len(list) = 3 /\ Len(migrations[14].tx) = 0
        /\ list[1] = StoredDocuments({"sbom", "vulnerabilities"})
        /\ list[2] = ReparseSBOMs
        /\ list[3] = ReparseReports
<1>1. SoundMigration(V14) /\ V14.tx = << >> /\ Len(V14.auto) = 3
  BY MigrationsSound, LatestIs51 DEF migrations, V14, OneByOne
<1>2. /\ Len(Steps(14)) = 3 /\ Len(migrations[14].tx) = 0
      /\ \A i \in 1 .. 3 : Steps(14)[i] = V14.auto[i]
  BY <1>1, OneByOneAt, Numbered DEF Steps
<1> QED
  BY <1>2 DEF V14, OneByOne

LEMMA List15 ==
    LET list == Steps(15)
    IN  /\ Len(list) = 5 /\ Len(migrations[15].tx) = 0
        /\ list[1] = Clear("vulnerability_details")
        /\ list[2] = Clear("package_details")
        /\ list[3] = StoredDocuments({"sbom", "vulnerabilities"})
        /\ list[4] = ReparseSBOMs
        /\ list[5] = ReparseReports
<1>1. SoundMigration(V15) /\ V15.tx = << >> /\ Len(V15.auto) = 5
  BY MigrationsSound, LatestIs51 DEF migrations, V15, OneByOne
<1>2. /\ Len(Steps(15)) = 5 /\ Len(migrations[15].tx) = 0
      /\ \A i \in 1 .. 5 : Steps(15)[i] = V15.auto[i]
  BY <1>1, OneByOneAt, Numbered DEF Steps
<1> QED
  BY <1>2 DEF V15, OneByOne

LEMMA List16 ==
    LET list == Steps(16)
    IN  /\ Len(list) = 3 /\ Len(migrations[16].tx) = 0
        /\ list[1] = Clear("package_details")
        /\ list[2] = StoredDocuments({"sbom"})
        /\ list[3] = ReparseSBOMs
<1>1. SoundMigration(V16) /\ V16.tx = << >> /\ Len(V16.auto) = 3
  BY MigrationsSound, LatestIs51 DEF migrations, V16, OneByOne
<1>2. /\ Len(Steps(16)) = 3 /\ Len(migrations[16].tx) = 0
      /\ \A i \in 1 .. 3 : Steps(16)[i] = V16.auto[i]
  BY <1>1, OneByOneAt, Numbered DEF Steps
<1> QED
  BY <1>2 DEF V16, OneByOne

LEMMA List17 ==
    LET list == Steps(17)
    IN  /\ Len(list) = 3 /\ Len(migrations[17].tx) = 0
        /\ list[1] = Clear("package_details")
        /\ list[2] = StoredDocuments({"sbom"})
        /\ list[3] = ReparseSBOMs
<1>1. SoundMigration(V17) /\ V17.tx = << >> /\ Len(V17.auto) = 3
  BY MigrationsSound, LatestIs51 DEF migrations, V17, OneByOne
<1>2. /\ Len(Steps(17)) = 3 /\ Len(migrations[17].tx) = 0
      /\ \A i \in 1 .. 3 : Steps(17)[i] = V17.auto[i]
  BY <1>1, OneByOneAt, Numbered DEF Steps
<1> QED
  BY <1>2 DEF V17, OneByOne

LEMMA List18 ==
    LET list == Steps(18)
    IN  /\ Len(list) = 3 /\ Len(migrations[18].tx) = 0
        /\ list[1] = Clear("vulnerability_details")
        /\ list[2] = StoredDocuments({"vulnerabilities"})
        /\ list[3] = ReparseReports
<1>1. SoundMigration(V18) /\ V18.tx = << >> /\ Len(V18.auto) = 3
  BY MigrationsSound, LatestIs51 DEF migrations, V18, OneByOne
<1>2. /\ Len(Steps(18)) = 3 /\ Len(migrations[18].tx) = 0
      /\ \A i \in 1 .. 3 : Steps(18)[i] = V18.auto[i]
  BY <1>1, OneByOneAt, Numbered DEF Steps
<1> QED
  BY <1>2 DEF V18, OneByOne

LEMMA List19 ==
    LET list == Steps(19)
        cols == VulnerabilityColumns \cup {"risk", "epss_score", "epss_percentile",
            "known_exploited"}
    IN  /\ Len(list) = 7 /\ Len(migrations[19].tx) = 7
        /\ list[1] = Create("vulnerabilities_new", cols)
        /\ list[2] = CopySame("vulnerabilities", "vulnerabilities_new", cols)
        /\ list[3] = DropTable("vulnerabilities")
        /\ list[4] = Rename("vulnerabilities_new", "vulnerabilities")
        /\ list[5] = Index("idx_vulnerabilities_image", "vulnerabilities", {"image_id"})
        /\ list[6] = Index("idx_vulnerabilities_severity", "vulnerabilities", {"severity"})
        /\ list[7] = Index("idx_vulnerabilities_cve", "vulnerabilities", {"cve_id"})
<1>1. SoundMigration(V19) /\ V19.auto = << >> /\ Len(migrations[19].tx) = 7
  BY MigrationsSound, LatestIs51 DEF migrations, V19, InTx
<1>2. /\ Len(Steps(19)) = 7 /\ Len(migrations[19].tx) = 7
      /\ \A i \in 1 .. 7 : Steps(19)[i] = V19.tx[i]
  BY <1>1, InTxAt, Numbered DEF Steps
<1> QED
  BY <1>2 DEF V19, InTx

LEMMA List20 ==
    LET list == Steps(20)
    IN  /\ Len(list) = 3 /\ Len(migrations[20].tx) = 3
        /\ list[1] = IndexIfAbsent("idx_images_created_at", "container_images", {"created_at"})
        /\ list[2] = IndexIfAbsent("idx_instances_created_at", "container_instances",
            {"created_at"})
        /\ list[3] = IndexIfAbsent("idx_vulnerabilities_image_severity", "vulnerabilities",
            {"image_id", "severity"})
<1>1. SoundMigration(V20) /\ V20.auto = << >> /\ Len(migrations[20].tx) = 3
  BY MigrationsSound, LatestIs51 DEF migrations, V20, InTx
<1>2. /\ Len(Steps(20)) = 3 /\ Len(migrations[20].tx) = 3
      /\ \A i \in 1 .. 3 : Steps(20)[i] = V20.tx[i]
  BY <1>1, InTxAt, Numbered DEF Steps
<1> QED
  BY <1>2 DEF V20, InTx

LEMMA List21 ==
    LET list == Steps(21)
    IN  /\ Len(list) = 1 /\ Len(migrations[21].tx) = 0
        /\ list[1] = AddColumn("container_images", "grype_db_built")
<1>1. SoundMigration(V21) /\ V21.tx = << >> /\ Len(V21.auto) = 1
  BY MigrationsSound, LatestIs51 DEF migrations, V21, OneByOne
<1>2. /\ Len(Steps(21)) = 1 /\ Len(migrations[21].tx) = 0
      /\ \A i \in 1 .. 1 : Steps(21)[i] = V21.auto[i]
  BY <1>1, OneByOneAt, Numbered DEF Steps
<1> QED
  BY <1>2 DEF V21, OneByOne

LEMMA List22 ==
    LET list == Steps(22)
    IN  /\ Len(list) = 4 /\ Len(migrations[22].tx) = 4
        /\ list[1] = Create("job_executions", {"id", "job_name", "started_at", "completed_at",
            "status", "error_message", "duration_ms", "created_at"})
        /\ list[2] = Index("idx_job_executions_job_name", "job_executions", {"job_name"})
        /\ list[3] = Index("idx_job_executions_started_at", "job_executions", {"started_at"})
        /\ list[4] = Index("idx_job_executions_status", "job_executions", {"status"})
<1>1. SoundMigration(V22) /\ V22.auto = << >> /\ Len(migrations[22].tx) = 4
  BY MigrationsSound, LatestIs51 DEF migrations, V22, InTx
<1>2. /\ Len(Steps(22)) = 4 /\ Len(migrations[22].tx) = 4
      /\ \A i \in 1 .. 4 : Steps(22)[i] = V22.tx[i]
  BY <1>1, InTxAt, Numbered DEF Steps
<1> QED
  BY <1>2 DEF V22, InTx

LEMMA List23 ==
    LET list == Steps(23)
    IN  /\ Len(list) = 1 /\ Len(migrations[23].tx) = 1
        /\ list[1] = Create("metric_staleness", {"key", "data", "updated_at"})
<1>1. SoundMigration(V23) /\ V23.auto = << >> /\ Len(migrations[23].tx) = 1
  BY MigrationsSound, LatestIs51 DEF migrations, V23, InTx
<1>2. /\ Len(Steps(23)) = 1 /\ Len(migrations[23].tx) = 1
      /\ \A i \in 1 .. 1 : Steps(23)[i] = V23.tx[i]
  BY <1>1, InTxAt, Numbered DEF Steps
<1> QED
  BY <1>2 DEF V23, InTx

LEMMA List24 ==
    LET list == Steps(24)
    IN  /\ Len(list) = 1 /\ Len(migrations[24].tx) = 0
        /\ list[1] = AddColumn("container_images", "architecture")
<1>1. SoundMigration(V24) /\ V24.tx = << >> /\ Len(V24.auto) = 1
  BY MigrationsSound, LatestIs51 DEF migrations, V24, OneByOne
<1>2. /\ Len(Steps(24)) = 1 /\ Len(migrations[24].tx) = 0
      /\ \A i \in 1 .. 1 : Steps(24)[i] = V24.auto[i]
  BY <1>1, OneByOneAt, Numbered DEF Steps
<1> QED
  BY <1>2 DEF V24, OneByOne

LEMMA List25 ==
    LET list == Steps(25)
    IN  /\ Len(list) = 1 /\ Len(migrations[25].tx) = 0
        /\ list[1] = Uses("container_images", {"id", "sbom", "architecture"})
<1>1. SoundMigration(V25) /\ V25.tx = << >> /\ Len(V25.auto) = 1
  BY MigrationsSound, LatestIs51 DEF migrations, V25, OneByOne
<1>2. /\ Len(Steps(25)) = 1 /\ Len(migrations[25].tx) = 0
      /\ \A i \in 1 .. 1 : Steps(25)[i] = V25.auto[i]
  BY <1>1, OneByOneAt, Numbered DEF Steps
<1> QED
  BY <1>2 DEF V25, OneByOne

LEMMA List26 ==
    LET list == Steps(26)
    IN  /\ Len(list) = 1 /\ Len(migrations[26].tx) = 0
        /\ list[1] = Rename("metric_staleness", "app_state")
<1>1. SoundMigration(V26) /\ V26.tx = << >> /\ Len(V26.auto) = 1
  BY MigrationsSound, LatestIs51 DEF migrations, V26, OneByOne
<1>2. /\ Len(Steps(26)) = 1 /\ Len(migrations[26].tx) = 0
      /\ \A i \in 1 .. 1 : Steps(26)[i] = V26.auto[i]
  BY <1>1, OneByOneAt, Numbered DEF Steps
<1> QED
  BY <1>2 DEF V26, OneByOne

LEMMA List27 ==
    LET list == Steps(27)
    IN  /\ Len(list) = 2 /\ Len(migrations[27].tx) = 0
        /\ list[1] = AddColumn("container_instances", "reference")
        /\ list[2] = Uses("container_instances", {"reference", "repository", "tag"})
<1>1. SoundMigration(V27) /\ V27.tx = << >> /\ Len(V27.auto) = 2
  BY MigrationsSound, LatestIs51 DEF migrations, V27, OneByOne
<1>2. /\ Len(Steps(27)) = 2 /\ Len(migrations[27].tx) = 0
      /\ \A i \in 1 .. 2 : Steps(27)[i] = V27.auto[i]
  BY <1>1, OneByOneAt, Numbered DEF Steps
<1> QED
  BY <1>2 DEF V27, OneByOne

LEMMA List28 ==
    LET list == Steps(28)
        cols == InstanceColumns("container")
    IN  /\ Len(list) = 7 /\ Len(migrations[28].tx) = 7
        /\ list[1] = Create("container_instances_new", cols)
        /\ list[2] = CopySame("container_instances", "container_instances_new", cols)
        /\ list[3] = DropTable("container_instances")
        /\ list[4] = Rename("container_instances_new", "container_instances")
        /\ list[5] = Index("idx_instances_namespace", "container_instances", {"namespace"})
        /\ list[6] = Index("idx_instances_image", "container_instances", {"image_id"})
        /\ list[7] = Index("idx_instances_created_at", "container_instances", {"created_at"})
<1>1. SoundMigration(V28) /\ V28.auto = << >> /\ Len(migrations[28].tx) = 7
  BY MigrationsSound, LatestIs51 DEF migrations, V28, InTx
<1>2. /\ Len(Steps(28)) = 7 /\ Len(migrations[28].tx) = 7
      /\ \A i \in 1 .. 7 : Steps(28)[i] = V28.tx[i]
  BY <1>1, InTxAt, Numbered DEF Steps
<1> QED
  BY <1>2 DEF V28, InTx

LEMMA List29 ==
    LET list == Steps(29)
    IN  /\ Len(list) = 7 /\ Len(migrations[29].tx) = 7
        /\ list[1] = Rename("container_images", "images")
        /\ list[2] = Create("containers", InstanceColumns("name"))
        /\ list[3] = Copy("container_instances", [container_instances |->
            InstanceColumns("container")], "containers", InstanceColumns("name"))
        /\ list[4] = DropTable("container_instances")
        /\ list[5] = Index("idx_containers_namespace", "containers", {"namespace"})
        /\ list[6] = Index("idx_containers_image", "containers", {"image_id"})
        /\ list[7] = Index("idx_containers_created_at", "containers", {"created_at"})
<1>1. SoundMigration(V29) /\ V29.auto = << >> /\ Len(migrations[29].tx) = 7
  BY MigrationsSound, LatestIs51 DEF migrations, V29, InTx
<1>2. /\ Len(Steps(29)) = 7 /\ Len(migrations[29].tx) = 7
      /\ \A i \in 1 .. 7 : Steps(29)[i] = V29.tx[i]
  BY <1>1, InTxAt, Numbered DEF Steps
<1> QED
  BY <1>2 DEF V29, InTx

LEMMA List30 ==
    LET list == Steps(30)
    IN  /\ Len(list) = 9 /\ Len(migrations[30].tx) = 9
        /\ list[1] = Create("nodes", {"id", "name", "hostname", "os_release", "kernel_version",
            "architecture", "container_runtime", "kubelet_version", "status", "status_error",
            "sbom_scanned_at", "vulns_scanned_at", "grype_db_built"} \cup Stamps)
        /\ list[2] = Create("node_packages", {"id", "node_id", "name", "version", "type",
            "language", "purl", "details"})
        /\ list[3] = Create("node_vulnerabilities", NodeMatchColumns)
        /\ list[4] = Index("idx_nodes_status", "nodes", {"status"})
        /\ list[5] = Index("idx_node_packages_node", "node_packages", {"node_id"})
        /\ list[6] = Index("idx_node_packages_name", "node_packages", {"name"})
        /\ list[7] = Index("idx_node_vulnerabilities_node", "node_vulnerabilities", {"node_id"})
        /\ list[8] = Index("idx_node_vulnerabilities_cve", "node_vulnerabilities", {"cve_id"})
        /\ list[9] = Index("idx_node_vulnerabilities_severity", "node_vulnerabilities",
            {"severity"})
<1>1. SoundMigration(V30) /\ V30.auto = << >> /\ Len(migrations[30].tx) = 9
  BY MigrationsSound, LatestIs51 DEF migrations, V30, InTx
<1>2. /\ Len(Steps(30)) = 9 /\ Len(migrations[30].tx) = 9
      /\ \A i \in 1 .. 9 : Steps(30)[i] = V30.tx[i]
  BY <1>1, InTxAt, Numbered DEF Steps
<1> QED
  BY <1>2 DEF V30, InTx

LEMMA List31 ==
    LET list == Steps(31)
    IN  /\ Len(list) = 4 /\ Len(migrations[31].tx) = 4
        /\ list[1] = IndexIfAbsent("idx_node_vulnerabilities_package", "node_vulnerabilities",
            {"package_id"})
        /\ list[2] = IndexIfAbsent("idx_node_vulnerabilities_node_severity",
            "node_vulnerabilities", {"node_id", "severity"})
        /\ list[3] = IndexIfAbsent("idx_node_vulnerabilities_fix_status", "node_vulnerabilities",
            {"fix_status"})
        /\ list[4] = IndexIfAbsent("idx_node_packages_type", "node_packages", {"type"})
<1>1. SoundMigration(V31) /\ V31.auto = << >> /\ Len(migrations[31].tx) = 4
  BY MigrationsSound, LatestIs51 DEF migrations, V31, InTx
<1>2. /\ Len(Steps(31)) = 4 /\ Len(migrations[31].tx) = 4
      /\ \A i \in 1 .. 4 : Steps(31)[i] = V31.tx[i]
  BY <1>1, InTxAt, Numbered DEF Steps
<1> QED
  BY <1>2 DEF V31, InTx

LEMMA List32 ==
    LET list == Steps(32)
    IN  /\ Len(list) = 1 /\ Len(migrations[32].tx) = 1
        /\ list[1] = AddColumn("node_packages", "number_of_instances")
<1>1. SoundMigration(V32) /\ V32.auto = << >> /\ Len(migrations[32].tx) = 1
  BY MigrationsSound, LatestIs51 DEF migrations, V32, InTx
<1>2. /\ Len(Steps(32)) = 1 /\ Len(migrations[32].tx) = 1
      /\ \A i \in 1 .. 1 : Steps(32)[i] = V32.tx[i]
  BY <1>1, InTxAt, Numbered DEF Steps
<1> QED
  BY <1>2 DEF V32, InTx

LEMMA List33 ==
    LET list == Steps(33)
    IN  /\ Len(list) = 8 /\ Len(migrations[33].tx) = 8
        /\ list[1] = Create("node_vulnerabilities_new", NodeMatchColumns \cup {"count"})
        /\ list[2] = Copy("node_vulnerabilities", [node_vulnerabilities |-> NodeMatchColumns \
            {"id"}], "node_vulnerabilities_new", (NodeMatchColumns \ {"id"}) \cup {"count"})
        /\ list[3] = DropTable("node_vulnerabilities")
        /\ list[4] = Rename("node_vulnerabilities_new", "node_vulnerabilities")
        /\ list[5] = Index("idx_node_vulnerabilities_node", "node_vulnerabilities", {"node_id"})
        /\ list[6] = Index("idx_node_vulnerabilities_package", "node_vulnerabilities",
            {"package_id"})
        /\ list[7] = Index("idx_node_vulnerabilities_node_severity", "node_vulnerabilities",
            {"node_id", "severity"})
        /\ list[8] = Index("idx_node_vulnerabilities_fix_status", "node_vulnerabilities",
            {"fix_status"})
<1>1. SoundMigration(V33) /\ V33.auto = << >> /\ Len(migrations[33].tx) = 8
  BY MigrationsSound, LatestIs51 DEF migrations, V33, InTx
<1>2. /\ Len(Steps(33)) = 8 /\ Len(migrations[33].tx) = 8
      /\ \A i \in 1 .. 8 : Steps(33)[i] = V33.tx[i]
  BY <1>1, InTxAt, Numbered DEF Steps
<1> QED
  BY <1>2 DEF V33, InTx

LEMMA List34 ==
    LET list == Steps(34)
    IN  /\ Len(list) = 6 /\ Len(migrations[34].tx) = 6
        /\ list[1] = Create("node_vulnerability_details", {"id", "node_vulnerability_id",
            "details", "created_at"})
        /\ list[2] = Index("idx_node_vulnerability_details_vuln", "node_vulnerability_details",
            {"node_vulnerability_id"})
        /\ list[3] = Create("node_package_details", {"id", "node_package_id", "details",
            "created_at"})
        /\ list[4] = Index("idx_node_package_details_pkg", "node_package_details",
            {"node_package_id"})
        /\ list[5] = Copy("node_vulnerabilities", [node_vulnerabilities |-> {"id", "details"}],
            "node_vulnerability_details", {"node_vulnerability_id", "details"})
        /\ list[6] = Copy("node_packages", [node_packages |-> {"id", "details"}],
            "node_package_details", {"node_package_id", "details"})
<1>1. SoundMigration(V34) /\ V34.auto = << >> /\ Len(migrations[34].tx) = 6
  BY MigrationsSound, LatestIs51 DEF migrations, V34, InTx
<1>2. /\ Len(Steps(34)) = 6 /\ Len(migrations[34].tx) = 6
      /\ \A i \in 1 .. 6 : Steps(34)[i] = V34.tx[i]
  BY <1>1, InTxAt, Numbered DEF Steps
<1> QED
  BY <1>2 DEF V34, InTx

LEMMA List35 ==
    LET list == Steps(35)
    IN  /\ Len(list) = 2 /\ Len(migrations[35].tx) = 0
        /\ list[1] = AddColumn("nodes", "sbom")
        /\ list[2] = AddColumn("nodes", "vulnerabilities")
<1>1. SoundMigration(V35) /\ V35.tx = << >> /\ Len(V35.auto) = 2
  BY MigrationsSound, LatestIs51 DEF migrations, V35, OneByOne, AddColumns
<1>2. /\ Len(Steps(35)) = 2 /\ Len(migrations[35].tx) = 0
      /\ \A i \in 1 .. 2 : Steps(35)[i] = V35.auto[i]
  BY <1>1, OneByOneAt, Numbered DEF Steps
<1> QED
  BY <1>2 DEF V35, OneByOne, AddColumns

LEMMA List36 ==
    LET list == Steps(36)
    IN  /\ Len(list) = 2 /\ Len(migrations[36].tx) = 0
        /\ list[1] = CreateIfAbsent("metric_staleness", SeriesColumns \cup {"last_seen_unix"})
        /\ list[2] = IndexIfAbsent("idx_metric_staleness_last_seen", "metric_staleness",
            {"last_seen_unix"})
<1>1. SoundMigration(V36) /\ V36.tx = << >> /\ Len(V36.auto) = 2
  BY MigrationsSound, LatestIs51 DEF migrations, V36, OneByOne
<1>2. /\ Len(Steps(36)) = 2 /\ Len(migrations[36].tx) = 0
      /\ \A i \in 1 .. 2 : Steps(36)[i] = V36.auto[i]
  BY <1>1, OneByOneAt, Numbered DEF Steps
<1> QED
  BY <1>2 DEF V36, OneByOne

LEMMA List37 ==
    LET list == Steps(37)
        cols == SeriesColumns \cup {"expires_at_unix"}
    IN  /\ Len(list) = 5 /\ Len(migrations[37].tx) = 0
        /\ list[1] = Create("metric_staleness_v37", cols)
        /\ list[2] = Copy("metric_staleness", [metric_staleness |-> SeriesColumns],
            "metric_staleness_v37", cols)
        /\ list[3] = DropTable("metric_staleness")
        /\ list[4] = Rename("metric_staleness_v37", "metric_staleness")
        /\ list[5] = IndexIfAbsent("idx_metric_staleness_expires", "metric_staleness",
            {"expires_at_unix"})
<1>1. SoundMigration(V37) /\ V37.tx = << >> /\ Len(V37.auto) = 5
  BY MigrationsSound, LatestIs51 DEF migrations, V37, OneByOne
<1>2. /\ Len(Steps(37)) = 5 /\ Len(migrations[37].tx) = 0
      /\ \A i \in 1 .. 5 : Steps(37)[i] = V37.auto[i]
  BY <1>1, OneByOneAt, Numbered DEF Steps
<1> QED
  BY <1>2 DEF V37, OneByOne

LEMMA List38 ==
    LET list == Steps(38)
    IN  /\ Len(list) = 1 /\ Len(migrations[38].tx) = 0
        /\ list[1] = IndexIfAbsent("idx_vulnerabilities_image_cve", "vulnerabilities",
            {"image_id", "cve_id"})
<1>1. SoundMigration(V38) /\ V38.tx = << >> /\ Len(V38.auto) = 1
  BY MigrationsSound, LatestIs51 DEF migrations, V38, OneByOne
<1>2. /\ Len(Steps(38)) = 1 /\ Len(migrations[38].tx) = 0
      /\ \A i \in 1 .. 1 : Steps(38)[i] = V38.auto[i]
  BY <1>1, OneByOneAt, Numbered DEF Steps
<1> QED
  BY <1>2 DEF V38, OneByOne

LEMMA List39 ==
    LET list == Steps(39)
    IN  /\ Len(list) = 1 /\ Len(migrations[39].tx) = 0
        /\ list[1] = IndexIfAbsent("idx_node_vulnerabilities_node_cve", "node_vulnerabilities",
            {"node_id", "cve_id"})
<1>1. SoundMigration(V39) /\ V39.tx = << >> /\ Len(V39.auto) = 1
  BY MigrationsSound, LatestIs51 DEF migrations, V39, OneByOne
<1>2. /\ Len(Steps(39)) = 1 /\ Len(migrations[39].tx) = 0
      /\ \A i \in 1 .. 1 : Steps(39)[i] = V39.auto[i]
  BY <1>1, OneByOneAt, Numbered DEF Steps
<1> QED
  BY <1>2 DEF V39, OneByOne

LEMMA List40 ==
    LET list == Steps(40)
    IN  /\ Len(list) = 3 /\ Len(migrations[40].tx) = 0
        /\ list[1] = IndexIfAbsent("idx_vulnerabilities_fix_status", "vulnerabilities",
            {"fix_status"})
        /\ list[2] = IndexIfAbsent("idx_vulnerabilities_package_type", "vulnerabilities",
            {"package_type"})
        /\ list[3] = IndexIfAbsent("idx_images_os_name", "images", {"os_name"})
<1>1. SoundMigration(V40) /\ V40.tx = << >> /\ Len(V40.auto) = 3
  BY MigrationsSound, LatestIs51 DEF migrations, V40, OneByOne
<1>2. /\ Len(Steps(40)) = 3 /\ Len(migrations[40].tx) = 0
      /\ \A i \in 1 .. 3 : Steps(40)[i] = V40.auto[i]
  BY <1>1, OneByOneAt, Numbered DEF Steps
<1> QED
  BY <1>2 DEF V40, OneByOne

LEMMA List41 ==
    LET list == Steps(41)
    IN  /\ Len(list) = 1 /\ Len(migrations[41].tx) = 0
        /\ list[1] = DropIndex("idx_node_vulnerabilities_package")
<1>1. SoundMigration(V41) /\ V41.tx = << >> /\ Len(V41.auto) = 1
  BY MigrationsSound, LatestIs51 DEF migrations, V41, OneByOne
<1>2. /\ Len(Steps(41)) = 1 /\ Len(migrations[41].tx) = 0
      /\ \A i \in 1 .. 1 : Steps(41)[i] = V41.auto[i]
  BY <1>1, OneByOneAt, Numbered DEF Steps
<1> QED
  BY <1>2 DEF V41, OneByOne

LEMMA List42 ==
    LET list == Steps(42)
        kept == {"id", "node_id", "cve_id", "severity", "fix_status", "fix_version",
            "known_exploited", "count", "created_at"}
        copied == kept \cup {"package_name", "package_version", "package_type", "risk"}
    IN  /\ Len(list) = 11 /\ Len(migrations[42].tx) = 11
        /\ list[1] = Create("node_vulnerabilities_new", copied \cup {"epss_score",
            "epss_percentile"})
        /\ list[2] = CopyNarrower("node_vulnerabilities", [node_vulnerabilities |-> kept \cup
            {"package_id", "score"}, node_packages |-> {"id", "name", "version", "type"}],
            "node_vulnerabilities_new", copied)
        /\ list[3] = DropTable("node_vulnerabilities")
        /\ list[4] = Rename("node_vulnerabilities_new", "node_vulnerabilities")
        /\ list[5] = Index("idx_node_vulnerabilities_node", "node_vulnerabilities", {"node_id"})
        /\ list[6] = Index("idx_node_vulnerabilities_cve", "node_vulnerabilities", {"cve_id"})
        /\ list[7] = Index("idx_node_vulnerabilities_severity", "node_vulnerabilities",
            {"severity"})
        /\ list[8] = Index("idx_node_vulnerabilities_node_severity", "node_vulnerabilities",
            {"node_id", "severity"})
        /\ list[9] = Index("idx_node_vulnerabilities_fix_status", "node_vulnerabilities",
            {"fix_status"})
        /\ list[10] = Index("idx_node_vulnerabilities_node_cve", "node_vulnerabilities",
            {"node_id", "cve_id"})
        /\ list[11] = Index("idx_node_vulnerabilities_package_type", "node_vulnerabilities",
            {"package_type"})
<1>1. SoundMigration(V42) /\ V42.auto = << >> /\ Len(migrations[42].tx) = 11
  BY MigrationsSound, LatestIs51 DEF migrations, V42, InTx
<1>2. /\ Len(Steps(42)) = 11 /\ Len(migrations[42].tx) = 11
      /\ \A i \in 1 .. 11 : Steps(42)[i] = V42.tx[i]
  BY <1>1, InTxAt, Numbered DEF Steps
<1> QED
  BY <1>2 DEF V42, InTx

LEMMA List43 ==
    LET list == Steps(43)
    IN  /\ Len(list) = 4 /\ Len(migrations[43].tx) = 0
        /\ list[1] = Rename("vulnerabilities", "image_vulnerabilities")
        /\ list[2] = Rename("vulnerability_details", "image_vulnerability_details")
        /\ list[3] = Rename("packages", "image_packages")
        /\ list[4] = Rename("package_details", "image_package_details")
<1>1. SoundMigration(V43) /\ V43.tx = << >> /\ Len(V43.auto) = 4
  BY MigrationsSound, LatestIs51 DEF migrations, V43, OneByOne
<1>2. /\ Len(Steps(43)) = 4 /\ Len(migrations[43].tx) = 0
      /\ \A i \in 1 .. 4 : Steps(43)[i] = V43.auto[i]
  BY <1>1, OneByOneAt, Numbered DEF Steps
<1> QED
  BY <1>2 DEF V43, OneByOne

LEMMA List44 ==
    LET list == Steps(44)
    IN  /\ Len(list) = 2 /\ Len(migrations[44].tx) = 0
        /\ list[1] = AddColumn("image_packages", "language")
        /\ list[2] = AddColumn("image_packages", "purl")
<1>1. SoundMigration(V44) /\ V44.tx = << >> /\ Len(V44.auto) = 2
  BY MigrationsSound, LatestIs51 DEF migrations, V44, OneByOne, AddColumns
<1>2. /\ Len(Steps(44)) = 2 /\ Len(migrations[44].tx) = 0
      /\ \A i \in 1 .. 2 : Steps(44)[i] = V44.auto[i]
  BY <1>1, OneByOneAt, Numbered DEF Steps
<1> QED
  BY <1>2 DEF V44, OneByOne, AddColumns

LEMMA List45 ==
    LET list == Steps(45)
    IN  /\ Len(list) = 22 /\ Len(migrations[45].tx) = 0
        /\ list[1] = DropIndex("idx_vulnerabilities_image")
        /\ list[2] = DropIndex("idx_vulnerabilities_severity")
        /\ list[3] = DropIndex("idx_vulnerabilities_cve")
        /\ list[4] = DropIndex("idx_vulnerabilities_image_severity")
        /\ list[5] = DropIndex("idx_vulnerabilities_image_cve")
        /\ list[6] = DropIndex("idx_vulnerabilities_fix_status")
        /\ list[7] = DropIndex("idx_vulnerabilities_package_type")
        /\ list[8] = IndexIfAbsent("idx_image_vulnerabilities_image", "image_vulnerabilities",
            {"image_id"})
        /\ list[9] = IndexIfAbsent("idx_image_vulnerabilities_severity", "image_vulnerabilities",
            {"severity"})
        /\ list[10] = IndexIfAbsent("idx_image_vulnerabilities_cve", "image_vulnerabilities",
            {"cve_id"})
        /\ list[11] = IndexIfAbsent("idx_image_vulnerabilities_image_severity",
            "image_vulnerabilities", {"image_id", "severity"})
        /\ list[12] = IndexIfAbsent("idx_image_vulnerabilities_image_cve",
            "image_vulnerabilities", {"image_id", "cve_id"})
        /\ list[13] = IndexIfAbsent("idx_image_vulnerabilities_fix_status",
            "image_vulnerabilities", {"fix_status"})
        /\ list[14] = IndexIfAbsent("idx_image_vulnerabilities_package_type",
            "image_vulnerabilities", {"package_type"})
        /\ list[15] = DropIndex("idx_packages_image")
        /\ list[16] = DropIndex("idx_packages_type")
        /\ list[17] = IndexIfAbsent("idx_image_packages_image", "image_packages", {"image_id"})
        /\ list[18] = IndexIfAbsent("idx_image_packages_type", "image_packages", {"type"})
        /\ list[19] = DropIndex("idx_vulnerability_details_vuln")
        /\ list[20] = IndexIfAbsent("idx_image_vulnerability_details_vuln",
            "image_vulnerability_details", {"vulnerability_id"})
        /\ list[21] = DropIndex("idx_package_details_pkg")
        /\ list[22] = IndexIfAbsent("idx_image_package_details_pkg", "image_package_details",
            {"package_id"})
<1>1. SoundMigration(V45) /\ V45.tx = << >> /\ Len(V45.auto) = 22
  BY MigrationsSound, LatestIs51 DEF migrations, V45, OneByOne
<1>2. /\ Len(Steps(45)) = 22 /\ Len(migrations[45].tx) = 0
      /\ \A i \in 1 .. 22 : Steps(45)[i] = V45.auto[i]
  BY <1>1, OneByOneAt, Numbered DEF Steps
<1> QED
  BY <1>2 DEF V45, OneByOne

LEMMA List46 ==
    LET list == Steps(46)
    IN  /\ Len(list) = 2 /\ Len(migrations[46].tx) = 0
        /\ list[1] = Uses("node_vulnerability_details", {"node_vulnerability_id"})
        /\ list[2] = Uses("node_package_details", {"node_package_id"})
<1>1. SoundMigration(V46) /\ V46.tx = << >> /\ Len(V46.auto) = 2
  BY MigrationsSound, LatestIs51 DEF migrations, V46, OneByOne
<1>2. /\ Len(Steps(46)) = 2 /\ Len(migrations[46].tx) = 0
      /\ \A i \in 1 .. 2 : Steps(46)[i] = V46.auto[i]
  BY <1>1, OneByOneAt, Numbered DEF Steps
<1> QED
  BY <1>2 DEF V46, OneByOne

LEMMA List47 ==
    LET list == Steps(47)
    IN  /\ Len(list) = 4 /\ Len(migrations[47].tx) = 0
        /\ list[1] = AddColumn("nodes", "vulnerabilities_compressed")
        /\ list[2] = AddColumn("nodes", "sbom_compressed")
        /\ list[3] = AddColumn("images", "vulnerabilities_compressed")
        /\ list[4] = AddColumn("images", "sbom_compressed")
<1> DEFINE p1 == AddColumns("nodes", <<"vulnerabilities_compressed", "sbom_compressed">>)
           p2 == AddColumns("images", <<"vulnerabilities_compressed", "sbom_compressed">>)
<1>1. V47 = OneByOne(p1 \o p2)
  BY DEF V47
<1>2. /\ IsList(p1) /\ Len(p1) = 2
      /\ IsList(p2) /\ Len(p2) = 2
  BY DEF IsList, AddColumns
<1>3. /\ p1[1] = AddColumn("nodes", "vulnerabilities_compressed")
      /\ p1[2] = AddColumn("nodes", "sbom_compressed")
      /\ p2[1] = AddColumn("images", "vulnerabilities_compressed")
      /\ p2[2] = AddColumn("images", "sbom_compressed")
  BY DEF AddColumns
<1> HIDE DEF p1, p2
<1> DEFINE q1 == p1 \o p2
<1>4. /\ IsList(q1) /\ Len(q1) = Len(p1) + Len(p2)
      /\ \A i \in 1 .. Len(p1) : q1[i] = p1[i]
      /\ \A i \in Len(p1) + 1 .. Len(p1) + Len(p2) : q1[i] = p2[i - Len(p1)]
  BY <1>2, ConcatAt
<1> HIDE DEF q1
<1>5. /\ Len(q1) = 4 /\ q1[1] = p1[1] /\ q1[2] = p1[2] /\ q1[3] = p2[1] /\ q1[4] = p2[2]
  BY <1>2, <1>4
<1>6. V47.tx = << >> /\ V47.auto = q1
  BY <1>1 DEF OneByOne, q1
<1>7. SoundMigration(V47)
  BY MigrationsSound, LatestIs51 DEF migrations
<1>8. /\ Len(Steps(47)) = 4 /\ Len(migrations[47].tx) = 0
      /\ \A i \in 1 .. 4 : Steps(47)[i] = q1[i]
  BY <1>5, <1>6, <1>7, OneByOneAt, Numbered DEF Steps
<1> QED
  BY <1>3, <1>5, <1>8

LEMMA List48 ==
    LET list == Steps(48)
    IN  /\ Len(list) = 3 /\ Len(migrations[48].tx) = 0
        /\ list[1] = DropIfPresent("metric_staleness")
        /\ list[2] = Create("metric_staleness", SeriesColumns \cup {"key_hash",
            "expires_at_unix"})
        /\ list[3] = Index("idx_metric_staleness_expires", "metric_staleness",
            {"expires_at_unix"})
<1>1. SoundMigration(V48) /\ V48.tx = << >> /\ Len(V48.auto) = 3
  BY MigrationsSound, LatestIs51 DEF migrations, V48, OneByOne
<1>2. /\ Len(Steps(48)) = 3 /\ Len(migrations[48].tx) = 0
      /\ \A i \in 1 .. 3 : Steps(48)[i] = V48.auto[i]
  BY <1>1, OneByOneAt, Numbered DEF Steps
<1> QED
  BY <1>2 DEF V48, OneByOne

LEMMA List49 ==
    LET list == Steps(49)
    IN  /\ Len(list) = 2 /\ Len(migrations[49].tx) = 0
        /\ list[1] = IndexIfAbsent("idx_image_vulnerabilities_cve_pkg", "image_vulnerabilities",
            {"cve_id", "package_name", "package_version"})
        /\ list[2] = IndexIfAbsent("idx_containers_ns_image", "containers", {"namespace",
            "image_id"})
<1>1. SoundMigration(V49) /\ V49.tx = << >> /\ Len(V49.auto) = 2
  BY MigrationsSound, LatestIs51 DEF migrations, V49, OneByOne
<1>2. /\ Len(Steps(49)) = 2 /\ Len(migrations[49].tx) = 0
      /\ \A i \in 1 .. 2 : Steps(49)[i] = V49.auto[i]
  BY <1>1, OneByOneAt, Numbered DEF Steps
<1> QED
  BY <1>2 DEF V49, OneByOne

LEMMA List50 ==
    LET list == Steps(50)
    IN  /\ Len(list) = 1 /\ Len(migrations[50].tx) = 0
        /\ list[1] = IndexIfAbsent("idx_node_vulnerabilities_cve_pkg", "node_vulnerabilities",
            {"cve_id", "package_name", "package_version"})
<1>1. SoundMigration(V50) /\ V50.tx = << >> /\ Len(V50.auto) = 1
  BY MigrationsSound, LatestIs51 DEF migrations, V50, OneByOne
<1>2. /\ Len(Steps(50)) = 1 /\ Len(migrations[50].tx) = 0
      /\ \A i \in 1 .. 1 : Steps(50)[i] = V50.auto[i]
  BY <1>1, OneByOneAt, Numbered DEF Steps
<1> QED
  BY <1>2 DEF V50, OneByOne

LEMMA List51 ==
    LET list == Steps(51)
    IN  /\ Len(list) = 8 /\ Len(migrations[51].tx) = 0
        /\ list[1] = SeedIfAbsent([sbom_failed |-> 5])
        /\ list[2] = Rank("completed", 1)
        /\ list[3] = Rank("scanning_vulnerabilities", 2)
        /\ list[4] = Rank("generating_sbom", 3)
        /\ list[5] = Rank("pending", 4)
        /\ list[6] = Rank("sbom_failed", 5)
        /\ list[7] = Rank("sbom_unavailable", 6)
        /\ list[8] = Rank("vuln_scan_failed", 7)
<1>1. SoundMigration(V51) /\ V51.tx = << >> /\ Len(V51.auto) = 8
  BY MigrationsSound, LatestIs51 DEF migrations, V51, OneByOne
<1>2. /\ Len(Steps(51)) = 8 /\ Len(migrations[51].tx) = 0
      /\ \A i \in 1 .. 8 : Steps(51)[i] = V51.auto[i]
  BY <1>1, OneByOneAt, Numbered DEF Steps
<1> QED
  BY <1>2 DEF V51, OneByOne

-----------------------------------------------------------------------------
(* The migrations that change a table, statement by statement *)

LEMMA QuietStatements ==
    /\ \A i, t, cols : Index(i, t, cols).op \in Quiet
    /\ \A i, t, cols : IndexIfAbsent(i, t, cols).op \in Quiet
    /\ \A i : DropIndex(i).op \in Quiet
    /\ \A t, cols : Uses(t, cols).op \in Quiet
    /\ \A t : Clear(t).op \in Quiet
    /\ \A t, needs, to, cols : Copy(t, needs, to, cols).op \in Quiet
    /\ \A t, to, cols : CopySame(t, to, cols).op \in Quiet
    /\ \A ranks : Seed(ranks).op \in Quiet /\ SeedIfAbsent(ranks).op \in Quiet
    /\ \A status, order : Rank(status, order).op \in Quiet
    /\ ReparseSBOMs.op \in Quiet /\ ReparseReports.op \in Quiet
BY DEF Quiet, Index, IndexIfAbsent, DropIndex, Uses, Clear, Copy, CopySame, Seed, SeedIfAbsent,
       Rank, ReparseSBOMs, ReparseReports, Reparse

LEMMA Step1 ==
    ASSUME NEW db, IsDatabase(db), NEW k \in 0 .. 7, Here1(db, k),
           ~Refused(db, Steps(1)[k + 1])
    PROVE  LET new == After(db, Steps(1)[k + 1])
           IN  /\ Here1(new, k + 1)
               /\ \A t : t \notin {"container_images", "container_instances", "scan_status"}
                       => Same(db, new, t)
<1> DEFINE s == Steps(1)[k + 1]
           new == After(db, s)
<1>1. CASE k = 0
  <2>1. s = CreateIfAbsent("container_images", Images1)
    BY <1>1, List1 DEF Images1
  <2> QED
    BY <1>1, <2>1, CreateIfAbsentEffect DEF Here1, Is, No, Has, Same
<1>2. CASE k = 3
  <2>1. s = CreateIfAbsent("container_instances", Instances1)
    BY <1>2, List1 DEF Instances1
  <2> QED
    BY <1>2, <2>1, CreateIfAbsentEffect DEF Here1, Is, No, Has, Same
<1>3. CASE k = 6
  <2>1. s = CreateIfAbsent("scan_status", StatusColumns)
    BY <1>3, List1
  <2> QED
    BY <1>3, <2>1, CreateIfAbsentEffect DEF Here1, Is, No, Has, Same
<1>4. CASE k \in {1, 2, 4, 5, 7}
  <2>1. s.op \in Quiet
    BY <1>4, List1, QuietStatements
  <2>2. new.tables = db.tables
    BY <2>1, QuietEffect
  <2> HIDE DEF s, new
  <2>3. Here1(new, k + 1) /\ \A t : Same(db, new, t)
    BY <1>4, <2>2 DEF Here1, Is, No, Has, Same
  <2> QED
    BY <2>3 DEF s, new
<1> QED
  BY <1>1, <1>2, <1>3, <1>4

LEMMA Step2 ==
    ASSUME NEW db, IsDatabase(db), NEW k \in 0 .. 9, Here2(db, k),
           ~Refused(db, Steps(2)[k + 1])
    PROVE  LET new == After(db, Steps(2)[k + 1])
           IN  /\ Here2(new, k + 1)
               /\ \A t :
                     t \notin {"container_images", "container_images_new", "container_instances",
                             "container_instances_new"}
                       => Same(db, new, t)
<1> DEFINE s == Steps(2)[k + 1]
           new == After(db, s)
<1>1. CASE k = 0
  <2>1. s = Create("container_images_new", Images2)
    BY <1>1, List2 DEF Images2
  <2> QED
    BY <1>1, <2>1, CreateEffect DEF Here2, Is, No, Has, Same
<1>2. CASE k = 2
  <2>1. s = Create("container_instances_new", Instances2)
    BY <1>2, List2 DEF Instances2
  <2> QED
    BY <1>2, <2>1, CreateEffect DEF Here2, Is, No, Has, Same
<1>3. CASE k = 4
  <2>1. s = DropTable("container_instances")
    BY <1>3, List2
  <2> QED
    BY <1>3, <2>1, DropTableEffect DEF Here2, Is, No, Has, Same
<1>4. CASE k = 5
  <2>1. s = DropTable("container_images")
    BY <1>4, List2
  <2> QED
    BY <1>4, <2>1, DropTableEffect DEF Here2, Is, No, Has, Same
<1>5. CASE k = 6
  <2>1. s = Rename("container_images_new", "container_images")
    BY <1>5, List2
  <2> QED
    BY <1>5, <2>1, RenameEffect DEF Here2, Is, No, Has, Same
<1>6. CASE k = 7
  <2>1. s = Rename("container_instances_new", "container_instances")
    BY <1>6, List2
  <2> QED
    BY <1>6, <2>1, RenameEffect DEF Here2, Is, No, Has, Same
<1>7. CASE k \in {1, 8, 9}
  <2>1. s.op \in Quiet
    BY <1>7, List2, QuietStatements
  <2>2. new.tables = db.tables
    BY <2>1, QuietEffect
  <2> HIDE DEF s, new
  <2>3. Here2(new, k + 1) /\ \A t : Same(db, new, t)
    BY <1>7, <2>2 DEF Here2, Is, No, Has, Same
  <2> QED
    BY <2>3 DEF s, new
<1>8. CASE k = 3
  <2>1. /\ s.op = "copy" /\ "container_images" \in DOMAIN s.needs
        /\ "repository" \in s.needs["container_images"]
    BY <1>8, List2 DEF Copy
  <2>2. "repository" \in db.tables["container_images"]
    BY <2>1 DEF Refused, HasColumns
  <2>3. "repository" \notin Images2
    BY DEF Images2, Stamps
  <2>4. new.tables = db.tables
    BY <2>1, QuietEffect DEF Quiet
  <2> HIDE DEF s, new
  <2>5. Here2(new, k + 1) /\ \A t : Same(db, new, t)
    BY <1>8, <2>2, <2>3, <2>4 DEF Here2, Is, No, Has, Same
  <2> QED
    BY <2>5 DEF s, new
<1> QED
  BY <1>1, <1>2, <1>3, <1>4, <1>5, <1>6, <1>7, <1>8

LEMMA Step3 ==
    ASSUME NEW db, IsDatabase(db), NEW k \in 0 .. 6, Here3(db, k),
           ~Refused(db, Steps(3)[k + 1])
    PROVE  LET new == After(db, Steps(3)[k + 1])
           IN  /\ Here3(new, k + 1)
               /\ \A t : t \notin {"container_images", "container_instances"}
                       => Same(db, new, t)
<1> DEFINE s == Steps(3)[k + 1]
           new == After(db, s)
<1>1. CASE k = 0
  <2>1. s = AddColumn("container_images", "sbom")
    BY <1>1, List3
  <2> QED
    BY <1>1, <2>1, AddEffect DEF Here3, Is, No, Has, Same, Images2, Images3, Instances2, Instances3
<1>2. CASE k = 1
  <2>1. s = AddColumn("container_images", "scan_status")
    BY <1>2, List3
  <2> QED
    BY <1>2, <2>1, AddEffect DEF Here3, Is, No, Has, Same, Images2, Images3, Instances2, Instances3
<1>3. CASE k = 2
  <2>1. s = AddColumn("container_images", "scan_error")
    BY <1>3, List3
  <2> QED
    BY <1>3, <2>1, AddEffect DEF Here3, Is, No, Has, Same, Images2, Images3, Instances2, Instances3
<1>4. CASE k = 3
  <2>1. s = AddColumn("container_images", "scanned_at")
    BY <1>4, List3
  <2> QED
    BY <1>4, <2>1, AddEffect DEF Here3, Is, No, Has, Same, Images2, Images3, Instances2, Instances3
<1>5. CASE k = 4
  <2>1. s = AddColumn("container_instances", "node_name")
    BY <1>5, List3
  <2> QED
    BY <1>5, <2>1, AddEffect DEF Here3, Is, No, Has, Same, Images2, Images3, Instances2, Instances3
<1>6. CASE k = 5
  <2>1. s = AddColumn("container_instances", "container_runtime")
    BY <1>6, List3
  <2> QED
    BY <1>6, <2>1, AddEffect DEF Here3, Is, No, Has, Same, Images2, Images3, Instances2, Instances3
<1>7. CASE k = 6
  <2>1. s.op \in Quiet
    BY <1>7, List3, QuietStatements
  <2>2. new.tables = db.tables
    BY <2>1, QuietEffect
  <2> HIDE DEF s, new
  <2>3. Here3(new, k + 1) /\ \A t : Same(db, new, t)
    BY <1>7, <2>2 DEF Here3, Is, No, Has, Same
  <2> QED
    BY <2>3 DEF s, new
<1> QED
  BY <1>1, <1>2, <1>3, <1>4, <1>5, <1>6, <1>7

LEMMA Step4 ==
    ASSUME NEW db, IsDatabase(db), NEW k \in 0 .. 4, Here4(db, k),
           ~Refused(db, Steps(4)[k + 1])
    PROVE  LET new == After(db, Steps(4)[k + 1])
           IN  /\ Here4(new, k + 1)
               /\ \A t : t \notin {"container_images"}
                       => Same(db, new, t)
<1> DEFINE s == Steps(4)[k + 1]
           new == After(db, s)
<1>1. CASE k = 0
  <2>1. s = AddColumn("container_images", "vulnerabilities")
    BY <1>1, List4
  <2> QED
    BY <1>1, <2>1, AddEffect DEF Here4, Is, No, Has, Same, Images3, Images4
<1>2. CASE k = 1
  <2>1. s = AddColumn("container_images", "vulnerability_status")
    BY <1>2, List4
  <2> QED
    BY <1>2, <2>1, AddEffect DEF Here4, Is, No, Has, Same, Images3, Images4
<1>3. CASE k = 2
  <2>1. s = AddColumn("container_images", "vulnerability_error")
    BY <1>3, List4
  <2> QED
    BY <1>3, <2>1, AddEffect DEF Here4, Is, No, Has, Same, Images3, Images4
<1>4. CASE k = 3
  <2>1. s = AddColumn("container_images", "vulnerabilities_scanned_at")
    BY <1>4, List4
  <2> QED
    BY <1>4, <2>1, AddEffect DEF Here4, Is, No, Has, Same, Images3, Images4
<1>5. CASE k = 4
  <2>1. s.op \in Quiet
    BY <1>5, List4, QuietStatements
  <2>2. new.tables = db.tables
    BY <2>1, QuietEffect
  <2> HIDE DEF s, new
  <2>3. Here4(new, k + 1) /\ \A t : Same(db, new, t)
    BY <1>5, <2>2 DEF Here4, Is, No, Has, Same
  <2> QED
    BY <2>3 DEF s, new
<1> QED
  BY <1>1, <1>2, <1>3, <1>4, <1>5

LEMMA Step5 ==
    ASSUME NEW db, IsDatabase(db), NEW k \in 0 .. 5, Here5(db, k),
           ~Refused(db, Steps(5)[k + 1])
    PROVE  LET new == After(db, Steps(5)[k + 1])
           IN  /\ Here5(new, k + 1)
               /\ \A t : t \notin {"container_images", "container_images_new"}
                       => Same(db, new, t)
<1> DEFINE s == Steps(5)[k + 1]
           new == After(db, s)
<1>1. CASE k = 0
  <2>1. s = Create("container_images_new", Images5)
    BY <1>1, List5 DEF Images5
  <2> QED
    BY <1>1, <2>1, CreateEffect DEF Here5, Is, No, Has, Same
<1>2. CASE k = 2
  <2>1. s = DropTable("container_images")
    BY <1>2, List5
  <2> QED
    BY <1>2, <2>1, DropTableEffect DEF Here5, Is, No, Has, Same
<1>3. CASE k = 3
  <2>1. s = Rename("container_images_new", "container_images")
    BY <1>3, List5
  <2> QED
    BY <1>3, <2>1, RenameEffect DEF Here5, Is, No, Has, Same
<1>4. CASE k \in {1, 4, 5}
  <2>1. s.op \in Quiet
    BY <1>4, List5, QuietStatements
  <2>2. new.tables = db.tables
    BY <2>1, QuietEffect
  <2> HIDE DEF s, new
  <2>3. Here5(new, k + 1) /\ \A t : Same(db, new, t)
    BY <1>4, <2>2 DEF Here5, Is, No, Has, Same
  <2> QED
    BY <2>3 DEF s, new
<1> QED
  BY <1>1, <1>2, <1>3, <1>4

LEMMA Step6 ==
    ASSUME NEW db, IsDatabase(db), NEW k \in 0 .. 9, Here6(db, k),
           ~Refused(db, Steps(6)[k + 1])
    PROVE  LET new == After(db, Steps(6)[k + 1])
           IN  /\ Here6(new, k + 1)
               /\ \A t : t \notin {"packages", "vulnerabilities", "image_summary"}
                       => Same(db, new, t)
<1> DEFINE s == Steps(6)[k + 1]
           new == After(db, s)
<1>1. CASE k = 0
  <2>1. s = Create("packages", PackageColumns)
    BY <1>1, List6
  <2> QED
    BY <1>1, <2>1, CreateEffect DEF Here6, Is, No, Has, Same
<1>2. CASE k = 3
  <2>1. s = Create("vulnerabilities", Vulnerabilities6)
    BY <1>2, List6 DEF Vulnerabilities6
  <2> QED
    BY <1>2, <2>1, CreateEffect DEF Here6, Is, No, Has, Same
<1>3. CASE k = 7
  <2>1. s = Create("image_summary", Summary)
    BY <1>3, List6 DEF Summary
  <2> QED
    BY <1>3, <2>1, CreateEffect DEF Here6, Is, No, Has, Same
<1>4. CASE k \in {1, 2, 4, 5, 6, 8, 9}
  <2>1. s.op \in Quiet
    BY <1>4, List6, QuietStatements
  <2>2. new.tables = db.tables
    BY <2>1, QuietEffect
  <2> HIDE DEF s, new
  <2>3. Here6(new, k + 1) /\ \A t : Same(db, new, t)
    BY <1>4, <2>2 DEF Here6, Is, No, Has, Same
  <2> QED
    BY <2>3 DEF s, new
<1> QED
  BY <1>1, <1>2, <1>3, <1>4

LEMMA Step7 ==
    ASSUME NEW db, IsDatabase(db), NEW k \in 0 .. 3, Here7(db, k),
           ~Refused(db, Steps(7)[k + 1])
    PROVE  LET new == After(db, Steps(7)[k + 1])
           IN  /\ Here7(new, k + 1)
               /\ \A t : t \notin {"vulnerabilities"}
                       => Same(db, new, t)
<1> DEFINE s == Steps(7)[k + 1]
           new == After(db, s)
<1>1. CASE k = 0
  <2>1. s = AddColumn("vulnerabilities", "risk")
    BY <1>1, List7
  <2> QED
    BY <1>1, <2>1, AddEffect DEF Here7, Is, No, Has, Same, Vulnerabilities6,
                                  Vulnerabilities7, Scores
<1>2. CASE k = 1
  <2>1. s = AddColumn("vulnerabilities", "epss_score")
    BY <1>2, List7
  <2> QED
    BY <1>2, <2>1, AddEffect DEF Here7, Is, No, Has, Same, Vulnerabilities6,
                                  Vulnerabilities7, Scores
<1>3. CASE k = 2
  <2>1. s = AddColumn("vulnerabilities", "epss_percentile")
    BY <1>3, List7
  <2> QED
    BY <1>3, <2>1, AddEffect DEF Here7, Is, No, Has, Same, Vulnerabilities6,
                                  Vulnerabilities7, Scores
<1>4. CASE k = 3
  <2>1. s = AddColumn("vulnerabilities", "known_exploited")
    BY <1>4, List7
  <2> QED
    BY <1>4, <2>1, AddEffect DEF Here7, Is, No, Has, Same, Vulnerabilities6,
                                  Vulnerabilities7, Scores
<1> QED
  BY <1>1, <1>2, <1>3, <1>4

LEMMA Step8 ==
    ASSUME NEW db, IsDatabase(db), NEW k \in 0 .. 11, Here8(db, k),
           ~Refused(db, Steps(8)[k + 1])
    PROVE  LET new == After(db, Steps(8)[k + 1])
           IN  /\ Here8(new, k + 1)
               /\ \A t : t \notin {"container_images", "container_images_new"}
                       => Same(db, new, t)
<1> DEFINE s == Steps(8)[k + 1]
           new == After(db, s)
<1>1. CASE k = 0
  <2>1. s = AddColumn("container_images", "status")
    BY <1>1, List8
  <2> QED
    BY <1>1, <2>1, AddEffect DEF Here8, Is, No, Has, Same, Images5, Images8
<1>2. CASE k = 1
  <2>1. s = AddColumn("container_images", "status_error")
    BY <1>2, List8
  <2> QED
    BY <1>2, <2>1, AddEffect DEF Here8, Is, No, Has, Same, Images5, Images8
<1>3. CASE k = 2
  <2>1. s = AddColumn("container_images", "sbom_scanned_at")
    BY <1>3, List8
  <2> QED
    BY <1>3, <2>1, AddEffect DEF Here8, Is, No, Has, Same, Images5, Images8
<1>4. CASE k = 3
  <2>1. s = AddColumn("container_images", "vulns_scanned_at")
    BY <1>4, List8
  <2> QED
    BY <1>4, <2>1, AddEffect DEF Here8, Is, No, Has, Same, Images5, Images8
<1>5. CASE k = 6
  <2>1. s = Create("container_images_new", Images8)
    BY <1>5, List8 DEF Images8
  <2> QED
    BY <1>5, <2>1, CreateEffect DEF Here8, Is, No, Has, Same
<1>6. CASE k = 8
  <2>1. s = DropTable("container_images")
    BY <1>6, List8
  <2> QED
    BY <1>6, <2>1, DropTableEffect DEF Here8, Is, No, Has, Same
<1>7. CASE k = 9
  <2>1. s = Rename("container_images_new", "container_images")
    BY <1>7, List8
  <2> QED
    BY <1>7, <2>1, RenameEffect DEF Here8, Is, No, Has, Same
<1>8. CASE k \in {4, 5, 7, 10, 11}
  <2>1. s.op \in Quiet
    BY <1>8, List8, QuietStatements
  <2>2. new.tables = db.tables
    BY <2>1, QuietEffect
  <2> HIDE DEF s, new
  <2>3. Here8(new, k + 1) /\ \A t : Same(db, new, t)
    BY <1>8, <2>2 DEF Here8, Is, No, Has, Same
  <2> QED
    BY <2>3 DEF s, new
<1> QED
  BY <1>1, <1>2, <1>3, <1>4, <1>5, <1>6, <1>7, <1>8

LEMMA Step9 ==
    ASSUME NEW db, IsDatabase(db), NEW k \in 0 .. 2, Here9(db, k),
           ~Refused(db, Steps(9)[k + 1])
    PROVE  LET new == After(db, Steps(9)[k + 1])
           IN  /\ Here9(new, k + 1)
               /\ \A t : t \notin {"container_images"}
                       => Same(db, new, t)
<1> DEFINE s == Steps(9)[k + 1]
           new == After(db, s)
<1>1. CASE k = 0
  <2>1. s = AddColumn("container_images", "os_name")
    BY <1>1, List9
  <2> QED
    BY <1>1, <2>1, AddEffect DEF Here9, Is, No, Has, Same, Images8, Images9
<1>2. CASE k = 1
  <2>1. s = AddColumn("container_images", "os_version")
    BY <1>2, List9
  <2> QED
    BY <1>2, <2>1, AddEffect DEF Here9, Is, No, Has, Same, Images8, Images9
<1>3. CASE k = 2
  <2>1. s.op \in Quiet
    BY <1>3, List9, QuietStatements
  <2>2. new.tables = db.tables
    BY <2>1, QuietEffect
  <2> HIDE DEF s, new
  <2>3. Here9(new, k + 1) /\ \A t : Same(db, new, t)
    BY <1>3, <2>2 DEF Here9, Is, No, Has, Same
  <2> QED
    BY <2>3 DEF s, new
<1> QED
  BY <1>1, <1>2, <1>3

LEMMA Step10 ==
    ASSUME NEW db, IsDatabase(db), NEW k \in 0 .. 0, Here10(db, k),
           ~Refused(db, Steps(10)[k + 1])
    PROVE  LET new == After(db, Steps(10)[k + 1])
           IN  /\ Here10(new, k + 1)
               /\ \A t : t \notin {"image_summary"}
                       => Same(db, new, t)
<1> DEFINE s == Steps(10)[k + 1]
           new == After(db, s)
<1>1. CASE k = 0
  <2>1. s = DropIfPresent("image_summary")
    BY <1>1, List10
  <2> QED
    BY <1>1, <2>1, DropIfPresentEffect DEF Here10, Is, No, Has, Same
<1> QED
  BY <1>1

LEMMA Step11 ==
    ASSUME NEW db, IsDatabase(db), NEW k \in 0 .. 1, Here11(db, k),
           ~Refused(db, Steps(11)[k + 1])
    PROVE  LET new == After(db, Steps(11)[k + 1])
           IN  /\ Here11(new, k + 1)
               /\ \A t : t \notin {"scan_status"}
                       => Same(db, new, t)
<1> DEFINE s == Steps(11)[k + 1]
           new == After(db, s)
<1>1. CASE k = 0
  <2>1. s = CreateIfAbsent("scan_status", StatusColumns)
    BY <1>1, List11
  <2> QED
    BY <1>1, <2>1, CreateIfAbsentEffect DEF Here11, Is, No, Has, Same
<1>2. CASE k = 1
  <2>1. s.op \in Quiet
    BY <1>2, List11, QuietStatements
  <2>2. new.tables = db.tables
    BY <2>1, QuietEffect
  <2> HIDE DEF s, new
  <2>3. Here11(new, k + 1) /\ \A t : Same(db, new, t)
    BY <1>2, <2>2 DEF Here11, Is, No, Has, Same
  <2> QED
    BY <2>3 DEF s, new
<1> QED
  BY <1>1, <1>2

LEMMA Step12 ==
    ASSUME NEW db, IsDatabase(db), NEW k \in 0 .. 5, Here12(db, k),
           ~Refused(db, Steps(12)[k + 1])
    PROVE  LET new == After(db, Steps(12)[k + 1])
           IN  /\ Here12(new, k + 1)
               /\ \A t : t \notin {"packages", "packages_new"}
                       => Same(db, new, t)
<1> DEFINE s == Steps(12)[k + 1]
           new == After(db, s)
<1>1. CASE k = 0
  <2>1. s = Create("packages_new", PackageColumns)
    BY <1>1, List12
  <2> QED
    BY <1>1, <2>1, CreateEffect DEF Here12, Is, No, Has, Same
<1>2. CASE k = 2
  <2>1. s = DropTable("packages")
    BY <1>2, List12
  <2> QED
    BY <1>2, <2>1, DropTableEffect DEF Here12, Is, No, Has, Same
<1>3. CASE k = 3
  <2>1. s = Rename("packages_new", "packages")
    BY <1>3, List12
  <2> QED
    BY <1>3, <2>1, RenameEffect DEF Here12, Is, No, Has, Same
<1>4. CASE k \in {1, 4, 5}
  <2>1. s.op \in Quiet
    BY <1>4, List12, QuietStatements
  <2>2. new.tables = db.tables
    BY <2>1, QuietEffect
  <2> HIDE DEF s, new
  <2>3. Here12(new, k + 1) /\ \A t : Same(db, new, t)
    BY <1>4, <2>2 DEF Here12, Is, No, Has, Same
  <2> QED
    BY <2>3 DEF s, new
<1> QED
  BY <1>1, <1>2, <1>3, <1>4

LEMMA Step13 ==
    ASSUME NEW db, IsDatabase(db), NEW k \in 0 .. 3, Here13(db, k),
           ~Refused(db, Steps(13)[k + 1])
    PROVE  LET new == After(db, Steps(13)[k + 1])
           IN  /\ Here13(new, k + 1)
               /\ \A t : t \notin {"package_details", "vulnerability_details"}
                       => Same(db, new, t)
<1> DEFINE s == Steps(13)[k + 1]
           new == After(db, s)
<1>1. CASE k = 0
  <2>1. s = Create("vulnerability_details", VulnerabilityDetails)
    BY <1>1, List13 DEF VulnerabilityDetails
  <2> QED
    BY <1>1, <2>1, CreateEffect DEF Here13, Is, No, Has, Same
<1>2. CASE k = 2
  <2>1. s = Create("package_details", PackageDetails)
    BY <1>2, List13 DEF PackageDetails
  <2> QED
    BY <1>2, <2>1, CreateEffect DEF Here13, Is, No, Has, Same
<1>3. CASE k \in {1, 3}
  <2>1. s.op \in Quiet
    BY <1>3, List13, QuietStatements
  <2>2. new.tables = db.tables
    BY <2>1, QuietEffect
  <2> HIDE DEF s, new
  <2>3. Here13(new, k + 1) /\ \A t : Same(db, new, t)
    BY <1>3, <2>2 DEF Here13, Is, No, Has, Same
  <2> QED
    BY <2>3 DEF s, new
<1> QED
  BY <1>1, <1>2, <1>3

LEMMA Step19 ==
    ASSUME NEW db, IsDatabase(db), NEW k \in 0 .. 6, Here19(db, k),
           ~Refused(db, Steps(19)[k + 1])
    PROVE  LET new == After(db, Steps(19)[k + 1])
           IN  /\ Here19(new, k + 1)
               /\ \A t : t \notin {"vulnerabilities", "vulnerabilities_new"}
                       => Same(db, new, t)
<1> DEFINE s == Steps(19)[k + 1]
           new == After(db, s)
<1>1. CASE k = 0
  <2>1. s = Create("vulnerabilities_new", Vulnerabilities19)
    BY <1>1, List19 DEF Vulnerabilities19, Scores
  <2> QED
    BY <1>1, <2>1, CreateEffect DEF Here19, Is, No, Has, Same
<1>2. CASE k = 2
  <2>1. s = DropTable("vulnerabilities")
    BY <1>2, List19
  <2> QED
    BY <1>2, <2>1, DropTableEffect DEF Here19, Is, No, Has, Same
<1>3. CASE k = 3
  <2>1. s = Rename("vulnerabilities_new", "vulnerabilities")
    BY <1>3, List19
  <2> QED
    BY <1>3, <2>1, RenameEffect DEF Here19, Is, No, Has, Same
<1>4. CASE k \in {1, 4, 5, 6}
  <2>1. s.op \in Quiet
    BY <1>4, List19, QuietStatements
  <2>2. new.tables = db.tables
    BY <2>1, QuietEffect
  <2> HIDE DEF s, new
  <2>3. Here19(new, k + 1) /\ \A t : Same(db, new, t)
    BY <1>4, <2>2 DEF Here19, Is, No, Has, Same
  <2> QED
    BY <2>3 DEF s, new
<1> QED
  BY <1>1, <1>2, <1>3, <1>4

LEMMA Step21 ==
    ASSUME NEW db, IsDatabase(db), NEW k \in 0 .. 0, Here21(db, k),
           ~Refused(db, Steps(21)[k + 1])
    PROVE  LET new == After(db, Steps(21)[k + 1])
           IN  /\ Here21(new, k + 1)
               /\ \A t : t \notin {"container_images"}
                       => Same(db, new, t)
<1> DEFINE s == Steps(21)[k + 1]
           new == After(db, s)
<1>1. CASE k = 0
  <2>1. s = AddColumn("container_images", "grype_db_built")
    BY <1>1, List21
  <2> QED
    BY <1>1, <2>1, AddEffect DEF Here21, Is, No, Has, Same, Images9, Images21
<1> QED
  BY <1>1

LEMMA Step22 ==
    ASSUME NEW db, IsDatabase(db), NEW k \in 0 .. 3, Here22(db, k),
           ~Refused(db, Steps(22)[k + 1])
    PROVE  LET new == After(db, Steps(22)[k + 1])
           IN  /\ Here22(new, k + 1)
               /\ \A t : t \notin {"job_executions"}
                       => Same(db, new, t)
<1> DEFINE s == Steps(22)[k + 1]
           new == After(db, s)
<1>1. CASE k = 0
  <2>1. s = Create("job_executions", JobExecutions)
    BY <1>1, List22 DEF JobExecutions
  <2> QED
    BY <1>1, <2>1, CreateEffect DEF Here22, Is, No, Has, Same
<1>2. CASE k \in 1 .. 3
  <2>1. s.op \in Quiet
    BY <1>2, List22, QuietStatements
  <2>2. new.tables = db.tables
    BY <2>1, QuietEffect
  <2> HIDE DEF s, new
  <2>3. Here22(new, k + 1) /\ \A t : Same(db, new, t)
    BY <1>2, <2>2 DEF Here22, Is, No, Has, Same
  <2> QED
    BY <2>3 DEF s, new
<1> QED
  BY <1>1, <1>2

LEMMA Step23 ==
    ASSUME NEW db, IsDatabase(db), NEW k \in 0 .. 0, Here23(db, k),
           ~Refused(db, Steps(23)[k + 1])
    PROVE  LET new == After(db, Steps(23)[k + 1])
           IN  /\ Here23(new, k + 1)
               /\ \A t : t \notin {"metric_staleness"}
                       => Same(db, new, t)
<1> DEFINE s == Steps(23)[k + 1]
           new == After(db, s)
<1>1. CASE k = 0
  <2>1. s = Create("metric_staleness", States)
    BY <1>1, List23 DEF States
  <2> QED
    BY <1>1, <2>1, CreateEffect DEF Here23, Is, No, Has, Same
<1> QED
  BY <1>1

LEMMA Step24 ==
    ASSUME NEW db, IsDatabase(db), NEW k \in 0 .. 0, Here24(db, k),
           ~Refused(db, Steps(24)[k + 1])
    PROVE  LET new == After(db, Steps(24)[k + 1])
           IN  /\ Here24(new, k + 1)
               /\ \A t : t \notin {"container_images"}
                       => Same(db, new, t)
<1> DEFINE s == Steps(24)[k + 1]
           new == After(db, s)
<1>1. CASE k = 0
  <2>1. s = AddColumn("container_images", "architecture")
    BY <1>1, List24
  <2> QED
    BY <1>1, <2>1, AddEffect DEF Here24, Is, No, Has, Same, Images21, Images24
<1> QED
  BY <1>1

LEMMA Step26 ==
    ASSUME NEW db, IsDatabase(db), NEW k \in 0 .. 0, Here26(db, k),
           ~Refused(db, Steps(26)[k + 1])
    PROVE  LET new == After(db, Steps(26)[k + 1])
           IN  /\ Here26(new, k + 1)
               /\ \A t : t \notin {"metric_staleness", "app_state"}
                       => Same(db, new, t)
<1> DEFINE s == Steps(26)[k + 1]
           new == After(db, s)
<1>1. CASE k = 0
  <2>1. s = Rename("metric_staleness", "app_state")
    BY <1>1, List26
  <2> QED
    BY <1>1, <2>1, RenameEffect DEF Here26, Is, No, Has, Same
<1> QED
  BY <1>1

LEMMA Step27 ==
    ASSUME NEW db, IsDatabase(db), NEW k \in 0 .. 1, Here27(db, k),
           ~Refused(db, Steps(27)[k + 1])
    PROVE  LET new == After(db, Steps(27)[k + 1])
           IN  /\ Here27(new, k + 1)
               /\ \A t : t \notin {"container_instances"}
                       => Same(db, new, t)
<1> DEFINE s == Steps(27)[k + 1]
           new == After(db, s)
<1>1. CASE k = 0
  <2>1. s = AddColumn("container_instances", "reference")
    BY <1>1, List27
  <2> QED
    BY <1>1, <2>1, AddEffect DEF Here27, Is, No, Has, Same, Instances3, Instances27
<1>2. CASE k = 1
  <2>1. s.op \in Quiet
    BY <1>2, List27, QuietStatements
  <2>2. new.tables = db.tables
    BY <2>1, QuietEffect
  <2> HIDE DEF s, new
  <2>3. Here27(new, k + 1) /\ \A t : Same(db, new, t)
    BY <1>2, <2>2 DEF Here27, Is, No, Has, Same
  <2> QED
    BY <2>3 DEF s, new
<1> QED
  BY <1>1, <1>2

LEMMA Step28 ==
    ASSUME NEW db, IsDatabase(db), NEW k \in 0 .. 6, Here28(db, k),
           ~Refused(db, Steps(28)[k + 1])
    PROVE  LET new == After(db, Steps(28)[k + 1])
           IN  /\ Here28(new, k + 1)
               /\ \A t : t \notin {"container_instances", "container_instances_new"}
                       => Same(db, new, t)
<1> DEFINE s == Steps(28)[k + 1]
           new == After(db, s)
<1>1. CASE k = 0
  <2>1. s = Create("container_instances_new", InstanceColumns("container"))
    BY <1>1, List28
  <2> QED
    BY <1>1, <2>1, CreateEffect DEF Here28, Is, No, Has, Same
<1>2. CASE k = 2
  <2>1. s = DropTable("container_instances")
    BY <1>2, List28
  <2> QED
    BY <1>2, <2>1, DropTableEffect DEF Here28, Is, No, Has, Same
<1>3. CASE k = 3
  <2>1. s = Rename("container_instances_new", "container_instances")
    BY <1>3, List28
  <2> QED
    BY <1>3, <2>1, RenameEffect DEF Here28, Is, No, Has, Same
<1>4. CASE k \in {1, 4, 5, 6}
  <2>1. s.op \in Quiet
    BY <1>4, List28, QuietStatements
  <2>2. new.tables = db.tables
    BY <2>1, QuietEffect
  <2> HIDE DEF s, new
  <2>3. Here28(new, k + 1) /\ \A t : Same(db, new, t)
    BY <1>4, <2>2 DEF Here28, Is, No, Has, Same
  <2> QED
    BY <2>3 DEF s, new
<1> QED
  BY <1>1, <1>2, <1>3, <1>4

LEMMA Step29 ==
    ASSUME NEW db, IsDatabase(db), NEW k \in 0 .. 6, Here29(db, k),
           ~Refused(db, Steps(29)[k + 1])
    PROVE  LET new == After(db, Steps(29)[k + 1])
           IN  /\ Here29(new, k + 1)
               /\ \A t : t \notin {"container_images", "images", "container_instances", "containers"}
                       => Same(db, new, t)
<1> DEFINE s == Steps(29)[k + 1]
           new == After(db, s)
<1>1. CASE k = 0
  <2>1. s = Rename("container_images", "images")
    BY <1>1, List29
  <2> QED
    BY <1>1, <2>1, RenameEffect DEF Here29, Is, No, Has, Same
<1>2. CASE k = 1
  <2>1. s = Create("containers", InstanceColumns("name"))
    BY <1>2, List29
  <2> QED
    BY <1>2, <2>1, CreateEffect DEF Here29, Is, No, Has, Same
<1>3. CASE k = 3
  <2>1. s = DropTable("container_instances")
    BY <1>3, List29
  <2> QED
    BY <1>3, <2>1, DropTableEffect DEF Here29, Is, No, Has, Same
<1>4. CASE k \in {2, 4, 5, 6}
  <2>1. s.op \in Quiet
    BY <1>4, List29, QuietStatements
  <2>2. new.tables = db.tables
    BY <2>1, QuietEffect
  <2> HIDE DEF s, new
  <2>3. Here29(new, k + 1) /\ \A t : Same(db, new, t)
    BY <1>4, <2>2 DEF Here29, Is, No, Has, Same
  <2> QED
    BY <2>3 DEF s, new
<1> QED
  BY <1>1, <1>2, <1>3, <1>4

LEMMA Step30 ==
    ASSUME NEW db, IsDatabase(db), NEW k \in 0 .. 8, Here30(db, k),
           ~Refused(db, Steps(30)[k + 1])
    PROVE  LET new == After(db, Steps(30)[k + 1])
           IN  /\ Here30(new, k + 1)
               /\ \A t : t \notin {"nodes", "node_packages", "node_vulnerabilities"}
                       => Same(db, new, t)
<1> DEFINE s == Steps(30)[k + 1]
           new == After(db, s)
<1>1. CASE k = 0
  <2>1. s = Create("nodes", Nodes30)
    BY <1>1, List30 DEF Nodes30
  <2> QED
    BY <1>1, <2>1, CreateEffect DEF Here30, Is, No, Has, Same
<1>2. CASE k = 1
  <2>1. s = Create("node_packages", NodePackages30)
    BY <1>2, List30 DEF NodePackages30
  <2> QED
    BY <1>2, <2>1, CreateEffect DEF Here30, Is, No, Has, Same
<1>3. CASE k = 2
  <2>1. s = Create("node_vulnerabilities", NodeMatchColumns)
    BY <1>3, List30
  <2> QED
    BY <1>3, <2>1, CreateEffect DEF Here30, Is, No, Has, Same
<1>4. CASE k \in 3 .. 8
  <2>1. s.op \in Quiet
    BY <1>4, List30, QuietStatements
  <2>2. new.tables = db.tables
    BY <2>1, QuietEffect
  <2> HIDE DEF s, new
  <2>3. Here30(new, k + 1) /\ \A t : Same(db, new, t)
    BY <1>4, <2>2 DEF Here30, Is, No, Has, Same
  <2> QED
    BY <2>3 DEF s, new
<1> QED
  BY <1>1, <1>2, <1>3, <1>4

LEMMA Step32 ==
    ASSUME NEW db, IsDatabase(db), NEW k \in 0 .. 0, Here32(db, k),
           ~Refused(db, Steps(32)[k + 1])
    PROVE  LET new == After(db, Steps(32)[k + 1])
           IN  /\ Here32(new, k + 1)
               /\ \A t : t \notin {"node_packages"}
                       => Same(db, new, t)
<1> DEFINE s == Steps(32)[k + 1]
           new == After(db, s)
<1>1. CASE k = 0
  <2>1. s = AddColumn("node_packages", "number_of_instances")
    BY <1>1, List32
  <2> QED
    BY <1>1, <2>1, AddEffect DEF Here32, Is, No, Has, Same, NodePackages30, NodePackages32
<1> QED
  BY <1>1

LEMMA Step33 ==
    ASSUME NEW db, IsDatabase(db), NEW k \in 0 .. 7, Here33(db, k),
           ~Refused(db, Steps(33)[k + 1])
    PROVE  LET new == After(db, Steps(33)[k + 1])
           IN  /\ Here33(new, k + 1)
               /\ \A t : t \notin {"node_vulnerabilities", "node_vulnerabilities_new"}
                       => Same(db, new, t)
<1> DEFINE s == Steps(33)[k + 1]
           new == After(db, s)
<1>1. CASE k = 0
  <2>1. s = Create("node_vulnerabilities_new", NodeMatches33)
    BY <1>1, List33 DEF NodeMatches33
  <2> QED
    BY <1>1, <2>1, CreateEffect DEF Here33, Is, No, Has, Same
<1>2. CASE k = 2
  <2>1. s = DropTable("node_vulnerabilities")
    BY <1>2, List33
  <2> QED
    BY <1>2, <2>1, DropTableEffect DEF Here33, Is, No, Has, Same
<1>3. CASE k = 3
  <2>1. s = Rename("node_vulnerabilities_new", "node_vulnerabilities")
    BY <1>3, List33
  <2> QED
    BY <1>3, <2>1, RenameEffect DEF Here33, Is, No, Has, Same
<1>4. CASE k \in {1, 4, 5, 6, 7}
  <2>1. s.op \in Quiet
    BY <1>4, List33, QuietStatements
  <2>2. new.tables = db.tables
    BY <2>1, QuietEffect
  <2> HIDE DEF s, new
  <2>3. Here33(new, k + 1) /\ \A t : Same(db, new, t)
    BY <1>4, <2>2 DEF Here33, Is, No, Has, Same
  <2> QED
    BY <2>3 DEF s, new
<1> QED
  BY <1>1, <1>2, <1>3, <1>4

LEMMA Step34 ==
    ASSUME NEW db, IsDatabase(db), NEW k \in 0 .. 5, Here34(db, k),
           ~Refused(db, Steps(34)[k + 1])
    PROVE  LET new == After(db, Steps(34)[k + 1])
           IN  /\ Here34(new, k + 1)
               /\ \A t : t \notin {"node_vulnerability_details", "node_package_details"}
                       => Same(db, new, t)
<1> DEFINE s == Steps(34)[k + 1]
           new == After(db, s)
<1>1. CASE k = 0
  <2>1. s = Create("node_vulnerability_details", NodeMatchDetails)
    BY <1>1, List34 DEF NodeMatchDetails
  <2> QED
    BY <1>1, <2>1, CreateEffect DEF Here34, Is, No, Has, Same
<1>2. CASE k = 2
  <2>1. s = Create("node_package_details", NodePackageDetails)
    BY <1>2, List34 DEF NodePackageDetails
  <2> QED
    BY <1>2, <2>1, CreateEffect DEF Here34, Is, No, Has, Same
<1>3. CASE k \in {1, 3, 4, 5}
  <2>1. s.op \in Quiet
    BY <1>3, List34, QuietStatements
  <2>2. new.tables = db.tables
    BY <2>1, QuietEffect
  <2> HIDE DEF s, new
  <2>3. Here34(new, k + 1) /\ \A t : Same(db, new, t)
    BY <1>3, <2>2 DEF Here34, Is, No, Has, Same
  <2> QED
    BY <2>3 DEF s, new
<1> QED
  BY <1>1, <1>2, <1>3

LEMMA Step35 ==
    ASSUME NEW db, IsDatabase(db), NEW k \in 0 .. 1, Here35(db, k),
           ~Refused(db, Steps(35)[k + 1])
    PROVE  LET new == After(db, Steps(35)[k + 1])
           IN  /\ Here35(new, k + 1)
               /\ \A t : t \notin {"nodes"}
                       => Same(db, new, t)
<1> DEFINE s == Steps(35)[k + 1]
           new == After(db, s)
<1>1. CASE k = 0
  <2>1. s = AddColumn("nodes", "sbom")
    BY <1>1, List35
  <2> QED
    BY <1>1, <2>1, AddEffect DEF Here35, Is, No, Has, Same, Nodes30, Nodes35
<1>2. CASE k = 1
  <2>1. s = AddColumn("nodes", "vulnerabilities")
    BY <1>2, List35
  <2> QED
    BY <1>2, <2>1, AddEffect DEF Here35, Is, No, Has, Same, Nodes30, Nodes35
<1> QED
  BY <1>1, <1>2

LEMMA Step36 ==
    ASSUME NEW db, IsDatabase(db), NEW k \in 0 .. 1, Here36(db, k),
           ~Refused(db, Steps(36)[k + 1])
    PROVE  LET new == After(db, Steps(36)[k + 1])
           IN  /\ Here36(new, k + 1)
               /\ \A t : t \notin {"metric_staleness"}
                       => Same(db, new, t)
<1> DEFINE s == Steps(36)[k + 1]
           new == After(db, s)
<1>1. CASE k = 0
  <2>1. s = CreateIfAbsent("metric_staleness", Series36)
    BY <1>1, List36 DEF Series36
  <2> QED
    BY <1>1, <2>1, CreateIfAbsentEffect DEF Here36, Is, No, Has, Same
<1>2. CASE k = 1
  <2>1. s.op \in Quiet
    BY <1>2, List36, QuietStatements
  <2>2. new.tables = db.tables
    BY <2>1, QuietEffect
  <2> HIDE DEF s, new
  <2>3. Here36(new, k + 1) /\ \A t : Same(db, new, t)
    BY <1>2, <2>2 DEF Here36, Is, No, Has, Same
  <2> QED
    BY <2>3 DEF s, new
<1> QED
  BY <1>1, <1>2

LEMMA Step37 ==
    ASSUME NEW db, IsDatabase(db), NEW k \in 0 .. 4, Here37(db, k),
           ~Refused(db, Steps(37)[k + 1])
    PROVE  LET new == After(db, Steps(37)[k + 1])
           IN  /\ Here37(new, k + 1)
               /\ \A t : t \notin {"metric_staleness", "metric_staleness_v37"}
                       => Same(db, new, t)
<1> DEFINE s == Steps(37)[k + 1]
           new == After(db, s)
<1>1. CASE k = 0
  <2>1. s = Create("metric_staleness_v37", Series37)
    BY <1>1, List37 DEF Series37
  <2> QED
    BY <1>1, <2>1, CreateEffect DEF Here37, Is, No, Has, Same
<1>2. CASE k = 2
  <2>1. s = DropTable("metric_staleness")
    BY <1>2, List37
  <2> QED
    BY <1>2, <2>1, DropTableEffect DEF Here37, Is, No, Has, Same
<1>3. CASE k = 3
  <2>1. s = Rename("metric_staleness_v37", "metric_staleness")
    BY <1>3, List37
  <2> QED
    BY <1>3, <2>1, RenameEffect DEF Here37, Is, No, Has, Same
<1>4. CASE k \in {1, 4}
  <2>1. s.op \in Quiet
    BY <1>4, List37, QuietStatements
  <2>2. new.tables = db.tables
    BY <2>1, QuietEffect
  <2> HIDE DEF s, new
  <2>3. Here37(new, k + 1) /\ \A t : Same(db, new, t)
    BY <1>4, <2>2 DEF Here37, Is, No, Has, Same
  <2> QED
    BY <2>3 DEF s, new
<1> QED
  BY <1>1, <1>2, <1>3, <1>4

LEMMA Step42 ==
    ASSUME NEW db, IsDatabase(db), NEW k \in 0 .. 10, Here42(db, k),
           ~Refused(db, Steps(42)[k + 1])
    PROVE  LET new == After(db, Steps(42)[k + 1])
           IN  /\ Here42(new, k + 1)
               /\ \A t : t \notin {"node_vulnerabilities", "node_vulnerabilities_new"}
                       => Same(db, new, t)
<1> DEFINE s == Steps(42)[k + 1]
           new == After(db, s)
<1>1. CASE k = 0
  <2>1. s = Create("node_vulnerabilities_new", NodeMatches42)
    BY <1>1, List42 DEF NodeMatches42
  <2> QED
    BY <1>1, <2>1, CreateEffect DEF Here42, Is, No, Has, Same
<1>2. CASE k = 2
  <2>1. s = DropTable("node_vulnerabilities")
    BY <1>2, List42
  <2> QED
    BY <1>2, <2>1, DropTableEffect DEF Here42, Is, No, Has, Same
<1>3. CASE k = 3
  <2>1. s = Rename("node_vulnerabilities_new", "node_vulnerabilities")
    BY <1>3, List42
  <2> QED
    BY <1>3, <2>1, RenameEffect DEF Here42, Is, No, Has, Same
<1>4. CASE k \in 4 .. 10
  <2>1. s.op \in Quiet
    BY <1>4, List42, QuietStatements
  <2>2. new.tables = db.tables
    BY <2>1, QuietEffect
  <2> HIDE DEF s, new
  <2>3. Here42(new, k + 1) /\ \A t : Same(db, new, t)
    BY <1>4, <2>2 DEF Here42, Is, No, Has, Same
  <2> QED
    BY <2>3 DEF s, new
<1>5. CASE k = 1
  <2>1. /\ s.op = "copy" /\ "node_vulnerabilities" \in DOMAIN s.needs
        /\ "package_id" \in s.needs["node_vulnerabilities"]
    BY <1>5, List42 DEF CopyNarrower
  <2>2. "package_id" \in db.tables["node_vulnerabilities"]
    BY <2>1 DEF Refused, HasColumns
  <2>3. "package_id" \notin NodeMatches42
    BY DEF NodeMatches42, Stamps
  <2>4. new.tables = db.tables
    BY <2>1, QuietEffect DEF Quiet
  <2> HIDE DEF s, new
  <2>5. Here42(new, k + 1) /\ \A t : Same(db, new, t)
    BY <1>5, <2>2, <2>3, <2>4 DEF Here42, Is, No, Has, Same
  <2> QED
    BY <2>5 DEF s, new
<1> QED
  BY <1>1, <1>2, <1>3, <1>4, <1>5

LEMMA Step43 ==
    ASSUME NEW db, IsDatabase(db), NEW k \in 0 .. 3, Here43(db, k),
           ~Refused(db, Steps(43)[k + 1])
    PROVE  LET new == After(db, Steps(43)[k + 1])
           IN  /\ Here43(new, k + 1)
               /\ \A t :
                     t \notin {"packages", "image_packages", "vulnerabilities", "image_vulnerabilities",
                             "package_details", "vulnerability_details", "image_package_details",
                             "image_vulnerability_details"}
                       => Same(db, new, t)
<1> DEFINE s == Steps(43)[k + 1]
           new == After(db, s)
<1>1. CASE k = 0
  <2>1. s = Rename("vulnerabilities", "image_vulnerabilities")
    BY <1>1, List43
  <2> QED
    BY <1>1, <2>1, RenameEffect DEF Here43, Is, No, Has, Same
<1>2. CASE k = 1
  <2>1. s = Rename("vulnerability_details", "image_vulnerability_details")
    BY <1>2, List43
  <2> QED
    BY <1>2, <2>1, RenameEffect DEF Here43, Is, No, Has, Same
<1>3. CASE k = 2
  <2>1. s = Rename("packages", "image_packages")
    BY <1>3, List43
  <2> QED
    BY <1>3, <2>1, RenameEffect DEF Here43, Is, No, Has, Same
<1>4. CASE k = 3
  <2>1. s = Rename("package_details", "image_package_details")
    BY <1>4, List43
  <2> QED
    BY <1>4, <2>1, RenameEffect DEF Here43, Is, No, Has, Same
<1> QED
  BY <1>1, <1>2, <1>3, <1>4

LEMMA Step44 ==
    ASSUME NEW db, IsDatabase(db), NEW k \in 0 .. 1, Here44(db, k),
           ~Refused(db, Steps(44)[k + 1])
    PROVE  LET new == After(db, Steps(44)[k + 1])
           IN  /\ Here44(new, k + 1)
               /\ \A t : t \notin {"image_packages"}
                       => Same(db, new, t)
<1> DEFINE s == Steps(44)[k + 1]
           new == After(db, s)
<1>1. CASE k = 0
  <2>1. s = AddColumn("image_packages", "language")
    BY <1>1, List44
  <2> QED
    BY <1>1, <2>1, AddEffect DEF Here44, Is, No, Has, Same, Packages44
<1>2. CASE k = 1
  <2>1. s = AddColumn("image_packages", "purl")
    BY <1>2, List44
  <2> QED
    BY <1>2, <2>1, AddEffect DEF Here44, Is, No, Has, Same, Packages44
<1> QED
  BY <1>1, <1>2

LEMMA Step47 ==
    ASSUME NEW db, IsDatabase(db), NEW k \in 0 .. 3, Here47(db, k),
           ~Refused(db, Steps(47)[k + 1])
    PROVE  LET new == After(db, Steps(47)[k + 1])
           IN  /\ Here47(new, k + 1)
               /\ \A t : t \notin {"images", "nodes"}
                       => Same(db, new, t)
<1> DEFINE s == Steps(47)[k + 1]
           new == After(db, s)
<1>1. CASE k = 0
  <2>1. s = AddColumn("nodes", "vulnerabilities_compressed")
    BY <1>1, List47
  <2> QED
    BY <1>1, <2>1, AddEffect DEF Here47, Is, No, Has, Same, Images24, Images47, Nodes35, Nodes47
<1>2. CASE k = 1
  <2>1. s = AddColumn("nodes", "sbom_compressed")
    BY <1>2, List47
  <2> QED
    BY <1>2, <2>1, AddEffect DEF Here47, Is, No, Has, Same, Images24, Images47, Nodes35, Nodes47
<1>3. CASE k = 2
  <2>1. s = AddColumn("images", "vulnerabilities_compressed")
    BY <1>3, List47
  <2> QED
    BY <1>3, <2>1, AddEffect DEF Here47, Is, No, Has, Same, Images24, Images47, Nodes35, Nodes47
<1>4. CASE k = 3
  <2>1. s = AddColumn("images", "sbom_compressed")
    BY <1>4, List47
  <2> QED
    BY <1>4, <2>1, AddEffect DEF Here47, Is, No, Has, Same, Images24, Images47, Nodes35, Nodes47
<1> QED
  BY <1>1, <1>2, <1>3, <1>4

LEMMA Step48 ==
    ASSUME NEW db, IsDatabase(db), NEW k \in 0 .. 2, Here48(db, k),
           ~Refused(db, Steps(48)[k + 1])
    PROVE  LET new == After(db, Steps(48)[k + 1])
           IN  /\ Here48(new, k + 1)
               /\ \A t : t \notin {"metric_staleness"}
                       => Same(db, new, t)
<1> DEFINE s == Steps(48)[k + 1]
           new == After(db, s)
<1>1. CASE k = 0
  <2>1. s = DropIfPresent("metric_staleness")
    BY <1>1, List48
  <2> QED
    BY <1>1, <2>1, DropIfPresentEffect DEF Here48, Is, No, Has, Same
<1>2. CASE k = 1
  <2>1. s = Create("metric_staleness", Series48)
    BY <1>2, List48 DEF Series48
  <2> QED
    BY <1>2, <2>1, CreateEffect DEF Here48, Is, No, Has, Same
<1>3. CASE k = 2
  <2>1. s.op \in Quiet
    BY <1>3, List48, QuietStatements
  <2>2. new.tables = db.tables
    BY <2>1, QuietEffect
  <2> HIDE DEF s, new
  <2>3. Here48(new, k + 1) /\ \A t : Same(db, new, t)
    BY <1>3, <2>2 DEF Here48, Is, No, Has, Same
  <2> QED
    BY <2>3 DEF s, new
<1> QED
  BY <1>1, <1>2, <1>3

LEMMA Edges1 ==
    ASSUME NEW db
    PROVE  /\ Exact(db, 0) => Here1(db, 0)
           /\ Here1(db, 8) => /\ As(db, "container_images", 1)
                            /\ As(db, "container_instances", 1)
                            /\ As(db, "scan_status", 1)
           /\ \A k \in 1 .. 8 : Here1(db, k) => Here1(db, 0)
<1>1. Exact(db, 0) => Here1(db, 0)
  <2>1. SUFFICES ASSUME Exact(db, 0) PROVE Here1(db, 0)
    OBVIOUS
  <2>2. /\ As(db, "container_images", 0)
        /\ As(db, "container_instances", 0)
        /\ As(db, "scan_status", 0)
    BY <2>1 DEF Exact, Names
  <2> QED
    BY <2>2 DEF Here1, Is, No, As, Exists, Columns, ImageColumns, InstanceColumnsAt
<1>2. Here1(db, 8) => /\ As(db, "container_images", 1)
                       /\ As(db, "container_instances", 1)
                       /\ As(db, "scan_status", 1)
  BY DEF Here1, As, Exists, Columns, ImageColumns, InstanceColumnsAt
<1>3. \A k \in 1 .. 8 : Here1(db, k) => Here1(db, 0)
  BY DEF Here1, Is, No, Has
<1> QED
  BY <1>1, <1>2, <1>3

LEMMA Edges2 ==
    ASSUME NEW db
    PROVE  /\ Exact(db, 1) => Here2(db, 0)
           /\ Here2(db, 10) => /\ As(db, "container_images", 2)
                             /\ As(db, "container_images_new", 2)
                             /\ As(db, "container_instances", 2)
                             /\ As(db, "container_instances_new", 2)
           /\ \A k \in 10 .. 10 : Here2(db, k) => Here2(db, 0)
<1>1. Exact(db, 1) => Here2(db, 0)
  <2>1. SUFFICES ASSUME Exact(db, 1) PROVE Here2(db, 0)
    OBVIOUS
  <2>2. /\ As(db, "container_images", 1)
        /\ As(db, "container_images_new", 1)
        /\ As(db, "container_instances", 1)
        /\ As(db, "container_instances_new", 1)
    BY <2>1 DEF Exact, Names
  <2> QED
    BY <2>2 DEF Here2, Is, No, As, Exists, Columns, ImageColumns, InstanceColumnsAt
<1>2. Here2(db, 10) => /\ As(db, "container_images", 2)
                        /\ As(db, "container_images_new", 2)
                        /\ As(db, "container_instances", 2)
                        /\ As(db, "container_instances_new", 2)
  BY DEF Here2, As, Exists, Columns, ImageColumns, InstanceColumnsAt
<1>3. \A k \in 10 .. 10 : Here2(db, k) => Here2(db, 0)
  BY DEF Here2, Is, No, Has
<1> QED
  BY <1>1, <1>2, <1>3

LEMMA Edges3 ==
    ASSUME NEW db
    PROVE  /\ Exact(db, 2) => Here3(db, 0)
           /\ Here3(db, 7) => /\ As(db, "container_images", 3)
                            /\ As(db, "container_instances", 3)
           /\ \A k \in 7 .. 7 : Here3(db, k) => Here3(db, 0)
<1>1. Exact(db, 2) => Here3(db, 0)
  <2>1. SUFFICES ASSUME Exact(db, 2) PROVE Here3(db, 0)
    OBVIOUS
  <2>2. /\ As(db, "container_images", 2)
        /\ As(db, "container_instances", 2)
    BY <2>1 DEF Exact, Names
  <2> QED
    BY <2>2 DEF Here3, Is, No, As, Exists, Columns, ImageColumns, InstanceColumnsAt
<1>2. Here3(db, 7) => /\ As(db, "container_images", 3)
                       /\ As(db, "container_instances", 3)
  BY DEF Here3, As, Exists, Columns, ImageColumns, InstanceColumnsAt
<1>3. \A k \in 7 .. 7 : Here3(db, k) => Here3(db, 0)
  BY DEF Here3, Is, No, Has, Images3
<1> QED
  BY <1>1, <1>2, <1>3

LEMMA Edges4 ==
    ASSUME NEW db
    PROVE  /\ Exact(db, 3) => Here4(db, 0)
           /\ Here4(db, 5) => As(db, "container_images", 4)
           /\ \A k \in 5 .. 5 : Here4(db, k) => Here4(db, 0)
<1>1. Exact(db, 3) => Here4(db, 0)
  <2>1. SUFFICES ASSUME Exact(db, 3) PROVE Here4(db, 0)
    OBVIOUS
  <2>2. As(db, "container_images", 3)
    BY <2>1 DEF Exact, Names
  <2> QED
    BY <2>2 DEF Here4, Is, No, As, Exists, Columns, ImageColumns
<1>2. Here4(db, 5) => As(db, "container_images", 4)
  BY DEF Here4, As, Exists, Columns, ImageColumns
<1>3. \A k \in 5 .. 5 : Here4(db, k) => Here4(db, 0)
  BY DEF Here4, Is, No, Has, Images4
<1> QED
  BY <1>1, <1>2, <1>3

LEMMA Edges5 ==
    ASSUME NEW db
    PROVE  /\ Exact(db, 4) => Here5(db, 0)
           /\ Here5(db, 6) => /\ As(db, "container_images", 5)
                            /\ As(db, "container_images_new", 5)
           /\ \A k \in 6 .. 6 : Here5(db, k) => Here5(db, 0)
<1>1. Exact(db, 4) => Here5(db, 0)
  <2>1. SUFFICES ASSUME Exact(db, 4) PROVE Here5(db, 0)
    OBVIOUS
  <2>2. /\ As(db, "container_images", 4)
        /\ As(db, "container_images_new", 4)
    BY <2>1 DEF Exact, Names
  <2> QED
    BY <2>2 DEF Here5, Is, No, As, Exists, Columns, ImageColumns
<1>2. Here5(db, 6) => /\ As(db, "container_images", 5)
                       /\ As(db, "container_images_new", 5)
  BY DEF Here5, As, Exists, Columns, ImageColumns
<1>3. \A k \in 6 .. 6 : Here5(db, k) => Here5(db, 0)
  BY DEF Here5, Is, No, Has
<1> QED
  BY <1>1, <1>2, <1>3

LEMMA Edges6 ==
    ASSUME NEW db
    PROVE  /\ Exact(db, 5) => Here6(db, 0)
           /\ Here6(db, 10) => /\ As(db, "packages", 6)
                             /\ As(db, "vulnerabilities", 6)
                             /\ As(db, "image_summary", 6)
           /\ \A k \in 8 .. 10 : Here6(db, k) => Here6(db, 0)
<1>1. Exact(db, 5) => Here6(db, 0)
  <2>1. SUFFICES ASSUME Exact(db, 5) PROVE Here6(db, 0)
    OBVIOUS
  <2>2. /\ As(db, "packages", 5)
        /\ As(db, "vulnerabilities", 5)
        /\ As(db, "image_summary", 5)
    BY <2>1 DEF Exact, Names
  <2> QED
    BY <2>2 DEF Here6, Is, No, As, Exists, Columns, MatchColumnsAt
<1>2. Here6(db, 10) => /\ As(db, "packages", 6)
                        /\ As(db, "vulnerabilities", 6)
                        /\ As(db, "image_summary", 6)
  BY DEF Here6, As, Exists, Columns, MatchColumnsAt
<1>3. \A k \in 8 .. 10 : Here6(db, k) => Here6(db, 0)
  BY DEF Here6, Is, No, Has
<1> QED
  BY <1>1, <1>2, <1>3

LEMMA Edges7 ==
    ASSUME NEW db
    PROVE  /\ Exact(db, 6) => Here7(db, 0)
           /\ Here7(db, 4) => As(db, "vulnerabilities", 7)
           /\ \A k \in 4 .. 4 : Here7(db, k) => Here7(db, 0)
<1>1. Exact(db, 6) => Here7(db, 0)
  <2>1. SUFFICES ASSUME Exact(db, 6) PROVE Here7(db, 0)
    OBVIOUS
  <2>2. As(db, "vulnerabilities", 6)
    BY <2>1 DEF Exact, Names
  <2> QED
    BY <2>2 DEF Here7, Is, No, As, Exists, Columns, MatchColumnsAt
<1>2. Here7(db, 4) => As(db, "vulnerabilities", 7)
  BY DEF Here7, As, Exists, Columns, MatchColumnsAt
<1>3. \A k \in 4 .. 4 : Here7(db, k) => Here7(db, 0)
  BY DEF Here7, Is, No, Has, Vulnerabilities7, Scores
<1> QED
  BY <1>1, <1>2, <1>3

LEMMA Edges8 ==
    ASSUME NEW db
    PROVE  /\ Exact(db, 7) => Here8(db, 0)
           /\ Here8(db, 12) => /\ As(db, "container_images", 8)
                             /\ As(db, "container_images_new", 8)
           /\ \A k \in 12 .. 12 : Here8(db, k) => Here8(db, 0)
<1>1. Exact(db, 7) => Here8(db, 0)
  <2>1. SUFFICES ASSUME Exact(db, 7) PROVE Here8(db, 0)
    OBVIOUS
  <2>2. /\ As(db, "container_images", 7)
        /\ As(db, "container_images_new", 7)
    BY <2>1 DEF Exact, Names
  <2> QED
    BY <2>2 DEF Here8, Is, No, As, Exists, Columns, ImageColumns
<1>2. Here8(db, 12) => /\ As(db, "container_images", 8)
                        /\ As(db, "container_images_new", 8)
  BY DEF Here8, As, Exists, Columns, ImageColumns
<1>3. \A k \in 12 .. 12 : Here8(db, k) => Here8(db, 0)
  BY DEF Here8, Is, No, Has, Images8
<1> QED
  BY <1>1, <1>2, <1>3

LEMMA Edges9 ==
    ASSUME NEW db
    PROVE  /\ Exact(db, 8) => Here9(db, 0)
           /\ Here9(db, 3) => As(db, "container_images", 9)
           /\ \A k \in 3 .. 3 : Here9(db, k) => Here9(db, 0)
<1>1. Exact(db, 8) => Here9(db, 0)
  <2>1. SUFFICES ASSUME Exact(db, 8) PROVE Here9(db, 0)
    OBVIOUS
  <2>2. As(db, "container_images", 8)
    BY <2>1 DEF Exact, Names
  <2> QED
    BY <2>2 DEF Here9, Is, No, As, Exists, Columns, ImageColumns
<1>2. Here9(db, 3) => As(db, "container_images", 9)
  BY DEF Here9, As, Exists, Columns, ImageColumns
<1>3. \A k \in 3 .. 3 : Here9(db, k) => Here9(db, 0)
  BY DEF Here9, Is, No, Has, Images9
<1> QED
  BY <1>1, <1>2, <1>3

LEMMA Edges10 ==
    ASSUME NEW db
    PROVE  /\ Exact(db, 9) => Here10(db, 0)
           /\ Here10(db, 1) => As(db, "image_summary", 10)
           /\ \A k \in 1 .. 1 : Here10(db, k) => Here10(db, 0)
<1>1. Exact(db, 9) => Here10(db, 0)
  <2>1. SUFFICES ASSUME Exact(db, 9) PROVE Here10(db, 0)
    OBVIOUS
  <2>2. As(db, "image_summary", 9)
    BY <2>1 DEF Exact, Names
  <2> QED
    BY <2>2 DEF Here10, Is, No, As, Exists, Columns
<1>2. Here10(db, 1) => As(db, "image_summary", 10)
  BY DEF Here10, As, Exists, Columns
<1>3. \A k \in 1 .. 1 : Here10(db, k) => Here10(db, 0)
  BY DEF Here10, Is, No, Has
<1> QED
  BY <1>1, <1>2, <1>3

LEMMA Edges11 ==
    ASSUME NEW db
    PROVE  /\ Exact(db, 10) => Here11(db, 0)
           /\ Here11(db, 2) => As(db, "scan_status", 11)
           /\ \A k \in 2 .. 2 : Here11(db, k) => Here11(db, 0)
<1>1. Exact(db, 10) => Here11(db, 0)
  <2>1. SUFFICES ASSUME Exact(db, 10) PROVE Here11(db, 0)
    OBVIOUS
  <2>2. As(db, "scan_status", 10)
    BY <2>1 DEF Exact, Names
  <2> QED
    BY <2>2 DEF Here11, Is, No, As, Exists, Columns
<1>2. Here11(db, 2) => As(db, "scan_status", 11)
  BY DEF Here11, As, Exists, Columns
<1>3. \A k \in 2 .. 2 : Here11(db, k) => Here11(db, 0)
  BY DEF Here11, Is, No, Has
<1> QED
  BY <1>1, <1>2, <1>3

LEMMA Edges12 ==
    ASSUME NEW db
    PROVE  /\ Exact(db, 11) => Here12(db, 0)
           /\ Here12(db, 6) => /\ As(db, "packages", 12)
                             /\ As(db, "packages_new", 12)
           /\ \A k \in 6 .. 6 : Here12(db, k) => Here12(db, 0)
<1>1. Exact(db, 11) => Here12(db, 0)
  <2>1. SUFFICES ASSUME Exact(db, 11) PROVE Here12(db, 0)
    OBVIOUS
  <2>2. /\ As(db, "packages", 11)
        /\ As(db, "packages_new", 11)
    BY <2>1 DEF Exact, Names
  <2> QED
    BY <2>2 DEF Here12, Is, No, As, Exists, Columns
<1>2. Here12(db, 6) => /\ As(db, "packages", 12)
                        /\ As(db, "packages_new", 12)
  BY DEF Here12, As, Exists, Columns
<1>3. \A k \in 6 .. 6 : Here12(db, k) => Here12(db, 0)
  BY DEF Here12, Is, No, Has
<1> QED
  BY <1>1, <1>2, <1>3

LEMMA Edges13 ==
    ASSUME NEW db
    PROVE  /\ Exact(db, 12) => Here13(db, 0)
           /\ Here13(db, 4) => /\ As(db, "package_details", 13)
                             /\ As(db, "vulnerability_details", 13)
           /\ \A k \in 4 .. 4 : Here13(db, k) => Here13(db, 0)
<1>1. Exact(db, 12) => Here13(db, 0)
  <2>1. SUFFICES ASSUME Exact(db, 12) PROVE Here13(db, 0)
    OBVIOUS
  <2>2. /\ As(db, "package_details", 12)
        /\ As(db, "vulnerability_details", 12)
    BY <2>1 DEF Exact, Names
  <2> QED
    BY <2>2 DEF Here13, Is, No, As, Exists, Columns
<1>2. Here13(db, 4) => /\ As(db, "package_details", 13)
                        /\ As(db, "vulnerability_details", 13)
  BY DEF Here13, As, Exists, Columns
<1>3. \A k \in 4 .. 4 : Here13(db, k) => Here13(db, 0)
  BY DEF Here13, Is, No, Has
<1> QED
  BY <1>1, <1>2, <1>3

LEMMA Edges19 ==
    ASSUME NEW db
    PROVE  /\ Exact(db, 18) => Here19(db, 0)
           /\ Here19(db, 7) => /\ As(db, "vulnerabilities", 19)
                             /\ As(db, "vulnerabilities_new", 19)
           /\ \A k \in 7 .. 7 : Here19(db, k) => Here19(db, 0)
<1>1. Exact(db, 18) => Here19(db, 0)
  <2>1. SUFFICES ASSUME Exact(db, 18) PROVE Here19(db, 0)
    OBVIOUS
  <2>2. /\ As(db, "vulnerabilities", 18)
        /\ As(db, "vulnerabilities_new", 18)
    BY <2>1 DEF Exact, Names
  <2> QED
    BY <2>2 DEF Here19, Is, No, As, Exists, Columns, MatchColumnsAt
<1>2. Here19(db, 7) => /\ As(db, "vulnerabilities", 19)
                        /\ As(db, "vulnerabilities_new", 19)
  BY DEF Here19, As, Exists, Columns, MatchColumnsAt
<1>3. \A k \in 7 .. 7 : Here19(db, k) => Here19(db, 0)
  BY DEF Here19, Is, No, Has
<1> QED
  BY <1>1, <1>2, <1>3

LEMMA Edges21 ==
    ASSUME NEW db
    PROVE  /\ Exact(db, 20) => Here21(db, 0)
           /\ Here21(db, 1) => As(db, "container_images", 21)
           /\ \A k \in 1 .. 1 : Here21(db, k) => Here21(db, 0)
<1>1. Exact(db, 20) => Here21(db, 0)
  <2>1. SUFFICES ASSUME Exact(db, 20) PROVE Here21(db, 0)
    OBVIOUS
  <2>2. As(db, "container_images", 20)
    BY <2>1 DEF Exact, Names
  <2> QED
    BY <2>2 DEF Here21, Is, No, As, Exists, Columns, ImageColumns
<1>2. Here21(db, 1) => As(db, "container_images", 21)
  BY DEF Here21, As, Exists, Columns, ImageColumns
<1>3. \A k \in 1 .. 1 : Here21(db, k) => Here21(db, 0)
  BY DEF Here21, Is, No, Has, Images21
<1> QED
  BY <1>1, <1>2, <1>3

LEMMA Edges22 ==
    ASSUME NEW db
    PROVE  /\ Exact(db, 21) => Here22(db, 0)
           /\ Here22(db, 4) => As(db, "job_executions", 22)
           /\ \A k \in 4 .. 4 : Here22(db, k) => Here22(db, 0)
<1>1. Exact(db, 21) => Here22(db, 0)
  <2>1. SUFFICES ASSUME Exact(db, 21) PROVE Here22(db, 0)
    OBVIOUS
  <2>2. As(db, "job_executions", 21)
    BY <2>1 DEF Exact, Names
  <2> QED
    BY <2>2 DEF Here22, Is, No, As, Exists, Columns
<1>2. Here22(db, 4) => As(db, "job_executions", 22)
  BY DEF Here22, As, Exists, Columns
<1>3. \A k \in 4 .. 4 : Here22(db, k) => Here22(db, 0)
  BY DEF Here22, Is, No, Has
<1> QED
  BY <1>1, <1>2, <1>3

LEMMA Edges23 ==
    ASSUME NEW db
    PROVE  /\ Exact(db, 22) => Here23(db, 0)
           /\ Here23(db, 1) => As(db, "metric_staleness", 23)
           /\ \A k \in 1 .. 1 : Here23(db, k) => Here23(db, 0)
<1>1. Exact(db, 22) => Here23(db, 0)
  <2>1. SUFFICES ASSUME Exact(db, 22) PROVE Here23(db, 0)
    OBVIOUS
  <2>2. As(db, "metric_staleness", 22)
    BY <2>1 DEF Exact, Names
  <2> QED
    BY <2>2 DEF Here23, Is, No, As, Exists, Columns, SeriesColumnsAt
<1>2. Here23(db, 1) => As(db, "metric_staleness", 23)
  BY DEF Here23, As, Exists, Columns, SeriesColumnsAt
<1>3. \A k \in 1 .. 1 : Here23(db, k) => Here23(db, 0)
  BY DEF Here23, Is, No, Has
<1> QED
  BY <1>1, <1>2, <1>3

LEMMA Edges24 ==
    ASSUME NEW db
    PROVE  /\ Exact(db, 23) => Here24(db, 0)
           /\ Here24(db, 1) => As(db, "container_images", 24)
           /\ \A k \in 1 .. 1 : Here24(db, k) => Here24(db, 0)
<1>1. Exact(db, 23) => Here24(db, 0)
  <2>1. SUFFICES ASSUME Exact(db, 23) PROVE Here24(db, 0)
    OBVIOUS
  <2>2. As(db, "container_images", 23)
    BY <2>1 DEF Exact, Names
  <2> QED
    BY <2>2 DEF Here24, Is, No, As, Exists, Columns, ImageColumns
<1>2. Here24(db, 1) => As(db, "container_images", 24)
  BY DEF Here24, As, Exists, Columns, ImageColumns
<1>3. \A k \in 1 .. 1 : Here24(db, k) => Here24(db, 0)
  BY DEF Here24, Is, No, Has, Images24
<1> QED
  BY <1>1, <1>2, <1>3

LEMMA Edges26 ==
    ASSUME NEW db
    PROVE  /\ Exact(db, 25) => Here26(db, 0)
           /\ Here26(db, 1) => /\ As(db, "metric_staleness", 26)
                             /\ As(db, "app_state", 26)
           /\ \A k \in 1 .. 1 : Here26(db, k) => Here26(db, 0)
<1>1. Exact(db, 25) => Here26(db, 0)
  <2>1. SUFFICES ASSUME Exact(db, 25) PROVE Here26(db, 0)
    OBVIOUS
  <2>2. /\ As(db, "metric_staleness", 25)
        /\ As(db, "app_state", 25)
    BY <2>1 DEF Exact, Names
  <2> QED
    BY <2>2 DEF Here26, Is, No, As, Exists, Columns, SeriesColumnsAt
<1>2. Here26(db, 1) => /\ As(db, "metric_staleness", 26)
                        /\ As(db, "app_state", 26)
  BY DEF Here26, As, Exists, Columns, SeriesColumnsAt
<1>3. \A k \in 1 .. 1 : Here26(db, k) => Here26(db, 0)
  BY DEF Here26, Is, No, Has
<1> QED
  BY <1>1, <1>2, <1>3

LEMMA Edges27 ==
    ASSUME NEW db
    PROVE  /\ Exact(db, 26) => Here27(db, 0)
           /\ Here27(db, 2) => As(db, "container_instances", 27)
           /\ \A k \in 1 .. 2 : Here27(db, k) => Here27(db, 0)
<1>1. Exact(db, 26) => Here27(db, 0)
  <2>1. SUFFICES ASSUME Exact(db, 26) PROVE Here27(db, 0)
    OBVIOUS
  <2>2. As(db, "container_instances", 26)
    BY <2>1 DEF Exact, Names
  <2> QED
    BY <2>2 DEF Here27, Is, No, As, Exists, Columns, InstanceColumnsAt
<1>2. Here27(db, 2) => As(db, "container_instances", 27)
  BY DEF Here27, As, Exists, Columns, InstanceColumnsAt
<1>3. \A k \in 1 .. 2 : Here27(db, k) => Here27(db, 0)
  BY DEF Here27, Is, No, Has, Instances27
<1> QED
  BY <1>1, <1>2, <1>3

LEMMA Edges28 ==
    ASSUME NEW db
    PROVE  /\ Exact(db, 27) => Here28(db, 0)
           /\ Here28(db, 7) => /\ As(db, "container_instances", 28)
                             /\ As(db, "container_instances_new", 28)
           /\ \A k \in 7 .. 7 : Here28(db, k) => Here28(db, 0)
<1>1. Exact(db, 27) => Here28(db, 0)
  <2>1. SUFFICES ASSUME Exact(db, 27) PROVE Here28(db, 0)
    OBVIOUS
  <2>2. /\ As(db, "container_instances", 27)
        /\ As(db, "container_instances_new", 27)
    BY <2>1 DEF Exact, Names
  <2> QED
    BY <2>2 DEF Here28, Is, No, As, Exists, Columns, InstanceColumnsAt
<1>2. Here28(db, 7) => /\ As(db, "container_instances", 28)
                        /\ As(db, "container_instances_new", 28)
  BY DEF Here28, As, Exists, Columns, InstanceColumnsAt
<1>3. \A k \in 7 .. 7 : Here28(db, k) => Here28(db, 0)
  BY DEF Here28, Is, No, Has
<1> QED
  BY <1>1, <1>2, <1>3

LEMMA Edges29 ==
    ASSUME NEW db
    PROVE  /\ Exact(db, 28) => Here29(db, 0)
           /\ Here29(db, 7) => /\ As(db, "container_images", 29)
                             /\ As(db, "images", 29)
                             /\ As(db, "container_instances", 29)
                             /\ As(db, "containers", 29)
           /\ \A k \in 7 .. 7 : Here29(db, k) => Here29(db, 0)
<1>1. Exact(db, 28) => Here29(db, 0)
  <2>1. SUFFICES ASSUME Exact(db, 28) PROVE Here29(db, 0)
    OBVIOUS
  <2>2. /\ As(db, "container_images", 28)
        /\ As(db, "images", 28)
        /\ As(db, "container_instances", 28)
        /\ As(db, "containers", 28)
    BY <2>1 DEF Exact, Names
  <2> QED
    BY <2>2 DEF Here29, Is, No, As, Exists, Columns, ImageColumns, InstanceColumnsAt
<1>2. Here29(db, 7) => /\ As(db, "container_images", 29)
                        /\ As(db, "images", 29)
                        /\ As(db, "container_instances", 29)
                        /\ As(db, "containers", 29)
  BY DEF Here29, As, Exists, Columns, ImageColumns, InstanceColumnsAt
<1>3. \A k \in 7 .. 7 : Here29(db, k) => Here29(db, 0)
  BY DEF Here29, Is, No, Has
<1> QED
  BY <1>1, <1>2, <1>3

LEMMA Edges30 ==
    ASSUME NEW db
    PROVE  /\ Exact(db, 29) => Here30(db, 0)
           /\ Here30(db, 9) => /\ As(db, "nodes", 30)
                             /\ As(db, "node_packages", 30)
                             /\ As(db, "node_vulnerabilities", 30)
           /\ \A k \in 9 .. 9 : Here30(db, k) => Here30(db, 0)
<1>1. Exact(db, 29) => Here30(db, 0)
  <2>1. SUFFICES ASSUME Exact(db, 29) PROVE Here30(db, 0)
    OBVIOUS
  <2>2. /\ As(db, "nodes", 29)
        /\ As(db, "node_packages", 29)
        /\ As(db, "node_vulnerabilities", 29)
    BY <2>1 DEF Exact, Names
  <2> QED
    BY <2>2 DEF Here30, Is, No, As, Exists, Columns, NodeColumns, NodeMatchColumnsAt
<1>2. Here30(db, 9) => /\ As(db, "nodes", 30)
                        /\ As(db, "node_packages", 30)
                        /\ As(db, "node_vulnerabilities", 30)
  BY DEF Here30, As, Exists, Columns, NodeColumns, NodeMatchColumnsAt
<1>3. \A k \in 9 .. 9 : Here30(db, k) => Here30(db, 0)
  BY DEF Here30, Is, No, Has
<1> QED
  BY <1>1, <1>2, <1>3

LEMMA Edges32 ==
    ASSUME NEW db
    PROVE  /\ Exact(db, 31) => Here32(db, 0)
           /\ Here32(db, 1) => As(db, "node_packages", 32)
           /\ \A k \in 1 .. 1 : Here32(db, k) => Here32(db, 0)
<1>1. Exact(db, 31) => Here32(db, 0)
  <2>1. SUFFICES ASSUME Exact(db, 31) PROVE Here32(db, 0)
    OBVIOUS
  <2>2. As(db, "node_packages", 31)
    BY <2>1 DEF Exact, Names
  <2> QED
    BY <2>2 DEF Here32, Is, No, As, Exists, Columns
<1>2. Here32(db, 1) => As(db, "node_packages", 32)
  BY DEF Here32, As, Exists, Columns
<1>3. \A k \in 1 .. 1 : Here32(db, k) => Here32(db, 0)
  BY DEF Here32, Is, No, Has, NodePackages32
<1> QED
  BY <1>1, <1>2, <1>3

LEMMA Edges33 ==
    ASSUME NEW db
    PROVE  /\ Exact(db, 32) => Here33(db, 0)
           /\ Here33(db, 8) => /\ As(db, "node_vulnerabilities", 33)
                             /\ As(db, "node_vulnerabilities_new", 33)
           /\ \A k \in 8 .. 8 : Here33(db, k) => Here33(db, 0)
<1>1. Exact(db, 32) => Here33(db, 0)
  <2>1. SUFFICES ASSUME Exact(db, 32) PROVE Here33(db, 0)
    OBVIOUS
  <2>2. /\ As(db, "node_vulnerabilities", 32)
        /\ As(db, "node_vulnerabilities_new", 32)
    BY <2>1 DEF Exact, Names
  <2> QED
    BY <2>2 DEF Here33, Is, No, As, Exists, Columns, NodeMatchColumnsAt
<1>2. Here33(db, 8) => /\ As(db, "node_vulnerabilities", 33)
                        /\ As(db, "node_vulnerabilities_new", 33)
  BY DEF Here33, As, Exists, Columns, NodeMatchColumnsAt
<1>3. \A k \in 8 .. 8 : Here33(db, k) => Here33(db, 0)
  BY DEF Here33, Is, No, Has
<1> QED
  BY <1>1, <1>2, <1>3

LEMMA Edges34 ==
    ASSUME NEW db
    PROVE  /\ Exact(db, 33) => Here34(db, 0)
           /\ Here34(db, 6) => /\ As(db, "node_vulnerability_details", 34)
                             /\ As(db, "node_package_details", 34)
           /\ \A k \in 6 .. 6 : Here34(db, k) => Here34(db, 0)
<1>1. Exact(db, 33) => Here34(db, 0)
  <2>1. SUFFICES ASSUME Exact(db, 33) PROVE Here34(db, 0)
    OBVIOUS
  <2>2. /\ As(db, "node_vulnerability_details", 33)
        /\ As(db, "node_package_details", 33)
    BY <2>1 DEF Exact, Names
  <2> QED
    BY <2>2 DEF Here34, Is, No, As, Exists, Columns
<1>2. Here34(db, 6) => /\ As(db, "node_vulnerability_details", 34)
                        /\ As(db, "node_package_details", 34)
  BY DEF Here34, As, Exists, Columns
<1>3. \A k \in 6 .. 6 : Here34(db, k) => Here34(db, 0)
  BY DEF Here34, Is, No, Has
<1> QED
  BY <1>1, <1>2, <1>3

LEMMA Edges35 ==
    ASSUME NEW db
    PROVE  /\ Exact(db, 34) => Here35(db, 0)
           /\ Here35(db, 2) => As(db, "nodes", 35)
           /\ \A k \in 1 .. 2 : Here35(db, k) => Here35(db, 0)
<1>1. Exact(db, 34) => Here35(db, 0)
  <2>1. SUFFICES ASSUME Exact(db, 34) PROVE Here35(db, 0)
    OBVIOUS
  <2>2. As(db, "nodes", 34)
    BY <2>1 DEF Exact, Names
  <2> QED
    BY <2>2 DEF Here35, Is, No, As, Exists, Columns, NodeColumns
<1>2. Here35(db, 2) => As(db, "nodes", 35)
  BY DEF Here35, As, Exists, Columns, NodeColumns
<1>3. \A k \in 1 .. 2 : Here35(db, k) => Here35(db, 0)
  BY DEF Here35, Is, No, Has, Nodes35
<1> QED
  BY <1>1, <1>2, <1>3

LEMMA Edges36 ==
    ASSUME NEW db
    PROVE  /\ Exact(db, 35) => Here36(db, 0)
           /\ Here36(db, 2) => As(db, "metric_staleness", 36)
           /\ \A k \in 1 .. 2 : Here36(db, k) => Here36(db, 0)
<1>1. Exact(db, 35) => Here36(db, 0)
  <2>1. SUFFICES ASSUME Exact(db, 35) PROVE Here36(db, 0)
    OBVIOUS
  <2>2. As(db, "metric_staleness", 35)
    BY <2>1 DEF Exact, Names
  <2> QED
    BY <2>2 DEF Here36, Is, No, As, Exists, Columns, SeriesColumnsAt
<1>2. Here36(db, 2) => As(db, "metric_staleness", 36)
  BY DEF Here36, As, Exists, Columns, SeriesColumnsAt
<1>3. \A k \in 1 .. 2 : Here36(db, k) => Here36(db, 0)
  BY DEF Here36, Is, No, Has
<1> QED
  BY <1>1, <1>2, <1>3

LEMMA Edges37 ==
    ASSUME NEW db
    PROVE  /\ Exact(db, 36) => Here37(db, 0)
           /\ Here37(db, 5) => /\ As(db, "metric_staleness", 37)
                             /\ As(db, "metric_staleness_v37", 37)
           /\ \A k \in 1 .. 5 : Here37(db, k) => Here37(db, 0)
<1>1. Exact(db, 36) => Here37(db, 0)
  <2>1. SUFFICES ASSUME Exact(db, 36) PROVE Here37(db, 0)
    OBVIOUS
  <2>2. /\ As(db, "metric_staleness", 36)
        /\ As(db, "metric_staleness_v37", 36)
    BY <2>1 DEF Exact, Names
  <2> QED
    BY <2>2 DEF Here37, Is, No, As, Exists, Columns, SeriesColumnsAt
<1>2. Here37(db, 5) => /\ As(db, "metric_staleness", 37)
                        /\ As(db, "metric_staleness_v37", 37)
  BY DEF Here37, As, Exists, Columns, SeriesColumnsAt
<1>3. \A k \in 1 .. 5 : Here37(db, k) => Here37(db, 0)
  BY DEF Here37, Is, No, Has
<1> QED
  BY <1>1, <1>2, <1>3

LEMMA Edges42 ==
    ASSUME NEW db
    PROVE  /\ Exact(db, 41) => Here42(db, 0)
           /\ Here42(db, 11) => /\ As(db, "node_vulnerabilities", 42)
                              /\ As(db, "node_vulnerabilities_new", 42)
           /\ \A k \in 11 .. 11 : Here42(db, k) => Here42(db, 0)
<1>1. Exact(db, 41) => Here42(db, 0)
  <2>1. SUFFICES ASSUME Exact(db, 41) PROVE Here42(db, 0)
    OBVIOUS
  <2>2. /\ As(db, "node_vulnerabilities", 41)
        /\ As(db, "node_vulnerabilities_new", 41)
    BY <2>1 DEF Exact, Names
  <2> QED
    BY <2>2 DEF Here42, Is, No, As, Exists, Columns, NodeMatchColumnsAt
<1>2. Here42(db, 11) => /\ As(db, "node_vulnerabilities", 42)
                         /\ As(db, "node_vulnerabilities_new", 42)
  BY DEF Here42, As, Exists, Columns, NodeMatchColumnsAt
<1>3. \A k \in 11 .. 11 : Here42(db, k) => Here42(db, 0)
  BY DEF Here42, Is, No, Has
<1> QED
  BY <1>1, <1>2, <1>3

LEMMA Edges43 ==
    ASSUME NEW db
    PROVE  /\ Exact(db, 42) => Here43(db, 0)
           /\ Here43(db, 4) => /\ As(db, "packages", 43)
                             /\ As(db, "image_packages", 43)
                             /\ As(db, "vulnerabilities", 43)
                             /\ As(db, "image_vulnerabilities", 43)
                             /\ As(db, "package_details", 43)
                             /\ As(db, "vulnerability_details", 43)
                             /\ As(db, "image_package_details", 43)
                             /\ As(db, "image_vulnerability_details", 43)
           /\ \A k \in 1 .. 4 : Here43(db, k) => Here43(db, 0)
<1>1. Exact(db, 42) => Here43(db, 0)
  <2>1. SUFFICES ASSUME Exact(db, 42) PROVE Here43(db, 0)
    OBVIOUS
  <2>2. /\ As(db, "packages", 42)
        /\ As(db, "image_packages", 42)
        /\ As(db, "vulnerabilities", 42)
        /\ As(db, "image_vulnerabilities", 42)
        /\ As(db, "package_details", 42)
        /\ As(db, "vulnerability_details", 42)
        /\ As(db, "image_package_details", 42)
        /\ As(db, "image_vulnerability_details", 42)
    BY <2>1 DEF Exact, Names
  <2> QED
    BY <2>2 DEF Here43, Is, No, As, Exists, Columns, MatchColumnsAt
<1>2. Here43(db, 4) => /\ As(db, "packages", 43)
                        /\ As(db, "image_packages", 43)
                        /\ As(db, "vulnerabilities", 43)
                        /\ As(db, "image_vulnerabilities", 43)
                        /\ As(db, "package_details", 43)
                        /\ As(db, "vulnerability_details", 43)
                        /\ As(db, "image_package_details", 43)
                        /\ As(db, "image_vulnerability_details", 43)
  BY DEF Here43, As, Exists, Columns, MatchColumnsAt
<1>3. \A k \in 1 .. 4 : Here43(db, k) => Here43(db, 0)
  BY DEF Here43, Is, No, Has
<1> QED
  BY <1>1, <1>2, <1>3

LEMMA Edges44 ==
    ASSUME NEW db
    PROVE  /\ Exact(db, 43) => Here44(db, 0)
           /\ Here44(db, 2) => As(db, "image_packages", 44)
           /\ \A k \in 1 .. 2 : Here44(db, k) => Here44(db, 0)
<1>1. Exact(db, 43) => Here44(db, 0)
  <2>1. SUFFICES ASSUME Exact(db, 43) PROVE Here44(db, 0)
    OBVIOUS
  <2>2. As(db, "image_packages", 43)
    BY <2>1 DEF Exact, Names
  <2> QED
    BY <2>2 DEF Here44, Is, No, As, Exists, Columns
<1>2. Here44(db, 2) => As(db, "image_packages", 44)
  BY DEF Here44, As, Exists, Columns
<1>3. \A k \in 1 .. 2 : Here44(db, k) => Here44(db, 0)
  BY DEF Here44, Is, No, Has, Packages44
<1> QED
  BY <1>1, <1>2, <1>3

LEMMA Edges47 ==
    ASSUME NEW db
    PROVE  /\ Exact(db, 46) => Here47(db, 0)
           /\ Here47(db, 4) => /\ As(db, "images", 47)
                             /\ As(db, "nodes", 47)
           /\ \A k \in 1 .. 4 : Here47(db, k) => Here47(db, 0)
<1>1. Exact(db, 46) => Here47(db, 0)
  <2>1. SUFFICES ASSUME Exact(db, 46) PROVE Here47(db, 0)
    OBVIOUS
  <2>2. /\ As(db, "images", 46)
        /\ As(db, "nodes", 46)
    BY <2>1 DEF Exact, Names
  <2> QED
    BY <2>2 DEF Here47, Is, No, As, Exists, Columns, ImageColumns, NodeColumns
<1>2. Here47(db, 4) => /\ As(db, "images", 47)
                        /\ As(db, "nodes", 47)
  BY DEF Here47, As, Exists, Columns, ImageColumns, NodeColumns
<1>3. \A k \in 1 .. 4 : Here47(db, k) => Here47(db, 0)
  BY DEF Here47, Is, No, Has, Nodes47
<1> QED
  BY <1>1, <1>2, <1>3

LEMMA Edges48 ==
    ASSUME NEW db
    PROVE  /\ Exact(db, 47) => Here48(db, 0)
           /\ Here48(db, 3) => As(db, "metric_staleness", 48)
           /\ \A k \in 1 .. 3 : Here48(db, k) => Here48(db, 0)
<1>1. Exact(db, 47) => Here48(db, 0)
  <2>1. SUFFICES ASSUME Exact(db, 47) PROVE Here48(db, 0)
    OBVIOUS
  <2>2. As(db, "metric_staleness", 47)
    BY <2>1 DEF Exact, Names
  <2> QED
    BY <2>2 DEF Here48, Is, No, As, Exists, Columns, SeriesColumnsAt
<1>2. Here48(db, 3) => As(db, "metric_staleness", 48)
  BY DEF Here48, As, Exists, Columns, SeriesColumnsAt
<1>3. \A k \in 1 .. 3 : Here48(db, k) => Here48(db, 0)
  BY DEF Here48, Is, No, Has
<1> QED
  BY <1>1, <1>2, <1>3

-----------------------------------------------------------------------------
(* From a migration to all of them *)

LEMMA Changed1 ==
    Changed(1) = {"container_images", "container_instances", "scan_status"}
BY DEF Changed, Changes, Names

LEMMA Changed2 ==
    Changed(2) = {"container_images", "container_images_new", "container_instances",
                    "container_instances_new"}
BY DEF Changed, Changes, Names

LEMMA Changed3 ==
    Changed(3) = {"container_images", "container_instances"}
BY DEF Changed, Changes, Names

LEMMA Changed4 ==
    Changed(4) = {"container_images"}
BY DEF Changed, Changes, Names

LEMMA Changed5 ==
    Changed(5) = {"container_images", "container_images_new"}
BY DEF Changed, Changes, Names

LEMMA Changed6 ==
    Changed(6) = {"packages", "vulnerabilities", "image_summary"}
BY DEF Changed, Changes, Names

LEMMA Changed7 ==
    Changed(7) = {"vulnerabilities"}
BY DEF Changed, Changes, Names

LEMMA Changed8 ==
    Changed(8) = {"container_images", "container_images_new"}
BY DEF Changed, Changes, Names

LEMMA Changed9 ==
    Changed(9) = {"container_images"}
BY DEF Changed, Changes, Names

LEMMA Changed10 ==
    Changed(10) = {"image_summary"}
BY DEF Changed, Changes, Names

LEMMA Changed11 ==
    Changed(11) = {"scan_status"}
BY DEF Changed, Changes, Names

LEMMA Changed12 ==
    Changed(12) = {"packages", "packages_new"}
BY DEF Changed, Changes, Names

LEMMA Changed13 ==
    Changed(13) = {"package_details", "vulnerability_details"}
BY DEF Changed, Changes, Names

LEMMA Changed19 ==
    Changed(19) = {"vulnerabilities", "vulnerabilities_new"}
BY DEF Changed, Changes, Names

LEMMA Changed21 ==
    Changed(21) = {"container_images"}
BY DEF Changed, Changes, Names

LEMMA Changed22 ==
    Changed(22) = {"job_executions"}
BY DEF Changed, Changes, Names

LEMMA Changed23 ==
    Changed(23) = {"metric_staleness"}
BY DEF Changed, Changes, Names

LEMMA Changed24 ==
    Changed(24) = {"container_images"}
BY DEF Changed, Changes, Names

LEMMA Changed26 ==
    Changed(26) = {"metric_staleness", "app_state"}
BY DEF Changed, Changes, Names

LEMMA Changed27 ==
    Changed(27) = {"container_instances"}
BY DEF Changed, Changes, Names

LEMMA Changed28 ==
    Changed(28) = {"container_instances", "container_instances_new"}
BY DEF Changed, Changes, Names

LEMMA Changed29 ==
    Changed(29) = {"container_images", "images", "container_instances", "containers"}
BY DEF Changed, Changes, Names

LEMMA Changed30 ==
    Changed(30) = {"nodes", "node_packages", "node_vulnerabilities"}
BY DEF Changed, Changes, Names

LEMMA Changed32 ==
    Changed(32) = {"node_packages"}
BY DEF Changed, Changes, Names

LEMMA Changed33 ==
    Changed(33) = {"node_vulnerabilities", "node_vulnerabilities_new"}
BY DEF Changed, Changes, Names

LEMMA Changed34 ==
    Changed(34) = {"node_vulnerability_details", "node_package_details"}
BY DEF Changed, Changes, Names

LEMMA Changed35 ==
    Changed(35) = {"nodes"}
BY DEF Changed, Changes, Names

LEMMA Changed36 ==
    Changed(36) = {"metric_staleness"}
BY DEF Changed, Changes, Names

LEMMA Changed37 ==
    Changed(37) = {"metric_staleness", "metric_staleness_v37"}
BY DEF Changed, Changes, Names

LEMMA Changed42 ==
    Changed(42) = {"node_vulnerabilities", "node_vulnerabilities_new"}
BY DEF Changed, Changes, Names

LEMMA Changed43 ==
    Changed(43) = {"packages", "image_packages", "vulnerabilities", "image_vulnerabilities",
                     "package_details", "vulnerability_details", "image_package_details",
                     "image_vulnerability_details"}
BY DEF Changed, Changes, Names

LEMMA Changed44 ==
    Changed(44) = {"image_packages"}
BY DEF Changed, Changes, Names

LEMMA Changed47 ==
    Changed(47) = {"images", "nodes"}
BY DEF Changed, Changes, Names

LEMMA Changed48 ==
    Changed(48) = {"metric_staleness"}
BY DEF Changed, Changes, Names

LEMMA ChangedByPlain == ASSUME NEW n \in Plain PROVE Changed(n) = {}
<1>1. \A t \in Names : n \notin Changes(t)
  BY DEF Plain, Names, Changes
<1> QED
  BY <1>1 DEF Changed

LEMMA HereInPlain == ASSUME NEW n \in Plain, NEW db, NEW k PROVE Here(db, n, k)
BY DEF Here, Plain

LEMMA PlainIsQuiet ==
    ASSUME NEW n \in Plain, NEW i \in 1 .. Len(Steps(n))
    PROVE  Steps(n)[i].op \in Quiet
<1>1. CASE n = 14
  <2>1. i \in 1 .. 3
    BY <1>1, List14
  <2> QED
    BY <1>1, <2>1, List14, QuietStatements DEF StoredDocuments
<1>2. CASE n = 15
  <2>1. i \in 1 .. 5
    BY <1>2, List15
  <2> QED
    BY <1>2, <2>1, List15, QuietStatements DEF StoredDocuments
<1>3. CASE n = 16
  <2>1. i \in 1 .. 3
    BY <1>3, List16
  <2> QED
    BY <1>3, <2>1, List16, QuietStatements DEF StoredDocuments
<1>4. CASE n = 17
  <2>1. i \in 1 .. 3
    BY <1>4, List17
  <2> QED
    BY <1>4, <2>1, List17, QuietStatements DEF StoredDocuments
<1>5. CASE n = 18
  <2>1. i \in 1 .. 3
    BY <1>5, List18
  <2> QED
    BY <1>5, <2>1, List18, QuietStatements DEF StoredDocuments
<1>6. CASE n = 20
  <2>1. i \in 1 .. 3
    BY <1>6, List20
  <2> QED
    BY <1>6, <2>1, List20, QuietStatements
<1>7. CASE n = 25
  <2>1. i \in 1 .. 1
    BY <1>7, List25
  <2> QED
    BY <1>7, <2>1, List25, QuietStatements
<1>8. CASE n = 31
  <2>1. i \in 1 .. 4
    BY <1>8, List31
  <2> QED
    BY <1>8, <2>1, List31, QuietStatements
<1>9. CASE n = 38
  <2>1. i \in 1 .. 1
    BY <1>9, List38
  <2> QED
    BY <1>9, <2>1, List38, QuietStatements
<1>10. CASE n = 39
  <2>1. i \in 1 .. 1
    BY <1>10, List39
  <2> QED
    BY <1>10, <2>1, List39, QuietStatements
<1>11. CASE n = 40
  <2>1. i \in 1 .. 3
    BY <1>11, List40
  <2> QED
    BY <1>11, <2>1, List40, QuietStatements
<1>12. CASE n = 41
  <2>1. i \in 1 .. 1
    BY <1>12, List41
  <2> QED
    BY <1>12, <2>1, List41, QuietStatements
<1>13. CASE n = 45
  <2>1. Steps(n) = Steps(45)
    BY <1>13
  <2>2. Len(Steps(45)) = 22
    BY List45
  <2>3. i \in 1 .. 22
    BY <2>1, <2>2
  <2>4. /\ Steps(45)[1].op \in Quiet /\ Steps(45)[2].op \in Quiet
        /\ Steps(45)[3].op \in Quiet /\ Steps(45)[4].op \in Quiet
    BY List45, QuietStatements, SMTT(30)
  <2>5. i \in 1 .. 4 => Steps(n)[i].op \in Quiet
    BY <2>1, <2>4
  <2>6. /\ Steps(45)[5].op \in Quiet /\ Steps(45)[6].op \in Quiet
        /\ Steps(45)[7].op \in Quiet /\ Steps(45)[8].op \in Quiet
    BY List45, QuietStatements, SMTT(30)
  <2>7. i \in 5 .. 8 => Steps(n)[i].op \in Quiet
    BY <2>1, <2>6
  <2>8. /\ Steps(45)[9].op \in Quiet /\ Steps(45)[10].op \in Quiet
        /\ Steps(45)[11].op \in Quiet /\ Steps(45)[12].op \in Quiet
    BY List45, QuietStatements, SMTT(30)
  <2>9. i \in 9 .. 12 => Steps(n)[i].op \in Quiet
    BY <2>1, <2>8
  <2>10. /\ Steps(45)[13].op \in Quiet /\ Steps(45)[14].op \in Quiet
        /\ Steps(45)[15].op \in Quiet /\ Steps(45)[16].op \in Quiet
    BY List45, QuietStatements, SMTT(30)
  <2>11. i \in 13 .. 16 => Steps(n)[i].op \in Quiet
    BY <2>1, <2>10
  <2>12. /\ Steps(45)[17].op \in Quiet /\ Steps(45)[18].op \in Quiet
        /\ Steps(45)[19].op \in Quiet
    BY List45, QuietStatements, SMTT(30)
  <2>13. i \in 17 .. 19 => Steps(n)[i].op \in Quiet
    BY <2>1, <2>12
  <2>14. /\ Steps(45)[20].op \in Quiet /\ Steps(45)[21].op \in Quiet
        /\ Steps(45)[22].op \in Quiet
    BY List45, QuietStatements, SMTT(30)
  <2>15. i \in 20 .. 22 => Steps(n)[i].op \in Quiet
    BY <2>1, <2>14
  <2> QED
    BY <2>3, <2>5, <2>7, <2>9, <2>11, <2>13, <2>15
<1>14. CASE n = 46
  <2>1. i \in 1 .. 2
    BY <1>14, List46
  <2> QED
    BY <1>14, <2>1, List46, QuietStatements
<1>15. CASE n = 49
  <2>1. i \in 1 .. 2
    BY <1>15, List49
  <2> QED
    BY <1>15, <2>1, List49, QuietStatements
<1>16. CASE n = 50
  <2>1. i \in 1 .. 1
    BY <1>16, List50
  <2> QED
    BY <1>16, <2>1, List50, QuietStatements
<1>17. CASE n = 51
  <2>1. i \in 1 .. 8
    BY <1>17, List51
  <2> QED
    BY <1>17, <2>1, List51, QuietStatements
<1> QED
  BY <1>1, <1>2, <1>3, <1>4, <1>5, <1>6, <1>7, <1>8, <1>9, <1>10, <1>11, <1>12, <1>13, <1>14,
     <1>15, <1>16, <1>17 DEF Plain

\* A table a version does not change is the same before and after it.
LEMMA Stable ==
    ASSUME NEW n \in 1 .. 51, NEW t \in Names, n \notin Changes(t), NEW db, As(db, t, n - 1)
    PROVE  As(db, t, n)
<1>1. CASE t = "container_images"
  BY <1>1 DEF As, Exists, Columns, Changes, Is, No, ImageColumns, InstanceColumnsAt,
     MatchColumnsAt, SeriesColumnsAt, NodeColumns, NodeMatchColumnsAt
<1>2. CASE t = "images"
  BY <1>2 DEF As, Exists, Columns, Changes, Is, No, ImageColumns, InstanceColumnsAt,
     MatchColumnsAt, SeriesColumnsAt, NodeColumns, NodeMatchColumnsAt
<1>3. CASE t = "container_instances"
  BY <1>3 DEF As, Exists, Columns, Changes, Is, No, ImageColumns, InstanceColumnsAt,
     MatchColumnsAt, SeriesColumnsAt, NodeColumns, NodeMatchColumnsAt
<1>4. CASE t \in {"containers", "scan_status"}
  BY <1>4 DEF As, Exists, Columns, Changes, Is, No, ImageColumns, InstanceColumnsAt,
     MatchColumnsAt, SeriesColumnsAt, NodeColumns, NodeMatchColumnsAt
<1>5. CASE t \in {"packages", "vulnerabilities"}
  BY <1>5 DEF As, Exists, Columns, Changes, Is, No, ImageColumns, InstanceColumnsAt,
     MatchColumnsAt, SeriesColumnsAt, NodeColumns, NodeMatchColumnsAt
<1>6. CASE t \in {"image_packages", "image_vulnerabilities"}
  BY <1>6 DEF As, Exists, Columns, Changes, Is, No, ImageColumns, InstanceColumnsAt,
     MatchColumnsAt, SeriesColumnsAt, NodeColumns, NodeMatchColumnsAt
<1>7. CASE t \in {"image_summary", "package_details", "vulnerability_details"}
  BY <1>7 DEF As, Exists, Columns, Changes, Is, No, ImageColumns, InstanceColumnsAt,
     MatchColumnsAt, SeriesColumnsAt, NodeColumns, NodeMatchColumnsAt
<1>8. CASE t \in {"image_package_details", "image_vulnerability_details"}
  BY <1>8 DEF As, Exists, Columns, Changes, Is, No, ImageColumns, InstanceColumnsAt,
     MatchColumnsAt, SeriesColumnsAt, NodeColumns, NodeMatchColumnsAt
<1>9. CASE t \in {"job_executions", "app_state"}
  BY <1>9 DEF As, Exists, Columns, Changes, Is, No, ImageColumns, InstanceColumnsAt,
     MatchColumnsAt, SeriesColumnsAt, NodeColumns, NodeMatchColumnsAt
<1>10. CASE t = "metric_staleness"
  BY <1>10 DEF As, Exists, Columns, Changes, Is, No, ImageColumns, InstanceColumnsAt,
     MatchColumnsAt, SeriesColumnsAt, NodeColumns, NodeMatchColumnsAt
<1>11. CASE t \in {"nodes", "node_packages"}
  BY <1>11 DEF As, Exists, Columns, Changes, Is, No, ImageColumns, InstanceColumnsAt,
     MatchColumnsAt, SeriesColumnsAt, NodeColumns, NodeMatchColumnsAt
<1>12. CASE t = "node_vulnerabilities"
  BY <1>12 DEF As, Exists, Columns, Changes, Is, No, ImageColumns, InstanceColumnsAt,
     MatchColumnsAt, SeriesColumnsAt, NodeColumns, NodeMatchColumnsAt
<1>13. CASE t \in {"node_vulnerability_details", "node_package_details"}
  BY <1>13 DEF As, Exists, Columns, Changes, Is, No, ImageColumns, InstanceColumnsAt,
     MatchColumnsAt, SeriesColumnsAt, NodeColumns, NodeMatchColumnsAt
<1>14. CASE t \in {"container_images_new", "container_instances_new", "packages_new",
                "vulnerabilities_new", "node_vulnerabilities_new",
                "metric_staleness_v37"}
  BY <1>14 DEF As, Exists, Columns, Changes, Is, No, ImageColumns, InstanceColumnsAt,
     MatchColumnsAt, SeriesColumnsAt, NodeColumns, NodeMatchColumnsAt
<1> QED
  BY <1>1, <1>2, <1>3, <1>4, <1>5, <1>6, <1>7, <1>8, <1>9, <1>10, <1>11, <1>12, <1>13,
     <1>14 DEF Names

LEMMA AroundKept ==
    ASSUME NEW n, NEW db, NEW new, Around(db, n),
           \A t : t \notin Changed(n) => Same(db, new, t)
    PROVE  Around(new, n)
<1>1. DOMAIN new.tables \subseteq Names
  <2>1. ASSUME NEW t \in DOMAIN new.tables PROVE t \in Names
    BY <2>1 DEF Around, Same, Changed
  <2> QED
    BY <2>1
<1>2. ASSUME NEW t \in Names \ Changed(n) PROVE As(new, t, n - 1)
  BY <1>2 DEF Around, Same, As, Is, No
<1> QED
  BY <1>1, <1>2 DEF Around

LEMMA AmidStep ==
    ASSUME NEW n \in 1 .. 51, NEW db, IsDatabase(db), NEW k, Amid(db, n, k),
           k \in 0 .. Len(Steps(n)) - 1, ~Refused(db, Steps(n)[k + 1])
    PROVE  Amid(After(db, Steps(n)[k + 1]), n, k + 1)
<1> DEFINE new == After(db, Steps(n)[k + 1])
<1> SUFFICES Here(new, n, k + 1) /\ \A t : t \notin Changed(n) => Same(db, new, t)
  BY AroundKept DEF Amid
<1>1. CASE n = 1
  <2>1. k \in 0 .. 7
    BY <1>1, List1, SMTT(30)
  <2>2. Here1(db, k)
    BY <1>1 DEF Amid, Here
  <2> QED
    BY <1>1, <2>1, <2>2, Step1, Changed1 DEF Here
<1>2. CASE n = 2
  <2>1. k \in 0 .. 9
    BY <1>2, List2, SMTT(30)
  <2>2. Here2(db, k)
    BY <1>2 DEF Amid, Here
  <2> QED
    BY <1>2, <2>1, <2>2, Step2, Changed2, SMTT(30) DEF Here
<1>3. CASE n = 3
  <2>1. k \in 0 .. 6
    BY <1>3, List3
  <2>2. Here3(db, k)
    BY <1>3 DEF Amid, Here
  <2> QED
    BY <1>3, <2>1, <2>2, Step3, Changed3 DEF Here
<1>4. CASE n = 4
  <2>1. k \in 0 .. 4
    BY <1>4, List4
  <2>2. Here4(db, k)
    BY <1>4 DEF Amid, Here
  <2> QED
    BY <1>4, <2>1, <2>2, Step4, Changed4 DEF Here
<1>5. CASE n = 5
  <2>1. k \in 0 .. 5
    BY <1>5, List5
  <2>2. Here5(db, k)
    BY <1>5 DEF Amid, Here
  <2> QED
    BY <1>5, <2>1, <2>2, Step5, Changed5 DEF Here
<1>6. CASE n = 6
  <2>1. k \in 0 .. 9
    BY <1>6, List6, SMTT(30)
  <2>2. Here6(db, k)
    BY <1>6 DEF Amid, Here
  <2> QED
    BY <1>6, <2>1, <2>2, Step6, Changed6, SMTT(30) DEF Here
<1>7. CASE n = 7
  <2>1. k \in 0 .. 3
    BY <1>7, List7
  <2>2. Here7(db, k)
    BY <1>7 DEF Amid, Here
  <2> QED
    BY <1>7, <2>1, <2>2, Step7, Changed7 DEF Here
<1>8. CASE n = 8
  <2>1. Len(Steps(8)) = 12
    BY List8
  <2>2. Len(Steps(n)) = 12
    BY <1>8, <2>1
  <2>3. k \in 0 .. 11
    BY <2>2
  <2>4. Here8(db, k)
    BY <1>8 DEF Amid, Here
  <2> QED
    BY <1>8, <2>3, <2>4, Step8, Changed8, SMTT(30) DEF Here
<1>9. CASE n = 9
  <2>1. k \in 0 .. 2
    BY <1>9, List9
  <2>2. Here9(db, k)
    BY <1>9 DEF Amid, Here
  <2> QED
    BY <1>9, <2>1, <2>2, Step9, Changed9 DEF Here
<1>10. CASE n = 10
  <2>1. k \in 0 .. 0
    BY <1>10, List10
  <2>2. Here10(db, k)
    BY <1>10 DEF Amid, Here
  <2> QED
    BY <1>10, <2>1, <2>2, Step10, Changed10 DEF Here
<1>11. CASE n = 11
  <2>1. k \in 0 .. 1
    BY <1>11, List11
  <2>2. Here11(db, k)
    BY <1>11 DEF Amid, Here
  <2> QED
    BY <1>11, <2>1, <2>2, Step11, Changed11 DEF Here
<1>12. CASE n = 12
  <2>1. k \in 0 .. 5
    BY <1>12, List12
  <2>2. Here12(db, k)
    BY <1>12 DEF Amid, Here
  <2> QED
    BY <1>12, <2>1, <2>2, Step12, Changed12 DEF Here
<1>13. CASE n = 13
  <2>1. k \in 0 .. 3
    BY <1>13, List13
  <2>2. Here13(db, k)
    BY <1>13 DEF Amid, Here
  <2> QED
    BY <1>13, <2>1, <2>2, Step13, Changed13 DEF Here
<1>14. CASE n = 19
  <2>1. k \in 0 .. 6
    BY <1>14, List19, SMTT(30)
  <2>2. Here19(db, k)
    BY <1>14 DEF Amid, Here
  <2> QED
    BY <1>14, <2>1, <2>2, Step19, Changed19 DEF Here
<1>15. CASE n = 21
  <2>1. k \in 0 .. 0
    BY <1>15, List21
  <2>2. Here21(db, k)
    BY <1>15 DEF Amid, Here
  <2> QED
    BY <1>15, <2>1, <2>2, Step21, Changed21 DEF Here
<1>16. CASE n = 22
  <2>1. k \in 0 .. 3
    BY <1>16, List22
  <2>2. Here22(db, k)
    BY <1>16 DEF Amid, Here
  <2> QED
    BY <1>16, <2>1, <2>2, Step22, Changed22 DEF Here
<1>17. CASE n = 23
  <2>1. k \in 0 .. 0
    BY <1>17, List23
  <2>2. Here23(db, k)
    BY <1>17 DEF Amid, Here
  <2> QED
    BY <1>17, <2>1, <2>2, Step23, Changed23 DEF Here
<1>18. CASE n = 24
  <2>1. k \in 0 .. 0
    BY <1>18, List24
  <2>2. Here24(db, k)
    BY <1>18 DEF Amid, Here
  <2> QED
    BY <1>18, <2>1, <2>2, Step24, Changed24 DEF Here
<1>19. CASE n = 26
  <2>1. k \in 0 .. 0
    BY <1>19, List26
  <2>2. Here26(db, k)
    BY <1>19 DEF Amid, Here
  <2> QED
    BY <1>19, <2>1, <2>2, Step26, Changed26 DEF Here
<1>20. CASE n = 27
  <2>1. k \in 0 .. 1
    BY <1>20, List27
  <2>2. Here27(db, k)
    BY <1>20 DEF Amid, Here
  <2> QED
    BY <1>20, <2>1, <2>2, Step27, Changed27 DEF Here
<1>21. CASE n = 28
  <2>1. k \in 0 .. 6
    BY <1>21, List28
  <2>2. Here28(db, k)
    BY <1>21 DEF Amid, Here
  <2> QED
    BY <1>21, <2>1, <2>2, Step28, Changed28, SMTT(30) DEF Here
<1>22. CASE n = 29
  <2>1. k \in 0 .. 6
    BY <1>22, List29, SMTT(30)
  <2>2. Here29(db, k)
    BY <1>22 DEF Amid, Here
  <2> QED
    BY <1>22, <2>1, <2>2, Step29, Changed29 DEF Here
<1>23. CASE n = 30
  <2>1. k \in 0 .. 8
    BY <1>23, List30, SMTT(30)
  <2>2. Here30(db, k)
    BY <1>23 DEF Amid, Here
  <2> QED
    BY <1>23, <2>1, <2>2, Step30, Changed30, SMTT(30) DEF Here
<1>24. CASE n = 32
  <2>1. k \in 0 .. 0
    BY <1>24, List32
  <2>2. Here32(db, k)
    BY <1>24 DEF Amid, Here
  <2> QED
    BY <1>24, <2>1, <2>2, Step32, Changed32 DEF Here
<1>25. CASE n = 33
  <2>1. k \in 0 .. 7
    BY <1>25, List33, SMTT(30)
  <2>2. Here33(db, k)
    BY <1>25 DEF Amid, Here
  <2> QED
    BY <1>25, <2>1, <2>2, Step33, Changed33, SMTT(30) DEF Here
<1>26. CASE n = 34
  <2>1. k \in 0 .. 5
    BY <1>26, List34
  <2>2. Here34(db, k)
    BY <1>26 DEF Amid, Here
  <2> QED
    BY <1>26, <2>1, <2>2, Step34, Changed34 DEF Here
<1>27. CASE n = 35
  <2>1. k \in 0 .. 1
    BY <1>27, List35
  <2>2. Here35(db, k)
    BY <1>27 DEF Amid, Here
  <2> QED
    BY <1>27, <2>1, <2>2, Step35, Changed35 DEF Here
<1>28. CASE n = 36
  <2>1. k \in 0 .. 1
    BY <1>28, List36
  <2>2. Here36(db, k)
    BY <1>28 DEF Amid, Here
  <2> QED
    BY <1>28, <2>1, <2>2, Step36, Changed36 DEF Here
<1>29. CASE n = 37
  <2>1. k \in 0 .. 4
    BY <1>29, List37
  <2>2. Here37(db, k)
    BY <1>29 DEF Amid, Here
  <2> QED
    BY <1>29, <2>1, <2>2, Step37, Changed37 DEF Here
<1>30. CASE n = 42
  <2>1. Len(Steps(42)) = 11
    BY List42
  <2>2. Len(Steps(n)) = 11
    BY <1>30, <2>1
  <2>3. k \in 0 .. 10
    BY <2>2
  <2>4. Here42(db, k)
    BY <1>30 DEF Amid, Here
  <2> QED
    BY <1>30, <2>3, <2>4, Step42, Changed42, SMTT(30) DEF Here
<1>31. CASE n = 43
  <2>1. k \in 0 .. 3
    BY <1>31, List43
  <2>2. Here43(db, k)
    BY <1>31 DEF Amid, Here
  <2> QED
    BY <1>31, <2>1, <2>2, Step43, Changed43 DEF Here
<1>32. CASE n = 44
  <2>1. k \in 0 .. 1
    BY <1>32, List44
  <2>2. Here44(db, k)
    BY <1>32 DEF Amid, Here
  <2> QED
    BY <1>32, <2>1, <2>2, Step44, Changed44 DEF Here
<1>33. CASE n = 47
  <2>1. k \in 0 .. 3
    BY <1>33, List47
  <2>2. Here47(db, k)
    BY <1>33 DEF Amid, Here
  <2> QED
    BY <1>33, <2>1, <2>2, Step47, Changed47 DEF Here
<1>34. CASE n = 48
  <2>1. k \in 0 .. 2
    BY <1>34, List48
  <2>2. Here48(db, k)
    BY <1>34 DEF Amid, Here
  <2> QED
    BY <1>34, <2>1, <2>2, Step48, Changed48 DEF Here
<1>35. CASE n \in Plain
  <2>1. Len(Steps(n)) \in Nat
    BY StepsShape
  <2>2. k + 1 \in 1 .. Len(Steps(n))
    BY <2>1
  <2>3. new.tables = db.tables
    BY <1>35, <2>2, PlainIsQuiet, QuietEffect
  <2>4. Here(new, n, k + 1)
    BY <1>35, HereInPlain
  <2> QED
    BY <2>3, <2>4 DEF Same
<1> QED
  BY <1>1, <1>2, <1>3, <1>4, <1>5, <1>6, <1>7, <1>8, <1>9, <1>10, <1>11, <1>12, <1>13, <1>14,
     <1>15, <1>16, <1>17, <1>18, <1>19, <1>20, <1>21, <1>22, <1>23, <1>24, <1>25, <1>26, <1>27,
     <1>28, <1>29, <1>30, <1>31, <1>32, <1>33, <1>34, <1>35 DEF Plain

LEMMA AmidStart ==
    ASSUME NEW n \in 1 .. 51, NEW db, Exact(db, n - 1)
    PROVE  Amid(db, n, 0)
<1>1. Around(db, n)
  BY DEF Exact, Around
<1>2. Here(db, n, 0)
  <2>1. CASE n = 1
    BY <2>1, Edges1 DEF Here
  <2>2. CASE n = 2
    BY <2>2, Edges2 DEF Here
  <2>3. CASE n = 3
    BY <2>3, Edges3 DEF Here
  <2>4. CASE n = 4
    BY <2>4, Edges4 DEF Here
  <2>5. CASE n = 5
    BY <2>5, Edges5 DEF Here
  <2>6. CASE n = 6
    BY <2>6, Edges6 DEF Here
  <2>7. CASE n = 7
    BY <2>7, Edges7 DEF Here
  <2>8. CASE n = 8
    BY <2>8, Edges8 DEF Here
  <2>9. CASE n = 9
    BY <2>9, Edges9 DEF Here
  <2>10. CASE n = 10
    BY <2>10, Edges10 DEF Here
  <2>11. CASE n = 11
    BY <2>11, Edges11 DEF Here
  <2>12. CASE n = 12
    BY <2>12, Edges12 DEF Here
  <2>13. CASE n = 13
    BY <2>13, Edges13 DEF Here
  <2>14. CASE n = 19
    BY <2>14, Edges19 DEF Here
  <2>15. CASE n = 21
    BY <2>15, Edges21 DEF Here
  <2>16. CASE n = 22
    BY <2>16, Edges22 DEF Here
  <2>17. CASE n = 23
    BY <2>17, Edges23 DEF Here
  <2>18. CASE n = 24
    BY <2>18, Edges24 DEF Here
  <2>19. CASE n = 26
    BY <2>19, Edges26 DEF Here
  <2>20. CASE n = 27
    BY <2>20, Edges27 DEF Here
  <2>21. CASE n = 28
    BY <2>21, Edges28 DEF Here
  <2>22. CASE n = 29
    BY <2>22, Edges29 DEF Here
  <2>23. CASE n = 30
    BY <2>23, Edges30 DEF Here
  <2>24. CASE n = 32
    BY <2>24, Edges32 DEF Here
  <2>25. CASE n = 33
    BY <2>25, Edges33 DEF Here
  <2>26. CASE n = 34
    BY <2>26, Edges34 DEF Here
  <2>27. CASE n = 35
    BY <2>27, Edges35 DEF Here
  <2>28. CASE n = 36
    BY <2>28, Edges36 DEF Here
  <2>29. CASE n = 37
    BY <2>29, Edges37 DEF Here
  <2>30. CASE n = 42
    BY <2>30, Edges42 DEF Here
  <2>31. CASE n = 43
    BY <2>31, Edges43 DEF Here
  <2>32. CASE n = 44
    BY <2>32, Edges44 DEF Here
  <2>33. CASE n = 47
    BY <2>33, Edges47 DEF Here
  <2>34. CASE n = 48
    BY <2>34, Edges48 DEF Here
  <2>35. CASE n \in Plain
    BY <2>35, HereInPlain
  <2> QED
    BY <2>1, <2>2, <2>3, <2>4, <2>5, <2>6, <2>7, <2>8, <2>9, <2>10, <2>11, <2>12, <2>13,
     <2>14, <2>15, <2>16, <2>17, <2>18, <2>19, <2>20, <2>21, <2>22, <2>23, <2>24, <2>25,
     <2>26, <2>27, <2>28, <2>29, <2>30, <2>31, <2>32, <2>33, <2>34, <2>35 DEF Plain
<1> QED
  BY <1>1, <1>2 DEF Amid

LEMMA AmidEnd ==
    ASSUME NEW n \in 1 .. 51, NEW db, NEW k, k = Len(Steps(n)), Amid(db, n, k)
    PROVE  Exact(db, n)
<1>1. ASSUME NEW t \in Names \ Changed(n) PROVE As(db, t, n)
  BY <1>1, Stable DEF Amid, Around, Changed
<1>2. ASSUME NEW t \in Changed(n) PROVE As(db, t, n)
  <2>1. CASE n = 1
    <3>1. Len(Steps(n)) = 8
      BY <2>1, List1
    <3>2. k = 8
      BY <3>1
    <3>3. Here1(db, k)
      BY <2>1 DEF Amid, Here
    <3> QED
      BY <1>2, <2>1, <3>2, <3>3, Edges1, Changed1
  <2>2. CASE n = 2
    <3>1. Len(Steps(n)) = 10
      BY <2>2, List2
    <3>2. k = 10
      BY <3>1
    <3>3. Here2(db, k)
      BY <2>2 DEF Amid, Here
    <3> QED
      BY <1>2, <2>2, <3>2, <3>3, Edges2, Changed2
  <2>3. CASE n = 3
    <3>1. Len(Steps(n)) = 7
      BY <2>3, List3
    <3>2. k = 7
      BY <3>1
    <3>3. Here3(db, k)
      BY <2>3 DEF Amid, Here
    <3> QED
      BY <1>2, <2>3, <3>2, <3>3, Edges3, Changed3
  <2>4. CASE n = 4
    <3>1. Len(Steps(n)) = 5
      BY <2>4, List4
    <3>2. k = 5
      BY <3>1
    <3>3. Here4(db, k)
      BY <2>4 DEF Amid, Here
    <3> QED
      BY <1>2, <2>4, <3>2, <3>3, Edges4, Changed4
  <2>5. CASE n = 5
    <3>1. Len(Steps(n)) = 6
      BY <2>5, List5
    <3>2. k = 6
      BY <3>1
    <3>3. Here5(db, k)
      BY <2>5 DEF Amid, Here
    <3> QED
      BY <1>2, <2>5, <3>2, <3>3, Edges5, Changed5
  <2>6. CASE n = 6
    <3>1. Len(Steps(n)) = 10
      BY <2>6, List6
    <3>2. k = 10
      BY <3>1
    <3>3. Here6(db, k)
      BY <2>6 DEF Amid, Here
    <3> QED
      BY <1>2, <2>6, <3>2, <3>3, Edges6, Changed6
  <2>7. CASE n = 7
    <3>1. Len(Steps(n)) = 4
      BY <2>7, List7
    <3>2. k = 4
      BY <3>1
    <3>3. Here7(db, k)
      BY <2>7 DEF Amid, Here
    <3> QED
      BY <1>2, <2>7, <3>2, <3>3, Edges7, Changed7
  <2>8. CASE n = 8
    <3>1. Len(Steps(n)) = 12
      BY <2>8, List8
    <3>2. k = 12
      BY <3>1
    <3>3. Here8(db, k)
      BY <2>8 DEF Amid, Here
    <3> QED
      BY <1>2, <2>8, <3>2, <3>3, Edges8, Changed8
  <2>9. CASE n = 9
    <3>1. Len(Steps(n)) = 3
      BY <2>9, List9
    <3>2. k = 3
      BY <3>1
    <3>3. Here9(db, k)
      BY <2>9 DEF Amid, Here
    <3> QED
      BY <1>2, <2>9, <3>2, <3>3, Edges9, Changed9
  <2>10. CASE n = 10
    <3>1. Len(Steps(n)) = 1
      BY <2>10, List10
    <3>2. k = 1
      BY <3>1
    <3>3. Here10(db, k)
      BY <2>10 DEF Amid, Here
    <3> QED
      BY <1>2, <2>10, <3>2, <3>3, Edges10, Changed10
  <2>11. CASE n = 11
    <3>1. Len(Steps(n)) = 2
      BY <2>11, List11
    <3>2. k = 2
      BY <3>1
    <3>3. Here11(db, k)
      BY <2>11 DEF Amid, Here
    <3> QED
      BY <1>2, <2>11, <3>2, <3>3, Edges11, Changed11
  <2>12. CASE n = 12
    <3>1. Len(Steps(n)) = 6
      BY <2>12, List12
    <3>2. k = 6
      BY <3>1
    <3>3. Here12(db, k)
      BY <2>12 DEF Amid, Here
    <3> QED
      BY <1>2, <2>12, <3>2, <3>3, Edges12, Changed12
  <2>13. CASE n = 13
    <3>1. Len(Steps(n)) = 4
      BY <2>13, List13
    <3>2. k = 4
      BY <3>1
    <3>3. Here13(db, k)
      BY <2>13 DEF Amid, Here
    <3> QED
      BY <1>2, <2>13, <3>2, <3>3, Edges13, Changed13
  <2>14. CASE n = 19
    <3>1. Len(Steps(n)) = 7
      BY <2>14, List19
    <3>2. k = 7
      BY <3>1
    <3>3. Here19(db, k)
      BY <2>14 DEF Amid, Here
    <3> QED
      BY <1>2, <2>14, <3>2, <3>3, Edges19, Changed19
  <2>15. CASE n = 21
    <3>1. Len(Steps(n)) = 1
      BY <2>15, List21
    <3>2. k = 1
      BY <3>1
    <3>3. Here21(db, k)
      BY <2>15 DEF Amid, Here
    <3> QED
      BY <1>2, <2>15, <3>2, <3>3, Edges21, Changed21
  <2>16. CASE n = 22
    <3>1. Len(Steps(n)) = 4
      BY <2>16, List22
    <3>2. k = 4
      BY <3>1
    <3>3. Here22(db, k)
      BY <2>16 DEF Amid, Here
    <3> QED
      BY <1>2, <2>16, <3>2, <3>3, Edges22, Changed22
  <2>17. CASE n = 23
    <3>1. Len(Steps(n)) = 1
      BY <2>17, List23
    <3>2. k = 1
      BY <3>1
    <3>3. Here23(db, k)
      BY <2>17 DEF Amid, Here
    <3> QED
      BY <1>2, <2>17, <3>2, <3>3, Edges23, Changed23
  <2>18. CASE n = 24
    <3>1. Len(Steps(n)) = 1
      BY <2>18, List24
    <3>2. k = 1
      BY <3>1
    <3>3. Here24(db, k)
      BY <2>18 DEF Amid, Here
    <3> QED
      BY <1>2, <2>18, <3>2, <3>3, Edges24, Changed24
  <2>19. CASE n = 26
    <3>1. Len(Steps(n)) = 1
      BY <2>19, List26
    <3>2. k = 1
      BY <3>1
    <3>3. Here26(db, k)
      BY <2>19 DEF Amid, Here
    <3> QED
      BY <1>2, <2>19, <3>2, <3>3, Edges26, Changed26
  <2>20. CASE n = 27
    <3>1. Len(Steps(n)) = 2
      BY <2>20, List27
    <3>2. k = 2
      BY <3>1
    <3>3. Here27(db, k)
      BY <2>20 DEF Amid, Here
    <3> QED
      BY <1>2, <2>20, <3>2, <3>3, Edges27, Changed27
  <2>21. CASE n = 28
    <3>1. Len(Steps(n)) = 7
      BY <2>21, List28
    <3>2. k = 7
      BY <3>1
    <3>3. Here28(db, k)
      BY <2>21 DEF Amid, Here
    <3> QED
      BY <1>2, <2>21, <3>2, <3>3, Edges28, Changed28
  <2>22. CASE n = 29
    <3>1. Len(Steps(n)) = 7
      BY <2>22, List29
    <3>2. k = 7
      BY <3>1
    <3>3. Here29(db, k)
      BY <2>22 DEF Amid, Here
    <3> QED
      BY <1>2, <2>22, <3>2, <3>3, Edges29, Changed29
  <2>23. CASE n = 30
    <3>1. Len(Steps(n)) = 9
      BY <2>23, List30
    <3>2. k = 9
      BY <3>1
    <3>3. Here30(db, k)
      BY <2>23 DEF Amid, Here
    <3> QED
      BY <1>2, <2>23, <3>2, <3>3, Edges30, Changed30
  <2>24. CASE n = 32
    <3>1. Len(Steps(n)) = 1
      BY <2>24, List32
    <3>2. k = 1
      BY <3>1
    <3>3. Here32(db, k)
      BY <2>24 DEF Amid, Here
    <3> QED
      BY <1>2, <2>24, <3>2, <3>3, Edges32, Changed32
  <2>25. CASE n = 33
    <3>1. Len(Steps(n)) = 8
      BY <2>25, List33
    <3>2. k = 8
      BY <3>1
    <3>3. Here33(db, k)
      BY <2>25 DEF Amid, Here
    <3> QED
      BY <1>2, <2>25, <3>2, <3>3, Edges33, Changed33
  <2>26. CASE n = 34
    <3>1. Len(Steps(n)) = 6
      BY <2>26, List34
    <3>2. k = 6
      BY <3>1
    <3>3. Here34(db, k)
      BY <2>26 DEF Amid, Here
    <3> QED
      BY <1>2, <2>26, <3>2, <3>3, Edges34, Changed34
  <2>27. CASE n = 35
    <3>1. Len(Steps(n)) = 2
      BY <2>27, List35
    <3>2. k = 2
      BY <3>1
    <3>3. Here35(db, k)
      BY <2>27 DEF Amid, Here
    <3> QED
      BY <1>2, <2>27, <3>2, <3>3, Edges35, Changed35
  <2>28. CASE n = 36
    <3>1. Len(Steps(n)) = 2
      BY <2>28, List36
    <3>2. k = 2
      BY <3>1
    <3>3. Here36(db, k)
      BY <2>28 DEF Amid, Here
    <3> QED
      BY <1>2, <2>28, <3>2, <3>3, Edges36, Changed36
  <2>29. CASE n = 37
    <3>1. Len(Steps(n)) = 5
      BY <2>29, List37
    <3>2. k = 5
      BY <3>1
    <3>3. Here37(db, k)
      BY <2>29 DEF Amid, Here
    <3> QED
      BY <1>2, <2>29, <3>2, <3>3, Edges37, Changed37
  <2>30. CASE n = 42
    <3>1. Len(Steps(n)) = 11
      BY <2>30, List42
    <3>2. k = 11
      BY <3>1
    <3>3. Here42(db, k)
      BY <2>30 DEF Amid, Here
    <3> QED
      BY <1>2, <2>30, <3>2, <3>3, Edges42, Changed42
  <2>31. CASE n = 43
    <3>1. Len(Steps(n)) = 4
      BY <2>31, List43
    <3>2. k = 4
      BY <3>1
    <3>3. Here43(db, k)
      BY <2>31 DEF Amid, Here
    <3> QED
      BY <1>2, <2>31, <3>2, <3>3, Edges43, Changed43
  <2>32. CASE n = 44
    <3>1. Len(Steps(n)) = 2
      BY <2>32, List44
    <3>2. k = 2
      BY <3>1
    <3>3. Here44(db, k)
      BY <2>32 DEF Amid, Here
    <3> QED
      BY <1>2, <2>32, <3>2, <3>3, Edges44, Changed44
  <2>33. CASE n = 47
    <3>1. Len(Steps(n)) = 4
      BY <2>33, List47
    <3>2. k = 4
      BY <3>1
    <3>3. Here47(db, k)
      BY <2>33 DEF Amid, Here
    <3> QED
      BY <1>2, <2>33, <3>2, <3>3, Edges47, Changed47
  <2>34. CASE n = 48
    <3>1. Len(Steps(n)) = 3
      BY <2>34, List48
    <3>2. k = 3
      BY <3>1
    <3>3. Here48(db, k)
      BY <2>34 DEF Amid, Here
    <3> QED
      BY <1>2, <2>34, <3>2, <3>3, Edges48, Changed48
  <2>35. CASE n \in Plain
    BY <1>2, <2>35, ChangedByPlain
  <2> QED
    BY <2>1, <2>2, <2>3, <2>4, <2>5, <2>6, <2>7, <2>8, <2>9, <2>10, <2>11, <2>12, <2>13, <2>14,
       <2>15, <2>16, <2>17, <2>18, <2>19, <2>20, <2>21, <2>22, <2>23, <2>24, <2>25, <2>26, <2>27,
       <2>28, <2>29, <2>30, <2>31, <2>32, <2>33, <2>34, <2>35 DEF Plain
<1> QED
  BY <1>1, <1>2 DEF Exact, Amid, Around

\* What is on disk when a migration is cut short is where it can begin again.
LEMMA AmidAgain ==
    ASSUME NEW n \in 1 .. 51, NEW db, NEW k, Amid(db, n, k),
           k \in 1 .. Len(Steps(n)), Len(migrations[n].tx) <= k
    PROVE  Amid(db, n, 0)
<1> SUFFICES Here(db, n, 0)
  BY DEF Amid
<1>1. CASE n = 1
  <2>1. Len(Steps(n)) = 8 /\ Len(migrations[n].tx) = 0
    BY <1>1, List1
  <2>2. k \in 1 .. 8
    BY <2>1
  <2>3. Here1(db, k)
    BY <1>1 DEF Amid, Here
  <2> QED
    BY <1>1, <2>2, <2>3, Edges1 DEF Here
<1>2. CASE n = 2
  <2>1. Len(Steps(n)) = 10 /\ Len(migrations[n].tx) = 10
    BY <1>2, List2
  <2>2. k \in 10 .. 10
    BY <2>1
  <2>3. Here2(db, k)
    BY <1>2 DEF Amid, Here
  <2> QED
    BY <1>2, <2>2, <2>3, Edges2 DEF Here
<1>3. CASE n = 3
  <2>1. Len(Steps(n)) = 7 /\ Len(migrations[n].tx) = 7
    BY <1>3, List3
  <2>2. k \in 7 .. 7
    BY <2>1
  <2>3. Here3(db, k)
    BY <1>3 DEF Amid, Here
  <2> QED
    BY <1>3, <2>2, <2>3, Edges3 DEF Here
<1>4. CASE n = 4
  <2>1. Len(Steps(n)) = 5 /\ Len(migrations[n].tx) = 5
    BY <1>4, List4
  <2>2. k \in 5 .. 5
    BY <2>1
  <2>3. Here4(db, k)
    BY <1>4 DEF Amid, Here
  <2> QED
    BY <1>4, <2>2, <2>3, Edges4 DEF Here
<1>5. CASE n = 5
  <2>1. Len(Steps(n)) = 6 /\ Len(migrations[n].tx) = 6
    BY <1>5, List5
  <2>2. k \in 6 .. 6
    BY <2>1
  <2>3. Here5(db, k)
    BY <1>5 DEF Amid, Here
  <2> QED
    BY <1>5, <2>2, <2>3, Edges5 DEF Here
<1>6. CASE n = 6
  <2>1. Len(Steps(n)) = 10 /\ Len(migrations[n].tx) = 8
    BY <1>6, List6
  <2>2. k \in 8 .. 10
    BY <2>1
  <2>3. Here6(db, k)
    BY <1>6 DEF Amid, Here
  <2> QED
    BY <1>6, <2>2, <2>3, Edges6 DEF Here
<1>7. CASE n = 7
  <2>1. Len(Steps(n)) = 4 /\ Len(migrations[n].tx) = 4
    BY <1>7, List7
  <2>2. k \in 4 .. 4
    BY <2>1
  <2>3. Here7(db, k)
    BY <1>7 DEF Amid, Here
  <2> QED
    BY <1>7, <2>2, <2>3, Edges7 DEF Here
<1>8. CASE n = 8
  <2>1. Len(Steps(n)) = 12 /\ Len(migrations[n].tx) = 12
    BY <1>8, List8
  <2>2. k \in 12 .. 12
    BY <2>1
  <2>3. Here8(db, k)
    BY <1>8 DEF Amid, Here
  <2> QED
    BY <1>8, <2>2, <2>3, Edges8 DEF Here
<1>9. CASE n = 9
  <2>1. Len(Steps(n)) = 3 /\ Len(migrations[n].tx) = 3
    BY <1>9, List9
  <2>2. k \in 3 .. 3
    BY <2>1
  <2>3. Here9(db, k)
    BY <1>9 DEF Amid, Here
  <2> QED
    BY <1>9, <2>2, <2>3, Edges9 DEF Here
<1>10. CASE n = 10
  <2>1. Len(Steps(n)) = 1 /\ Len(migrations[n].tx) = 1
    BY <1>10, List10
  <2>2. k \in 1 .. 1
    BY <2>1
  <2>3. Here10(db, k)
    BY <1>10 DEF Amid, Here
  <2> QED
    BY <1>10, <2>2, <2>3, Edges10 DEF Here
<1>11. CASE n = 11
  <2>1. Len(Steps(n)) = 2 /\ Len(migrations[n].tx) = 2
    BY <1>11, List11
  <2>2. k \in 2 .. 2
    BY <2>1
  <2>3. Here11(db, k)
    BY <1>11 DEF Amid, Here
  <2> QED
    BY <1>11, <2>2, <2>3, Edges11 DEF Here
<1>12. CASE n = 12
  <2>1. Len(Steps(n)) = 6 /\ Len(migrations[n].tx) = 6
    BY <1>12, List12
  <2>2. k \in 6 .. 6
    BY <2>1
  <2>3. Here12(db, k)
    BY <1>12 DEF Amid, Here
  <2> QED
    BY <1>12, <2>2, <2>3, Edges12 DEF Here
<1>13. CASE n = 13
  <2>1. Len(Steps(n)) = 4 /\ Len(migrations[n].tx) = 4
    BY <1>13, List13
  <2>2. k \in 4 .. 4
    BY <2>1
  <2>3. Here13(db, k)
    BY <1>13 DEF Amid, Here
  <2> QED
    BY <1>13, <2>2, <2>3, Edges13 DEF Here
<1>14. CASE n = 19
  <2>1. Len(Steps(n)) = 7 /\ Len(migrations[n].tx) = 7
    BY <1>14, List19
  <2>2. k \in 7 .. 7
    BY <2>1
  <2>3. Here19(db, k)
    BY <1>14 DEF Amid, Here
  <2> QED
    BY <1>14, <2>2, <2>3, Edges19 DEF Here
<1>15. CASE n = 21
  <2>1. Len(Steps(n)) = 1 /\ Len(migrations[n].tx) = 0
    BY <1>15, List21
  <2>2. k \in 1 .. 1
    BY <2>1
  <2>3. Here21(db, k)
    BY <1>15 DEF Amid, Here
  <2> QED
    BY <1>15, <2>2, <2>3, Edges21 DEF Here
<1>16. CASE n = 22
  <2>1. Len(Steps(n)) = 4 /\ Len(migrations[n].tx) = 4
    BY <1>16, List22
  <2>2. k \in 4 .. 4
    BY <2>1
  <2>3. Here22(db, k)
    BY <1>16 DEF Amid, Here
  <2> QED
    BY <1>16, <2>2, <2>3, Edges22 DEF Here
<1>17. CASE n = 23
  <2>1. Len(Steps(n)) = 1 /\ Len(migrations[n].tx) = 1
    BY <1>17, List23
  <2>2. k \in 1 .. 1
    BY <2>1
  <2>3. Here23(db, k)
    BY <1>17 DEF Amid, Here
  <2> QED
    BY <1>17, <2>2, <2>3, Edges23 DEF Here
<1>18. CASE n = 24
  <2>1. Len(Steps(n)) = 1 /\ Len(migrations[n].tx) = 0
    BY <1>18, List24
  <2>2. k \in 1 .. 1
    BY <2>1
  <2>3. Here24(db, k)
    BY <1>18 DEF Amid, Here
  <2> QED
    BY <1>18, <2>2, <2>3, Edges24 DEF Here
<1>19. CASE n = 26
  <2>1. Len(Steps(n)) = 1 /\ Len(migrations[n].tx) = 0
    BY <1>19, List26
  <2>2. k \in 1 .. 1
    BY <2>1
  <2>3. Here26(db, k)
    BY <1>19 DEF Amid, Here
  <2> QED
    BY <1>19, <2>2, <2>3, Edges26 DEF Here
<1>20. CASE n = 27
  <2>1. Len(Steps(n)) = 2 /\ Len(migrations[n].tx) = 0
    BY <1>20, List27
  <2>2. k \in 1 .. 2
    BY <2>1
  <2>3. Here27(db, k)
    BY <1>20 DEF Amid, Here
  <2> QED
    BY <1>20, <2>2, <2>3, Edges27 DEF Here
<1>21. CASE n = 28
  <2>1. Len(Steps(n)) = 7 /\ Len(migrations[n].tx) = 7
    BY <1>21, List28
  <2>2. k \in 7 .. 7
    BY <2>1
  <2>3. Here28(db, k)
    BY <1>21 DEF Amid, Here
  <2> QED
    BY <1>21, <2>2, <2>3, Edges28 DEF Here
<1>22. CASE n = 29
  <2>1. Len(Steps(n)) = 7 /\ Len(migrations[n].tx) = 7
    BY <1>22, List29
  <2>2. k \in 7 .. 7
    BY <2>1
  <2>3. Here29(db, k)
    BY <1>22 DEF Amid, Here
  <2> QED
    BY <1>22, <2>2, <2>3, Edges29 DEF Here
<1>23. CASE n = 30
  <2>1. Len(Steps(n)) = 9 /\ Len(migrations[n].tx) = 9
    BY <1>23, List30
  <2>2. k \in 9 .. 9
    BY <2>1
  <2>3. Here30(db, k)
    BY <1>23 DEF Amid, Here
  <2> QED
    BY <1>23, <2>2, <2>3, Edges30 DEF Here
<1>24. CASE n = 32
  <2>1. Len(Steps(n)) = 1 /\ Len(migrations[n].tx) = 1
    BY <1>24, List32
  <2>2. k \in 1 .. 1
    BY <2>1
  <2>3. Here32(db, k)
    BY <1>24 DEF Amid, Here
  <2> QED
    BY <1>24, <2>2, <2>3, Edges32 DEF Here
<1>25. CASE n = 33
  <2>1. Len(Steps(n)) = 8 /\ Len(migrations[n].tx) = 8
    BY <1>25, List33
  <2>2. k \in 8 .. 8
    BY <2>1
  <2>3. Here33(db, k)
    BY <1>25 DEF Amid, Here
  <2> QED
    BY <1>25, <2>2, <2>3, Edges33 DEF Here
<1>26. CASE n = 34
  <2>1. Len(Steps(n)) = 6 /\ Len(migrations[n].tx) = 6
    BY <1>26, List34
  <2>2. k \in 6 .. 6
    BY <2>1
  <2>3. Here34(db, k)
    BY <1>26 DEF Amid, Here
  <2> QED
    BY <1>26, <2>2, <2>3, Edges34 DEF Here
<1>27. CASE n = 35
  <2>1. Len(Steps(n)) = 2 /\ Len(migrations[n].tx) = 0
    BY <1>27, List35
  <2>2. k \in 1 .. 2
    BY <2>1
  <2>3. Here35(db, k)
    BY <1>27 DEF Amid, Here
  <2> QED
    BY <1>27, <2>2, <2>3, Edges35 DEF Here
<1>28. CASE n = 36
  <2>1. Len(Steps(n)) = 2 /\ Len(migrations[n].tx) = 0
    BY <1>28, List36
  <2>2. k \in 1 .. 2
    BY <2>1
  <2>3. Here36(db, k)
    BY <1>28 DEF Amid, Here
  <2> QED
    BY <1>28, <2>2, <2>3, Edges36 DEF Here
<1>29. CASE n = 37
  <2>1. Len(Steps(n)) = 5 /\ Len(migrations[n].tx) = 0
    BY <1>29, List37
  <2>2. k \in 1 .. 5
    BY <2>1
  <2>3. Here37(db, k)
    BY <1>29 DEF Amid, Here
  <2> QED
    BY <1>29, <2>2, <2>3, Edges37 DEF Here
<1>30. CASE n = 42
  <2>1. Len(Steps(n)) = 11 /\ Len(migrations[n].tx) = 11
    BY <1>30, List42
  <2>2. k \in 11 .. 11
    BY <2>1
  <2>3. Here42(db, k)
    BY <1>30 DEF Amid, Here
  <2> QED
    BY <1>30, <2>2, <2>3, Edges42 DEF Here
<1>31. CASE n = 43
  <2>1. Len(Steps(n)) = 4 /\ Len(migrations[n].tx) = 0
    BY <1>31, List43
  <2>2. k \in 1 .. 4
    BY <2>1
  <2>3. Here43(db, k)
    BY <1>31 DEF Amid, Here
  <2> QED
    BY <1>31, <2>2, <2>3, Edges43 DEF Here
<1>32. CASE n = 44
  <2>1. Len(Steps(n)) = 2 /\ Len(migrations[n].tx) = 0
    BY <1>32, List44
  <2>2. k \in 1 .. 2
    BY <2>1
  <2>3. Here44(db, k)
    BY <1>32 DEF Amid, Here
  <2> QED
    BY <1>32, <2>2, <2>3, Edges44 DEF Here
<1>33. CASE n = 47
  <2>1. Len(Steps(n)) = 4 /\ Len(migrations[n].tx) = 0
    BY <1>33, List47
  <2>2. k \in 1 .. 4
    BY <2>1
  <2>3. Here47(db, k)
    BY <1>33 DEF Amid, Here
  <2> QED
    BY <1>33, <2>2, <2>3, Edges47 DEF Here
<1>34. CASE n = 48
  <2>1. Len(Steps(n)) = 3 /\ Len(migrations[n].tx) = 0
    BY <1>34, List48
  <2>2. k \in 1 .. 3
    BY <2>1
  <2>3. Here48(db, k)
    BY <1>34 DEF Amid, Here
  <2> QED
    BY <1>34, <2>2, <2>3, Edges48 DEF Here
<1>35. CASE n \in Plain
  BY <1>35, HereInPlain
<1> QED
  BY <1>1, <1>2, <1>3, <1>4, <1>5, <1>6, <1>7, <1>8, <1>9, <1>10, <1>11, <1>12, <1>13, <1>14,
     <1>15, <1>16, <1>17, <1>18, <1>19, <1>20, <1>21, <1>22, <1>23, <1>24, <1>25, <1>26, <1>27,
     <1>28, <1>29, <1>30, <1>31, <1>32, <1>33, <1>34, <1>35 DEF Plain

-----------------------------------------------------------------------------
(* The schema on disk is the one that is recorded *)

LEMMA EmptyIsExact == Exact(EmptyDatabase, 0)
<1>1. DOMAIN EmptyDatabase.tables = {}
  BY DEF EmptyDatabase, NoFunction
<1>2. ASSUME NEW t \in Names PROVE ~Exists(t, 0)
  BY <1>2 DEF Names, Exists
<1> QED
  BY <1>1, <1>2 DEF Exact, As, No

\* Rows do not matter to the schema.
LEMMA ExactOnTables ==
    ASSUME NEW db, NEW new, NEW n, Exact(db, n), new.tables = db.tables
    PROVE  Exact(new, n)
BY DEF Exact, As, Is, No

\* A step that leaves the database on disk alone, or begins anew.
LEMMA LayoutKept ==
    ASSUME LayoutInv, UNCHANGED <<disk, applied, torn>>, release' = release,
           phase' \notin {"stepping", "committing", "recording"}
    PROVE  LayoutInv'
BY DEF LayoutInv

LEMMA LayoutDeleted ==
    ASSUME DeleteDatabase, phase' \notin {"stepping", "committing", "recording"}
    PROVE  LayoutInv'
<1>1. disk' = EmptyDatabase /\ applied' = 0 /\ torn' = 0
  BY DEF DeleteDatabase
<1> QED
  BY <1>1, EmptyIsExact DEF LayoutInv

LEMMA LayoutRefused ==
    ASSUME LayoutInv, NEW reason, Refuse(reason), UNCHANGED release
    PROVE  LayoutInv'
BY LayoutKept DEF Refuse

LEMMA LayoutNextMigration == ASSUME OpenInv, LayoutInv, NextMigration PROVE LayoutInv'
<1>1. CASE applied < release
  <2>1. /\ phase' = "stepping" /\ cur' = applied + 1 /\ at' = 0
        /\ UNCHANGED <<release, disk, work, applied, torn>>
    BY <1>1 DEF NextMigration
  <2>2. applied + 1 \in 1 .. 51 /\ applied \in Nat
    BY <1>1, LatestIs51 DEF OpenInv, Types
  <2>3. work = disk
    BY DEF NextMigration, OpenInv, Progress
  <2>4. Amid(work, applied + 1, 0)
    <3>1. CASE torn = 0
      <4>1. Exact(work, (applied + 1) - 1)
        BY <2>2, <2>3, <3>1 DEF LayoutInv
      <4> QED
        BY <2>2, <4>1, AmidStart
    <3>2. CASE torn # 0
      BY <2>3, <3>2 DEF LayoutInv
    <3> QED
      BY <3>1, <3>2
  <2> QED
    BY <2>1, <2>4 DEF LayoutInv
<1>2. CASE ~(applied < release)
  BY <1>2, LayoutKept DEF NextMigration
<1> QED
  BY <1>1, <1>2

LEMMA LayoutStatement == ASSUME OpenInv, LayoutInv, Statement PROVE LayoutInv'
<1> DEFINE list == Steps(cur)
           s == list[at + 1]
<1>1. CASE Refused(work, s)
  BY <1>1, LayoutRefused DEF Statement, Migration, Steps
<1>2. CASE ~Refused(work, s)
  <2>1. /\ phase = "stepping" /\ at \in Nat /\ at < Len(list)
        /\ cur = applied + 1 /\ cur \in 1 .. 51 /\ cur <= release
    BY UnderWay, LatestIs51 DEF Statement, OpenInv, Types, Progress, Migration, Steps
  <2>2. /\ Len(migrations[cur].tx) \in Nat /\ Len(list) \in Nat
        /\ Len(migrations[cur].tx) <= Len(list)
    BY <2>1, StepsShape
  <2>3. /\ work' = After(work, s) /\ at' = at + 1
        /\ IF at < Len(migrations[cur].tx) THEN UNCHANGED <<disk, torn>>
           ELSE disk' = work' /\ torn' = cur
        /\ UNCHANGED <<release, applied, cur>>
    BY <1>2 DEF Statement, Migration, Steps
  <2>4. at \in 0 .. Len(list) - 1
    BY <2>1, <2>2
  <2>5. Amid(work, cur, at) /\ IsDatabase(work)
    BY <2>1 DEF LayoutInv, OpenInv
  <2>6. Amid(work', cur, at + 1)
    BY <1>2, <2>1, <2>3, <2>4, <2>5, AmidStep
  <2>7. torn' = 0 => Exact(disk', applied')
    <3>1. CASE at < Len(migrations[cur].tx)
      BY <2>3, <3>1 DEF LayoutInv
    <3>2. CASE ~(at < Len(migrations[cur].tx))
      <4>1. torn' = cur
        BY <2>3, <3>2
      <4>2. cur \in 1 .. 51
        BY <2>1
      <4>3. cur # 0
        BY <4>2
      <4> QED
        BY <4>1, <4>3
    <3> QED
      BY <3>1, <3>2
  <2>8. torn' # 0 => Amid(disk', applied' + 1, 0) /\ torn' <= release'
    <3>1. CASE at < Len(migrations[cur].tx)
      BY <2>3, <3>1 DEF LayoutInv
    <3>2. CASE ~(at < Len(migrations[cur].tx))
      <4>1. at + 1 \in 1 .. Len(list) /\ Len(migrations[cur].tx) <= at + 1
        BY <2>1, <2>2, <3>2
      <4>2. Amid(work', cur, 0)
        BY <2>1, <2>6, <4>1, AmidAgain
      <4> QED
        BY <2>1, <2>3, <3>2, <4>2
    <3> QED
      BY <3>1, <3>2
  <2> HIDE DEF list, s
  <2> QED
    BY <2>3, <2>6, <2>7, <2>8 DEF LayoutInv
<1> QED
  BY <1>1, <1>2

LEMMA LayoutCommit == ASSUME OpenInv, LayoutInv, Commit PROVE LayoutInv'
<1>1. /\ cur = applied + 1 /\ cur \in 1 .. 51 /\ cur <= release /\ applied \in Nat
      /\ at = Len(migrations[cur].tx)
  BY UnderWay, LatestIs51 DEF OpenInv, Types, Progress, Commit, Migration
<1>2. /\ disk' = work /\ torn' = cur
      /\ UNCHANGED <<release, work, applied, cur, at>>
  BY DEF Commit
<1>3. Amid(work, cur, at)
  BY DEF LayoutInv, Commit
<1>4. Amid(work, cur, 0)
  <2>1. CASE at = 0
    BY <1>3, <2>1
  <2>2. CASE at # 0
    <3>1. at \in 1 .. Len(Steps(cur)) /\ Len(migrations[cur].tx) <= at
      <4>1. /\ at \in Nat /\ Len(Steps(cur)) \in Nat
            /\ at <= Len(Steps(cur))
        BY <1>1, StepsShape
      <4> QED
        BY <1>1, <2>2, <4>1
    <3> QED
      BY <1>1, <1>3, <3>1, AmidAgain
  <2> QED
    BY <2>1, <2>2
<1> QED
  BY <1>1, <1>2, <1>3, <1>4 DEF LayoutInv

LEMMA LayoutRecord == ASSUME OpenInv, LayoutInv, Record PROVE LayoutInv'
<1>1. /\ cur \in 1 .. 51 /\ disk = work
      /\ at = Len(Steps(cur))
  BY UnderWay, LatestIs51 DEF Record, OpenInv, Progress, Migration, Steps
<1>2. Amid(work, cur, at)
  BY DEF LayoutInv, Record
<1>3. Exact(disk, cur)
  BY <1>1, <1>2, AmidEnd
<1>4. UNCHANGED disk /\ applied' = cur /\ torn' = 0 /\ phase' = "migrating"
  BY DEF Record
<1> QED
  BY <1>3, <1>4 DEF LayoutInv

\* Once New has returned, nothing is left half done.
LEMMA WholeWhenUp ==
    ASSUME OpenInv, LayoutInv, phase = "up", applied = release
    PROVE  torn = 0 /\ work = disk /\ Exact(disk, release)
BY DEF OpenInv, Types, Progress, LayoutInv

LEMMA LayoutNext == OpenInv /\ RanksInv /\ LayoutInv /\ [Next]_vars => LayoutInv'
<1> SUFFICES ASSUME OpenInv, RanksInv, LayoutInv, [Next]_vars PROVE LayoutInv'
  OBVIOUS
<1>1. CASE Start \/ CheckpointTruncates \/ CheckpointFails
  BY <1>1, LayoutKept DEF Start, CheckpointTruncates, CheckpointFails, Keep
<1>2. CASE Probe
  BY <1>2, LayoutKept, LayoutDeleted, LayoutRefused DEF Probe, Keep
<1>3. CASE CheckpointBusy
  BY <1>3, LayoutKept, LayoutDeleted DEF CheckpointBusy, Keep
<1>4. CASE AccessFails
  BY <1>4, LayoutDeleted, LayoutRefused DEF AccessFails
<1>5. CASE Serve
  <2>1. /\ disk' = work' /\ work'.tables = work.tables
        /\ UNCHANGED <<release, phase, applied, torn>>
    BY <1>5, ServeEffect DEF Serve
  <2>2. phase = "up" /\ torn = 0 /\ Exact(work, applied)
    BY <1>5, WholeWhenUp DEF Serve, RanksInv
  <2>3. Exact(work', applied)
    BY <2>1, <2>2, ExactOnTables
  <2> QED
    BY <2>1, <2>2, <2>3 DEF LayoutInv
<1>6. CASE Close \/ ExitOnCorruption \/ Crash
  BY <1>6, LayoutKept DEF Close, ExitOnCorruption, Crash, Keep
<1>7. CASE Upgrade
  <2>1. /\ UNCHANGED <<disk, applied, torn>> /\ release \in 1 .. 51 /\ release' = 51
        /\ phase' = phase /\ phase \in {"down", "refused"} /\ applied \in Nat
        /\ torn \in {0, applied + 1}
    BY <1>7, LatestIs51 DEF Upgrade, Keep, OpenInv, Types
  <2> QED
    BY <2>1 DEF LayoutInv
<1>8. CASE UNCHANGED vars
  BY <1>8 DEF LayoutInv, vars
<1> QED
  BY <1>1, <1>2, <1>3, <1>4, <1>5, <1>6, <1>7, <1>8, LayoutNextMigration, LayoutStatement,
     LayoutCommit, LayoutRecord DEF Next

LEMMA LayoutAlways == Spec => [](OpenInv /\ RanksInv /\ LayoutInv)
<1>1. Init => RanksInv
  BY DEF Init, RanksInv
<1>2. Init => LayoutInv
  BY EmptyIsExact DEF Init, LayoutInv
<1> QED
  BY <1>1, <1>2, RanksNext, LayoutNext, InitInv, NextInv, PTL DEF Spec

\* The schema is exactly the one schema_migrations records, no table or column
\* more or less, except between the first change a migration commits and the
\* record of it; then the tables are as that migration has brought them so far
\* and those it has no part in are as they were (ensureSchemaVersion and the
\* fifty-one functions of migrations.go).
THEOREM SchemaIsAsRecorded ==
    Spec => [](/\ torn = 0 => Exact(disk, applied)
               /\ torn # 0 => Amid(disk, applied + 1, 0))
<1>1. LayoutInv => /\ torn = 0 => Exact(disk, applied)
                   /\ torn # 0 => Amid(disk, applied + 1, 0)
  BY DEF LayoutInv
<1> QED
  BY <1>1, LayoutAlways, PTL

\* The last schema has every table and column the queries of today's code name.
LEMMA LastSchemaServes ==
    ASSUME NEW db, Exact(db, 51), NEW q \in Queried, NEW t \in DOMAIN q
    PROVE  HasColumns(db, t, q[t])
<1>1. /\ Is(db, "images", Images47) /\ Is(db, "containers", InstanceColumns("name"))
      /\ Is(db, "image_packages", Packages44)
      /\ Is(db, "image_vulnerabilities", Vulnerabilities19)
      /\ Is(db, "image_package_details", PackageDetails)
      /\ Is(db, "image_vulnerability_details", VulnerabilityDetails)
      /\ Is(db, "job_executions", JobExecutions) /\ Is(db, "app_state", States)
      /\ Is(db, "metric_staleness", Series48)
      /\ Is(db, "nodes", Nodes47) /\ Is(db, "node_packages", NodePackages32)
      /\ Is(db, "node_vulnerabilities", NodeMatches42)
      /\ Is(db, "node_vulnerability_details", NodeMatchDetails)
      /\ Is(db, "node_package_details", NodePackageDetails)
  BY DEF Exact, Names, As, Exists, Columns, ImageColumns, MatchColumnsAt, SeriesColumnsAt,
         NodeColumns, NodeMatchColumnsAt
<1> USE DEF HasColumns, Is
<1>2. CASE q = SBOMTables
  BY <1>1, <1>2 DEF SBOMTables, Packages44, PackageColumns, PackageDetails, Images47,
                    Images24, Images21, Images9, Images8
<1>3. CASE q = ReportTables
  BY <1>1, <1>3 DEF ReportTables, Vulnerabilities19, VulnerabilityColumns, Scores,
                    VulnerabilityDetails, Images47, Images24, Images21, Images9, Images8
<1>4. CASE q = ImageTable
  BY <1>1, <1>4 DEF ImageTable, Images47, Images24, Images21, Images9, Images8
<1>5. CASE q = ContainerTable
  BY <1>1, <1>5 DEF ContainerTable, InstanceColumns
<1>6. CASE q = NodeTable
  BY <1>1, <1>6 DEF NodeTable, Nodes47, Nodes35, Nodes30
<1>7. CASE q = HostSBOMTables
  BY <1>1, <1>7 DEF HostSBOMTables, NodePackages32, NodePackages30, NodePackageDetails,
                    Nodes47, Nodes35, Nodes30
<1>8. CASE q = HostReportTables
  BY <1>1, <1>8 DEF HostReportTables, NodeMatches42, NodeMatchDetails, Nodes47, Nodes35, Nodes30
<1>9. CASE q = JobTable
  BY <1>1, <1>9 DEF JobTable, JobExecutions
<1>10. CASE q = StateTable
  BY <1>1, <1>10 DEF StateTable, States
<1>11. CASE q = StalenessTable
  BY <1>1, <1>11 DEF StalenessTable, Series48, SeriesColumns
<1> QED
  BY <1>2, <1>3, <1>4, <1>5, <1>6, <1>7, <1>8, <1>9, <1>10, <1>11 DEF Queried

\* Whatever release a database comes from and however its migrations were
\* interrupted, once the current release serves every table and column its
\* queries name is there, and the lookup table ranks every scan status
\* (migrations.go and the queries of scanner-core/database).
THEOREM SchemaAlwaysServes == Spec => []SchemaServes
<1>1. OpenInv /\ RanksInv /\ LayoutInv => (phase = "up" /\ release = Latest => TablesServe)
  <2>1. SUFFICES ASSUME OpenInv, RanksInv, LayoutInv, phase = "up", release = Latest
                 PROVE  TablesServe
    OBVIOUS
  <2>2. Exact(work, 51)
    BY <2>1, WholeWhenUp, LatestIs51 DEF RanksInv
  <2> QED
    BY <2>2, LastSchemaServes DEF TablesServe
<1>2. (phase = "up" /\ release = Latest => TablesServe)
         /\ (phase = "up" /\ release = Latest => StatusesServe) => SchemaServes
  BY DEF SchemaServes
<1> QED
  BY <1>1, <1>2, LayoutAlways, StatusesAlwaysListed, PTL

LEMMA GrowingStatements ==
    /\ \A i, t, cols : Grows(Index(i, t, cols)) /\ Grows(IndexIfAbsent(i, t, cols))
    /\ \A i : Grows(DropIndex(i))
    /\ \A t, cols : Grows(Uses(t, cols))
    /\ \A t, c : Grows(AddColumn(t, c))
    /\ \A t, cols : t # "app_state" => Grows(Create(t, cols)) /\ Grows(CreateIfAbsent(t, cols))
    /\ \A t, needs, to, cols : Grows(Copy(t, needs, to, cols))
                               /\ Grows(CopyNarrower(t, needs, to, cols))
    /\ \A t, to, cols : Grows(CopySame(t, to, cols))
    /\ \A ranks : Grows(Seed(ranks)) /\ Grows(SeedIfAbsent(ranks))
    /\ \A status, order : Grows(Rank(status, order))
    /\ Grows(ReparseSBOMs) /\ Grows(ReparseReports)
BY DEF Grows, Index, IndexIfAbsent, DropIndex, Uses, AddColumn, Create, CreateIfAbsent, Copy,
       CopyNarrower, CopySame, Seed, SeedIfAbsent, Rank, ReparseSBOMs, ReparseReports, Reparse

LEMMA GrowRows ==
    ASSUME NEW db, IsDatabase(db), NEW s, Grows(s), ~Refused(db, s)
    PROVE  db.rows \subseteq After(db, s).rows /\ Stays(db, After(db, s))
<1> DEFINE new == After(db, s)
<1> USE DEF IsDatabase
<1>1. CASE s.op = "create"
  <2>1. CASE s.table \in DOMAIN db.tables
    BY <1>1, <2>1 DEF After, Stays
  <2>2. CASE s.table \notin DOMAIN db.tables
    <3>1. new = [db EXCEPT !.tables = With(@, s.table, s.columns)]
      BY <1>1, <2>2 DEF After
    <3> HIDE DEF new
    <3>2. new.rows = db.rows /\ new.tables = With(db.tables, s.table, s.columns)
      BY <3>1
    <3>3. DOMAIN new.tables = DOMAIN db.tables \cup {s.table}
      BY <3>2 DEF With, Merge
    <3> QED
      BY <1>1, <3>2, <3>3 DEF Stays, Grows, new
  <2> QED
    BY <2>1, <2>2
<1>2. CASE s.op = "add"
  <2>1. new = [db EXCEPT !.tables[s.table] = @ \cup {s.column}]
    BY <1>2 DEF After
  <2> HIDE DEF new
  <2>2. new.rows = db.rows /\ DOMAIN new.tables = DOMAIN db.tables
    BY <2>1
  <2> QED
    BY <2>2 DEF Stays, new
<1>3. CASE s.op \in Quiet
  <2>1. new.tables = db.tables
    BY <1>3, QuietEffect
  <2>2. CASE s.op = "index"
    BY <1>3, <2>1, <2>2 DEF After, Stays
  <2>3. CASE s.op \in {"unindex", "use", "copy", "reparse"}
    BY <1>3, <2>1, <2>3 DEF After, Stays, Joined
  <2>4. CASE s.op \in {"seed", "rank"}
    BY <1>3, <2>1, <2>4 DEF After, Stays
  <2> QED
    BY <1>3, <2>2, <2>3, <2>4 DEF Grows, Quiet
<1> QED
  BY <1>1, <1>2, <1>3 DEF Grows, Quiet

LEMMA CopyRows ==
    ASSUME NEW db, IsDatabase(db), NEW s, s.op = "copy"
    PROVE  /\ After(db, s).rows = IF s.table \in db.rows THEN db.rows \cup {s.to} ELSE db.rows
           /\ After(db, s).tables = db.tables
BY DEF After, IsDatabase, Joined

LEMMA CreateRows ==
    ASSUME NEW db, IsDatabase(db), NEW t, NEW cols
    PROVE  After(db, Create(t, cols)).rows = db.rows
<1>1. Create(t, cols).op = "create"
  BY DEF Create
<1> QED
  BY <1>1 DEF After, IsDatabase

LEMMA DropRows ==
    ASSUME NEW db, IsDatabase(db), NEW t
    PROVE  /\ After(db, DropTable(t)).rows = db.rows \ {t}
           /\ After(db, DropIfPresent(t)).rows = db.rows \ {t}
           /\ t # "app_state" => /\ Stays(db, After(db, DropTable(t)))
                                 /\ Stays(db, After(db, DropIfPresent(t)))
<1>1. /\ DropTable(t).op = "drop" /\ DropTable(t).table = t
      /\ DropIfPresent(t).op = "drop" /\ DropIfPresent(t).table = t
  BY SMTT(30) DEF DropTable, DropIfPresent
<1>2. /\ After(db, DropTable(t)).rows = db.rows \ {t}
      /\ After(db, DropIfPresent(t)).rows = db.rows \ {t}
  BY <1>1 DEF After, DropFrom, IsDatabase
<1> QED
  BY <1>2, DropTableEffect, DropIfPresentEffect DEF Stays, Same

LEMMA ClearRows ==
    ASSUME NEW db, IsDatabase(db), NEW t
    PROVE  /\ After(db, Clear(t)).rows = db.rows \ {t}
           /\ After(db, Clear(t)).tables = db.tables
<1>1. Clear(t).op = "clear" /\ Clear(t).table = t
  BY DEF Clear
<1> QED
  BY <1>1 DEF After, IsDatabase

LEMMA RenameRows ==
    ASSUME NEW db, IsDatabase(db), NEW t, NEW to, ~Refused(db, Rename(t, to)),
           NEW new, new = After(db, Rename(t, to))
    PROVE  /\ RowsRenamed(db, new, t, to)
           /\ t # "app_state" /\ to # "app_state" => Stays(db, new)
<1>1. Rename(t, to).op = "rename" /\ Rename(t, to).table = t /\ Rename(t, to).to = to
  BY DEF Rename
<1>2. After(db, Rename(t, to)).rows =
          IF t \in db.rows THEN (db.rows \ {t}) \cup {to} ELSE db.rows
  BY <1>1 DEF After, RenameIn, IsDatabase, Recalled
<1> QED
  BY <1>2, RenameEffect DEF Stays, Same, RowsRenamed

LEMMA GrowKeeps ==
    ASSUME NEW db, NEW new, db.rows \subseteq new.rows, Stays(db, new)
    PROVE  Keeps(db, new, Precious)
BY DEF Keeps, Held, Stays

\* A rename within a home.
LEMMA KinKeeps ==
    ASSUME NEW db, NEW new, NEW t, NEW to, Stays(db, new), t # "metric_staleness",
           RowsRenamed(db, new, t, to),
           NEW tables, \A o \in tables : t \in Homes(o) => to \in Homes(o)
    PROVE  Keeps(db, new, tables)
BY DEF Keeps, Held, Stays, RowsRenamed

\* A table goes whose rows are elsewhere.
LEMMA MoveKeeps ==
    ASSUME NEW db, NEW new, NEW t, NEW to, Stays(db, new), t # "metric_staleness",
           t # to, Moved(db, t, to), new.rows = db.rows \ {t},
           NEW tables, \A o \in tables : t \in Homes(o) => to \in Homes(o)
    PROVE  Keeps(db, new, tables)
BY DEF Keeps, Held, Stays, Moved

\* A table goes whose rows nobody is owed.
LEMMA LoseKeeps ==
    ASSUME NEW db, NEW new, NEW t, Stays(db, new), new.rows = db.rows \ {t},
           t = "metric_staleness" => "app_state" \in DOMAIN db.tables,
           NEW tables, \A o \in tables : t \notin Homes(o)
    PROVE  Keeps(db, new, tables)
BY DEF Keeps, Held, Stays

LEMMA Kin ==
    ASSUME NEW o \in Precious
    PROVE  /\ "container_images_new" \in Homes(o) <=> "container_images" \in Homes(o)
           /\ "images" \in Homes(o) <=> "container_images" \in Homes(o)
           /\ "container_instances_new" \in Homes(o) <=> "container_instances" \in Homes(o)
           /\ "containers" \in Homes(o) <=> "container_instances" \in Homes(o)
           /\ "packages_new" \in Homes(o) <=> "packages" \in Homes(o)
           /\ "image_packages" \in Homes(o) <=> "packages" \in Homes(o)
           /\ "vulnerabilities_new" \in Homes(o) <=> "vulnerabilities" \in Homes(o)
           /\ "image_vulnerabilities" \in Homes(o) <=> "vulnerabilities" \in Homes(o)
           /\ "image_package_details" \in Homes(o) <=> "package_details" \in Homes(o)
           /\ "image_vulnerability_details" \in Homes(o) <=> "vulnerability_details" \in Homes(o)
           /\ "node_vulnerabilities_new" \in Homes(o) <=> "node_vulnerabilities" \in Homes(o)
           /\ "metric_staleness" \notin Homes(o) /\ "metric_staleness_v37" \notin Homes(o)
           /\ "image_summary" \notin Homes(o)
           /\ o \notin Details => /\ "package_details" \notin Homes(o)
                                  /\ "vulnerability_details" \notin Homes(o)
<1>1. CASE o \in {"images", "containers"}
  BY <1>1 DEF Homes, Details
<1>2. CASE o \in {"image_packages", "image_vulnerabilities"}
  BY <1>2 DEF Homes, Details
<1>3. CASE o \in Details
  BY <1>3 DEF Homes, Details
<1>4. CASE o \in {"node_vulnerabilities", "job_executions", "app_state"}
  BY <1>4 DEF Homes, Details
<1>5. CASE o \in {"nodes", "node_packages"}
  BY <1>5 DEF Homes, Details
<1>6. CASE o \in {"node_vulnerability_details", "node_package_details"}
  BY <1>6 DEF Homes, Details
<1> QED
  BY <1>1, <1>2, <1>3, <1>4, <1>5, <1>6 DEF Precious

LEMMA Rows2 ==
    ASSUME NEW db, IsDatabase(db), NEW k \in 0 .. 9,
           Copied(db, 2, k), ~Refused(db, Steps(2)[k + 1])
    PROVE  LET new == After(db, Steps(2)[k + 1])
           IN  Copied(new, 2, k + 1) /\ Keeps(db, new, Precious)
<1> DEFINE s == Steps(2)[k + 1]
           new == After(db, s)
<1>1. CASE k = 1
  <2>1. Grows(s)
    BY <1>1, List2, GrowingStatements
  <2>2. db.rows \subseteq new.rows /\ Stays(db, new)
    BY <2>1, GrowRows
  <2>3. /\ "container_images" \in db.rows => new.rows = db.rows \cup {"container_images_new"}
        /\ "container_images" \notin db.rows => new.rows = db.rows
    <3>1. s.op = "copy" /\ s.table = "container_images" /\ s.to = "container_images_new"
      BY <1>1, List2 DEF CopySame, Copy
    <3> QED
      BY <3>1, CopyRows
  <2> HIDE DEF s, new
  <2>4. Keeps(db, new, Precious)
    BY <2>2, GrowKeeps
  <2>5. Copied(new, 2, k + 1)
    BY <1>1, <2>3 DEF Copied, Moved
  <2> QED
    BY <2>4, <2>5 DEF s, new
<1>2. CASE k = 2
  <2>1. Grows(s)
    BY <1>2, List2, GrowingStatements
  <2>2. db.rows \subseteq new.rows /\ Stays(db, new)
    BY <2>1, GrowRows
  <2>3. new.rows = db.rows
    BY <1>2, List2, CreateRows
  <2> HIDE DEF s, new
  <2>4. Keeps(db, new, Precious)
    BY <2>2, GrowKeeps
  <2>5. Copied(new, 2, k + 1)
    BY <1>2, <2>3 DEF Copied, Moved
  <2> QED
    BY <2>4, <2>5 DEF s, new
<1>3. CASE k = 3
  <2>1. Grows(s)
    BY <1>3, List2, GrowingStatements
  <2>2. db.rows \subseteq new.rows /\ Stays(db, new)
    BY <2>1, GrowRows
  <2>3. /\ "container_instances" \in db.rows => new.rows = db.rows \cup {"container_instances_new"}
        /\ "container_instances" \notin db.rows => new.rows = db.rows
    <3>1. s.op = "copy" /\ s.table = "container_instances" /\ s.to = "container_instances_new"
      BY <1>3, List2 DEF Copy
    <3> QED
      BY <3>1, CopyRows
  <2> HIDE DEF s, new
  <2>4. Keeps(db, new, Precious)
    BY <2>2, GrowKeeps
  <2>5. Copied(new, 2, k + 1)
    BY <1>3, <2>3 DEF Copied, Moved
  <2> QED
    BY <2>4, <2>5 DEF s, new
<1>4. CASE k = 4
  <2>1. s = DropTable("container_instances")
    BY <1>4, List2
  <2>2. new.rows = db.rows \ {"container_instances"} /\ Stays(db, new)
    BY <2>1, DropRows
  <2> HIDE DEF s, new
  <2>3. Moved(db, "container_instances", "container_instances_new")
    BY <1>4 DEF Copied
  <2>4. Keeps(db, new, Precious)
    BY <2>2, <2>3, Kin, MoveKeeps
  <2>5. Copied(new, 2, k + 1)
    BY <1>4, <2>2 DEF Copied, Moved
  <2> QED
    BY <2>4, <2>5 DEF s, new
<1>5. CASE k = 5
  <2>1. s = DropTable("container_images")
    BY <1>5, List2
  <2>2. new.rows = db.rows \ {"container_images"} /\ Stays(db, new)
    BY <2>1, DropRows
  <2> HIDE DEF s, new
  <2>3. Moved(db, "container_images", "container_images_new")
    BY <1>5 DEF Copied
  <2>4. Keeps(db, new, Precious)
    BY <2>2, <2>3, Kin, MoveKeeps
  <2>5. Copied(new, 2, k + 1)
    BY <1>5 DEF Copied
  <2> QED
    BY <2>4, <2>5 DEF s, new
<1>6. CASE k = 6
  <2>1. s = Rename("container_images_new", "container_images")
    BY <1>6, List2
  <2>2. RowsRenamed(db, new, "container_images_new", "container_images") /\ Stays(db, new)
    BY <2>1, RenameRows
  <2> HIDE DEF s, new
  <2>3. \A o \in Precious : "container_images_new" \in Homes(o) => "container_images" \in Homes(o)
    BY Kin
  <2>4. Keeps(db, new, Precious)
    BY <2>2, <2>3, KinKeeps
  <2>5. Copied(new, 2, k + 1)
    BY <1>6 DEF Copied
  <2> QED
    BY <2>4, <2>5 DEF s, new
<1>7. CASE k = 7
  <2>1. s = Rename("container_instances_new", "container_instances")
    BY <1>7, List2
  <2>2. RowsRenamed(db, new, "container_instances_new", "container_instances") /\ Stays(db, new)
    BY <2>1, RenameRows
  <2> HIDE DEF s, new
  <2>3. \A o \in Precious :
            "container_instances_new" \in Homes(o) => "container_instances" \in Homes(o)
    BY Kin
  <2>4. Keeps(db, new, Precious)
    BY <2>2, <2>3, KinKeeps
  <2>5. Copied(new, 2, k + 1)
    BY <1>7 DEF Copied
  <2> QED
    BY <2>4, <2>5 DEF s, new
<1>8. CASE k \in {0, 8, 9}
  <2>1. Grows(s)
    BY <1>8, List2, GrowingStatements
  <2>2. db.rows \subseteq new.rows /\ Stays(db, new)
    BY <2>1, GrowRows
  <2> HIDE DEF s, new
  <2>4. Keeps(db, new, Precious)
    BY <2>2, GrowKeeps
  <2>5. Copied(new, 2, k + 1)
    BY <1>8 DEF Copied
  <2> QED
    BY <2>4, <2>5 DEF s, new
<1> QED
  BY <1>1, <1>2, <1>3, <1>4, <1>5, <1>6, <1>7, <1>8

LEMMA Rows5 ==
    ASSUME NEW db, IsDatabase(db), NEW k \in 0 .. 5,
           Copied(db, 5, k), ~Refused(db, Steps(5)[k + 1])
    PROVE  LET new == After(db, Steps(5)[k + 1])
           IN  Copied(new, 5, k + 1) /\ Keeps(db, new, Precious)
<1> DEFINE s == Steps(5)[k + 1]
           new == After(db, s)
<1>1. CASE k = 1
  <2>1. Grows(s)
    BY <1>1, List5, GrowingStatements
  <2>2. db.rows \subseteq new.rows /\ Stays(db, new)
    BY <2>1, GrowRows
  <2>3. /\ "container_images" \in db.rows => new.rows = db.rows \cup {"container_images_new"}
        /\ "container_images" \notin db.rows => new.rows = db.rows
    <3>1. s.op = "copy" /\ s.table = "container_images" /\ s.to = "container_images_new"
      BY <1>1, List5 DEF CopySame, Copy
    <3> QED
      BY <3>1, CopyRows
  <2> HIDE DEF s, new
  <2>4. Keeps(db, new, Precious)
    BY <2>2, GrowKeeps
  <2>5. Copied(new, 5, k + 1)
    BY <1>1, <2>3 DEF Copied, Moved
  <2> QED
    BY <2>4, <2>5 DEF s, new
<1>2. CASE k = 2
  <2>1. s = DropTable("container_images")
    BY <1>2, List5
  <2>2. new.rows = db.rows \ {"container_images"} /\ Stays(db, new)
    BY <2>1, DropRows
  <2> HIDE DEF s, new
  <2>3. Moved(db, "container_images", "container_images_new")
    BY <1>2 DEF Copied
  <2>4. Keeps(db, new, Precious)
    BY <2>2, <2>3, Kin, MoveKeeps
  <2>5. Copied(new, 5, k + 1)
    BY <1>2 DEF Copied
  <2> QED
    BY <2>4, <2>5 DEF s, new
<1>3. CASE k = 3
  <2>1. s = Rename("container_images_new", "container_images")
    BY <1>3, List5
  <2>2. RowsRenamed(db, new, "container_images_new", "container_images") /\ Stays(db, new)
    BY <2>1, RenameRows
  <2> HIDE DEF s, new
  <2>3. \A o \in Precious : "container_images_new" \in Homes(o) => "container_images" \in Homes(o)
    BY Kin
  <2>4. Keeps(db, new, Precious)
    BY <2>2, <2>3, KinKeeps
  <2>5. Copied(new, 5, k + 1)
    BY <1>3 DEF Copied
  <2> QED
    BY <2>4, <2>5 DEF s, new
<1>4. CASE k \in {0, 4, 5}
  <2>1. Grows(s)
    BY <1>4, List5, GrowingStatements
  <2>2. db.rows \subseteq new.rows /\ Stays(db, new)
    BY <2>1, GrowRows
  <2> HIDE DEF s, new
  <2>4. Keeps(db, new, Precious)
    BY <2>2, GrowKeeps
  <2>5. Copied(new, 5, k + 1)
    BY <1>4 DEF Copied
  <2> QED
    BY <2>4, <2>5 DEF s, new
<1> QED
  BY <1>1, <1>2, <1>3, <1>4

LEMMA Rows8 ==
    ASSUME NEW db, IsDatabase(db), NEW k \in 0 .. 11,
           Copied(db, 8, k), ~Refused(db, Steps(8)[k + 1])
    PROVE  LET new == After(db, Steps(8)[k + 1])
           IN  Copied(new, 8, k + 1) /\ Keeps(db, new, Precious)
<1> DEFINE s == Steps(8)[k + 1]
           new == After(db, s)
<1>1. CASE k = 7
  <2>1. Grows(s)
    BY <1>1, List8, GrowingStatements
  <2>2. db.rows \subseteq new.rows /\ Stays(db, new)
    BY <2>1, GrowRows
  <2>3. /\ "container_images" \in db.rows => new.rows = db.rows \cup {"container_images_new"}
        /\ "container_images" \notin db.rows => new.rows = db.rows
    <3>1. s.op = "copy" /\ s.table = "container_images" /\ s.to = "container_images_new"
      BY <1>1, List8 DEF CopySame, Copy
    <3> QED
      BY <3>1, CopyRows
  <2> HIDE DEF s, new
  <2>4. Keeps(db, new, Precious)
    BY <2>2, GrowKeeps
  <2>5. Copied(new, 8, k + 1)
    BY <1>1, <2>3 DEF Copied, Moved
  <2> QED
    BY <2>4, <2>5 DEF s, new
<1>2. CASE k = 8
  <2>1. s = DropTable("container_images")
    BY <1>2, List8
  <2>2. new.rows = db.rows \ {"container_images"} /\ Stays(db, new)
    BY <2>1, DropRows
  <2> HIDE DEF s, new
  <2>3. Moved(db, "container_images", "container_images_new")
    BY <1>2 DEF Copied
  <2>4. Keeps(db, new, Precious)
    BY <2>2, <2>3, Kin, MoveKeeps
  <2>5. Copied(new, 8, k + 1)
    BY <1>2 DEF Copied
  <2> QED
    BY <2>4, <2>5 DEF s, new
<1>3. CASE k = 9
  <2>1. s = Rename("container_images_new", "container_images")
    BY <1>3, List8
  <2>2. RowsRenamed(db, new, "container_images_new", "container_images") /\ Stays(db, new)
    BY <2>1, RenameRows
  <2> HIDE DEF s, new
  <2>3. \A o \in Precious : "container_images_new" \in Homes(o) => "container_images" \in Homes(o)
    BY Kin
  <2>4. Keeps(db, new, Precious)
    BY <2>2, <2>3, KinKeeps
  <2>5. Copied(new, 8, k + 1)
    BY <1>3 DEF Copied
  <2> QED
    BY <2>4, <2>5 DEF s, new
<1>4. CASE k \in {0, 1, 2, 3, 4, 5, 6, 10, 11}
  <2>1. Grows(s)
    BY <1>4, List8, GrowingStatements
  <2>2. db.rows \subseteq new.rows /\ Stays(db, new)
    BY <2>1, GrowRows
  <2> HIDE DEF s, new
  <2>4. Keeps(db, new, Precious)
    BY <2>2, GrowKeeps
  <2>5. Copied(new, 8, k + 1)
    BY <1>4 DEF Copied
  <2> QED
    BY <2>4, <2>5 DEF s, new
<1> QED
  BY <1>1, <1>2, <1>3, <1>4

LEMMA Rows10 ==
    ASSUME NEW db, IsDatabase(db), NEW k \in 0 .. 0,
           Copied(db, 10, k), ~Refused(db, Steps(10)[k + 1])
    PROVE  LET new == After(db, Steps(10)[k + 1])
           IN  Copied(new, 10, k + 1) /\ Keeps(db, new, Precious)
<1> DEFINE s == Steps(10)[k + 1]
           new == After(db, s)
<1>1. CASE k = 0
  <2>1. s = DropIfPresent("image_summary")
    BY <1>1, List10
  <2>2. new.rows = db.rows \ {"image_summary"} /\ Stays(db, new)
    BY <2>1, DropRows
  <2> HIDE DEF s, new
  <2>4. Keeps(db, new, Precious)
    BY <2>2, Kin, LoseKeeps
  <2>5. Copied(new, 10, k + 1)
    BY <1>1 DEF Copied
  <2> QED
    BY <2>4, <2>5 DEF s, new
<1> QED
  BY <1>1

LEMMA Rows12 ==
    ASSUME NEW db, IsDatabase(db), NEW k \in 0 .. 5,
           Copied(db, 12, k), ~Refused(db, Steps(12)[k + 1])
    PROVE  LET new == After(db, Steps(12)[k + 1])
           IN  Copied(new, 12, k + 1) /\ Keeps(db, new, Precious)
<1> DEFINE s == Steps(12)[k + 1]
           new == After(db, s)
<1>1. CASE k = 1
  <2>1. Grows(s)
    BY <1>1, List12, GrowingStatements
  <2>2. db.rows \subseteq new.rows /\ Stays(db, new)
    BY <2>1, GrowRows
  <2>3. /\ "packages" \in db.rows => new.rows = db.rows \cup {"packages_new"}
        /\ "packages" \notin db.rows => new.rows = db.rows
    <3>1. s.op = "copy" /\ s.table = "packages" /\ s.to = "packages_new"
      BY <1>1, List12 DEF CopySame, Copy
    <3> QED
      BY <3>1, CopyRows
  <2> HIDE DEF s, new
  <2>4. Keeps(db, new, Precious)
    BY <2>2, GrowKeeps
  <2>5. Copied(new, 12, k + 1)
    BY <1>1, <2>3 DEF Copied, Moved
  <2> QED
    BY <2>4, <2>5 DEF s, new
<1>2. CASE k = 2
  <2>1. s = DropTable("packages")
    BY <1>2, List12
  <2>2. new.rows = db.rows \ {"packages"} /\ Stays(db, new)
    BY <2>1, DropRows
  <2> HIDE DEF s, new
  <2>3. Moved(db, "packages", "packages_new")
    BY <1>2 DEF Copied
  <2>4. Keeps(db, new, Precious)
    BY <2>2, <2>3, Kin, MoveKeeps
  <2>5. Copied(new, 12, k + 1)
    BY <1>2 DEF Copied
  <2> QED
    BY <2>4, <2>5 DEF s, new
<1>3. CASE k = 3
  <2>1. s = Rename("packages_new", "packages")
    BY <1>3, List12
  <2>2. RowsRenamed(db, new, "packages_new", "packages") /\ Stays(db, new)
    BY <2>1, RenameRows
  <2> HIDE DEF s, new
  <2>3. \A o \in Precious : "packages_new" \in Homes(o) => "packages" \in Homes(o)
    BY Kin
  <2>4. Keeps(db, new, Precious)
    BY <2>2, <2>3, KinKeeps
  <2>5. Copied(new, 12, k + 1)
    BY <1>3 DEF Copied
  <2> QED
    BY <2>4, <2>5 DEF s, new
<1>4. CASE k \in {0, 4, 5}
  <2>1. Grows(s)
    BY <1>4, List12, GrowingStatements
  <2>2. db.rows \subseteq new.rows /\ Stays(db, new)
    BY <2>1, GrowRows
  <2> HIDE DEF s, new
  <2>4. Keeps(db, new, Precious)
    BY <2>2, GrowKeeps
  <2>5. Copied(new, 12, k + 1)
    BY <1>4 DEF Copied
  <2> QED
    BY <2>4, <2>5 DEF s, new
<1> QED
  BY <1>1, <1>2, <1>3, <1>4

LEMMA Rows15 ==
    ASSUME NEW db, IsDatabase(db), NEW k \in 0 .. 4,
           Copied(db, 15, k), ~Refused(db, Steps(15)[k + 1])
    PROVE  LET new == After(db, Steps(15)[k + 1])
           IN  Copied(new, 15, k + 1) /\ Keeps(db, new, Precious \ Details)
<1> DEFINE s == Steps(15)[k + 1]
           new == After(db, s)
<1>1. CASE k = 0
  <2>1. s = Clear("vulnerability_details")
    BY <1>1, List15
  <2>2. new.rows = db.rows \ {"vulnerability_details"} /\ new.tables = db.tables
    BY <2>1, ClearRows
  <2>3. \A o \in Precious \ Details : "vulnerability_details" \notin Homes(o)
    BY Kin
  <2> HIDE DEF s, new
  <2>4. Keeps(db, new, Precious \ Details)
    BY <2>2, <2>3, LoseKeeps DEF Stays
  <2>5. Copied(new, 15, k + 1)
    BY <1>1 DEF Copied
  <2> QED
    BY <2>4, <2>5 DEF s, new
<1>2. CASE k = 1
  <2>1. s = Clear("package_details")
    BY <1>2, List15
  <2>2. new.rows = db.rows \ {"package_details"} /\ new.tables = db.tables
    BY <2>1, ClearRows
  <2>3. \A o \in Precious \ Details : "package_details" \notin Homes(o)
    BY Kin
  <2> HIDE DEF s, new
  <2>4. Keeps(db, new, Precious \ Details)
    BY <2>2, <2>3, LoseKeeps DEF Stays
  <2>5. Copied(new, 15, k + 1)
    BY <1>2 DEF Copied
  <2> QED
    BY <2>4, <2>5 DEF s, new
<1>3. CASE k \in {2, 3, 4}
  <2>1. Grows(s)
    BY <1>3, List15, GrowingStatements DEF StoredDocuments
  <2>2. db.rows \subseteq new.rows /\ Stays(db, new)
    BY <2>1, GrowRows
  <2> HIDE DEF s, new
  <2>4. Keeps(db, new, Precious)
    BY <2>2, GrowKeeps
  <2>5. Copied(new, 15, k + 1)
    BY <1>3 DEF Copied
  <2> QED
    BY <2>4, <2>5 DEF s, new, Keeps
<1> QED
  BY <1>1, <1>2, <1>3

LEMMA Rows16 ==
    ASSUME NEW db, IsDatabase(db), NEW k \in 0 .. 2,
           Copied(db, 16, k), ~Refused(db, Steps(16)[k + 1])
    PROVE  LET new == After(db, Steps(16)[k + 1])
           IN  Copied(new, 16, k + 1) /\ Keeps(db, new, Precious \ Details)
<1> DEFINE s == Steps(16)[k + 1]
           new == After(db, s)
<1>1. CASE k = 0
  <2>1. s = Clear("package_details")
    BY <1>1, List16
  <2>2. new.rows = db.rows \ {"package_details"} /\ new.tables = db.tables
    BY <2>1, ClearRows
  <2>3. \A o \in Precious \ Details : "package_details" \notin Homes(o)
    BY Kin
  <2> HIDE DEF s, new
  <2>4. Keeps(db, new, Precious \ Details)
    BY <2>2, <2>3, LoseKeeps DEF Stays
  <2>5. Copied(new, 16, k + 1)
    BY <1>1 DEF Copied
  <2> QED
    BY <2>4, <2>5 DEF s, new
<1>2. CASE k \in {1, 2}
  <2>1. Grows(s)
    BY <1>2, List16, GrowingStatements DEF StoredDocuments
  <2>2. db.rows \subseteq new.rows /\ Stays(db, new)
    BY <2>1, GrowRows
  <2> HIDE DEF s, new
  <2>4. Keeps(db, new, Precious)
    BY <2>2, GrowKeeps
  <2>5. Copied(new, 16, k + 1)
    BY <1>2 DEF Copied
  <2> QED
    BY <2>4, <2>5 DEF s, new, Keeps
<1> QED
  BY <1>1, <1>2

LEMMA Rows17 ==
    ASSUME NEW db, IsDatabase(db), NEW k \in 0 .. 2,
           Copied(db, 17, k), ~Refused(db, Steps(17)[k + 1])
    PROVE  LET new == After(db, Steps(17)[k + 1])
           IN  Copied(new, 17, k + 1) /\ Keeps(db, new, Precious \ Details)
<1> DEFINE s == Steps(17)[k + 1]
           new == After(db, s)
<1>1. CASE k = 0
  <2>1. s = Clear("package_details")
    BY <1>1, List17
  <2>2. new.rows = db.rows \ {"package_details"} /\ new.tables = db.tables
    BY <2>1, ClearRows
  <2>3. \A o \in Precious \ Details : "package_details" \notin Homes(o)
    BY Kin
  <2> HIDE DEF s, new
  <2>4. Keeps(db, new, Precious \ Details)
    BY <2>2, <2>3, LoseKeeps DEF Stays
  <2>5. Copied(new, 17, k + 1)
    BY <1>1 DEF Copied
  <2> QED
    BY <2>4, <2>5 DEF s, new
<1>2. CASE k \in {1, 2}
  <2>1. Grows(s)
    BY <1>2, List17, GrowingStatements DEF StoredDocuments
  <2>2. db.rows \subseteq new.rows /\ Stays(db, new)
    BY <2>1, GrowRows
  <2> HIDE DEF s, new
  <2>4. Keeps(db, new, Precious)
    BY <2>2, GrowKeeps
  <2>5. Copied(new, 17, k + 1)
    BY <1>2 DEF Copied
  <2> QED
    BY <2>4, <2>5 DEF s, new, Keeps
<1> QED
  BY <1>1, <1>2

LEMMA Rows18 ==
    ASSUME NEW db, IsDatabase(db), NEW k \in 0 .. 2,
           Copied(db, 18, k), ~Refused(db, Steps(18)[k + 1])
    PROVE  LET new == After(db, Steps(18)[k + 1])
           IN  Copied(new, 18, k + 1) /\ Keeps(db, new, Precious \ Details)
<1> DEFINE s == Steps(18)[k + 1]
           new == After(db, s)
<1>1. CASE k = 0
  <2>1. s = Clear("vulnerability_details")
    BY <1>1, List18
  <2>2. new.rows = db.rows \ {"vulnerability_details"} /\ new.tables = db.tables
    BY <2>1, ClearRows
  <2>3. \A o \in Precious \ Details : "vulnerability_details" \notin Homes(o)
    BY Kin
  <2> HIDE DEF s, new
  <2>4. Keeps(db, new, Precious \ Details)
    BY <2>2, <2>3, LoseKeeps DEF Stays
  <2>5. Copied(new, 18, k + 1)
    BY <1>1 DEF Copied
  <2> QED
    BY <2>4, <2>5 DEF s, new
<1>2. CASE k \in {1, 2}
  <2>1. Grows(s)
    BY <1>2, List18, GrowingStatements DEF StoredDocuments
  <2>2. db.rows \subseteq new.rows /\ Stays(db, new)
    BY <2>1, GrowRows
  <2> HIDE DEF s, new
  <2>4. Keeps(db, new, Precious)
    BY <2>2, GrowKeeps
  <2>5. Copied(new, 18, k + 1)
    BY <1>2 DEF Copied
  <2> QED
    BY <2>4, <2>5 DEF s, new, Keeps
<1> QED
  BY <1>1, <1>2

LEMMA Rows19 ==
    ASSUME NEW db, IsDatabase(db), NEW k \in 0 .. 6,
           Copied(db, 19, k), ~Refused(db, Steps(19)[k + 1])
    PROVE  LET new == After(db, Steps(19)[k + 1])
           IN  Copied(new, 19, k + 1) /\ Keeps(db, new, Precious)
<1> DEFINE s == Steps(19)[k + 1]
           new == After(db, s)
<1>1. CASE k = 1
  <2>1. Grows(s)
    BY <1>1, List19, GrowingStatements
  <2>2. db.rows \subseteq new.rows /\ Stays(db, new)
    BY <2>1, GrowRows
  <2>3. /\ "vulnerabilities" \in db.rows => new.rows = db.rows \cup {"vulnerabilities_new"}
        /\ "vulnerabilities" \notin db.rows => new.rows = db.rows
    <3>1. s.op = "copy" /\ s.table = "vulnerabilities" /\ s.to = "vulnerabilities_new"
      BY <1>1, List19 DEF CopySame, Copy
    <3> QED
      BY <3>1, CopyRows
  <2> HIDE DEF s, new
  <2>4. Keeps(db, new, Precious)
    BY <2>2, GrowKeeps
  <2>5. Copied(new, 19, k + 1)
    BY <1>1, <2>3 DEF Copied, Moved
  <2> QED
    BY <2>4, <2>5 DEF s, new
<1>2. CASE k = 2
  <2>1. s = DropTable("vulnerabilities")
    BY <1>2, List19
  <2>2. new.rows = db.rows \ {"vulnerabilities"} /\ Stays(db, new)
    BY <2>1, DropRows
  <2> HIDE DEF s, new
  <2>3. Moved(db, "vulnerabilities", "vulnerabilities_new")
    BY <1>2 DEF Copied
  <2>4. Keeps(db, new, Precious)
    BY <2>2, <2>3, Kin, MoveKeeps
  <2>5. Copied(new, 19, k + 1)
    BY <1>2 DEF Copied
  <2> QED
    BY <2>4, <2>5 DEF s, new
<1>3. CASE k = 3
  <2>1. s = Rename("vulnerabilities_new", "vulnerabilities")
    BY <1>3, List19
  <2>2. RowsRenamed(db, new, "vulnerabilities_new", "vulnerabilities") /\ Stays(db, new)
    BY <2>1, RenameRows
  <2> HIDE DEF s, new
  <2>3. \A o \in Precious : "vulnerabilities_new" \in Homes(o) => "vulnerabilities" \in Homes(o)
    BY Kin
  <2>4. Keeps(db, new, Precious)
    BY <2>2, <2>3, KinKeeps
  <2>5. Copied(new, 19, k + 1)
    BY <1>3 DEF Copied
  <2> QED
    BY <2>4, <2>5 DEF s, new
<1>4. CASE k \in {0, 4, 5, 6}
  <2>1. Grows(s)
    BY <1>4, List19, GrowingStatements
  <2>2. db.rows \subseteq new.rows /\ Stays(db, new)
    BY <2>1, GrowRows
  <2> HIDE DEF s, new
  <2>4. Keeps(db, new, Precious)
    BY <2>2, GrowKeeps
  <2>5. Copied(new, 19, k + 1)
    BY <1>4 DEF Copied
  <2> QED
    BY <2>4, <2>5 DEF s, new
<1> QED
  BY <1>1, <1>2, <1>3, <1>4

LEMMA Rows26 ==
    ASSUME NEW db, IsDatabase(db), NEW k \in 0 .. 0,
           Copied(db, 26, k), ~Refused(db, Steps(26)[k + 1])
    PROVE  LET new == After(db, Steps(26)[k + 1])
           IN  Copied(new, 26, k + 1) /\ Keeps(db, new, Precious)
<1> DEFINE s == Steps(26)[k + 1]
           new == After(db, s)
<1>1. CASE k = 0
  <2>1. s = Rename("metric_staleness", "app_state")
    BY <1>1, List26
  <2>2. "app_state" \notin DOMAIN db.tables /\ "app_state" \in DOMAIN new.tables
    BY <2>1, RenameEffect DEF No, Is
  <2>3. /\ "metric_staleness" \in db.rows =>
               new.rows = (db.rows \ {"metric_staleness"}) \cup {"app_state"}
        /\ "metric_staleness" \notin db.rows => new.rows = db.rows
    BY <2>1, RenameRows DEF RowsRenamed
  <2> HIDE DEF s, new
  <2>4. Keeps(db, new, Precious)
    <3>1. ASSUME Held(db, "app_state") PROVE Held(new, "app_state")
      BY <2>2, <2>3, <3>1 DEF Held, Homes
    <3>2. ASSUME NEW o \in Precious, o # "app_state", Held(db, o) PROVE Held(new, o)
      BY <2>3, <3>2, Kin DEF Held
    <3> QED
      BY <3>1, <3>2 DEF Keeps
  <2>5. Copied(new, 26, k + 1)
    BY <1>1 DEF Copied
  <2> QED
    BY <2>4, <2>5 DEF s, new
<1> QED
  BY <1>1

LEMMA Rows28 ==
    ASSUME NEW db, IsDatabase(db), NEW k \in 0 .. 6,
           Copied(db, 28, k), ~Refused(db, Steps(28)[k + 1])
    PROVE  LET new == After(db, Steps(28)[k + 1])
           IN  Copied(new, 28, k + 1) /\ Keeps(db, new, Precious)
<1> DEFINE s == Steps(28)[k + 1]
           new == After(db, s)
<1>1. CASE k = 1
  <2>1. Grows(s)
    BY <1>1, List28, GrowingStatements
  <2>2. db.rows \subseteq new.rows /\ Stays(db, new)
    BY <2>1, GrowRows
  <2>3. /\ "container_instances" \in db.rows => new.rows = db.rows \cup {"container_instances_new"}
        /\ "container_instances" \notin db.rows => new.rows = db.rows
    <3>1. s.op = "copy" /\ s.table = "container_instances" /\ s.to = "container_instances_new"
      BY <1>1, List28 DEF CopySame, Copy
    <3> QED
      BY <3>1, CopyRows
  <2> HIDE DEF s, new
  <2>4. Keeps(db, new, Precious)
    BY <2>2, GrowKeeps
  <2>5. Copied(new, 28, k + 1)
    BY <1>1, <2>3 DEF Copied, Moved
  <2> QED
    BY <2>4, <2>5 DEF s, new
<1>2. CASE k = 2
  <2>1. s = DropTable("container_instances")
    BY <1>2, List28
  <2>2. new.rows = db.rows \ {"container_instances"} /\ Stays(db, new)
    BY <2>1, DropRows
  <2> HIDE DEF s, new
  <2>3. Moved(db, "container_instances", "container_instances_new")
    BY <1>2 DEF Copied
  <2>4. Keeps(db, new, Precious)
    BY <2>2, <2>3, Kin, MoveKeeps
  <2>5. Copied(new, 28, k + 1)
    BY <1>2 DEF Copied
  <2> QED
    BY <2>4, <2>5 DEF s, new
<1>3. CASE k = 3
  <2>1. s = Rename("container_instances_new", "container_instances")
    BY <1>3, List28
  <2>2. RowsRenamed(db, new, "container_instances_new", "container_instances") /\ Stays(db, new)
    BY <2>1, RenameRows
  <2> HIDE DEF s, new
  <2>3. \A o \in Precious :
            "container_instances_new" \in Homes(o) => "container_instances" \in Homes(o)
    BY Kin
  <2>4. Keeps(db, new, Precious)
    BY <2>2, <2>3, KinKeeps
  <2>5. Copied(new, 28, k + 1)
    BY <1>3 DEF Copied
  <2> QED
    BY <2>4, <2>5 DEF s, new
<1>4. CASE k \in {0, 4, 5, 6}
  <2>1. Grows(s)
    BY <1>4, List28, GrowingStatements
  <2>2. db.rows \subseteq new.rows /\ Stays(db, new)
    BY <2>1, GrowRows
  <2> HIDE DEF s, new
  <2>4. Keeps(db, new, Precious)
    BY <2>2, GrowKeeps
  <2>5. Copied(new, 28, k + 1)
    BY <1>4 DEF Copied
  <2> QED
    BY <2>4, <2>5 DEF s, new
<1> QED
  BY <1>1, <1>2, <1>3, <1>4

LEMMA Rows29 ==
    ASSUME NEW db, IsDatabase(db), NEW k \in 0 .. 6,
           Copied(db, 29, k), ~Refused(db, Steps(29)[k + 1])
    PROVE  LET new == After(db, Steps(29)[k + 1])
           IN  Copied(new, 29, k + 1) /\ Keeps(db, new, Precious)
<1> DEFINE s == Steps(29)[k + 1]
           new == After(db, s)
<1>1. CASE k = 0
  <2>1. s = Rename("container_images", "images")
    BY <1>1, List29
  <2>2. RowsRenamed(db, new, "container_images", "images") /\ Stays(db, new)
    BY <2>1, RenameRows
  <2> HIDE DEF s, new
  <2>3. \A o \in Precious : "container_images" \in Homes(o) => "images" \in Homes(o)
    BY Kin
  <2>4. Keeps(db, new, Precious)
    BY <2>2, <2>3, KinKeeps
  <2>5. Copied(new, 29, k + 1)
    BY <1>1 DEF Copied
  <2> QED
    BY <2>4, <2>5 DEF s, new
<1>2. CASE k = 2
  <2>1. Grows(s)
    BY <1>2, List29, GrowingStatements
  <2>2. db.rows \subseteq new.rows /\ Stays(db, new)
    BY <2>1, GrowRows
  <2>3. /\ "container_instances" \in db.rows => new.rows = db.rows \cup {"containers"}
        /\ "container_instances" \notin db.rows => new.rows = db.rows
    <3>1. s.op = "copy" /\ s.table = "container_instances" /\ s.to = "containers"
      BY <1>2, List29 DEF Copy
    <3> QED
      BY <3>1, CopyRows
  <2> HIDE DEF s, new
  <2>4. Keeps(db, new, Precious)
    BY <2>2, GrowKeeps
  <2>5. Copied(new, 29, k + 1)
    BY <1>2, <2>3 DEF Copied, Moved
  <2> QED
    BY <2>4, <2>5 DEF s, new
<1>3. CASE k = 3
  <2>1. s = DropTable("container_instances")
    BY <1>3, List29
  <2>2. new.rows = db.rows \ {"container_instances"} /\ Stays(db, new)
    BY <2>1, DropRows
  <2> HIDE DEF s, new
  <2>3. Moved(db, "container_instances", "containers")
    BY <1>3 DEF Copied
  <2>4. Keeps(db, new, Precious)
    BY <2>2, <2>3, Kin, MoveKeeps
  <2>5. Copied(new, 29, k + 1)
    BY <1>3 DEF Copied
  <2> QED
    BY <2>4, <2>5 DEF s, new
<1>4. CASE k \in {1, 4, 5, 6}
  <2>1. Grows(s)
    BY <1>4, List29, GrowingStatements
  <2>2. db.rows \subseteq new.rows /\ Stays(db, new)
    BY <2>1, GrowRows
  <2> HIDE DEF s, new
  <2>4. Keeps(db, new, Precious)
    BY <2>2, GrowKeeps
  <2>5. Copied(new, 29, k + 1)
    BY <1>4 DEF Copied
  <2> QED
    BY <2>4, <2>5 DEF s, new
<1> QED
  BY <1>1, <1>2, <1>3, <1>4

LEMMA Rows33 ==
    ASSUME NEW db, IsDatabase(db), NEW k \in 0 .. 7,
           Copied(db, 33, k), ~Refused(db, Steps(33)[k + 1])
    PROVE  LET new == After(db, Steps(33)[k + 1])
           IN  Copied(new, 33, k + 1) /\ Keeps(db, new, Precious)
<1> DEFINE s == Steps(33)[k + 1]
           new == After(db, s)
<1>1. CASE k = 1
  <2>1. Grows(s)
    BY <1>1, List33, GrowingStatements
  <2>2. db.rows \subseteq new.rows /\ Stays(db, new)
    BY <2>1, GrowRows
  <2>3. /\ "node_vulnerabilities" \in db.rows =>
               new.rows = db.rows \cup {"node_vulnerabilities_new"}
        /\ "node_vulnerabilities" \notin db.rows => new.rows = db.rows
    <3>1. s.op = "copy" /\ s.table = "node_vulnerabilities" /\ s.to = "node_vulnerabilities_new"
      BY <1>1, List33 DEF Copy
    <3> QED
      BY <3>1, CopyRows
  <2> HIDE DEF s, new
  <2>4. Keeps(db, new, Precious)
    BY <2>2, GrowKeeps
  <2>5. Copied(new, 33, k + 1)
    BY <1>1, <2>3 DEF Copied, Moved
  <2> QED
    BY <2>4, <2>5 DEF s, new
<1>2. CASE k = 2
  <2>1. s = DropTable("node_vulnerabilities")
    BY <1>2, List33
  <2>2. new.rows = db.rows \ {"node_vulnerabilities"} /\ Stays(db, new)
    BY <2>1, DropRows
  <2> HIDE DEF s, new
  <2>3. Moved(db, "node_vulnerabilities", "node_vulnerabilities_new")
    BY <1>2 DEF Copied
  <2>4. Keeps(db, new, Precious)
    BY <2>2, <2>3, Kin, MoveKeeps
  <2>5. Copied(new, 33, k + 1)
    BY <1>2 DEF Copied
  <2> QED
    BY <2>4, <2>5 DEF s, new
<1>3. CASE k = 3
  <2>1. s = Rename("node_vulnerabilities_new", "node_vulnerabilities")
    BY <1>3, List33
  <2>2. RowsRenamed(db, new, "node_vulnerabilities_new", "node_vulnerabilities") /\ Stays(db, new)
    BY <2>1, RenameRows
  <2> HIDE DEF s, new
  <2>3. \A o \in Precious :
            "node_vulnerabilities_new" \in Homes(o) => "node_vulnerabilities" \in Homes(o)
    BY Kin
  <2>4. Keeps(db, new, Precious)
    BY <2>2, <2>3, KinKeeps
  <2>5. Copied(new, 33, k + 1)
    BY <1>3 DEF Copied
  <2> QED
    BY <2>4, <2>5 DEF s, new
<1>4. CASE k \in {0, 4, 5, 6, 7}
  <2>1. Grows(s)
    BY <1>4, List33, GrowingStatements
  <2>2. db.rows \subseteq new.rows /\ Stays(db, new)
    BY <2>1, GrowRows
  <2> HIDE DEF s, new
  <2>4. Keeps(db, new, Precious)
    BY <2>2, GrowKeeps
  <2>5. Copied(new, 33, k + 1)
    BY <1>4 DEF Copied
  <2> QED
    BY <2>4, <2>5 DEF s, new
<1> QED
  BY <1>1, <1>2, <1>3, <1>4

LEMMA Rows37 ==
    ASSUME NEW db, IsDatabase(db), NEW k \in 0 .. 4, "app_state" \in DOMAIN db.tables,
           Copied(db, 37, k), ~Refused(db, Steps(37)[k + 1])
    PROVE  LET new == After(db, Steps(37)[k + 1])
           IN  Copied(new, 37, k + 1) /\ Keeps(db, new, Precious)
<1> DEFINE s == Steps(37)[k + 1]
           new == After(db, s)
<1>1. CASE k = 2
  <2>1. s = DropTable("metric_staleness")
    BY <1>1, List37
  <2>2. new.rows = db.rows \ {"metric_staleness"} /\ Stays(db, new)
    BY <2>1, DropRows
  <2> HIDE DEF s, new
  <2>4. Keeps(db, new, Precious)
    BY <2>2, Kin, LoseKeeps
  <2>5. Copied(new, 37, k + 1)
    BY <1>1 DEF Copied
  <2> QED
    BY <2>4, <2>5 DEF s, new
<1>2. CASE k = 3
  <2>1. s = Rename("metric_staleness_v37", "metric_staleness")
    BY <1>2, List37
  <2>2. RowsRenamed(db, new, "metric_staleness_v37", "metric_staleness") /\ Stays(db, new)
    BY <2>1, RenameRows
  <2> HIDE DEF s, new
  <2>3. \A o \in Precious : "metric_staleness_v37" \in Homes(o) => "metric_staleness" \in Homes(o)
    BY Kin
  <2>4. Keeps(db, new, Precious)
    BY <2>2, <2>3, KinKeeps
  <2>5. Copied(new, 37, k + 1)
    BY <1>2 DEF Copied
  <2> QED
    BY <2>4, <2>5 DEF s, new
<1>3. CASE k \in {0, 1, 4}
  <2>1. Grows(s)
    BY <1>3, List37, GrowingStatements
  <2>2. db.rows \subseteq new.rows /\ Stays(db, new)
    BY <2>1, GrowRows
  <2> HIDE DEF s, new
  <2>4. Keeps(db, new, Precious)
    BY <2>2, GrowKeeps
  <2>5. Copied(new, 37, k + 1)
    BY <1>3 DEF Copied
  <2> QED
    BY <2>4, <2>5 DEF s, new
<1> QED
  BY <1>1, <1>2, <1>3

LEMMA Rows42 ==
    ASSUME NEW db, IsDatabase(db), NEW k \in 0 .. 10,
           Copied(db, 42, k), ~Refused(db, Steps(42)[k + 1])
    PROVE  LET new == After(db, Steps(42)[k + 1])
           IN  Copied(new, 42, k + 1) /\ Keeps(db, new, Precious)
<1> DEFINE s == Steps(42)[k + 1]
           new == After(db, s)
<1>1. CASE k = 1
  <2>1. Grows(s)
    BY <1>1, List42, GrowingStatements
  <2>2. db.rows \subseteq new.rows /\ Stays(db, new)
    BY <2>1, GrowRows
  <2>3. /\ "node_vulnerabilities" \in db.rows =>
               new.rows = db.rows \cup {"node_vulnerabilities_new"}
        /\ "node_vulnerabilities" \notin db.rows => new.rows = db.rows
    <3>1. s.op = "copy" /\ s.table = "node_vulnerabilities" /\ s.to = "node_vulnerabilities_new"
      BY <1>1, List42 DEF CopyNarrower
    <3> QED
      BY <3>1, CopyRows
  <2> HIDE DEF s, new
  <2>4. Keeps(db, new, Precious)
    BY <2>2, GrowKeeps
  <2>5. Copied(new, 42, k + 1)
    BY <1>1, <2>3 DEF Copied, Moved
  <2> QED
    BY <2>4, <2>5 DEF s, new
<1>2. CASE k = 2
  <2>1. s = DropTable("node_vulnerabilities")
    BY <1>2, List42
  <2>2. new.rows = db.rows \ {"node_vulnerabilities"} /\ Stays(db, new)
    BY <2>1, DropRows
  <2> HIDE DEF s, new
  <2>3. Moved(db, "node_vulnerabilities", "node_vulnerabilities_new")
    BY <1>2 DEF Copied
  <2>4. Keeps(db, new, Precious)
    BY <2>2, <2>3, Kin, MoveKeeps
  <2>5. Copied(new, 42, k + 1)
    BY <1>2 DEF Copied
  <2> QED
    BY <2>4, <2>5 DEF s, new
<1>3. CASE k = 3
  <2>1. s = Rename("node_vulnerabilities_new", "node_vulnerabilities")
    BY <1>3, List42
  <2>2. RowsRenamed(db, new, "node_vulnerabilities_new", "node_vulnerabilities") /\ Stays(db, new)
    BY <2>1, RenameRows
  <2> HIDE DEF s, new
  <2>3. \A o \in Precious :
            "node_vulnerabilities_new" \in Homes(o) => "node_vulnerabilities" \in Homes(o)
    BY Kin
  <2>4. Keeps(db, new, Precious)
    BY <2>2, <2>3, KinKeeps
  <2>5. Copied(new, 42, k + 1)
    BY <1>3 DEF Copied
  <2> QED
    BY <2>4, <2>5 DEF s, new
<1>4. CASE k \in {0, 4, 5, 6, 7, 8, 9, 10}
  <2>1. Grows(s)
    BY <1>4, List42, GrowingStatements
  <2>2. db.rows \subseteq new.rows /\ Stays(db, new)
    BY <2>1, GrowRows
  <2> HIDE DEF s, new
  <2>4. Keeps(db, new, Precious)
    BY <2>2, GrowKeeps
  <2>5. Copied(new, 42, k + 1)
    BY <1>4 DEF Copied
  <2> QED
    BY <2>4, <2>5 DEF s, new
<1> QED
  BY <1>1, <1>2, <1>3, <1>4

LEMMA Rows43 ==
    ASSUME NEW db, IsDatabase(db), NEW k \in 0 .. 3,
           Copied(db, 43, k), ~Refused(db, Steps(43)[k + 1])
    PROVE  LET new == After(db, Steps(43)[k + 1])
           IN  Copied(new, 43, k + 1) /\ Keeps(db, new, Precious)
<1> DEFINE s == Steps(43)[k + 1]
           new == After(db, s)
<1>1. CASE k = 0
  <2>1. s = Rename("vulnerabilities", "image_vulnerabilities")
    BY <1>1, List43
  <2>2. RowsRenamed(db, new, "vulnerabilities", "image_vulnerabilities") /\ Stays(db, new)
    BY <2>1, RenameRows
  <2> HIDE DEF s, new
  <2>3. \A o \in Precious : "vulnerabilities" \in Homes(o) => "image_vulnerabilities" \in Homes(o)
    BY Kin
  <2>4. Keeps(db, new, Precious)
    BY <2>2, <2>3, KinKeeps
  <2>5. Copied(new, 43, k + 1)
    BY <1>1 DEF Copied
  <2> QED
    BY <2>4, <2>5 DEF s, new
<1>2. CASE k = 1
  <2>1. s = Rename("vulnerability_details", "image_vulnerability_details")
    BY <1>2, List43
  <2>2. /\ RowsRenamed(db, new, "vulnerability_details", "image_vulnerability_details")
        /\ Stays(db, new)
    BY <2>1, RenameRows
  <2> HIDE DEF s, new
  <2>3. \A o \in Precious :
            "vulnerability_details" \in Homes(o) => "image_vulnerability_details" \in Homes(o)
    BY Kin
  <2>4. Keeps(db, new, Precious)
    BY <2>2, <2>3, KinKeeps
  <2>5. Copied(new, 43, k + 1)
    BY <1>2 DEF Copied
  <2> QED
    BY <2>4, <2>5 DEF s, new
<1>3. CASE k = 2
  <2>1. s = Rename("packages", "image_packages")
    BY <1>3, List43
  <2>2. RowsRenamed(db, new, "packages", "image_packages") /\ Stays(db, new)
    BY <2>1, RenameRows
  <2> HIDE DEF s, new
  <2>3. \A o \in Precious : "packages" \in Homes(o) => "image_packages" \in Homes(o)
    BY Kin
  <2>4. Keeps(db, new, Precious)
    BY <2>2, <2>3, KinKeeps
  <2>5. Copied(new, 43, k + 1)
    BY <1>3 DEF Copied
  <2> QED
    BY <2>4, <2>5 DEF s, new
<1>4. CASE k = 3
  <2>1. s = Rename("package_details", "image_package_details")
    BY <1>4, List43
  <2>2. RowsRenamed(db, new, "package_details", "image_package_details") /\ Stays(db, new)
    BY <2>1, RenameRows
  <2> HIDE DEF s, new
  <2>3. \A o \in Precious : "package_details" \in Homes(o) => "image_package_details" \in Homes(o)
    BY Kin
  <2>4. Keeps(db, new, Precious)
    BY <2>2, <2>3, KinKeeps
  <2>5. Copied(new, 43, k + 1)
    BY <1>4 DEF Copied
  <2> QED
    BY <2>4, <2>5 DEF s, new
<1> QED
  BY <1>1, <1>2, <1>3, <1>4

LEMMA Rows48 ==
    ASSUME NEW db, IsDatabase(db), NEW k \in 0 .. 2, "app_state" \in DOMAIN db.tables,
           Copied(db, 48, k), ~Refused(db, Steps(48)[k + 1])
    PROVE  LET new == After(db, Steps(48)[k + 1])
           IN  Copied(new, 48, k + 1) /\ Keeps(db, new, Precious)
<1> DEFINE s == Steps(48)[k + 1]
           new == After(db, s)
<1>1. CASE k = 0
  <2>1. s = DropIfPresent("metric_staleness")
    BY <1>1, List48
  <2>2. new.rows = db.rows \ {"metric_staleness"} /\ Stays(db, new)
    BY <2>1, DropRows
  <2> HIDE DEF s, new
  <2>4. Keeps(db, new, Precious)
    BY <2>2, Kin, LoseKeeps
  <2>5. Copied(new, 48, k + 1)
    BY <1>1 DEF Copied
  <2> QED
    BY <2>4, <2>5 DEF s, new
<1>2. CASE k \in {1, 2}
  <2>1. Grows(s)
    BY <1>2, List48, GrowingStatements
  <2>2. db.rows \subseteq new.rows /\ Stays(db, new)
    BY <2>1, GrowRows
  <2> HIDE DEF s, new
  <2>4. Keeps(db, new, Precious)
    BY <2>2, GrowKeeps
  <2>5. Copied(new, 48, k + 1)
    BY <1>2 DEF Copied
  <2> QED
    BY <2>4, <2>5 DEF s, new
<1> QED
  BY <1>1, <1>2

LEMMA RowsOnlyGrow ==
    ASSUME NEW n \in Adding, NEW i \in 1 .. Len(Steps(n))
    PROVE  Grows(Steps(n)[i])
<1>1. CASE n = 1
  <2>1. i \in 1 .. 8
    BY <1>1, List1
  <2> QED
    BY <1>1, <2>1, List1, GrowingStatements
<1>2. CASE n = 3
  <2>1. i \in 1 .. 7
    BY <1>2, List3
  <2> QED
    BY <1>2, <2>1, List3, GrowingStatements
<1>3. CASE n = 4
  <2>1. i \in 1 .. 5
    BY <1>3, List4
  <2> QED
    BY <1>3, <2>1, List4, GrowingStatements
<1>4. CASE n = 6
  <2>1. i \in 1 .. 10
    BY <1>4, List6
  <2> QED
    BY <1>4, <2>1, List6, GrowingStatements, SMTT(30)
<1>5. CASE n = 7
  <2>1. i \in 1 .. 4
    BY <1>5, List7
  <2> QED
    BY <1>5, <2>1, List7, GrowingStatements
<1>6. CASE n = 9
  <2>1. i \in 1 .. 3
    BY <1>6, List9
  <2> QED
    BY <1>6, <2>1, List9, GrowingStatements
<1>7. CASE n = 11
  <2>1. i \in 1 .. 2
    BY <1>7, List11
  <2> QED
    BY <1>7, <2>1, List11, GrowingStatements
<1>8. CASE n = 13
  <2>1. i \in 1 .. 4
    BY <1>8, List13
  <2> QED
    BY <1>8, <2>1, List13, GrowingStatements
<1>9. CASE n = 14
  <2>1. i \in 1 .. 3
    BY <1>9, List14
  <2> QED
    BY <1>9, <2>1, List14, GrowingStatements DEF StoredDocuments
<1>10. CASE n = 20
  <2>1. i \in 1 .. 3
    BY <1>10, List20
  <2> QED
    BY <1>10, <2>1, List20, GrowingStatements
<1>11. CASE n = 21
  <2>1. i \in 1 .. 1
    BY <1>11, List21
  <2> QED
    BY <1>11, <2>1, List21, GrowingStatements
<1>12. CASE n = 22
  <2>1. i \in 1 .. 4
    BY <1>12, List22
  <2> QED
    BY <1>12, <2>1, List22, GrowingStatements
<1>13. CASE n = 23
  <2>1. i \in 1 .. 1
    BY <1>13, List23
  <2> QED
    BY <1>13, <2>1, List23, GrowingStatements
<1>14. CASE n = 24
  <2>1. i \in 1 .. 1
    BY <1>14, List24
  <2> QED
    BY <1>14, <2>1, List24, GrowingStatements
<1>15. CASE n = 25
  <2>1. i \in 1 .. 1
    BY <1>15, List25
  <2> QED
    BY <1>15, <2>1, List25, GrowingStatements
<1>16. CASE n = 27
  <2>1. i \in 1 .. 2
    BY <1>16, List27
  <2> QED
    BY <1>16, <2>1, List27, GrowingStatements
<1>17. CASE n = 30
  <2>1. i \in 1 .. 9
    BY <1>17, List30
  <2> QED
    BY <1>17, <2>1, List30, GrowingStatements, SMTT(30)
<1>18. CASE n = 31
  <2>1. i \in 1 .. 4
    BY <1>18, List31
  <2> QED
    BY <1>18, <2>1, List31, GrowingStatements
<1>19. CASE n = 32
  <2>1. i \in 1 .. 1
    BY <1>19, List32
  <2> QED
    BY <1>19, <2>1, List32, GrowingStatements
<1>20. CASE n = 34
  <2>1. i \in 1 .. 6
    BY <1>20, List34
  <2> QED
    BY <1>20, <2>1, List34, GrowingStatements
<1>21. CASE n = 35
  <2>1. i \in 1 .. 2
    BY <1>21, List35
  <2> QED
    BY <1>21, <2>1, List35, GrowingStatements
<1>22. CASE n = 36
  <2>1. i \in 1 .. 2
    BY <1>22, List36
  <2> QED
    BY <1>22, <2>1, List36, GrowingStatements
<1>23. CASE n = 38
  <2>1. i \in 1 .. 1
    BY <1>23, List38
  <2> QED
    BY <1>23, <2>1, List38, GrowingStatements
<1>24. CASE n = 39
  <2>1. i \in 1 .. 1
    BY <1>24, List39
  <2> QED
    BY <1>24, <2>1, List39, GrowingStatements
<1>25. CASE n = 40
  <2>1. i \in 1 .. 3
    BY <1>25, List40
  <2> QED
    BY <1>25, <2>1, List40, GrowingStatements
<1>26. CASE n = 41
  <2>1. i \in 1 .. 1
    BY <1>26, List41
  <2> QED
    BY <1>26, <2>1, List41, GrowingStatements
<1>27. CASE n = 44
  <2>1. i \in 1 .. 2
    BY <1>27, List44
  <2> QED
    BY <1>27, <2>1, List44, GrowingStatements
<1>28. CASE n = 45
  <2>1. Steps(n) = Steps(45)
    BY <1>28
  <2>2. Len(Steps(45)) = 22
    BY List45
  <2>3. i \in 1 .. 22
    BY <2>1, <2>2
  <2>4. /\ Grows(Steps(45)[1]) /\ Grows(Steps(45)[2]) /\ Grows(Steps(45)[3])
        /\ Grows(Steps(45)[4])
    BY List45, GrowingStatements, SMTT(30)
  <2>5. i \in 1 .. 4 => Grows(Steps(n)[i])
    BY <2>1, <2>4
  <2>6. /\ Grows(Steps(45)[5]) /\ Grows(Steps(45)[6]) /\ Grows(Steps(45)[7])
        /\ Grows(Steps(45)[8])
    BY List45, GrowingStatements, SMTT(30)
  <2>7. i \in 5 .. 8 => Grows(Steps(n)[i])
    BY <2>1, <2>6
  <2>8. /\ Grows(Steps(45)[9]) /\ Grows(Steps(45)[10]) /\ Grows(Steps(45)[11])
        /\ Grows(Steps(45)[12])
    BY List45, GrowingStatements, SMTT(30)
  <2>9. i \in 9 .. 12 => Grows(Steps(n)[i])
    BY <2>1, <2>8
  <2>10. /\ Grows(Steps(45)[13]) /\ Grows(Steps(45)[14]) /\ Grows(Steps(45)[15])
        /\ Grows(Steps(45)[16])
    BY List45, GrowingStatements, SMTT(30)
  <2>11. i \in 13 .. 16 => Grows(Steps(n)[i])
    BY <2>1, <2>10
  <2>12. /\ Grows(Steps(45)[17]) /\ Grows(Steps(45)[18]) /\ Grows(Steps(45)[19])
    BY List45, GrowingStatements, SMTT(30)
  <2>13. i \in 17 .. 19 => Grows(Steps(n)[i])
    BY <2>1, <2>12
  <2>14. /\ Grows(Steps(45)[20]) /\ Grows(Steps(45)[21]) /\ Grows(Steps(45)[22])
    BY List45, GrowingStatements, SMTT(30)
  <2>15. i \in 20 .. 22 => Grows(Steps(n)[i])
    BY <2>1, <2>14
  <2> QED
    BY <2>3, <2>5, <2>7, <2>9, <2>11, <2>13, <2>15
<1>29. CASE n = 46
  <2>1. i \in 1 .. 2
    BY <1>29, List46
  <2> QED
    BY <1>29, <2>1, List46, GrowingStatements
<1>30. CASE n = 47
  <2>1. i \in 1 .. 4
    BY <1>30, List47
  <2> QED
    BY <1>30, <2>1, List47, GrowingStatements
<1>31. CASE n = 49
  <2>1. i \in 1 .. 2
    BY <1>31, List49
  <2> QED
    BY <1>31, <2>1, List49, GrowingStatements
<1>32. CASE n = 50
  <2>1. i \in 1 .. 1
    BY <1>32, List50
  <2> QED
    BY <1>32, <2>1, List50, GrowingStatements
<1>33. CASE n = 51
  <2>1. i \in 1 .. 8
    BY <1>33, List51
  <2> QED
    BY <1>33, <2>1, List51, GrowingStatements
<1> QED
  BY <1>1, <1>2, <1>3, <1>4, <1>5, <1>6, <1>7, <1>8, <1>9, <1>10, <1>11, <1>12, <1>13, <1>14,
     <1>15, <1>16, <1>17, <1>18, <1>19, <1>20, <1>21, <1>22, <1>23, <1>24, <1>25, <1>26, <1>27,
     <1>28, <1>29, <1>30, <1>31, <1>32, <1>33 DEF Adding

\* No statement loses a row that is owed.
LEMMA RowsStep ==
    ASSUME NEW n \in 1 .. 51, NEW db, IsDatabase(db), NEW k, Around(db, n), Copied(db, n, k),
           k \in 0 .. Len(Steps(n)) - 1, ~Refused(db, Steps(n)[k + 1])
    PROVE  LET new == After(db, Steps(n)[k + 1])
           IN  /\ Copied(new, n, k + 1)
               /\ Keeps(db, new, Precious \ Details)
               /\ n > 18 => Keeps(db, new, Precious)
<1> DEFINE new == After(db, Steps(n)[k + 1])
<1> SUFFICES /\ Copied(new, n, k + 1)
             /\ \/ Keeps(db, new, Precious)
                \/ n <= 18 /\ Keeps(db, new, Precious \ Details)
  BY DEF Keeps
<1>1. CASE n = 2
  <2>1. Len(Steps(2)) = 10
    BY List2
  <2>2. Len(Steps(n)) = 10
    BY <1>1, <2>1
  <2>3. k \in 0 .. 9
    BY <2>2
  <2> QED
    BY <1>1, <2>3, Rows2
<1>2. CASE n = 5
  <2>1. k \in 0 .. 5
    BY <1>2, List5
  <2> QED
    BY <1>2, <2>1, Rows5
<1>3. CASE n = 8
  <2>1. Len(Steps(8)) = 12
    BY List8
  <2>2. Len(Steps(n)) = 12
    BY <1>3, <2>1
  <2>3. k \in 0 .. 11
    BY <2>2
  <2> QED
    BY <1>3, <2>3, Rows8
<1>4. CASE n = 10
  <2>1. k \in 0 .. 0
    BY <1>4, List10
  <2> QED
    BY <1>4, <2>1, Rows10
<1>5. CASE n = 12
  <2>1. k \in 0 .. 5
    BY <1>5, List12
  <2> QED
    BY <1>5, <2>1, Rows12
<1>6. CASE n = 15
  <2>1. k \in 0 .. 4
    BY <1>6, List15
  <2>2. Copied(new, n, k + 1) /\ Keeps(db, new, Precious \ Details)
    BY <1>6, <2>1, Rows15
  <2> HIDE DEF new
  <2> QED
    BY <1>6, <2>2
<1>7. CASE n = 16
  <2>1. k \in 0 .. 2
    BY <1>7, List16
  <2>2. Copied(new, n, k + 1) /\ Keeps(db, new, Precious \ Details)
    BY <1>7, <2>1, Rows16
  <2> HIDE DEF new
  <2> QED
    BY <1>7, <2>2
<1>8. CASE n = 17
  <2>1. k \in 0 .. 2
    BY <1>8, List17
  <2>2. Copied(new, n, k + 1) /\ Keeps(db, new, Precious \ Details)
    BY <1>8, <2>1, Rows17
  <2> HIDE DEF new
  <2> QED
    BY <1>8, <2>2
<1>9. CASE n = 18
  <2>1. k \in 0 .. 2
    BY <1>9, List18
  <2>2. Copied(new, n, k + 1) /\ Keeps(db, new, Precious \ Details)
    BY <1>9, <2>1, Rows18
  <2> HIDE DEF new
  <2> QED
    BY <1>9, <2>2
<1>10. CASE n = 19
  <2>1. k \in 0 .. 6
    BY <1>10, List19, SMTT(30)
  <2> QED
    BY <1>10, <2>1, Rows19
<1>11. CASE n = 26
  <2>1. k \in 0 .. 0
    BY <1>11, List26
  <2> QED
    BY <1>11, <2>1, Rows26
<1>12. CASE n = 28
  <2>1. k \in 0 .. 6
    BY <1>12, List28
  <2> QED
    BY <1>12, <2>1, Rows28
<1>13. CASE n = 29
  <2>1. k \in 0 .. 6
    BY <1>13, List29, SMTT(30)
  <2> QED
    BY <1>13, <2>1, Rows29
<1>14. CASE n = 33
  <2>1. k \in 0 .. 7
    BY <1>14, List33, SMTT(30)
  <2> QED
    BY <1>14, <2>1, Rows33
<1>15. CASE n = 37
  <2>0. "app_state" \in DOMAIN db.tables
    <3>1. "app_state" \in Names \ Changed(n)
      BY <1>15, Changed37 DEF Names
    <3>2. As(db, "app_state", n - 1)
      BY <3>1 DEF Around
    <3> QED
      BY <1>15, <3>2 DEF As, Is, Exists
  <2>1. k \in 0 .. 4
    BY <1>15, List37
  <2> QED
    BY <1>15, <2>0, <2>1, Rows37
<1>16. CASE n = 42
  <2>1. k \in 0 .. 10
    BY <1>16, List42, SMTT(30)
  <2> QED
    BY <1>16, <2>1, Rows42
<1>17. CASE n = 43
  <2>1. k \in 0 .. 3
    BY <1>17, List43
  <2> QED
    BY <1>17, <2>1, Rows43
<1>18. CASE n = 48
  <2>0. "app_state" \in DOMAIN db.tables
    <3>1. "app_state" \in Names \ Changed(n)
      BY <1>18, Changed48 DEF Names
    <3>2. As(db, "app_state", n - 1)
      BY <3>1 DEF Around
    <3> QED
      BY <1>18, <3>2 DEF As, Is, Exists
  <2>1. k \in 0 .. 2
    BY <1>18, List48
  <2> QED
    BY <1>18, <2>0, <2>1, Rows48
<1>19. CASE n \in Adding
  <2>1. Len(Steps(n)) \in Nat
    BY StepsShape
  <2>2. k + 1 \in 1 .. Len(Steps(n))
    BY <2>1
  <2>3. Grows(Steps(n)[k + 1])
    BY <1>19, <2>2, RowsOnlyGrow
  <2>4. db.rows \subseteq new.rows /\ Stays(db, new)
    BY <2>3, GrowRows
  <2> HIDE DEF new
  <2>5. Keeps(db, new, Precious)
    BY <2>4, GrowKeeps
  <2>6. Copied(new, n, k + 1)
    BY <1>19 DEF Copied, Adding
  <2> QED
    BY <2>5, <2>6
<1> QED
  BY <1>1, <1>2, <1>3, <1>4, <1>5, <1>6, <1>7, <1>8, <1>9, <1>10, <1>11, <1>12, <1>13,
     <1>14, <1>15, <1>16, <1>17, <1>18, <1>19 DEF Adding

\* What the process owes from the moment it serves, it holds at that moment.
LEMMA OwedHeld ==
    ASSUME NEW db, Exact(db, release), release \in 1 .. 51, db.rows = DOMAIN db.tables,
           NEW o \in Owed(DOMAIN db.tables)
    PROVE  o \in Precious /\ Held(db, o) /\ (o \in Details => release >= 18)
<1>1. PICK t \in DOMAIN db.tables : t # "image_summary" /\ o = Today(t)
  BY DEF Owed
<1>2. o \notin {"metric_staleness", "scan_status"} /\ (o \in Details => release >= 18)
  BY DEF Owed, Details
<1>3. t \in Names /\ Exists(t, release) /\ t \in db.rows
  BY <1>1 DEF Exact, As, No
<1>4. "app_state" \in DOMAIN db.tables <=> release > 25
  <2>1. As(db, "app_state", release)
    BY DEF Exact, Names
  <2> QED
    BY <2>1 DEF As, Exists, Is, No
<1>5. Held(db, o) /\ o \in Precious
  <2>1. CASE t \in {"container_images", "container_instances"}
    <3>1. \/ t = "container_images" /\ o = "images"
          \/ t = "container_instances" /\ o = "containers"
      BY <1>1, <2>1 DEF Today, Renamed
    <3> QED
      BY <1>3, <3>1 DEF Held, Homes, Precious
  <2>2. CASE t \in {"packages", "vulnerabilities"}
    <3>1. \/ t = "packages" /\ o = "image_packages"
          \/ t = "vulnerabilities" /\ o = "image_vulnerabilities"
      BY <1>1, <2>2 DEF Today, Renamed
    <3> QED
      BY <1>3, <3>1 DEF Held, Homes, Precious
  <2>3. CASE t \in {"package_details", "vulnerability_details"}
    <3>1. \/ t = "package_details" /\ o = "image_package_details"
          \/ t = "vulnerability_details" /\ o = "image_vulnerability_details"
      BY <1>1, <2>3 DEF Today, Renamed
    <3> QED
      BY <1>3, <3>1 DEF Held, Homes, Precious, Details
  <2>4. CASE t = "metric_staleness"
    <3>1. o = "app_state" /\ release < 26
      BY <1>1, <1>2, <2>4 DEF Today, Renamed
    <3> QED
      BY <1>3, <1>4, <2>4, <3>1 DEF Held, Precious
  <2>5. CASE t \in {"images", "containers", "image_packages", "image_vulnerabilities",
                    "image_package_details", "image_vulnerability_details", "job_executions",
                    "app_state", "nodes", "node_packages", "node_vulnerabilities",
                    "node_vulnerability_details", "node_package_details"}
    <3>1. o = t
      BY <1>1, <2>5 DEF Today, Renamed
    <3>2. o \in Precious
      BY <2>5, <3>1 DEF Precious, Details
    <3>3. o \in Homes(o)
      <4>1. CASE o \in {"images", "containers", "image_packages", "image_vulnerabilities"}
        BY <4>1 DEF Homes
      <4>2. CASE o \in {"image_package_details", "image_vulnerability_details",
                        "job_executions", "app_state"}
        BY <4>2 DEF Homes
      <4>3. CASE o \in {"nodes", "node_packages", "node_vulnerabilities",
                        "node_vulnerability_details", "node_package_details"}
        BY <4>3 DEF Homes
      <4> QED
        BY <2>5, <3>1, <4>1, <4>2, <4>3
    <3> QED
      BY <1>1, <1>3, <3>1, <3>2, <3>3 DEF Held
  <2>6. CASE t = "scan_status"
    BY <1>1, <1>2, <2>6 DEF Today, Renamed
  <2>7. t \notin {"container_images_new", "container_instances_new", "packages_new",
                  "vulnerabilities_new", "node_vulnerabilities_new", "metric_staleness_v37"}
    BY <1>3 DEF Exists
  <2> QED
    BY <1>1, <1>3, <2>1, <2>2, <2>3, <2>4, <2>5, <2>6, <2>7 DEF Names
<1> QED
  BY <1>2, <1>5

LEMMA RowsUnmoved ==
    ASSUME RowsInv, UNCHANGED <<disk, applied, owed>>, work' = work \/ work' = disk,
           phase' \notin {"stepping", "committing"}
    PROVE  RowsInv'
BY DEF RowsInv, Held

LEMMA RowsDeleted ==
    ASSUME DeleteDatabase, phase' \notin {"stepping", "committing"} PROVE RowsInv'
BY DEF DeleteDatabase, RowsInv

LEMMA RowsRefused == ASSUME RowsInv, NEW reason, Refuse(reason) PROVE RowsInv'
BY RowsUnmoved DEF Refuse

LEMMA RowsNextMigration == ASSUME OpenInv, RowsInv, NextMigration PROVE RowsInv'
<1>1. at' = 0 /\ UNCHANGED <<disk, work, applied, owed>>
  BY DEF NextMigration
<1>2. Copied(work', cur', at')
  BY <1>1 DEF Copied
<1> QED
  BY <1>1, <1>2 DEF RowsInv, Held

LEMMA RowsStatement == ASSUME OpenInv, LayoutInv, RowsInv, Statement PROVE RowsInv'
<1> DEFINE list == Steps(cur)
           s == list[at + 1]
<1>1. CASE Refused(work, s)
  BY <1>1, RowsRefused DEF Statement, Migration, Steps
<1>2. CASE ~Refused(work, s)
  <2>1. /\ phase = "stepping" /\ at \in Nat /\ at < Len(list)
        /\ cur = applied + 1 /\ cur \in 1 .. 51 /\ applied \in Nat
    BY UnderWay, LatestIs51 DEF Statement, OpenInv, Types, Progress, Migration, Steps
  <2>2. Len(list) \in Nat
    BY <2>1, StepsShape
  <2>3. /\ work' = After(work, s) /\ at' = at + 1
        /\ disk' = disk \/ disk' = work'
        /\ UNCHANGED <<applied, cur, owed>>
    BY <1>2 DEF Statement, Migration, Steps
  <2>4. at \in 0 .. Len(list) - 1
    BY <2>1, <2>2
  <2>5. Around(work, cur) /\ IsDatabase(work) /\ Copied(work, cur, at)
    BY <2>1 DEF LayoutInv, OpenInv, RowsInv, Amid
  <2>6. /\ Copied(work', cur, at + 1)
        /\ Keeps(work, work', Precious \ Details)
        /\ cur > 18 => Keeps(work, work', Precious)
    BY <1>2, <2>1, <2>3, <2>4, <2>5, RowsStep
  <2> HIDE DEF s, list
  <2>7. ASSUME NEW o \in owed PROVE Held(work', o)
    <3>1. o \in Precious /\ Held(work, o)
      BY <2>7 DEF RowsInv
    <3>2. CASE o \in Details
      <4>1. applied >= 18
        BY <2>7, <3>2 DEF RowsInv
      <4>2. cur > 18
        BY <2>1, <4>1
      <4> QED
        BY <2>6, <3>1, <4>2 DEF Keeps
    <3>3. CASE o \notin Details
      BY <2>6, <3>1, <3>3 DEF Keeps
    <3> QED
      BY <3>2, <3>3
  <2>8. \A o \in owed' : Held(disk', o) /\ Held(work', o)
    BY <2>3, <2>7 DEF RowsInv
  <2> QED
    BY <2>3, <2>6, <2>8 DEF RowsInv
<1> QED
  BY <1>1, <1>2

LEMMA RowsCommit == ASSUME RowsInv, Commit PROVE RowsInv'
<1>1. /\ disk' = work /\ phase = "committing" /\ UNCHANGED <<work, applied, cur, at, owed>>
  BY DEF Commit
<1> QED
  BY <1>1 DEF RowsInv, Copied, Moved, Held

LEMMA RowsServe == ASSUME OpenInv, RanksInv, LayoutInv, RowsInv, Serve PROVE RowsInv'
<1>1. /\ phase = "up" /\ phase' = "up" /\ disk' = work' /\ UNCHANGED <<release, applied>>
      /\ owed' = Owed(DOMAIN work.tables)
      /\ work'.tables = work.tables /\ work'.rows = DOMAIN work.tables
  BY ServeEffect DEF Serve
<1>2. applied = release /\ Exact(work, release)
  BY <1>1, WholeWhenUp DEF RanksInv
<1>3. Exact(work', release)
  BY <1>1, <1>2, ExactOnTables
<1>4. release \in 1 .. 51
  BY LatestIs51 DEF OpenInv, Types
<1>5. ASSUME NEW o \in owed'
      PROVE  o \in Precious /\ Held(work', o) /\ (o \in Details => release >= 18)
  <2>1. o \in Owed(DOMAIN work'.tables)
    BY <1>1, <1>5
  <2> QED
    BY <1>1, <1>3, <1>4, <2>1, OwedHeld
<1> QED
  BY <1>1, <1>2, <1>5 DEF RowsInv

LEMMA RowsNext == OpenInv /\ RanksInv /\ LayoutInv /\ RowsInv /\ [Next]_vars => RowsInv'
<1> SUFFICES ASSUME OpenInv, RanksInv, LayoutInv, RowsInv, [Next]_vars PROVE RowsInv'
  OBVIOUS
<1>1. CASE Start \/ CheckpointTruncates \/ CheckpointFails
  BY <1>1, RowsUnmoved DEF Start, CheckpointTruncates, CheckpointFails, Keep
<1>2. CASE Probe
  BY <1>2, RowsUnmoved, RowsDeleted, RowsRefused DEF Probe, Keep
<1>3. CASE CheckpointBusy
  BY <1>3, RowsUnmoved, RowsDeleted DEF CheckpointBusy, Keep
<1>4. CASE AccessFails
  BY <1>4, RowsDeleted, RowsRefused DEF AccessFails
<1>5. CASE Record \/ Close \/ ExitOnCorruption
  <2>1. CASE Record
    <3>1. /\ UNCHANGED <<disk, work, owed>> /\ applied' = cur /\ phase' = "migrating"
      BY <2>1 DEF Record
    <3>2. applied' >= 18 \/ ~(applied >= 18)
      <4>1. cur = applied + 1 /\ applied \in Nat
        BY <2>1, UnderWay DEF Record, OpenInv, Types
      <4> QED
        BY <3>1, <4>1
    <3> QED
      BY <3>1, <3>2 DEF RowsInv, Held
  <2>2. CASE Close \/ ExitOnCorruption
    BY <2>2, RowsUnmoved DEF Close, ExitOnCorruption, Keep
  <2> QED
    BY <1>5, <2>1, <2>2
<1>6. CASE Upgrade
  BY <1>6, RowsUnmoved DEF Upgrade, Keep
<1>7. CASE Crash
  BY <1>7, RowsUnmoved DEF Crash
<1>8. CASE UNCHANGED vars
  BY <1>8 DEF RowsInv, Copied, Moved, Held, vars
<1> QED
  BY <1>1, <1>2, <1>3, <1>4, <1>5, <1>6, <1>7, <1>8, RowsNextMigration, RowsStatement,
     RowsCommit, RowsServe DEF Next

\* The rows an older release had stored are still there, under today's names,
\* when the current one serves: no rebuild of a table and no rename, interrupted
\* or done twice, loses them (the rebuilds of migrateToV2, V5, V8, V12, V19, V28,
\* V29, V33 and V42, the renames of V26, V29 and V43).
THEOREM RowsAlwaysKept == Spec => []RowsKept
<1>1. Init => RowsInv
  BY DEF Init, RowsInv
<1>2. OpenInv /\ RanksInv /\ LayoutInv /\ RowsInv => RowsKept
  <2>1. SUFFICES ASSUME OpenInv, RanksInv, LayoutInv, RowsInv, phase = "up", release = Latest,
                        NEW o \in owed
                 PROVE  o \in work.rows
    BY DEF RowsKept
  <2>2. Exact(work, 51) /\ work.rows \subseteq DOMAIN work.tables
    BY <2>1, WholeWhenUp, LatestIs51 DEF RanksInv, OpenInv, IsDatabase
  <2>3. o \in Precious /\ Held(work, o)
    BY <2>1 DEF RowsInv
  <2>4. ASSUME NEW t \in Names, ~Exists(t, 51) PROVE t \notin work.rows
    BY <2>2, <2>4 DEF Exact, As, No
  <2>5. {"container_images", "container_images_new", "container_instances",
         "container_instances_new", "packages", "packages_new", "vulnerabilities",
         "vulnerabilities_new", "package_details", "vulnerability_details",
         "node_vulnerabilities_new"} \cap work.rows = {}
    BY <2>4 DEF Names, Exists
  <2>6. "app_state" \in DOMAIN work.tables
    BY <2>2 DEF Exact, Names, As, Exists, Is
  <2>7. Homes(o) \cap work.rows # {}
    BY <2>3, <2>6 DEF Held
  <2>8. CASE o \in {"images", "containers", "image_packages", "image_vulnerabilities"}
    BY <2>5, <2>7, <2>8 DEF Homes
  <2>9. CASE o \in Details
    BY <2>5, <2>7, <2>9 DEF Homes, Details
  <2>10. CASE o \in {"node_vulnerabilities", "job_executions", "app_state"}
    BY <2>5, <2>7, <2>10 DEF Homes
  <2>11. CASE o \in {"nodes", "node_packages", "node_vulnerability_details",
                     "node_package_details"}
    BY <2>7, <2>11 DEF Homes
  <2> QED
    BY <2>3, <2>8, <2>9, <2>10, <2>11 DEF Precious
<1> QED
  BY <1>1, <1>2, LayoutAlways, RowsNext, PTL DEF Spec

-----------------------------------------------------------------------------
(* Where the indexes lie *)

\* What a statement does to the indexes: it may take some away, move them along
\* with their table, and create the one it names.
LEMMA IndexEffect ==
    ASSUME NEW db, IsDatabase(db), NEW s, s.op \in Operations
    PROVE  LET new == After(db, s)
           IN  \A i \in DOMAIN new.indexes :
                  \/ /\ i \in DOMAIN db.indexes /\ new.indexes[i] = db.indexes[i]
                  \/ /\ s.op = "rename" /\ i \in DOMAIN db.indexes
                     /\ db.indexes[i].table = s.table /\ new.indexes[i].table = s.to
                     /\ new.indexes[i].columns = db.indexes[i].columns
                  \/ /\ s.op = "index" /\ i = s.name
                     /\ new.indexes[i].table = s.table /\ new.indexes[i].columns = s.columns
<1> DEFINE new == After(db, s)
<1> SUFFICES ASSUME NEW i \in DOMAIN new.indexes
             PROVE  \/ /\ i \in DOMAIN db.indexes /\ new.indexes[i] = db.indexes[i]
                    \/ /\ s.op = "rename" /\ i \in DOMAIN db.indexes
                       /\ db.indexes[i].table = s.table /\ new.indexes[i].table = s.to
                       /\ new.indexes[i].columns = db.indexes[i].columns
                    \/ /\ s.op = "index" /\ i = s.name
                       /\ new.indexes[i].table = s.table /\ new.indexes[i].columns = s.columns
  OBVIOUS
<1>1. CASE s.op \in {"create", "add", "use", "clear", "copy", "seed", "rank", "reparse"}
  <2>1. new.indexes = db.indexes
    BY <1>1 DEF After, IsDatabase
  <2> HIDE DEF new
  <2> QED
    BY <2>1
<1>2. CASE s.op = "drop"
  <2>1. new.indexes = Keys(db.indexes,
                           {j \in DOMAIN db.indexes : db.indexes[j].table # s.table})
    BY <1>2 DEF After, IsDatabase, DropFrom
  <2> HIDE DEF new
  <2> QED
    BY <2>1 DEF Keys
<1>3. CASE s.op = "unindex"
  <2>1. new.indexes = Keys(db.indexes, DOMAIN db.indexes \ {s.name})
    BY <1>3 DEF After, IsDatabase
  <2> HIDE DEF new
  <2> QED
    BY <2>1 DEF Keys
<1>4. CASE s.op = "rename"
  <2>1. new.indexes = [j \in DOMAIN db.indexes |->
            IF db.indexes[j].table = s.table THEN [db.indexes[j] EXCEPT !.table = s.to]
            ELSE db.indexes[j]]
    BY <1>4 DEF After, IsDatabase, RenameIn
  <2>2. DOMAIN db.indexes[i] = {"table", "columns"}
    BY <2>1 DEF IsDatabase
  <2> HIDE DEF new
  <2> QED
    BY <1>4, <2>1, <2>2
<1>5. CASE s.op = "index"
  <2> DEFINE entry == [table |-> s.table, columns |-> s.columns]
  <2>1. CASE s.name \in DOMAIN db.indexes
    <3>1. new = db
      BY <1>5, <2>1 DEF After
    <3> HIDE DEF new
    <3> QED
      BY <3>1
  <2>2. CASE s.name \notin DOMAIN db.indexes
    <3>1. new.indexes = With(db.indexes, s.name, entry)
      BY <1>5, <2>2 DEF After, IsDatabase
    <3>2. entry.table = s.table /\ entry.columns = s.columns
      OBVIOUS
    <3> HIDE DEF new, entry
    <3> QED
      BY <1>5, <3>1, <3>2 DEF With, Merge
  <2> QED
    BY <2>1, <2>2
<1> QED
  BY <1>1, <1>2, <1>3, <1>4, <1>5 DEF Operations

LEMMA HonestKeeps ==
    ASSUME NEW db, IsDatabase(db), Lies(db), NEW s, s.op \in Operations, Honest(s)
    PROVE  Lies(After(db, s))
<1> DEFINE new == After(db, s)
<1> SUFFICES ASSUME NEW i \in DOMAIN new.indexes
             PROVE  /\ new.indexes[i].table \notin Rebuilt
                    /\ i \in Indexes => new.indexes[i].table \in On(i)
                    /\ i = "idx_metric_staleness_expires"
                           => "expires_at_unix" \in new.indexes[i].columns
  BY DEF Lies
<1>1. \/ /\ i \in DOMAIN db.indexes /\ new.indexes[i] = db.indexes[i]
      \/ /\ s.op = "rename" /\ i \in DOMAIN db.indexes
         /\ db.indexes[i].table = s.table /\ new.indexes[i].table = s.to
         /\ new.indexes[i].columns = db.indexes[i].columns
      \/ /\ s.op = "index" /\ i = s.name
         /\ new.indexes[i].table = s.table /\ new.indexes[i].columns = s.columns
  BY IndexEffect
<1> HIDE DEF new
<1> QED
  BY <1>1 DEF Lies, Honest

LEMMA StillFree ==
    ASSUME NEW db, IsDatabase(db), NEW s, s.op \in Operations, NEW i, Free(db, i),
           s.op = "index" => s.name # i
    PROVE  Free(After(db, s), i)
BY IndexEffect DEF Free

\* No index lies on a table that is not there.
LEMMA AbsentBy ==
    ASSUME NEW db, IsDatabase(db), Lies(db), NEW i \in Indexes,
           \A t \in On(i) : \/ No(db, t)
                            \/ /\ i = "idx_metric_staleness_expires"
                               /\ "expires_at_unix" \notin db.tables[t]
    PROVE  Free(db, i)
BY DEF Lies, IsDatabase, HasColumns, No, Free

LEMMA IndexHonest ==
    ASSUME NEW i, NEW t, NEW cols, t \notin Rebuilt, i \in Indexes => t \in On(i),
           i = "idx_metric_staleness_expires" => "expires_at_unix" \in cols
    PROVE  Honest(Index(i, t, cols)) /\ Honest(IndexIfAbsent(i, t, cols))
BY DEF Honest, Index, IndexIfAbsent

\* The renames: those that end a rebuild, and those of V26, V29 and V43.
LEMMA RenameHonest ==
    /\ Honest(Rename("container_images_new", "container_images"))
    /\ Honest(Rename("container_instances_new", "container_instances"))
    /\ Honest(Rename("packages_new", "packages"))
    /\ Honest(Rename("vulnerabilities_new", "vulnerabilities"))
    /\ Honest(Rename("node_vulnerabilities_new", "node_vulnerabilities"))
    /\ Honest(Rename("metric_staleness_v37", "metric_staleness"))
    /\ Honest(Rename("metric_staleness", "app_state"))
    /\ Honest(Rename("container_images", "images"))
    /\ Honest(Rename("vulnerabilities", "image_vulnerabilities"))
    /\ Honest(Rename("vulnerability_details", "image_vulnerability_details"))
    /\ Honest(Rename("packages", "image_packages"))
    /\ Honest(Rename("package_details", "image_package_details"))
<1>1. \A t, to : /\ Rename(t, to).op = "rename" /\ Rename(t, to).table = t
                 /\ Rename(t, to).to = to
  BY DEF Rename
<1>2. ASSUME NEW t \in Rebuilt, NEW to, to \notin Rebuilt PROVE Honest(Rename(t, to))
  BY <1>1, <1>2 DEF Honest
<1>3. ASSUME NEW t, NEW to, to \notin Rebuilt, \A i \in Indexes : t \in On(i) => to \in On(i)
      PROVE  Honest(Rename(t, to))
  BY <1>1, <1>3 DEF Honest
<1>4. ASSUME NEW i \in Indexes
      PROVE  /\ "metric_staleness" \in On(i) => "app_state" \in On(i)
             /\ "container_images" \in On(i) => "images" \in On(i)
             /\ "vulnerabilities" \in On(i) => "image_vulnerabilities" \in On(i)
             /\ "vulnerability_details" \in On(i) => "image_vulnerability_details" \in On(i)
             /\ "packages" \in On(i) => "image_packages" \in On(i)
             /\ "package_details" \in On(i) => "image_package_details" \in On(i)
  BY <1>4 DEF Indexes, On
<1> QED
  BY <1>2, <1>3, <1>4 DEF Rebuilt

LEMMA OthersHonest ==
    /\ \A t, cols : Honest(Create(t, cols)) /\ Honest(CreateIfAbsent(t, cols))
    /\ \A t : Honest(DropTable(t)) /\ Honest(DropIfPresent(t)) /\ Honest(Clear(t))
    /\ \A t, c : Honest(AddColumn(t, c)) /\ Honest(Uses(t, c))
    /\ \A i : Honest(DropIndex(i))
    /\ \A t, needs, to, cols : Honest(Copy(t, needs, to, cols))
                               /\ Honest(CopyNarrower(t, needs, to, cols))
    /\ \A t, to, cols : Honest(CopySame(t, to, cols))
    /\ \A ranks : Honest(Seed(ranks)) /\ Honest(SeedIfAbsent(ranks))
    /\ \A status, order : Honest(Rank(status, order))
    /\ Honest(ReparseSBOMs) /\ Honest(ReparseReports)
BY DEF Honest, Create, CreateIfAbsent, DropTable, DropIfPresent, Clear, AddColumn, Uses,
       DropIndex, Copy, CopyNarrower, CopySame, Seed, SeedIfAbsent, Rank, ReparseSBOMs,
       ReparseReports, Reparse

-----------------------------------------------------------------------------
(* When a statement is not refused *)

LEMMA CreateIfAbsentClear ==
    ASSUME NEW db, NEW t, NEW cols PROVE ~Refused(db, CreateIfAbsent(t, cols))
BY DEF Refused, CreateIfAbsent

LEMMA DropIfPresentClear == ASSUME NEW db, NEW t PROVE ~Refused(db, DropIfPresent(t))
BY DEF Refused, DropIfPresent

LEMMA DropIndexClear == ASSUME NEW db, NEW i PROVE ~Refused(db, DropIndex(i))
BY DEF Refused, DropIndex

LEMMA ReparseClear ==
    ASSUME NEW db PROVE ~Refused(db, ReparseSBOMs) /\ ~Refused(db, ReparseReports)
BY DEF Refused, ReparseSBOMs, ReparseReports, Reparse

LEMMA CreateClear ==
    ASSUME NEW db, NEW t, NEW cols, No(db, t) PROVE ~Refused(db, Create(t, cols))
BY DEF Refused, Create, No

LEMMA DropClear ==
    ASSUME NEW db, NEW t, NEW c, Is(db, t, c) PROVE ~Refused(db, DropTable(t))
BY DEF Refused, DropTable, Is

LEMMA ClearClear ==
    ASSUME NEW db, NEW t, NEW c, Is(db, t, c) PROVE ~Refused(db, Clear(t))
BY DEF Refused, Clear, Is

LEMMA RenameClear ==
    ASSUME NEW db, NEW t, NEW c, NEW to, Is(db, t, c), No(db, to)
    PROVE  ~Refused(db, Rename(t, to))
BY DEF Refused, Rename, Is, No

LEMMA AddClear ==
    ASSUME NEW db, NEW t, NEW c, NEW col, Is(db, t, c), col \notin c
    PROVE  ~Refused(db, AddColumn(t, col))
BY DEF Refused, AddColumn, Is

LEMMA IndexClear ==
    ASSUME NEW db, NEW i, NEW t, NEW c, NEW cols, Is(db, t, c), cols \subseteq c, Free(db, i)
    PROVE  ~Refused(db, Index(i, t, cols))
BY DEF Refused, Index, Is, HasColumns, Free

LEMMA IndexIfAbsentClear ==
    ASSUME NEW db, NEW i, NEW t, NEW c, NEW cols, Is(db, t, c), cols \subseteq c
    PROVE  ~Refused(db, IndexIfAbsent(i, t, cols))
BY DEF Refused, Index, IndexIfAbsent, Is, HasColumns

LEMMA UsesClear ==
    ASSUME NEW db, NEW t, NEW c, NEW cols, Is(db, t, c), cols \subseteq c
    PROVE  ~Refused(db, Uses(t, cols))
BY DEF Refused, Uses, Is, HasColumns

LEMMA CopyClear ==
    ASSUME NEW db, NEW t, NEW needs, NEW to, NEW c, NEW cols,
           \A u \in DOMAIN needs : HasColumns(db, u, needs[u]), Is(db, to, c), cols \subseteq c
    PROVE  ~Refused(db, Copy(t, needs, to, cols))
BY DEF Refused, Copy, Is, HasColumns

LEMMA CopyNarrowerClear ==
    ASSUME NEW db, NEW t, t \notin db.twins, NEW needs, NEW to, NEW c, NEW cols,
           \A u \in DOMAIN needs : HasColumns(db, u, needs[u]), Is(db, to, c), cols \subseteq c
    PROVE  ~Refused(db, CopyNarrower(t, needs, to, cols))
BY DEF Refused, CopyNarrower, Is, HasColumns

LEMMA CopySameClear ==
    ASSUME NEW db, NEW t, NEW to, NEW b, NEW c, NEW cols,
           Is(db, t, b), cols \subseteq b, Is(db, to, c), cols \subseteq c
    PROVE  ~Refused(db, CopySame(t, to, cols))
<1>1. \A u \in DOMAIN [x \in {t} |-> cols] : HasColumns(db, u, [x \in {t} |-> cols][u])
  BY DEF Is, HasColumns
<1> QED
  BY <1>1, CopyClear DEF CopySame

LEMMA SeedClear ==
    ASSUME NEW db, NEW c, Is(db, "scan_status", c)
    PROVE  /\ \A ranks : ~Refused(db, SeedIfAbsent(ranks))
           /\ \A status, order : ~Refused(db, Rank(status, order))
BY DEF Refused, SeedIfAbsent, Seed, Rank, Is

-----------------------------------------------------------------------------
(* The indexes still to be made *)

LEMMA ReadyMakes ==
    ASSUME NEW db, NEW n \in Making, NEW k, Ready(db, n, k), k >= From(n),
           NEW j \in k + 1 .. Len(Steps(n)),
           Makes(Steps(n)[j])
    PROVE  Free(db, Steps(n)[j].name)
BY DEF Ready

LEMMA NameIsFree ==
    ASSUME NEW db, NEW n \in Making, NEW k, Due(db, n, k), k >= From(n),
           Makes(Steps(n)[k + 1])
    PROVE  Free(db, Steps(n)[k + 1].name)
<1>1. Len(Steps(n)) \in Nat
  BY StepsShape DEF Making
<1>2. k + 1 \in k + 1 .. Len(Steps(n))
  BY <1>1 DEF Due
<1> QED
  BY <1>2, ReadyMakes DEF Due

LEMMA Made6 ==
    LET list == Steps(6)
    IN  /\ Len(list) = 10 /\ From(6) = 0
        /\ \A j \in 1 .. 10 : list[j].op = "index" => j \in {2, 3, 5, 6, 7}
        /\ list[2].name = "idx_packages_image"
        /\ list[3].name = "idx_packages_type"
        /\ list[5].name = "idx_vulnerabilities_image"
        /\ list[6].name = "idx_vulnerabilities_severity"
        /\ list[7].name = "idx_vulnerabilities_cve"
<1> DEFINE list == Steps(6)
<1>1. Len(list) = 10 /\ From(6) = 0
  BY List6 DEF From
<1>2. /\ list[1].op # "index" /\ list[4].op # "index" /\ list[8].op # "index"
      /\ list[9].op # "index" /\ list[10].op # "index"
  BY List6 DEF Create, Index, ReparseReports, ReparseSBOMs, Reparse
<1>3. /\ list[2].name = "idx_packages_image"
      /\ list[3].name = "idx_packages_type"
      /\ list[5].name = "idx_vulnerabilities_image"
      /\ list[6].name = "idx_vulnerabilities_severity"
      /\ list[7].name = "idx_vulnerabilities_cve"
  BY List6 DEF Index
<1> HIDE DEF list
<1>4. \A j \in 1 .. 10 : list[j].op = "index" => j \in {2, 3, 5, 6, 7}
  BY <1>2
<1> QED
  BY <1>1, <1>2, <1>3, <1>4 DEF list

LEMMA Made8 ==
    LET list == Steps(8)
    IN  /\ Len(list) = 12 /\ From(8) = 9
        /\ \A j \in 10 .. 12 : list[j].op = "index" => j \in 11 .. 12
        /\ \A j \in 1 .. 9 : ~Makes(list[j])
        /\ list[11].name = "idx_images_digest"
        /\ list[12].name = "idx_images_status"
<1> DEFINE list == Steps(8)
<1>1. Len(list) = 12 /\ From(8) = 9
  BY List8 DEF From
<1>2. list[10].op # "index"
  BY List8 DEF AddColumn, Copy, CopySame, Create, DropTable, Index, IndexIfAbsent,
                     Rename, Uses
<1>3. /\ ~Makes(list[1]) /\ ~Makes(list[2]) /\ ~Makes(list[3]) /\ ~Makes(list[4])
      /\ ~Makes(list[5]) /\ ~Makes(list[6]) /\ ~Makes(list[7]) /\ ~Makes(list[8])
      /\ ~Makes(list[9])
  BY List8 DEF Makes, AddColumn, Copy, CopySame, Create, DropTable, Index, IndexIfAbsent,
                     Rename, Uses
<1>4. /\ list[11].name = "idx_images_digest"
      /\ list[12].name = "idx_images_status"
  BY List8 DEF Index
<1> HIDE DEF list
<1>5. \A j \in 10 .. 12 : list[j].op = "index" => j \in {11, 12}
  BY <1>2
<1>6. \A j \in 1 .. 9 : ~Makes(list[j])
  BY <1>3
<1> QED
  BY <1>1, <1>2, <1>3, <1>4, <1>5, <1>6 DEF list

LEMMA Made12 ==
    LET list == Steps(12)
    IN  /\ Len(list) = 6 /\ From(12) = 3
        /\ \A j \in 4 .. 6 : list[j].op = "index" => j \in 5 .. 6
        /\ \A j \in 1 .. 3 : ~Makes(list[j])
        /\ list[5].name = "idx_packages_image"
        /\ list[6].name = "idx_packages_type"
<1> DEFINE list == Steps(12)
<1>1. Len(list) = 6 /\ From(12) = 3
  BY List12 DEF From
<1>2. list[4].op # "index"
  BY List12 DEF Copy, CopySame, Create, DropTable, Index, Rename
<1>3. /\ ~Makes(list[1]) /\ ~Makes(list[2]) /\ ~Makes(list[3])
  BY List12 DEF Makes, Copy, CopySame, Create, DropTable, Index, Rename
<1>4. /\ list[5].name = "idx_packages_image"
      /\ list[6].name = "idx_packages_type"
  BY List12 DEF Index
<1> HIDE DEF list
<1>5. \A j \in 4 .. 6 : list[j].op = "index" => j \in {5, 6}
  BY <1>2
<1>6. \A j \in 1 .. 3 : ~Makes(list[j])
  BY <1>3
<1> QED
  BY <1>1, <1>2, <1>3, <1>4, <1>5, <1>6 DEF list

LEMMA Made13 ==
    LET list == Steps(13)
    IN  /\ Len(list) = 4 /\ From(13) = 0
        /\ \A j \in 1 .. 4 : list[j].op = "index" => j \in {2, 4}
        /\ list[2].name = "idx_vulnerability_details_vuln"
        /\ list[4].name = "idx_package_details_pkg"
<1> DEFINE list == Steps(13)
<1>1. Len(list) = 4 /\ From(13) = 0
  BY List13 DEF From
<1>2. /\ list[1].op # "index" /\ list[3].op # "index"
  BY List13 DEF Create, Index
<1>3. /\ list[2].name = "idx_vulnerability_details_vuln"
      /\ list[4].name = "idx_package_details_pkg"
  BY List13 DEF Index
<1> HIDE DEF list
<1>4. \A j \in 1 .. 4 : list[j].op = "index" => j \in {2, 4}
  BY <1>2
<1> QED
  BY <1>1, <1>2, <1>3, <1>4 DEF list

LEMMA Made19 ==
    LET list == Steps(19)
    IN  /\ Len(list) = 7 /\ From(19) = 3
        /\ \A j \in 4 .. 7 : list[j].op = "index" => j \in 5 .. 7
        /\ \A j \in 1 .. 3 : ~Makes(list[j])
        /\ list[5].name = "idx_vulnerabilities_image"
        /\ list[6].name = "idx_vulnerabilities_severity"
        /\ list[7].name = "idx_vulnerabilities_cve"
<1> DEFINE list == Steps(19)
<1>1. Len(list) = 7 /\ From(19) = 3
  BY List19 DEF From
<1>2. list[4].op # "index"
  BY List19 DEF Copy, CopySame, Create, DropTable, Index, Rename
<1>3. /\ ~Makes(list[1]) /\ ~Makes(list[2]) /\ ~Makes(list[3])
  BY List19 DEF Makes, Copy, CopySame, Create, DropTable, Index, Rename
<1>4. /\ list[5].name = "idx_vulnerabilities_image"
      /\ list[6].name = "idx_vulnerabilities_severity"
      /\ list[7].name = "idx_vulnerabilities_cve"
  BY List19 DEF Index
<1> HIDE DEF list
<1>5. \A j \in 4 .. 7 : list[j].op = "index" => j \in {5, 6, 7}
  BY <1>2
<1>6. \A j \in 1 .. 3 : ~Makes(list[j])
  BY <1>3
<1> QED
  BY <1>1, <1>2, <1>3, <1>4, <1>5, <1>6 DEF list

LEMMA Made22 ==
    LET list == Steps(22)
    IN  /\ Len(list) = 4 /\ From(22) = 0
        /\ \A j \in 1 .. 4 : list[j].op = "index" => j \in 2 .. 4
        /\ list[2].name = "idx_job_executions_job_name"
        /\ list[3].name = "idx_job_executions_started_at"
        /\ list[4].name = "idx_job_executions_status"
<1> DEFINE list == Steps(22)
<1>1. Len(list) = 4 /\ From(22) = 0
  BY List22 DEF From
<1>2. list[1].op # "index"
  BY List22 DEF Create, Index
<1>3. /\ list[2].name = "idx_job_executions_job_name"
      /\ list[3].name = "idx_job_executions_started_at"
      /\ list[4].name = "idx_job_executions_status"
  BY List22 DEF Index
<1> HIDE DEF list
<1>4. \A j \in 1 .. 4 : list[j].op = "index" => j \in {2, 3, 4}
  BY <1>2
<1> QED
  BY <1>1, <1>2, <1>3, <1>4 DEF list

LEMMA Made28 ==
    LET list == Steps(28)
    IN  /\ Len(list) = 7 /\ From(28) = 3
        /\ \A j \in 4 .. 7 : list[j].op = "index" => j \in 5 .. 7
        /\ \A j \in 1 .. 3 : ~Makes(list[j])
        /\ list[5].name = "idx_instances_namespace"
        /\ list[6].name = "idx_instances_image"
        /\ list[7].name = "idx_instances_created_at"
<1> DEFINE list == Steps(28)
<1>1. Len(list) = 7 /\ From(28) = 3
  BY List28 DEF From
<1>2. list[4].op # "index"
  BY List28 DEF Copy, CopySame, Create, DropTable, Index, Rename
<1>3. /\ ~Makes(list[1]) /\ ~Makes(list[2]) /\ ~Makes(list[3])
  BY List28 DEF Makes, Copy, CopySame, Create, DropTable, Index, Rename
<1>4. /\ list[5].name = "idx_instances_namespace"
      /\ list[6].name = "idx_instances_image"
      /\ list[7].name = "idx_instances_created_at"
  BY List28 DEF Index
<1> HIDE DEF list
<1>5. \A j \in 4 .. 7 : list[j].op = "index" => j \in {5, 6, 7}
  BY <1>2
<1>6. \A j \in 1 .. 3 : ~Makes(list[j])
  BY <1>3
<1> QED
  BY <1>1, <1>2, <1>3, <1>4, <1>5, <1>6 DEF list

LEMMA Made29 ==
    LET list == Steps(29)
    IN  /\ Len(list) = 7 /\ From(29) = 0
        /\ \A j \in 1 .. 7 : list[j].op = "index" => j \in 5 .. 7
        /\ list[5].name = "idx_containers_namespace"
        /\ list[6].name = "idx_containers_image"
        /\ list[7].name = "idx_containers_created_at"
<1> DEFINE list == Steps(29)
<1>1. Len(list) = 7 /\ From(29) = 0
  BY List29 DEF From
<1>2. /\ list[1].op # "index" /\ list[2].op # "index" /\ list[3].op # "index"
      /\ list[4].op # "index"
  BY List29 DEF Copy, Create, DropTable, Index, Rename
<1>3. /\ list[5].name = "idx_containers_namespace"
      /\ list[6].name = "idx_containers_image"
      /\ list[7].name = "idx_containers_created_at"
  BY List29 DEF Index
<1> HIDE DEF list
<1>4. \A j \in 1 .. 7 : list[j].op = "index" => j \in {5, 6, 7}
  BY <1>2
<1> QED
  BY <1>1, <1>2, <1>3, <1>4 DEF list

LEMMA Made30 ==
    LET list == Steps(30)
    IN  /\ Len(list) = 9 /\ From(30) = 0
        /\ \A j \in 1 .. 9 : list[j].op = "index" => j \in 4 .. 9
        /\ list[4].name = "idx_nodes_status"
        /\ list[5].name = "idx_node_packages_node"
        /\ list[6].name = "idx_node_packages_name"
        /\ list[7].name = "idx_node_vulnerabilities_node"
        /\ list[8].name = "idx_node_vulnerabilities_cve"
        /\ list[9].name = "idx_node_vulnerabilities_severity"
<1> DEFINE list == Steps(30)
<1>1. Len(list) = 9 /\ From(30) = 0
  BY List30 DEF From
<1>2. /\ list[1].op # "index" /\ list[2].op # "index" /\ list[3].op # "index"
  BY List30 DEF Create, Index
<1>3. /\ list[4].name = "idx_nodes_status"
      /\ list[5].name = "idx_node_packages_node"
      /\ list[6].name = "idx_node_packages_name"
      /\ list[7].name = "idx_node_vulnerabilities_node"
      /\ list[8].name = "idx_node_vulnerabilities_cve"
      /\ list[9].name = "idx_node_vulnerabilities_severity"
  BY List30 DEF Index
<1> HIDE DEF list
<1>4. \A j \in 1 .. 9 : list[j].op = "index" => j \in {4, 5, 6, 7, 8, 9}
  BY <1>2
<1> QED
  BY <1>1, <1>2, <1>3, <1>4 DEF list

LEMMA Made33 ==
    LET list == Steps(33)
    IN  /\ Len(list) = 8 /\ From(33) = 3
        /\ \A j \in 4 .. 8 : list[j].op = "index" => j \in 5 .. 8
        /\ \A j \in 1 .. 3 : ~Makes(list[j])
        /\ list[5].name = "idx_node_vulnerabilities_node"
        /\ list[6].name = "idx_node_vulnerabilities_package"
        /\ list[7].name = "idx_node_vulnerabilities_node_severity"
        /\ list[8].name = "idx_node_vulnerabilities_fix_status"
<1> DEFINE list == Steps(33)
<1>1. Len(list) = 8 /\ From(33) = 3
  BY List33 DEF From
<1>2. list[4].op # "index"
  BY List33 DEF Copy, Create, DropTable, Index, Rename
<1>3. /\ ~Makes(list[1]) /\ ~Makes(list[2]) /\ ~Makes(list[3])
  BY List33 DEF Makes, Copy, Create, DropTable, Index, Rename
<1>4. /\ list[5].name = "idx_node_vulnerabilities_node"
      /\ list[6].name = "idx_node_vulnerabilities_package"
      /\ list[7].name = "idx_node_vulnerabilities_node_severity"
      /\ list[8].name = "idx_node_vulnerabilities_fix_status"
  BY List33 DEF Index
<1> HIDE DEF list
<1>5. \A j \in 4 .. 8 : list[j].op = "index" => j \in {5, 6, 7, 8}
  BY <1>2
<1>6. \A j \in 1 .. 3 : ~Makes(list[j])
  BY <1>3
<1> QED
  BY <1>1, <1>2, <1>3, <1>4, <1>5, <1>6 DEF list

LEMMA Made34 ==
    LET list == Steps(34)
    IN  /\ Len(list) = 6 /\ From(34) = 0
        /\ \A j \in 1 .. 6 : list[j].op = "index" => j \in {2, 4}
        /\ list[2].name = "idx_node_vulnerability_details_vuln"
        /\ list[4].name = "idx_node_package_details_pkg"
<1> DEFINE list == Steps(34)
<1>1. Len(list) = 6 /\ From(34) = 0
  BY List34 DEF From
<1>2. /\ list[1].op # "index" /\ list[3].op # "index" /\ list[5].op # "index"
      /\ list[6].op # "index"
  BY List34 DEF Copy, Create, Index
<1>3. /\ list[2].name = "idx_node_vulnerability_details_vuln"
      /\ list[4].name = "idx_node_package_details_pkg"
  BY List34 DEF Index
<1> HIDE DEF list
<1>4. \A j \in 1 .. 6 : list[j].op = "index" => j \in {2, 4}
  BY <1>2
<1> QED
  BY <1>1, <1>2, <1>3, <1>4 DEF list

LEMMA Made42 ==
    LET list == Steps(42)
    IN  /\ Len(list) = 11 /\ From(42) = 3
        /\ \A j \in 4 .. 11 : list[j].op = "index" => j \in 5 .. 11
        /\ \A j \in 1 .. 3 : ~Makes(list[j])
        /\ list[5].name = "idx_node_vulnerabilities_node"
        /\ list[6].name = "idx_node_vulnerabilities_cve"
        /\ list[7].name = "idx_node_vulnerabilities_severity"
        /\ list[8].name = "idx_node_vulnerabilities_node_severity"
        /\ list[9].name = "idx_node_vulnerabilities_fix_status"
        /\ list[10].name = "idx_node_vulnerabilities_node_cve"
        /\ list[11].name = "idx_node_vulnerabilities_package_type"
<1> DEFINE list == Steps(42)
<1>1. Len(list) = 11 /\ From(42) = 3
  BY List42 DEF From
<1>2. list[4].op # "index"
  BY List42 DEF CopyNarrower, Create, DropTable, Index, Rename
<1>3. /\ ~Makes(list[1]) /\ ~Makes(list[2]) /\ ~Makes(list[3])
  BY List42 DEF Makes, CopyNarrower, Create, DropTable, Index, Rename
<1>4. /\ list[5].name = "idx_node_vulnerabilities_node"
      /\ list[6].name = "idx_node_vulnerabilities_cve"
      /\ list[7].name = "idx_node_vulnerabilities_severity"
      /\ list[8].name = "idx_node_vulnerabilities_node_severity"
      /\ list[9].name = "idx_node_vulnerabilities_fix_status"
      /\ list[10].name = "idx_node_vulnerabilities_node_cve"
      /\ list[11].name = "idx_node_vulnerabilities_package_type"
  BY List42 DEF Index
<1> HIDE DEF list
<1>5. \A j \in 4 .. 11 : list[j].op = "index" => j \in {5, 6, 7, 8, 9, 10, 11}
  BY <1>2
<1>6. \A j \in 1 .. 3 : ~Makes(list[j])
  BY <1>3
<1> QED
  BY <1>1, <1>2, <1>3, <1>4, <1>5, <1>6 DEF list

LEMMA Made48 ==
    LET list == Steps(48)
    IN  /\ Len(list) = 3 /\ From(48) = 1
        /\ \A j \in 2 .. 3 : list[j].op = "index" => j \in {3}
        /\ \A j \in 1 .. 1 : ~Makes(list[j])
        /\ list[3].name = "idx_metric_staleness_expires"
<1> DEFINE list == Steps(48)
<1>1. Len(list) = 3 /\ From(48) = 1
  BY List48 DEF From
<1>2. list[2].op # "index"
  BY List48 DEF Create, DropIfPresent, Index
<1>3. ~Makes(list[1])
  BY List48 DEF Makes, Create, DropIfPresent, Index
<1>4. list[3].name = "idx_metric_staleness_expires"
  BY List48 DEF Index
<1> HIDE DEF list
<1>5. \A j \in 2 .. 3 : list[j].op = "index" => j \in {3}
  BY <1>2
<1>6. \A j \in 1 .. 1 : ~Makes(list[j])
  BY <1>3
<1> QED
  BY <1>1, <1>2, <1>3, <1>4, <1>5, <1>6 DEF list

\* At its start, or once the old table is gone, the names are free.
LEMMA NamesAreFree ==
    ASSUME NEW n \in Making, NEW db, IsDatabase(db), Lies(db), Amid(db, n, From(n)),
           From(n) = 0 => Exact(db, n - 1),
           NEW j \in 1 .. Len(Steps(n)), Makes(Steps(n)[j])
    PROVE  Free(db, Steps(n)[j].name)
<1> DEFINE i == Steps(n)[j].name
<1>1. CASE n = 6
  <2>1. From(n) = 0
    BY <1>1 DEF From
  <2>2. /\ No(db, "packages") /\ No(db, "image_packages") /\ No(db, "vulnerabilities")
        /\ No(db, "image_vulnerabilities")
    BY <1>1, <2>1 DEF Exact, Names, As, Exists
  <2>3. i \in {"idx_packages_image", "idx_packages_type", "idx_vulnerabilities_image",
              "idx_vulnerabilities_severity", "idx_vulnerabilities_cve"}
    BY <1>1, Made6 DEF Makes
  <2> HIDE DEF i
  <2>4. Free(db, i)
    BY <2>2, <2>3, AbsentBy DEF Indexes, On
  <2> QED
    BY <2>4 DEF i
<1>2. CASE n = 8
  <2>1. From(n) = 9
    BY <1>2 DEF From
  <2>2. /\ No(db, "container_images") /\ No(db, "images")
    <3>1. Here8(db, 9)
      BY <1>2, <2>1 DEF Amid, Here
    <3>2. As(db, "images", 7)
      BY <1>2, <2>1, Changed8 DEF Amid, Around, Names
    <3> QED
      BY <3>1, <3>2 DEF Here8, As, Exists, Columns
  <2>3. i \in {"idx_images_digest", "idx_images_status"}
    BY <1>2, Made8, SMTT(30) DEF Makes
  <2> HIDE DEF i
  <2>4. Free(db, i)
    BY <2>2, <2>3, AbsentBy DEF Indexes, On
  <2> QED
    BY <2>4 DEF i
<1>3. CASE n = 12
  <2>1. From(n) = 3
    BY <1>3 DEF From
  <2>2. /\ No(db, "packages") /\ No(db, "image_packages")
    <3>1. Here12(db, 3)
      BY <1>3, <2>1 DEF Amid, Here
    <3>2. As(db, "image_packages", 11)
      BY <1>3, <2>1, Changed12 DEF Amid, Around, Names
    <3> QED
      BY <3>1, <3>2 DEF Here12, As, Exists, Columns
  <2>3. i \in {"idx_packages_image", "idx_packages_type"}
    BY <1>3, Made12 DEF Makes
  <2> HIDE DEF i
  <2>4. Free(db, i)
    BY <2>2, <2>3, AbsentBy DEF Indexes, On
  <2> QED
    BY <2>4 DEF i
<1>4. CASE n = 13
  <2>1. From(n) = 0
    BY <1>4 DEF From
  <2>2. /\ No(db, "vulnerability_details") /\ No(db, "image_vulnerability_details")
        /\ No(db, "package_details") /\ No(db, "image_package_details")
    BY <1>4, <2>1 DEF Exact, Names, As, Exists
  <2>3. i \in {"idx_vulnerability_details_vuln", "idx_package_details_pkg"}
    BY <1>4, Made13 DEF Makes
  <2> HIDE DEF i
  <2>4. Free(db, i)
    BY <2>2, <2>3, AbsentBy DEF Indexes, On
  <2> QED
    BY <2>4 DEF i
<1>5. CASE n = 19
  <2>1. From(n) = 3
    BY <1>5 DEF From
  <2>2. /\ No(db, "vulnerabilities") /\ No(db, "image_vulnerabilities")
    <3>1. Here19(db, 3)
      BY <1>5, <2>1 DEF Amid, Here
    <3>2. As(db, "image_vulnerabilities", 18)
      BY <1>5, <2>1, Changed19 DEF Amid, Around, Names
    <3> QED
      BY <3>1, <3>2 DEF Here19, As, Exists, Columns
  <2>3. i \in {"idx_vulnerabilities_image", "idx_vulnerabilities_severity",
              "idx_vulnerabilities_cve"}
    BY <1>5, Made19, SMTT(30) DEF Makes
  <2> HIDE DEF i
  <2>4. Free(db, i)
    BY <2>2, <2>3, AbsentBy DEF Indexes, On
  <2> QED
    BY <2>4 DEF i
<1>6. CASE n = 22
  <2>1. From(n) = 0
    BY <1>6 DEF From
  <2>2. No(db, "job_executions")
    BY <1>6, <2>1 DEF Exact, Names, As, Exists
  <2>3. i \in {"idx_job_executions_job_name", "idx_job_executions_started_at",
              "idx_job_executions_status"}
    BY <1>6, Made22 DEF Makes
  <2> HIDE DEF i
  <2>4. Free(db, i)
    BY <2>2, <2>3, AbsentBy DEF Indexes, On
  <2> QED
    BY <2>4 DEF i
<1>7. CASE n = 28
  <2>1. From(n) = 3
    BY <1>7 DEF From
  <2>2. No(db, "container_instances")
    <3>1. Here28(db, 3)
      BY <1>7, <2>1 DEF Amid, Here
    <3> QED
      BY <3>1 DEF Here28
  <2>3. i \in {"idx_instances_namespace", "idx_instances_image", "idx_instances_created_at"}
    BY <1>7, Made28, SMTT(30) DEF Makes
  <2> HIDE DEF i
  <2>4. Free(db, i)
    BY <2>2, <2>3, AbsentBy DEF Indexes, On
  <2> QED
    BY <2>4 DEF i
<1>8. CASE n = 29
  <2>1. From(n) = 0
    BY <1>8 DEF From
  <2>2. No(db, "containers")
    BY <1>8, <2>1 DEF Exact, Names, As, Exists
  <2>3. i \in {"idx_containers_namespace", "idx_containers_image", "idx_containers_created_at"}
    BY <1>8, Made29, SMTT(30) DEF Makes
  <2> HIDE DEF i
  <2>4. Free(db, i)
    BY <2>2, <2>3, AbsentBy DEF Indexes, On
  <2> QED
    BY <2>4 DEF i
<1>9. CASE n = 30
  <2>1. From(n) = 0
    BY <1>9 DEF From
  <2>2. /\ No(db, "nodes") /\ No(db, "node_packages") /\ No(db, "node_vulnerabilities")
    BY <1>9, <2>1 DEF Exact, Names, As, Exists
  <2>3. i \in {"idx_nodes_status", "idx_node_packages_node", "idx_node_packages_name",
              "idx_node_vulnerabilities_node", "idx_node_vulnerabilities_cve",
              "idx_node_vulnerabilities_severity"}
    <3>1. Len(Steps(n)) = 9
      BY <1>9, Made30
    <3>2. j \in 1 .. 9
      BY <3>1
    <3>3. Steps(30)[j].op = "index" /\ i = Steps(30)[j].name
      BY <1>9 DEF Makes
    <3> HIDE DEF i
    <3> QED
      BY <3>2, <3>3, Made30
  <2> HIDE DEF i
  <2>4. Free(db, i)
    BY <2>2, <2>3, AbsentBy DEF Indexes, On
  <2> QED
    BY <2>4 DEF i
<1>10. CASE n = 33
  <2>1. From(n) = 3
    BY <1>10 DEF From
  <2>2. No(db, "node_vulnerabilities")
    <3>1. Here33(db, 3)
      BY <1>10, <2>1 DEF Amid, Here
    <3> QED
      BY <3>1 DEF Here33
  <2>3. i \in {"idx_node_vulnerabilities_node", "idx_node_vulnerabilities_package",
              "idx_node_vulnerabilities_node_severity", "idx_node_vulnerabilities_fix_status"}
    BY <1>10, Made33, SMTT(30) DEF Makes
  <2> HIDE DEF i
  <2>4. Free(db, i)
    BY <2>2, <2>3, AbsentBy DEF Indexes, On
  <2> QED
    BY <2>4 DEF i
<1>11. CASE n = 34
  <2>1. From(n) = 0
    BY <1>11 DEF From
  <2>2. /\ No(db, "node_vulnerability_details") /\ No(db, "node_package_details")
    BY <1>11, <2>1 DEF Exact, Names, As, Exists
  <2>3. i \in {"idx_node_vulnerability_details_vuln", "idx_node_package_details_pkg"}
    BY <1>11, Made34 DEF Makes
  <2> HIDE DEF i
  <2>4. Free(db, i)
    BY <2>2, <2>3, AbsentBy DEF Indexes, On
  <2> QED
    BY <2>4 DEF i
<1>12. CASE n = 42
  <2>1. From(n) = 3
    BY <1>12 DEF From
  <2>2. No(db, "node_vulnerabilities")
    <3>1. Here42(db, 3)
      BY <1>12, <2>1 DEF Amid, Here
    <3> QED
      BY <3>1 DEF Here42
  <2>3. i \in {"idx_node_vulnerabilities_node", "idx_node_vulnerabilities_cve",
              "idx_node_vulnerabilities_severity", "idx_node_vulnerabilities_node_severity",
              "idx_node_vulnerabilities_fix_status", "idx_node_vulnerabilities_node_cve",
              "idx_node_vulnerabilities_package_type"}
    BY <1>12, Made42, SMTT(30) DEF Makes
  <2> HIDE DEF i
  <2>4. Free(db, i)
    BY <2>2, <2>3, AbsentBy DEF Indexes, On
  <2> QED
    BY <2>4 DEF i
<1>13. CASE n = 48
  <2>1. From(n) = 1
    BY <1>13 DEF From
  <2>2. /\ No(db, "metric_staleness") /\ Is(db, "app_state", States)
    <3>1. Here48(db, 1)
      BY <1>13, <2>1 DEF Amid, Here
    <3>2. As(db, "app_state", 47)
      BY <1>13, <2>1, Changed48 DEF Amid, Around, Names
    <3> QED
      BY <3>1, <3>2 DEF Here48, As, Exists, Columns
  <2>3. i \in {"idx_metric_staleness_expires"}
    BY <1>13, Made48 DEF Makes
  <2> HIDE DEF i
  <2>4. Free(db, i)
    BY <2>2, <2>3, AbsentBy DEF Indexes, On, Is, States
  <2> QED
    BY <2>4 DEF i
<1> QED
  BY <1>1, <1>2, <1>3, <1>4, <1>5, <1>6, <1>7, <1>8, <1>9, <1>10, <1>11, <1>12, <1>13 DEF Making

\* No migration makes two indexes of a name.
LEMMA NamesDiffer ==
    ASSUME NEW n \in Making, NEW i \in From(n) + 1 .. Len(Steps(n)),
           NEW j \in i + 1 .. Len(Steps(n)),
           Steps(n)[i].op = "index", Makes(Steps(n)[j])
    PROVE  Steps(n)[i].name # Steps(n)[j].name
<1>1. CASE n = 6
  <2>1. Len(Steps(n)) = 10 /\ From(n) = 0
    BY <1>1, Made6
  <2>2. i \in 1 .. 10 /\ j \in i + 1 .. 10
    BY <2>1
  <2>3. Steps(6)[i].op = "index" /\ Steps(6)[j].op = "index"
    BY <1>1 DEF Makes
  <2>4. Steps(6)[i].name # Steps(6)[j].name
    BY <2>2, <2>3, Made6, SMTT(30)
  <2> QED
    BY <1>1, <2>4
<1>2. CASE n = 8
  <2>1. Len(Steps(n)) = 12 /\ From(n) = 9
    BY <1>2, Made8
  <2>2. i \in 10 .. 12 /\ j \in i + 1 .. 12
    BY <2>1
  <2>3. Steps(8)[i].op = "index" /\ Steps(8)[j].op = "index"
    BY <1>2 DEF Makes
  <2>4. Steps(8)[i].name # Steps(8)[j].name
    BY <2>2, <2>3, Made8
  <2> QED
    BY <1>2, <2>4
<1>3. CASE n = 12
  BY <1>3, Made12, SMTT(30) DEF Makes
<1>4. CASE n = 13
  BY <1>4, Made13, SMTT(30) DEF Makes
<1>5. CASE n = 19
  BY <1>5, Made19, SMTT(30) DEF Makes
<1>6. CASE n = 22
  BY <1>6, Made22, SMTT(30) DEF Makes
<1>7. CASE n = 28
  BY <1>7, Made28, SMTT(30) DEF Makes
<1>8. CASE n = 29
  BY <1>8, Made29, SMTT(30) DEF Makes
<1>9. CASE n = 30
  <2>1. Len(Steps(n)) = 9 /\ From(n) = 0
    BY <1>9, Made30
  <2>2. i \in 1 .. 9 /\ j \in i + 1 .. 9
    BY <2>1
  <2>3. Steps(30)[i].op = "index" /\ Steps(30)[j].op = "index"
    BY <1>9 DEF Makes
  <2>4. Steps(30)[i].name # Steps(30)[j].name
    BY <2>2, <2>3, Made30, SMTT(30)
  <2> QED
    BY <1>9, <2>4
<1>10. CASE n = 33
  BY <1>10, Made33, SMTT(30) DEF Makes
<1>11. CASE n = 34
  BY <1>11, Made34, SMTT(30) DEF Makes
<1>12. CASE n = 42
  <2>1. Len(Steps(n)) = 11 /\ From(n) = 3
    BY <1>12, Made42
  <2>2. i \in 4 .. 11 /\ j \in i + 1 .. 11
    BY <2>1
  <2>3. Steps(42)[i].op = "index" /\ Steps(42)[j].op = "index"
    BY <1>12 DEF Makes
  <2>4. Steps(42)[i].name # Steps(42)[j].name
    <3>1. i # 4
      BY <2>3, Made42
    <3>2. CASE i = 5
      BY <2>2, <2>3, <3>2, Made42, SMTT(30)
    <3>3. CASE i = 6
      BY <2>2, <2>3, <3>3, Made42, SMTT(30)
    <3>4. CASE i \in 7 .. 8
      BY <2>2, <2>3, <3>4, Made42, SMTT(30)
    <3>5. CASE i \in 9 .. 11
      BY <2>2, <2>3, <3>5, Made42, SMTT(30)
    <3> QED
      BY <2>2, <3>1, <3>2, <3>3, <3>4, <3>5
  <2> QED
    BY <1>12, <2>4
<1>13. CASE n = 48
  BY <1>13, Made48, SMTT(30) DEF Makes
<1> QED
  BY <1>1, <1>2, <1>3, <1>4, <1>5, <1>6, <1>7, <1>8, <1>9, <1>10, <1>11, <1>12, <1>13 DEF Making

LEMMA DueRange ==
    ASSUME NEW n, NEW db, NEW k, Due(db, n, k) PROVE k \in 0 .. Len(Steps(n)) - 1
BY DEF Due

LEMMA Clear1 ==
    ASSUME NEW db, NEW k, Due(db, 1, k)
    PROVE  ~Refused(db, Steps(1)[k + 1])
<1>1. k = 0
  <2>1. Len(migrations[1].tx) = 0 /\ Len(Steps(1)) = 8
    BY List1, Numbered
  <2>2. k \in 0 .. 7 /\ (k = 0 \/ k < 0)
    BY <2>1 DEF Due, RunOnce
  <2> QED
    BY <2>2
<1>2. k = 0 => No(db, "container_images")
  BY DEF Due, RunOnce, Exact, Names, As, Exists, Columns
<1>3. CASE k = 0
  BY <1>3, List1, CreateIfAbsentClear
<1> QED
  BY <1>1, <1>3

LEMMA Clear2 ==
    ASSUME NEW db, NEW k, Due(db, 2, k)
    PROVE  ~Refused(db, Steps(2)[k + 1])
<1>0. Len(Steps(2)) - 1 = 9
  BY List2
<1>1. k \in 0 .. 9
  BY <1>0, DueRange
<1>2. Here2(db, k)
  BY DEF Due, Amid, Here
<1>3. k = 0 => No(db, "container_images_new")
  BY DEF Due, RunOnce, Exact, Names, As, Exists, Columns
<1>4. CASE k = 0
  BY <1>4, List2, CreateClear, <1>3
<1>5. CASE k = 1
  BY <1>5, List2, CopySameClear, <1>2 DEF Here2, Images1, Stamps, Images2
<1>6. CASE k = 2
  BY <1>6, List2, CreateClear, <1>2 DEF Here2
<1>7. CASE k = 3
  <2> DEFINE needs == [container_instances |-> Instances2 \ {"repository", "tag"},
                       container_images |-> {"id", "digest", "repository", "tag"},
                       container_images_new |-> {"id", "digest"}]
  <2>1. Steps(2)[k + 1] = Copy("container_instances", needs, "container_instances_new", Instances2)
    BY <1>7, List2 DEF Instances2
  <2>2. /\ Is(db, "container_instances", Instances1) /\ Is(db, "container_images", Images1)
        /\ Is(db, "container_images_new", Images2)
        /\ Is(db, "container_instances_new", Instances2)
    BY <1>7, <1>2 DEF Here2, Due, Ready
  <2>3. \A t \in DOMAIN needs : HasColumns(db, t, needs[t])
    BY <2>2 DEF Instances1, Instances2, Images1, Images2, Stamps, Is, HasColumns
  <2> HIDE DEF needs
  <2> QED
    BY <2>1, <2>2, <2>3, CopyClear
<1>8. CASE k = 4
  BY <1>8, List2, DropClear, <1>2 DEF Here2
<1>9. CASE k = 5
  BY <1>9, List2, DropClear, <1>2 DEF Here2
<1>10. CASE k = 6
  BY <1>10, List2, RenameClear, <1>2 DEF Here2
<1>11. CASE k = 7
  BY <1>11, List2, RenameClear, <1>2 DEF Here2
<1>12. CASE k \in 8 .. 9
  BY <1>12, List2, IndexIfAbsentClear, <1>2 DEF Here2, Instances1, Instances2
<1> QED
  BY <1>1, <1>4, <1>5, <1>6, <1>7, <1>8, <1>9, <1>10, <1>11, <1>12

LEMMA Clear3 ==
    ASSUME NEW db, NEW k, Due(db, 3, k)
    PROVE  ~Refused(db, Steps(3)[k + 1])
<1>0. Len(Steps(3)) - 1 = 6
  BY List3
<1>1. k \in 0 .. 6
  BY <1>0, DueRange
<1>2. Here3(db, k)
  BY DEF Due, Amid, Here
<1>3. k = 0 => Is(db, "container_images", Images2)
  BY DEF Due, RunOnce, Exact, Names, As, Exists, Columns, ImageColumns
<1>4. CASE k = 0
  BY <1>4, List3, AddClear, <1>3 DEF Images2, Stamps
<1>5. CASE k \in 1 .. 3
  BY <1>5, List3, AddClear, <1>2 DEF Here3, Images2, Stamps, Images3
<1>6. CASE k \in 4 .. 5
  BY <1>6, List3, AddClear, <1>2 DEF Here3, Instances2, Instances3
<1>7. CASE k = 6
  BY <1>7, List3, IndexIfAbsentClear, <1>2 DEF Here3, Images2, Stamps, Images3
<1> QED
  BY <1>1, <1>4, <1>5, <1>6, <1>7

LEMMA Clear4 ==
    ASSUME NEW db, NEW k, Due(db, 4, k)
    PROVE  ~Refused(db, Steps(4)[k + 1])
<1>0. Len(Steps(4)) - 1 = 4
  BY List4
<1>1. k \in 0 .. 4
  BY <1>0, DueRange
<1>2. Here4(db, k)
  BY DEF Due, Amid, Here
<1>3. k = 0 => Is(db, "container_images", Images3)
  BY DEF Due, RunOnce, Exact, Names, As, Exists, Columns, ImageColumns
<1>4. CASE k = 0
  BY <1>4, List4, AddClear, <1>3 DEF Images3, Images2, Stamps
<1>5. CASE k \in 1 .. 3
  BY <1>5, List4, AddClear, <1>2 DEF Here4, Images3, Images2, Stamps, Images4
<1>6. CASE k = 4
  BY <1>6, List4, IndexIfAbsentClear, <1>2 DEF Here4, Images3, Images2, Stamps, Images4
<1> QED
  BY <1>1, <1>4, <1>5, <1>6

LEMMA Clear5 ==
    ASSUME NEW db, NEW k, Due(db, 5, k)
    PROVE  ~Refused(db, Steps(5)[k + 1])
<1>0. Len(Steps(5)) - 1 = 5
  BY List5
<1>1. k \in 0 .. 5
  BY <1>0, DueRange
<1>2. Here5(db, k)
  BY DEF Due, Amid, Here
<1>3. CASE k = 0
  BY <1>3, List5, CreateClear, <1>2 DEF Here5
<1>4. CASE k = 1
  BY <1>4, List5, CopySameClear, <1>2 DEF Here5, Images4, Images3, Images2, Stamps, Images5
<1>5. CASE k = 2
  BY <1>5, List5, DropClear, <1>2 DEF Here5
<1>6. CASE k = 3
  BY <1>6, List5, RenameClear, <1>2 DEF Here5
<1>7. CASE k \in 4 .. 5
  BY <1>7, List5, IndexIfAbsentClear, <1>2 DEF Here5, Images4, Images3, Images2, Stamps, Images5
<1> QED
  BY <1>1, <1>3, <1>4, <1>5, <1>6, <1>7

LEMMA Clear6 ==
    ASSUME NEW db, NEW k, Due(db, 6, k)
    PROVE  ~Refused(db, Steps(6)[k + 1])
<1>1. k \in 0 .. 7
  <2>1. Len(migrations[6].tx) = 8 /\ Len(Steps(6)) = 10
    BY List6, Numbered
  <2>2. k \in 0 .. 9 /\ (k = 0 \/ k < 8)
    BY <2>1 DEF Due, RunOnce
  <2> QED
    BY <2>2
<1>2. Here6(db, k)
  BY DEF Due, Amid, Here
<1>3. k = 0 => No(db, "packages")
  BY DEF Due, RunOnce, Exact, Names, As, Exists, Columns
<1>4. CASE k = 0
  BY <1>4, List6, CreateClear, <1>3
<1>5. CASE k \in 1 .. 2
  <2>1. Makes(Steps(6)[k + 1])
    BY <1>5, List6 DEF Makes, Index
  <2>2. 6 \in Making /\ k >= From(6)
    BY <1>5, Made6 DEF Making
  <2>3. Free(db, Steps(6)[k + 1].name)
    BY <2>1, <2>2, NameIsFree
  <2> QED
    BY <2>3, <1>5, List6, IndexClear, <1>2 DEF Index, Here6, PackageColumns
<1>6. CASE k = 3
  BY <1>6, List6, CreateClear, <1>2 DEF Here6
<1>7. CASE k \in 4 .. 6
  <2>1. Makes(Steps(6)[k + 1])
    BY <1>7, List6 DEF Makes, Index
  <2>2. 6 \in Making /\ k >= From(6)
    BY <1>7, Made6 DEF Making
  <2>3. Free(db, Steps(6)[k + 1].name)
    BY <2>1, <2>2, NameIsFree
  <2> QED
    BY <2>3, <1>7, List6, IndexClear, <1>2 DEF Index, Here6, Vulnerabilities6,
       VulnerabilityColumns
<1>8. CASE k = 7
  BY <1>8, List6, CreateClear, <1>2 DEF Here6
<1> QED
  BY <1>1, <1>4, <1>5, <1>6, <1>7, <1>8

LEMMA Clear7 ==
    ASSUME NEW db, NEW k, Due(db, 7, k)
    PROVE  ~Refused(db, Steps(7)[k + 1])
<1>0. Len(Steps(7)) - 1 = 3
  BY List7
<1>1. k \in 0 .. 3
  BY <1>0, DueRange
<1>2. Here7(db, k)
  BY DEF Due, Amid, Here
<1>3. k = 0 => Is(db, "vulnerabilities", Vulnerabilities6)
  BY DEF Due, RunOnce, Exact, Names, As, Exists, Columns, MatchColumnsAt
<1>4. CASE k = 0
  BY <1>4, List7, AddClear, <1>3 DEF Vulnerabilities6, VulnerabilityColumns
<1>5. CASE k \in 1 .. 3
  BY <1>5, List7, AddClear, <1>2 DEF Here7, Vulnerabilities6, VulnerabilityColumns,
     Vulnerabilities7, Scores
<1> QED
  BY <1>1, <1>4, <1>5

LEMMA Clear8 ==
    ASSUME NEW db, NEW k, Due(db, 8, k)
    PROVE  ~Refused(db, Steps(8)[k + 1])
<1>0. Len(Steps(8)) - 1 = 11
  BY List8
<1>1. k \in 0 .. 11
  BY <1>0, DueRange
<1>2. Here8(db, k)
  BY DEF Due, Amid, Here
<1>3. k = 0 => Is(db, "container_images", Images5)
  BY DEF Due, RunOnce, Exact, Names, As, Exists, Columns, ImageColumns
<1>4. CASE k = 0
  BY <1>4, List8, AddClear, <1>3 DEF Images5, Stamps
<1>5. CASE k \in 1 .. 3
  BY <1>5, List8, AddClear, <1>2 DEF Here8, Images5, Stamps, Images8
<1>6. CASE k = 4
  BY <1>6, List8, UsesClear, <1>2 DEF Here8, Images5, Stamps, Images8
<1>7. CASE k = 5
  BY <1>7, List8, IndexIfAbsentClear, <1>2 DEF Here8, Images5, Stamps, Images8
<1>8. CASE k = 6
  BY <1>8, List8, CreateClear, <1>2 DEF Here8
<1>9. CASE k = 7
  BY <1>9, List8, CopySameClear, <1>2 DEF Here8, Images5, Stamps, Images8
<1>10. CASE k = 8
  BY <1>10, List8, DropClear, <1>2 DEF Here8
<1>11. CASE k = 9
  BY <1>11, List8, RenameClear, <1>2 DEF Here8
<1>12. CASE k \in 10 .. 11
  <2>1. Makes(Steps(8)[k + 1])
    BY <1>12, List8 DEF Makes, Index
  <2>2. 8 \in Making /\ k >= From(8)
    BY <1>12, Made8 DEF Making
  <2>3. Free(db, Steps(8)[k + 1].name)
    BY <2>1, <2>2, NameIsFree
  <2> QED
    BY <2>3, <1>12, List8, IndexClear, <1>2 DEF Index, Here8, Images5, Stamps, Images8
<1> QED
  BY <1>1, <1>4, <1>5, <1>6, <1>7, <1>8, <1>9, <1>10, <1>11, <1>12

LEMMA Clear9 ==
    ASSUME NEW db, NEW k, Due(db, 9, k)
    PROVE  ~Refused(db, Steps(9)[k + 1])
<1>0. Len(Steps(9)) - 1 = 2
  BY List9
<1>1. k \in 0 .. 2
  BY <1>0, DueRange
<1>2. Here9(db, k)
  BY DEF Due, Amid, Here
<1>3. Is(db, "image_summary", Summary)
  <2>1. As(db, "image_summary", 8)
    BY Changed9 DEF Due, Amid, Around, Names
  <2> QED
    BY <2>1 DEF As, Exists, Columns
<1>4. k = 0 => Is(db, "container_images", Images8)
  BY DEF Due, RunOnce, Exact, Names, As, Exists, Columns, ImageColumns
<1>5. CASE k = 0
  BY <1>5, List9, AddClear, <1>4 DEF Images8, Stamps
<1>6. CASE k = 1
  BY <1>6, List9, AddClear, <1>2 DEF Here9, Images8, Stamps, Images9
<1>7. CASE k = 2
  BY <1>7, List9, UsesClear, <1>3 DEF Summary
<1> QED
  BY <1>1, <1>5, <1>6, <1>7

LEMMA Clear10 ==
    ASSUME NEW db, NEW k, Due(db, 10, k)
    PROVE  ~Refused(db, Steps(10)[k + 1])
<1>0. Len(Steps(10)) - 1 = 0
  BY List10
<1>1. k \in 0 .. 0
  BY <1>0, DueRange
<1>2. Here10(db, k)
  BY DEF Due, Amid, Here
<1>3. CASE k = 0
  BY <1>3, List10, DropIfPresentClear
<1> QED
  BY <1>1, <1>3

LEMMA Clear11 ==
    ASSUME NEW db, NEW k, Due(db, 11, k)
    PROVE  ~Refused(db, Steps(11)[k + 1])
<1>0. Len(Steps(11)) - 1 = 1
  BY List11
<1>1. k \in 0 .. 1
  BY <1>0, DueRange
<1>2. Here11(db, k)
  BY DEF Due, Amid, Here
<1>3. CASE k = 0
  BY <1>3, List11, CreateIfAbsentClear
<1>4. CASE k = 1
  BY <1>4, List11, SeedClear, <1>2 DEF Here11
<1> QED
  BY <1>1, <1>3, <1>4

LEMMA Clear12 ==
    ASSUME NEW db, NEW k, Due(db, 12, k)
    PROVE  ~Refused(db, Steps(12)[k + 1])
<1>0. Len(Steps(12)) - 1 = 5
  BY List12
<1>1. k \in 0 .. 5
  BY <1>0, DueRange
<1>2. Here12(db, k)
  BY DEF Due, Amid, Here
<1>3. CASE k = 0
  BY <1>3, List12, CreateClear, <1>2 DEF Here12
<1>4. CASE k = 1
  BY <1>4, List12, CopySameClear, <1>2 DEF Here12, PackageColumns
<1>5. CASE k = 2
  BY <1>5, List12, DropClear, <1>2 DEF Here12
<1>6. CASE k = 3
  BY <1>6, List12, RenameClear, <1>2 DEF Here12
<1>7. CASE k \in 4 .. 5
  <2>1. Makes(Steps(12)[k + 1])
    BY <1>7, List12 DEF Makes, Index
  <2>2. 12 \in Making /\ k >= From(12)
    BY <1>7, Made12 DEF Making
  <2>3. Free(db, Steps(12)[k + 1].name)
    BY <2>1, <2>2, NameIsFree
  <2> QED
    BY <2>3, <1>7, List12, IndexClear, <1>2 DEF Index, Here12, PackageColumns
<1> QED
  BY <1>1, <1>3, <1>4, <1>5, <1>6, <1>7

LEMMA Clear13 ==
    ASSUME NEW db, NEW k, Due(db, 13, k)
    PROVE  ~Refused(db, Steps(13)[k + 1])
<1>0. Len(Steps(13)) - 1 = 3
  BY List13
<1>1. k \in 0 .. 3
  BY <1>0, DueRange
<1>2. Here13(db, k)
  BY DEF Due, Amid, Here
<1>3. k = 0 => No(db, "vulnerability_details")
  BY DEF Due, RunOnce, Exact, Names, As, Exists, Columns
<1>4. CASE k = 0
  BY <1>4, List13, CreateClear, <1>3
<1>5. CASE k = 1
  <2>1. Makes(Steps(13)[k + 1])
    BY <1>5, List13 DEF Makes, Index
  <2>2. 13 \in Making /\ k >= From(13)
    BY <1>5, Made13 DEF Making
  <2>3. Free(db, Steps(13)[k + 1].name)
    BY <2>1, <2>2, NameIsFree
  <2> QED
    BY <2>3, <1>5, List13, IndexClear, <1>2 DEF Index, Here13, VulnerabilityDetails
<1>6. CASE k = 2
  BY <1>6, List13, CreateClear, <1>2 DEF Here13
<1>7. CASE k = 3
  <2>1. Makes(Steps(13)[k + 1])
    BY <1>7, List13 DEF Makes, Index
  <2>2. 13 \in Making /\ k >= From(13)
    BY <1>7, Made13 DEF Making
  <2>3. Free(db, Steps(13)[k + 1].name)
    BY <2>1, <2>2, NameIsFree
  <2> QED
    BY <2>3, <1>7, List13, IndexClear, <1>2 DEF Index, Here13, PackageDetails
<1> QED
  BY <1>1, <1>4, <1>5, <1>6, <1>7

LEMMA Clear14 ==
    ASSUME NEW db, NEW k, Due(db, 14, k)
    PROVE  ~Refused(db, Steps(14)[k + 1])
<1>0. Len(Steps(14)) - 1 = 2
  BY List14
<1>1. k \in 0 .. 2
  BY <1>0, DueRange
<1>2. Is(db, "container_images", Images9)
  <2>1. As(db, "container_images", 13)
    BY ChangedByPlain DEF Due, Amid, Around, Names, Plain
  <2> QED
    BY <2>1 DEF As, Exists, Columns, ImageColumns
<1>3. CASE k = 0
  BY <1>3, List14, UsesClear, <1>2 DEF Images9, Images8, Stamps, StoredDocuments
<1>4. CASE k = 1
  BY <1>4, List14, ReparseClear
<1>5. CASE k = 2
  BY <1>5, List14, ReparseClear
<1> QED
  BY <1>1, <1>3, <1>4, <1>5

LEMMA Clear15 ==
    ASSUME NEW db, NEW k, Due(db, 15, k)
    PROVE  ~Refused(db, Steps(15)[k + 1])
<1>0. Len(Steps(15)) - 1 = 4
  BY List15
<1>1. k \in 0 .. 4
  BY <1>0, DueRange
<1>2. /\ Is(db, "vulnerability_details", VulnerabilityDetails)
      /\ Is(db, "package_details", PackageDetails) /\ Is(db, "container_images", Images9)
  <2>1. /\ As(db, "vulnerability_details", 14) /\ As(db, "package_details", 14)
        /\ As(db, "container_images", 14)
    BY ChangedByPlain DEF Due, Amid, Around, Names, Plain
  <2> QED
    BY <2>1 DEF As, Exists, Columns, ImageColumns
<1>3. CASE k = 0
  BY <1>3, List15, ClearClear, <1>2
<1>4. CASE k = 1
  BY <1>4, List15, ClearClear, <1>2
<1>5. CASE k = 2
  BY <1>5, List15, UsesClear, <1>2 DEF Images9, Images8, Stamps, StoredDocuments
<1>6. CASE k = 3
  BY <1>6, List15, ReparseClear
<1>7. CASE k = 4
  BY <1>7, List15, ReparseClear
<1> QED
  BY <1>1, <1>3, <1>4, <1>5, <1>6, <1>7

LEMMA Clear16 ==
    ASSUME NEW db, NEW k, Due(db, 16, k)
    PROVE  ~Refused(db, Steps(16)[k + 1])
<1>0. Len(Steps(16)) - 1 = 2
  BY List16
<1>1. k \in 0 .. 2
  BY <1>0, DueRange
<1>2. /\ Is(db, "package_details", PackageDetails) /\ Is(db, "container_images", Images9)
  <2>1. /\ As(db, "package_details", 15) /\ As(db, "container_images", 15)
    BY ChangedByPlain DEF Due, Amid, Around, Names, Plain
  <2> QED
    BY <2>1 DEF As, Exists, Columns, ImageColumns
<1>3. CASE k = 0
  BY <1>3, List16, ClearClear, <1>2
<1>4. CASE k = 1
  BY <1>4, List16, UsesClear, <1>2 DEF Images9, Images8, Stamps, StoredDocuments
<1>5. CASE k = 2
  BY <1>5, List16, ReparseClear
<1> QED
  BY <1>1, <1>3, <1>4, <1>5

LEMMA Clear17 ==
    ASSUME NEW db, NEW k, Due(db, 17, k)
    PROVE  ~Refused(db, Steps(17)[k + 1])
<1>0. Len(Steps(17)) - 1 = 2
  BY List17
<1>1. k \in 0 .. 2
  BY <1>0, DueRange
<1>2. /\ Is(db, "package_details", PackageDetails) /\ Is(db, "container_images", Images9)
  <2>1. /\ As(db, "package_details", 16) /\ As(db, "container_images", 16)
    BY ChangedByPlain DEF Due, Amid, Around, Names, Plain
  <2> QED
    BY <2>1 DEF As, Exists, Columns, ImageColumns
<1>3. CASE k = 0
  BY <1>3, List17, ClearClear, <1>2
<1>4. CASE k = 1
  BY <1>4, List17, UsesClear, <1>2 DEF Images9, Images8, Stamps, StoredDocuments
<1>5. CASE k = 2
  BY <1>5, List17, ReparseClear
<1> QED
  BY <1>1, <1>3, <1>4, <1>5

LEMMA Clear18 ==
    ASSUME NEW db, NEW k, Due(db, 18, k)
    PROVE  ~Refused(db, Steps(18)[k + 1])
<1>0. Len(Steps(18)) - 1 = 2
  BY List18
<1>1. k \in 0 .. 2
  BY <1>0, DueRange
<1>2. /\ Is(db, "vulnerability_details", VulnerabilityDetails)
      /\ Is(db, "container_images", Images9)
  <2>1. /\ As(db, "vulnerability_details", 17) /\ As(db, "container_images", 17)
    BY ChangedByPlain DEF Due, Amid, Around, Names, Plain
  <2> QED
    BY <2>1 DEF As, Exists, Columns, ImageColumns
<1>3. CASE k = 0
  BY <1>3, List18, ClearClear, <1>2
<1>4. CASE k = 1
  BY <1>4, List18, UsesClear, <1>2 DEF Images9, Images8, Stamps, StoredDocuments
<1>5. CASE k = 2
  BY <1>5, List18, ReparseClear
<1> QED
  BY <1>1, <1>3, <1>4, <1>5

LEMMA Clear19 ==
    ASSUME NEW db, NEW k, Due(db, 19, k)
    PROVE  ~Refused(db, Steps(19)[k + 1])
<1>0. Len(Steps(19)) - 1 = 6
  BY List19
<1>1. k \in 0 .. 6
  BY <1>0, DueRange
<1>2. Here19(db, k)
  BY DEF Due, Amid, Here
<1>3. CASE k = 0
  BY <1>3, List19, CreateClear, <1>2 DEF Here19
<1>4. CASE k = 1
  BY <1>4, List19, CopySameClear, <1>2 DEF Here19, Vulnerabilities7, Vulnerabilities6,
     VulnerabilityColumns, Scores, Vulnerabilities19
<1>5. CASE k = 2
  BY <1>5, List19, DropClear, <1>2 DEF Here19
<1>6. CASE k = 3
  BY <1>6, List19, RenameClear, <1>2 DEF Here19
<1>7. CASE k \in 4 .. 6
  <2>1. Makes(Steps(19)[k + 1])
    BY <1>7, List19 DEF Makes, Index
  <2>2. 19 \in Making /\ k >= From(19)
    BY <1>7, Made19 DEF Making
  <2>3. Free(db, Steps(19)[k + 1].name)
    BY <2>1, <2>2, NameIsFree
  <2> QED
    BY <2>3, <1>7, List19, IndexClear, <1>2 DEF Index, Here19, Vulnerabilities7, Vulnerabilities6,
       VulnerabilityColumns, Scores, Vulnerabilities19
<1> QED
  BY <1>1, <1>3, <1>4, <1>5, <1>6, <1>7

LEMMA Clear20 ==
    ASSUME NEW db, NEW k, Due(db, 20, k)
    PROVE  ~Refused(db, Steps(20)[k + 1])
<1>0. Len(Steps(20)) - 1 = 2
  BY List20
<1>1. k \in 0 .. 2
  BY <1>0, DueRange
<1>2. /\ Is(db, "container_images", Images9) /\ Is(db, "container_instances", Instances3)
      /\ Is(db, "vulnerabilities", Vulnerabilities19)
  <2>1. /\ As(db, "container_images", 19) /\ As(db, "container_instances", 19)
        /\ As(db, "vulnerabilities", 19)
    BY ChangedByPlain DEF Due, Amid, Around, Names, Plain
  <2> QED
    BY <2>1 DEF As, Exists, Columns, ImageColumns, InstanceColumnsAt, MatchColumnsAt
<1>3. CASE k = 0
  BY <1>3, List20, IndexIfAbsentClear, <1>2 DEF Images9, Images8, Stamps
<1>4. CASE k = 1
  BY <1>4, List20, IndexIfAbsentClear, <1>2 DEF Instances3, Instances2
<1>5. CASE k = 2
  BY <1>5, List20, IndexIfAbsentClear, <1>2 DEF Vulnerabilities19, VulnerabilityColumns, Scores
<1> QED
  BY <1>1, <1>3, <1>4, <1>5

LEMMA Clear21 ==
    ASSUME NEW db, NEW k, Due(db, 21, k)
    PROVE  ~Refused(db, Steps(21)[k + 1])
<1>0. Len(Steps(21)) - 1 = 0
  BY List21
<1>1. k \in 0 .. 0
  BY <1>0, DueRange
<1>2. k = 0 => Is(db, "container_images", Images9)
  BY DEF Due, RunOnce, Exact, Names, As, Exists, Columns, ImageColumns
<1>3. CASE k = 0
  BY <1>3, List21, AddClear, <1>2 DEF Images9, Images8, Stamps
<1> QED
  BY <1>1, <1>3

LEMMA Clear22 ==
    ASSUME NEW db, NEW k, Due(db, 22, k)
    PROVE  ~Refused(db, Steps(22)[k + 1])
<1>0. Len(Steps(22)) - 1 = 3
  BY List22
<1>1. k \in 0 .. 3
  BY <1>0, DueRange
<1>2. Here22(db, k)
  BY DEF Due, Amid, Here
<1>3. k = 0 => No(db, "job_executions")
  BY DEF Due, RunOnce, Exact, Names, As, Exists, Columns
<1>4. CASE k = 0
  BY <1>4, List22, CreateClear, <1>3
<1>5. CASE k \in 1 .. 3
  <2>1. Makes(Steps(22)[k + 1])
    BY <1>5, List22 DEF Makes, Index
  <2>2. 22 \in Making /\ k >= From(22)
    BY <1>5, Made22 DEF Making
  <2>3. Free(db, Steps(22)[k + 1].name)
    BY <2>1, <2>2, NameIsFree
  <2> QED
    BY <2>3, <1>5, List22, IndexClear, <1>2 DEF Index, Here22, JobExecutions
<1> QED
  BY <1>1, <1>4, <1>5

LEMMA Clear23 ==
    ASSUME NEW db, NEW k, Due(db, 23, k)
    PROVE  ~Refused(db, Steps(23)[k + 1])
<1>0. Len(Steps(23)) - 1 = 0
  BY List23
<1>1. k \in 0 .. 0
  BY <1>0, DueRange
<1>2. k = 0 => No(db, "metric_staleness")
  BY DEF Due, RunOnce, Exact, Names, As, Exists, Columns
<1>3. CASE k = 0
  BY <1>3, List23, CreateClear, <1>2
<1> QED
  BY <1>1, <1>3

LEMMA Clear24 ==
    ASSUME NEW db, NEW k, Due(db, 24, k)
    PROVE  ~Refused(db, Steps(24)[k + 1])
<1>0. Len(Steps(24)) - 1 = 0
  BY List24
<1>1. k \in 0 .. 0
  BY <1>0, DueRange
<1>2. k = 0 => Is(db, "container_images", Images21)
  BY DEF Due, RunOnce, Exact, Names, As, Exists, Columns, ImageColumns
<1>3. CASE k = 0
  BY <1>3, List24, AddClear, <1>2 DEF Images21, Images9, Images8, Stamps
<1> QED
  BY <1>1, <1>3

LEMMA Clear25 ==
    ASSUME NEW db, NEW k, Due(db, 25, k)
    PROVE  ~Refused(db, Steps(25)[k + 1])
<1>0. Len(Steps(25)) - 1 = 0
  BY List25
<1>1. k \in 0 .. 0
  BY <1>0, DueRange
<1>2. Is(db, "container_images", Images24)
  <2>1. As(db, "container_images", 24)
    BY ChangedByPlain DEF Due, Amid, Around, Names, Plain
  <2> QED
    BY <2>1 DEF As, Exists, Columns, ImageColumns
<1>3. CASE k = 0
  BY <1>3, List25, UsesClear, <1>2 DEF Images24, Images21, Images9, Images8, Stamps
<1> QED
  BY <1>1, <1>3

LEMMA Clear26 ==
    ASSUME NEW db, NEW k, Due(db, 26, k)
    PROVE  ~Refused(db, Steps(26)[k + 1])
<1>0. Len(Steps(26)) - 1 = 0
  BY List26
<1>1. k \in 0 .. 0
  BY <1>0, DueRange
<1>2. k = 0 => /\ Is(db, "metric_staleness", States) /\ No(db, "app_state")
  BY DEF Due, RunOnce, Exact, Names, As, Exists, Columns, SeriesColumnsAt
<1>3. CASE k = 0
  BY <1>3, List26, RenameClear, <1>2
<1> QED
  BY <1>1, <1>3

LEMMA Clear27 ==
    ASSUME NEW db, NEW k, Due(db, 27, k)
    PROVE  ~Refused(db, Steps(27)[k + 1])
<1>1. k = 0
  <2>1. Len(migrations[27].tx) = 0 /\ Len(Steps(27)) = 2
    BY List27, Numbered
  <2>2. k \in 0 .. 1 /\ (k = 0 \/ k < 0)
    BY <2>1 DEF Due, RunOnce
  <2> QED
    BY <2>2
<1>2. k = 0 => Is(db, "container_instances", Instances3)
  BY DEF Due, RunOnce, Exact, Names, As, Exists, Columns, InstanceColumnsAt
<1>3. CASE k = 0
  BY <1>3, List27, AddClear, <1>2 DEF Instances3, Instances2
<1> QED
  BY <1>1, <1>3

LEMMA Clear28 ==
    ASSUME NEW db, NEW k, Due(db, 28, k)
    PROVE  ~Refused(db, Steps(28)[k + 1])
<1>0. Len(Steps(28)) - 1 = 6
  BY List28
<1>1. k \in 0 .. 6
  BY <1>0, DueRange
<1>2. Here28(db, k)
  BY DEF Due, Amid, Here
<1>3. CASE k = 0
  BY <1>3, List28, CreateClear, <1>2 DEF Here28
<1>4. CASE k = 1
  BY <1>4, List28, CopySameClear, <1>2 DEF Here28, Instances27, Instances3, Instances2,
     InstanceColumns
<1>5. CASE k = 2
  BY <1>5, List28, DropClear, <1>2 DEF Here28
<1>6. CASE k = 3
  BY <1>6, List28, RenameClear, <1>2 DEF Here28
<1>7. CASE k \in 4 .. 6
  <2>1. Makes(Steps(28)[k + 1])
    BY <1>7, List28 DEF Makes, Index
  <2>2. 28 \in Making /\ k >= From(28)
    BY <1>7, Made28 DEF Making
  <2>3. Free(db, Steps(28)[k + 1].name)
    BY <2>1, <2>2, NameIsFree
  <2> QED
    BY <2>3, <1>7, List28, IndexClear, <1>2 DEF Index, Here28, Instances27, Instances3,
       Instances2, InstanceColumns
<1> QED
  BY <1>1, <1>3, <1>4, <1>5, <1>6, <1>7

LEMMA Clear29 ==
    ASSUME NEW db, NEW k, Due(db, 29, k)
    PROVE  ~Refused(db, Steps(29)[k + 1])
<1>0. Len(Steps(29)) - 1 = 6
  BY List29
<1>1. k \in 0 .. 6
  BY <1>0, DueRange
<1>2. Here29(db, k)
  BY DEF Due, Amid, Here
<1>3. k = 0 => /\ Is(db, "container_images", Images24) /\ No(db, "images")
  BY DEF Due, RunOnce, Exact, Names, As, Exists, Columns, ImageColumns
<1>4. CASE k = 0
  BY <1>4, List29, RenameClear, <1>3
<1>5. CASE k = 1
  BY <1>5, List29, CreateClear, <1>2 DEF Here29
<1>6. CASE k = 2
  <2> DEFINE needs == [container_instances |-> InstanceColumns("container")]
  <2>1. Steps(29)[k + 1] = Copy("container_instances", needs, "containers",
                        InstanceColumns("name"))
    BY <1>6, List29
  <2>2. \A t \in DOMAIN needs : HasColumns(db, t, needs[t])
    BY <1>6, <1>2 DEF Here29, InstanceColumns, Is, HasColumns
  <2> HIDE DEF needs
  <2> QED
    BY <1>6, <2>1, <2>2, CopyClear, <1>2 DEF Here29, InstanceColumns
<1>7. CASE k = 3
  BY <1>7, List29, DropClear, <1>2 DEF Here29
<1>8. CASE k \in 4 .. 6
  <2>1. Makes(Steps(29)[k + 1])
    BY <1>8, List29 DEF Makes, Index
  <2>2. 29 \in Making /\ k >= From(29)
    BY <1>8, Made29 DEF Making
  <2>3. Free(db, Steps(29)[k + 1].name)
    BY <2>1, <2>2, NameIsFree
  <2> QED
    BY <2>3, <1>8, List29, IndexClear, <1>2 DEF Index, Here29, InstanceColumns
<1> QED
  BY <1>1, <1>4, <1>5, <1>6, <1>7, <1>8

LEMMA Clear30 ==
    ASSUME NEW db, NEW k, Due(db, 30, k)
    PROVE  ~Refused(db, Steps(30)[k + 1])
<1>0. Len(Steps(30)) - 1 = 8
  BY List30
<1>1. k \in 0 .. 8
  BY <1>0, DueRange
<1>2. Here30(db, k)
  BY DEF Due, Amid, Here
<1>3. k = 0 => No(db, "nodes")
  BY DEF Due, RunOnce, Exact, Names, As, Exists, Columns
<1>4. CASE k = 0
  BY <1>4, List30, CreateClear, <1>3
<1>5. CASE k = 1
  BY <1>5, List30, CreateClear, <1>2 DEF Here30
<1>6. CASE k = 2
  BY <1>6, List30, CreateClear, <1>2 DEF Here30
<1>7. CASE k = 3
  <2>1. Makes(Steps(30)[k + 1])
    BY <1>7, List30 DEF Makes, Index
  <2>2. 30 \in Making /\ k >= From(30)
    BY <1>7, Made30 DEF Making
  <2>3. Free(db, Steps(30)[k + 1].name)
    BY <2>1, <2>2, NameIsFree
  <2> QED
    BY <2>3, <1>7, List30, IndexClear, <1>2 DEF Index, Here30, Nodes30, Stamps
<1>8. CASE k \in 4 .. 5
  <2>1. Makes(Steps(30)[k + 1])
    BY <1>8, List30 DEF Makes, Index
  <2>2. 30 \in Making /\ k >= From(30)
    BY <1>8, Made30 DEF Making
  <2>3. Free(db, Steps(30)[k + 1].name)
    BY <2>1, <2>2, NameIsFree
  <2> QED
    BY <2>3, <1>8, List30, IndexClear, <1>2 DEF Index, Here30, NodePackages30
<1>9. CASE k \in 6 .. 8
  <2>1. Makes(Steps(30)[k + 1])
    BY <1>9, List30 DEF Makes, Index
  <2>2. 30 \in Making /\ k >= From(30)
    BY <1>9, Made30 DEF Making
  <2>3. Free(db, Steps(30)[k + 1].name)
    BY <2>1, <2>2, NameIsFree
  <2> QED
    BY <2>3, <1>9, List30, IndexClear, <1>2 DEF Index, Here30, NodeMatchColumns
<1> QED
  BY <1>1, <1>4, <1>5, <1>6, <1>7, <1>8, <1>9

LEMMA Clear31 ==
    ASSUME NEW db, NEW k, Due(db, 31, k)
    PROVE  ~Refused(db, Steps(31)[k + 1])
<1>0. Len(Steps(31)) - 1 = 3
  BY List31
<1>1. k \in 0 .. 3
  BY <1>0, DueRange
<1>2. /\ Is(db, "node_vulnerabilities", NodeMatchColumns)
      /\ Is(db, "node_packages", NodePackages30)
  <2>1. /\ As(db, "node_vulnerabilities", 30) /\ As(db, "node_packages", 30)
    BY ChangedByPlain DEF Due, Amid, Around, Names, Plain
  <2> QED
    BY <2>1 DEF As, Exists, Columns, NodeMatchColumnsAt
<1>3. CASE k \in 0 .. 2
  BY <1>3, List31, IndexIfAbsentClear, <1>2 DEF NodeMatchColumns
<1>4. CASE k = 3
  BY <1>4, List31, IndexIfAbsentClear, <1>2 DEF NodePackages30
<1> QED
  BY <1>1, <1>3, <1>4

LEMMA Clear32 ==
    ASSUME NEW db, NEW k, Due(db, 32, k)
    PROVE  ~Refused(db, Steps(32)[k + 1])
<1>0. Len(Steps(32)) - 1 = 0
  BY List32
<1>1. k \in 0 .. 0
  BY <1>0, DueRange
<1>2. k = 0 => Is(db, "node_packages", NodePackages30)
  BY DEF Due, RunOnce, Exact, Names, As, Exists, Columns
<1>3. CASE k = 0
  BY <1>3, List32, AddClear, <1>2 DEF NodePackages30
<1> QED
  BY <1>1, <1>3

LEMMA Clear33 ==
    ASSUME NEW db, NEW k, Due(db, 33, k)
    PROVE  ~Refused(db, Steps(33)[k + 1])
<1>0. Len(Steps(33)) - 1 = 7
  BY List33
<1>1. k \in 0 .. 7
  BY <1>0, DueRange
<1>2. Here33(db, k)
  BY DEF Due, Amid, Here
<1>3. CASE k = 0
  BY <1>3, List33, CreateClear, <1>2 DEF Here33
<1>4. CASE k = 1
  <2> DEFINE needs == [node_vulnerabilities |-> NodeMatchColumns \ {"id"}]
  <2>1. Steps(33)[k + 1] = Copy("node_vulnerabilities", needs, "node_vulnerabilities_new",
                        (NodeMatchColumns \ {"id"}) \cup {"count"})
    BY <1>4, List33
  <2>2. \A t \in DOMAIN needs : HasColumns(db, t, needs[t])
    BY <1>4, <1>2 DEF Here33, NodeMatches33, NodeMatchColumns, Is, HasColumns
  <2> HIDE DEF needs
  <2> QED
    BY <1>4, <2>1, <2>2, CopyClear, <1>2 DEF Here33, NodeMatches33, NodeMatchColumns
<1>5. CASE k = 2
  BY <1>5, List33, DropClear, <1>2 DEF Here33
<1>6. CASE k = 3
  BY <1>6, List33, RenameClear, <1>2 DEF Here33
<1>7. CASE k \in 4 .. 7
  <2>1. Makes(Steps(33)[k + 1])
    BY <1>7, List33 DEF Makes, Index
  <2>2. 33 \in Making /\ k >= From(33)
    BY <1>7, Made33 DEF Making
  <2>3. Free(db, Steps(33)[k + 1].name)
    BY <2>1, <2>2, NameIsFree
  <2> QED
    BY <2>3, <1>7, List33, IndexClear, <1>2 DEF Index, Here33, NodeMatches33, NodeMatchColumns
<1> QED
  BY <1>1, <1>3, <1>4, <1>5, <1>6, <1>7

LEMMA Clear34 ==
    ASSUME NEW db, NEW k, Due(db, 34, k)
    PROVE  ~Refused(db, Steps(34)[k + 1])
<1>0. Len(Steps(34)) - 1 = 5
  BY List34
<1>1. k \in 0 .. 5
  BY <1>0, DueRange
<1>2. Here34(db, k)
  BY DEF Due, Amid, Here
<1>3. /\ Is(db, "node_vulnerabilities", NodeMatches33) /\ Is(db, "node_packages", NodePackages32)
  <2>1. /\ As(db, "node_vulnerabilities", 33) /\ As(db, "node_packages", 33)
    BY Changed34 DEF Due, Amid, Around, Names
  <2> QED
    BY <2>1 DEF As, Exists, Columns, NodeMatchColumnsAt
<1>4. k = 0 => No(db, "node_vulnerability_details")
  BY DEF Due, RunOnce, Exact, Names, As, Exists, Columns
<1>5. CASE k = 0
  BY <1>5, List34, CreateClear, <1>4
<1>6. CASE k = 1
  <2>1. Makes(Steps(34)[k + 1])
    BY <1>6, List34 DEF Makes, Index
  <2>2. 34 \in Making /\ k >= From(34)
    BY <1>6, Made34 DEF Making
  <2>3. Free(db, Steps(34)[k + 1].name)
    BY <2>1, <2>2, NameIsFree
  <2> QED
    BY <2>3, <1>6, List34, IndexClear, <1>2 DEF Index, Here34, NodeMatchDetails
<1>7. CASE k = 2
  BY <1>7, List34, CreateClear, <1>2 DEF Here34
<1>8. CASE k = 3
  <2>1. Makes(Steps(34)[k + 1])
    BY <1>8, List34 DEF Makes, Index
  <2>2. 34 \in Making /\ k >= From(34)
    BY <1>8, Made34 DEF Making
  <2>3. Free(db, Steps(34)[k + 1].name)
    BY <2>1, <2>2, NameIsFree
  <2> QED
    BY <2>3, <1>8, List34, IndexClear, <1>2 DEF Index, Here34, NodePackageDetails
<1>9. CASE k = 4
  <2> DEFINE needs == [node_vulnerabilities |-> {"id", "details"}]
  <2>1. Steps(34)[k + 1] = Copy("node_vulnerabilities", needs, "node_vulnerability_details",
                        {"node_vulnerability_id", "details"})
    BY <1>9, List34
  <2>2. \A t \in DOMAIN needs : HasColumns(db, t, needs[t])
    BY <1>9, <1>2, <1>3 DEF Here34, NodeMatches33, NodeMatchColumns, NodeMatchDetails, Is,
       HasColumns
  <2> HIDE DEF needs
  <2> QED
    BY <1>9, <2>1, <2>2, CopyClear, <1>2, <1>3 DEF Here34, NodeMatches33, NodeMatchColumns,
       NodeMatchDetails
<1>10. CASE k = 5
  <2> DEFINE needs == [node_packages |-> {"id", "details"}]
  <2>1. Steps(34)[k + 1] = Copy("node_packages", needs, "node_package_details",
                        {"node_package_id", "details"})
    BY <1>10, List34
  <2>2. \A t \in DOMAIN needs : HasColumns(db, t, needs[t])
    BY <1>10, <1>2, <1>3 DEF Here34, NodePackages32, NodePackages30, NodePackageDetails, Is,
       HasColumns
  <2> HIDE DEF needs
  <2> QED
    BY <1>10, <2>1, <2>2, CopyClear, <1>2, <1>3 DEF Here34, NodePackages32, NodePackages30,
       NodePackageDetails
<1> QED
  BY <1>1, <1>5, <1>6, <1>7, <1>8, <1>9, <1>10

LEMMA Clear35 ==
    ASSUME NEW db, NEW k, Due(db, 35, k)
    PROVE  ~Refused(db, Steps(35)[k + 1])
<1>1. k = 0
  <2>1. Len(migrations[35].tx) = 0 /\ Len(Steps(35)) = 2
    BY List35, Numbered
  <2>2. k \in 0 .. 1 /\ (k = 0 \/ k < 0)
    BY <2>1 DEF Due, RunOnce
  <2> QED
    BY <2>2
<1>2. k = 0 => Is(db, "nodes", Nodes30)
  BY DEF Due, RunOnce, Exact, Names, As, Exists, Columns, NodeColumns
<1>3. CASE k = 0
  BY <1>3, List35, AddClear, <1>2 DEF Nodes30, Stamps
<1> QED
  BY <1>1, <1>3

LEMMA Clear36 ==
    ASSUME NEW db, NEW k, Due(db, 36, k)
    PROVE  ~Refused(db, Steps(36)[k + 1])
<1>0. Len(Steps(36)) - 1 = 1
  BY List36
<1>1. k \in 0 .. 1
  BY <1>0, DueRange
<1>2. Here36(db, k)
  BY DEF Due, Amid, Here
<1>3. CASE k = 0
  BY <1>3, List36, CreateIfAbsentClear
<1>4. CASE k = 1
  BY <1>4, List36, IndexIfAbsentClear, <1>2 DEF Here36, Series36, SeriesColumns
<1> QED
  BY <1>1, <1>3, <1>4

LEMMA Clear37 ==
    ASSUME NEW db, NEW k, Due(db, 37, k)
    PROVE  ~Refused(db, Steps(37)[k + 1])
<1>1. k = 0
  <2>1. Len(migrations[37].tx) = 0 /\ Len(Steps(37)) = 5
    BY List37, Numbered
  <2>2. k \in 0 .. 4 /\ (k = 0 \/ k < 0)
    BY <2>1 DEF Due, RunOnce
  <2> QED
    BY <2>2
<1>2. k = 0 => No(db, "metric_staleness_v37")
  BY DEF Due, RunOnce, Exact, Names, As, Exists, Columns
<1>3. CASE k = 0
  BY <1>3, List37, CreateClear, <1>2
<1> QED
  BY <1>1, <1>3

LEMMA Clear38 ==
    ASSUME NEW db, NEW k, Due(db, 38, k)
    PROVE  ~Refused(db, Steps(38)[k + 1])
<1>0. Len(Steps(38)) - 1 = 0
  BY List38
<1>1. k \in 0 .. 0
  BY <1>0, DueRange
<1>2. Is(db, "vulnerabilities", Vulnerabilities19)
  <2>1. As(db, "vulnerabilities", 37)
    BY ChangedByPlain DEF Due, Amid, Around, Names, Plain
  <2> QED
    BY <2>1 DEF As, Exists, Columns, MatchColumnsAt
<1>3. CASE k = 0
  BY <1>3, List38, IndexIfAbsentClear, <1>2 DEF Vulnerabilities19, VulnerabilityColumns, Scores
<1> QED
  BY <1>1, <1>3

LEMMA Clear39 ==
    ASSUME NEW db, NEW k, Due(db, 39, k)
    PROVE  ~Refused(db, Steps(39)[k + 1])
<1>0. Len(Steps(39)) - 1 = 0
  BY List39
<1>1. k \in 0 .. 0
  BY <1>0, DueRange
<1>2. Is(db, "node_vulnerabilities", NodeMatches33)
  <2>1. As(db, "node_vulnerabilities", 38)
    BY ChangedByPlain DEF Due, Amid, Around, Names, Plain
  <2> QED
    BY <2>1 DEF As, Exists, Columns, NodeMatchColumnsAt
<1>3. CASE k = 0
  BY <1>3, List39, IndexIfAbsentClear, <1>2 DEF NodeMatches33, NodeMatchColumns
<1> QED
  BY <1>1, <1>3

LEMMA Clear40 ==
    ASSUME NEW db, NEW k, Due(db, 40, k)
    PROVE  ~Refused(db, Steps(40)[k + 1])
<1>0. Len(Steps(40)) - 1 = 2
  BY List40
<1>1. k \in 0 .. 2
  BY <1>0, DueRange
<1>2. /\ Is(db, "vulnerabilities", Vulnerabilities19) /\ Is(db, "images", Images24)
  <2>1. /\ As(db, "vulnerabilities", 39) /\ As(db, "images", 39)
    BY ChangedByPlain DEF Due, Amid, Around, Names, Plain
  <2> QED
    BY <2>1 DEF As, Exists, Columns, ImageColumns, MatchColumnsAt
<1>3. CASE k \in 0 .. 1
  BY <1>3, List40, IndexIfAbsentClear, <1>2 DEF Vulnerabilities19, VulnerabilityColumns, Scores
<1>4. CASE k = 2
  BY <1>4, List40, IndexIfAbsentClear, <1>2 DEF Images24, Images21, Images9, Images8, Stamps
<1> QED
  BY <1>1, <1>3, <1>4

LEMMA Clear41 ==
    ASSUME NEW db, NEW k, Due(db, 41, k)
    PROVE  ~Refused(db, Steps(41)[k + 1])
<1>0. Len(Steps(41)) - 1 = 0
  BY List41
<1>1. k \in 0 .. 0
  BY <1>0, DueRange
<1>2. CASE k = 0
  BY <1>2, List41, DropIndexClear
<1> QED
  BY <1>1, <1>2

LEMMA Clear42 ==
    ASSUME NEW db, NEW k, Due(db, 42, k), ~Collides(db, 42, k)
    PROVE  ~Refused(db, Steps(42)[k + 1])
<1>0. Len(Steps(42)) - 1 = 10
  BY List42
<1>1. k \in 0 .. 10
  BY <1>0, DueRange
<1>2. Here42(db, k)
  BY DEF Due, Amid, Here
<1>3. Is(db, "node_packages", NodePackages32)
  <2>1. As(db, "node_packages", 41)
    BY Changed42 DEF Due, Amid, Around, Names
  <2> QED
    BY <2>1 DEF As, Exists, Columns
<1>4. k = 0 => No(db, "node_vulnerabilities_new")
  BY DEF Due, RunOnce, Exact, Names, As, Exists, Columns
<1>5. CASE k = 0
  BY <1>5, List42, CreateClear, <1>4
<1>6. CASE k = 1
  <2> DEFINE kept == {"id", "node_id", "cve_id", "severity", "fix_status", "fix_version",
                      "known_exploited", "count", "created_at"}
             copied == kept \cup {"package_name", "package_version", "package_type", "risk"}
             needs == [node_vulnerabilities |-> kept \cup {"package_id", "score"},
                       node_packages |-> {"id", "name", "version", "type"}]
  <2>1. /\ Steps(42)[k + 1] =
                 CopyNarrower("node_vulnerabilities", needs, "node_vulnerabilities_new", copied)
        /\ "node_vulnerabilities" \notin db.twins
    BY <1>6, List42 DEF Collides
  <2>2. /\ Is(db, "node_vulnerabilities", NodeMatches33)
        /\ Is(db, "node_vulnerabilities_new", NodeMatches42)
    BY <1>6, <1>2 DEF Here42, Due, Ready
  <2>3. \A t \in DOMAIN needs : HasColumns(db, t, needs[t])
    BY <2>2, <1>3 DEF NodeMatches33, NodeMatchColumns, NodePackages32, NodePackages30, Is,
       HasColumns
  <2>4. copied \subseteq NodeMatches42
    BY DEF NodeMatches42
  <2> HIDE DEF needs, copied
  <2> QED
    BY <2>1, <2>2, <2>3, <2>4, CopyNarrowerClear
<1>7. CASE k = 2
  BY <1>7, List42, DropClear, <1>2 DEF Here42
<1>8. CASE k = 3
  BY <1>8, List42, RenameClear, <1>2 DEF Here42
<1>9. CASE k \in 4 .. 7
  <2>1. Makes(Steps(42)[k + 1])
    BY <1>9, List42 DEF Makes, Index
  <2>2. 42 \in Making /\ k >= From(42)
    BY <1>9, Made42 DEF Making
  <2>3. Free(db, Steps(42)[k + 1].name)
    BY <2>1, <2>2, NameIsFree
  <2> QED
    BY <2>3, <1>9, List42, IndexClear, <1>2 DEF Index, Here42, NodeMatches33, NodeMatchColumns,
       NodeMatches42
<1>10. CASE k \in 8 .. 10
  <2>1. Makes(Steps(42)[k + 1])
    BY <1>10, List42 DEF Makes, Index
  <2>2. 42 \in Making /\ k >= From(42)
    BY <1>10, Made42 DEF Making
  <2>3. Free(db, Steps(42)[k + 1].name)
    BY <2>1, <2>2, NameIsFree
  <2> QED
    BY <2>3, <1>10, List42, IndexClear, <1>2 DEF Index, Here42, NodeMatches33, NodeMatchColumns,
       NodeMatches42
<1> QED
  BY <1>1, <1>5, <1>6, <1>7, <1>8, <1>9, <1>10

LEMMA Clear43 ==
    ASSUME NEW db, NEW k, Due(db, 43, k)
    PROVE  ~Refused(db, Steps(43)[k + 1])
<1>1. k = 0
  <2>1. Len(migrations[43].tx) = 0 /\ Len(Steps(43)) = 4
    BY List43, Numbered
  <2>2. k \in 0 .. 3 /\ (k = 0 \/ k < 0)
    BY <2>1 DEF Due, RunOnce
  <2> QED
    BY <2>2
<1>2. k = 0 => /\ Is(db, "vulnerabilities", Vulnerabilities19) /\ No(db, "image_vulnerabilities")
  BY DEF Due, RunOnce, Exact, Names, As, Exists, Columns, MatchColumnsAt
<1>3. CASE k = 0
  BY <1>3, List43, RenameClear, <1>2
<1> QED
  BY <1>1, <1>3

LEMMA Clear44 ==
    ASSUME NEW db, NEW k, Due(db, 44, k)
    PROVE  ~Refused(db, Steps(44)[k + 1])
<1>1. k = 0
  <2>1. Len(migrations[44].tx) = 0 /\ Len(Steps(44)) = 2
    BY List44, Numbered
  <2>2. k \in 0 .. 1 /\ (k = 0 \/ k < 0)
    BY <2>1 DEF Due, RunOnce
  <2> QED
    BY <2>2
<1>2. k = 0 => Is(db, "image_packages", PackageColumns)
  BY DEF Due, RunOnce, Exact, Names, As, Exists, Columns
<1>3. CASE k = 0
  BY <1>3, List44, AddClear, <1>2 DEF PackageColumns
<1> QED
  BY <1>1, <1>3

LEMMA Clear45 ==
    ASSUME NEW db, NEW k, Due(db, 45, k)
    PROVE  ~Refused(db, Steps(45)[k + 1])
<1>0. Len(Steps(45)) - 1 = 21
  BY List45
<1>1. k \in 0 .. 21
  BY <1>0, DueRange
<1>2. /\ Is(db, "image_vulnerabilities", Vulnerabilities19)
      /\ Is(db, "image_packages", Packages44)
      /\ Is(db, "image_vulnerability_details", VulnerabilityDetails)
      /\ Is(db, "image_package_details", PackageDetails)
  <2>1. /\ As(db, "image_vulnerabilities", 44) /\ As(db, "image_packages", 44)
        /\ As(db, "image_vulnerability_details", 44) /\ As(db, "image_package_details", 44)
    BY ChangedByPlain DEF Due, Amid, Around, Names, Plain
  <2> QED
    BY <2>1 DEF As, Exists, Columns, MatchColumnsAt
<1>3. CASE k \in 0 .. 3
  BY <1>3, List45, DropIndexClear, SMTT(30)
<1>4. CASE k \in 4 .. 6
  BY <1>4, List45, DropIndexClear, SMTT(30)
<1>5. CASE k \in 7 .. 10
  BY <1>5, List45, IndexIfAbsentClear, <1>2 DEF Vulnerabilities19, VulnerabilityColumns, Scores
<1>6. CASE k \in 11 .. 13
  <2>1. CASE k = 11
    BY <2>1, List45, IndexIfAbsentClear, <1>2 DEF Vulnerabilities19, VulnerabilityColumns, Scores
  <2>2. CASE k = 12
    BY <2>2, List45, IndexIfAbsentClear, <1>2 DEF Vulnerabilities19, VulnerabilityColumns, Scores
  <2>3. CASE k = 13
    BY <2>3, List45, IndexIfAbsentClear, <1>2 DEF Vulnerabilities19, VulnerabilityColumns, Scores
  <2> QED
    BY <1>6, <2>1, <2>2, <2>3
<1>7. CASE k \in 14 .. 15
  BY <1>7, List45, DropIndexClear, SMTT(30)
<1>8. CASE k \in 16 .. 17
  BY <1>8, List45, IndexIfAbsentClear, <1>2, SMTT(30) DEF Packages44, PackageColumns
<1>9. CASE k = 18
  BY <1>9, List45, DropIndexClear
<1>10. CASE k = 19
  BY <1>10, List45, IndexIfAbsentClear, <1>2 DEF VulnerabilityDetails
<1>11. CASE k = 20
  BY <1>11, List45, DropIndexClear
<1>12. CASE k = 21
  BY <1>12, List45, IndexIfAbsentClear, <1>2 DEF PackageDetails
<1> QED
  BY <1>1, <1>3, <1>4, <1>5, <1>6, <1>7, <1>8, <1>9, <1>10, <1>11, <1>12

LEMMA Clear46 ==
    ASSUME NEW db, NEW k, Due(db, 46, k)
    PROVE  ~Refused(db, Steps(46)[k + 1])
<1>0. Len(Steps(46)) - 1 = 1
  BY List46
<1>1. k \in 0 .. 1
  BY <1>0, DueRange
<1>2. /\ Is(db, "node_vulnerability_details", NodeMatchDetails)
      /\ Is(db, "node_package_details", NodePackageDetails)
  <2>1. /\ As(db, "node_vulnerability_details", 45) /\ As(db, "node_package_details", 45)
    BY ChangedByPlain DEF Due, Amid, Around, Names, Plain
  <2> QED
    BY <2>1 DEF As, Exists, Columns
<1>3. CASE k = 0
  BY <1>3, List46, UsesClear, <1>2 DEF NodeMatchDetails
<1>4. CASE k = 1
  BY <1>4, List46, UsesClear, <1>2 DEF NodePackageDetails
<1> QED
  BY <1>1, <1>3, <1>4

LEMMA Clear47 ==
    ASSUME NEW db, NEW k, Due(db, 47, k)
    PROVE  ~Refused(db, Steps(47)[k + 1])
<1>1. k = 0
  <2>1. Len(migrations[47].tx) = 0 /\ Len(Steps(47)) = 4
    BY List47, Numbered
  <2>2. k \in 0 .. 3 /\ (k = 0 \/ k < 0)
    BY <2>1 DEF Due, RunOnce
  <2> QED
    BY <2>2
<1>2. k = 0 => Is(db, "nodes", Nodes35)
  BY DEF Due, RunOnce, Exact, Names, As, Exists, Columns, NodeColumns
<1>3. CASE k = 0
  BY <1>3, List47, AddClear, <1>2 DEF Nodes35, Nodes30, Stamps
<1> QED
  BY <1>1, <1>3

LEMMA Clear48 ==
    ASSUME NEW db, NEW k, Due(db, 48, k)
    PROVE  ~Refused(db, Steps(48)[k + 1])
<1>0. Len(Steps(48)) - 1 = 2
  BY List48
<1>1. k \in 0 .. 2
  BY <1>0, DueRange
<1>2. Here48(db, k)
  BY DEF Due, Amid, Here
<1>3. CASE k = 0
  BY <1>3, List48, DropIfPresentClear
<1>4. CASE k = 1
  BY <1>4, List48, CreateClear, <1>2 DEF Here48
<1>5. CASE k = 2
  <2>1. Makes(Steps(48)[k + 1])
    BY <1>5, List48 DEF Makes, Index
  <2>2. 48 \in Making /\ k >= From(48)
    BY <1>5, Made48 DEF Making
  <2>3. Free(db, Steps(48)[k + 1].name)
    BY <2>1, <2>2, NameIsFree
  <2> QED
    BY <2>3, <1>5, List48, IndexClear, <1>2 DEF Index, Here48, Series48, SeriesColumns
<1> QED
  BY <1>1, <1>3, <1>4, <1>5

LEMMA Clear49 ==
    ASSUME NEW db, NEW k, Due(db, 49, k)
    PROVE  ~Refused(db, Steps(49)[k + 1])
<1>0. Len(Steps(49)) - 1 = 1
  BY List49
<1>1. k \in 0 .. 1
  BY <1>0, DueRange
<1>2. /\ Is(db, "image_vulnerabilities", Vulnerabilities19)
      /\ Is(db, "containers", InstanceColumns("name"))
  <2>1. /\ As(db, "image_vulnerabilities", 48) /\ As(db, "containers", 48)
    BY ChangedByPlain DEF Due, Amid, Around, Names, Plain
  <2> QED
    BY <2>1 DEF As, Exists, Columns, MatchColumnsAt
<1>3. CASE k = 0
  BY <1>3, List49, IndexIfAbsentClear, <1>2 DEF Vulnerabilities19, VulnerabilityColumns, Scores
<1>4. CASE k = 1
  BY <1>4, List49, IndexIfAbsentClear, <1>2 DEF InstanceColumns
<1> QED
  BY <1>1, <1>3, <1>4

LEMMA Clear50 ==
    ASSUME NEW db, NEW k, Due(db, 50, k)
    PROVE  ~Refused(db, Steps(50)[k + 1])
<1>0. Len(Steps(50)) - 1 = 0
  BY List50
<1>1. k \in 0 .. 0
  BY <1>0, DueRange
<1>2. Is(db, "node_vulnerabilities", NodeMatches42)
  <2>1. As(db, "node_vulnerabilities", 49)
    BY ChangedByPlain DEF Due, Amid, Around, Names, Plain
  <2> QED
    BY <2>1 DEF As, Exists, Columns, NodeMatchColumnsAt
<1>3. CASE k = 0
  BY <1>3, List50, IndexIfAbsentClear, <1>2 DEF NodeMatches42
<1> QED
  BY <1>1, <1>3

LEMMA Clear51 ==
    ASSUME NEW db, NEW k, Due(db, 51, k)
    PROVE  ~Refused(db, Steps(51)[k + 1])
<1>0. Len(Steps(51)) - 1 = 7
  BY List51
<1>1. k \in 0 .. 7
  BY <1>0, DueRange
<1>2. Is(db, "scan_status", StatusColumns)
  <2>1. As(db, "scan_status", 50)
    BY ChangedByPlain DEF Due, Amid, Around, Names, Plain
  <2> QED
    BY <2>1 DEF As, Exists, Columns
<1>3. CASE k = 0
  BY <1>3, List51, SeedClear, <1>2
<1>4. CASE k \in 1 .. 4
  BY <1>4, List51, SeedClear, <1>2
<1>5. CASE k \in 5 .. 7
  BY <1>5, List51, SeedClear, <1>2
<1> QED
  BY <1>1, <1>3, <1>4, <1>5

\* Every statement of every migration puts its indexes where they may lie.
LEMMA StatementsHonest ==
    ASSUME NEW n \in 1 .. 51, NEW i \in 1 .. Len(Steps(n))
    PROVE  Honest(Steps(n)[i])
<1>1. CASE n = 1
  <2>1. i \in 1 .. 8
    BY <1>1, List1
  <2>2. CASE i \in {1, 4, 7, 8}
    BY <1>1, <2>2, List1, OthersHonest
  <2>3. CASE i \in {2, 3, 5}
    BY <1>1, <2>3, List1, IndexHonest, SMTT(30) DEF Rebuilt, Indexes, On
  <2>4. CASE i = 6
    BY <1>1, <2>4, List1, IndexHonest DEF Rebuilt, Indexes, On
  <2> QED
    BY <2>1, <2>2, <2>3, <2>4
<1>2. CASE n = 2
  <2>1. i \in 1 .. 10
    BY <1>2, List2
  <2>2. CASE i \in 1 .. 6
    BY <1>2, <2>2, List2, OthersHonest
  <2>3. CASE i \in 7 .. 8
    BY <1>2, <2>3, List2, RenameHonest
  <2>4. CASE i \in 9 .. 10
    BY <1>2, <2>4, List2, IndexHonest, SMTT(30) DEF Rebuilt, Indexes, On
  <2> QED
    BY <2>1, <2>2, <2>3, <2>4
<1>3. CASE n = 3
  <2>1. i \in 1 .. 7
    BY <1>3, List3
  <2>2. CASE i \in 1 .. 6
    BY <1>3, <2>2, List3, OthersHonest
  <2>3. CASE i = 7
    BY <1>3, <2>3, List3, IndexHonest DEF Rebuilt, Indexes, On
  <2> QED
    BY <2>1, <2>2, <2>3
<1>4. CASE n = 4
  <2>1. i \in 1 .. 5
    BY <1>4, List4
  <2>2. CASE i \in 1 .. 4
    BY <1>4, <2>2, List4, OthersHonest
  <2>3. CASE i = 5
    BY <1>4, <2>3, List4, IndexHonest DEF Rebuilt, Indexes, On
  <2> QED
    BY <2>1, <2>2, <2>3
<1>5. CASE n = 5
  <2>1. i \in 1 .. 6
    BY <1>5, List5
  <2>2. CASE i \in 1 .. 3
    BY <1>5, <2>2, List5, OthersHonest
  <2>3. CASE i = 4
    BY <1>5, <2>3, List5, RenameHonest
  <2>4. CASE i \in 5 .. 6
    BY <1>5, <2>4, List5, IndexHonest, SMTT(30) DEF Rebuilt, Indexes, On
  <2> QED
    BY <2>1, <2>2, <2>3, <2>4
<1>6. CASE n = 6
  <2> DEFINE list == Steps(6)
  <2>1. Steps(n) = list
    BY <1>6
  <2>2. /\ Honest(list[1]) /\ Honest(list[4]) /\ Honest(list[8]) /\ Honest(list[9])
        /\ Honest(list[10])
    BY List6, OthersHonest, SMTT(30)
  <2>3. Honest(list[2]) /\ Honest(list[3])
    BY List6, IndexHonest, SMTT(30) DEF Rebuilt, Indexes, On
  <2>4. Honest(list[5]) /\ Honest(list[6])
    <3>1. Honest(list[5])
      BY List6, IndexHonest, SMTT(30) DEF Rebuilt, Indexes, On
    <3>2. Honest(list[6])
      BY List6, IndexHonest, SMTT(30) DEF Rebuilt, Indexes, On
    <3> QED
      BY <3>1, <3>2
  <2>5. Honest(list[7])
    BY List6, IndexHonest, SMTT(30) DEF Rebuilt, Indexes, On
  <2>6. i \in 1 .. 10
    BY <1>6, List6
  <2> HIDE DEF list
  <2>7. Honest(list[i])
    BY <2>2, <2>3, <2>4, <2>5, <2>6
  <2> QED
    BY <2>1, <2>7 DEF list
<1>7. CASE n = 7
  <2>1. i \in 1 .. 4
    BY <1>7, List7
  <2> QED
    BY <1>7, <2>1, List7, OthersHonest
<1>8. CASE n = 8
  <2> DEFINE list == Steps(8)
  <2>1. Steps(n) = list
    BY <1>8
  <2>2. /\ Honest(list[1]) /\ Honest(list[2]) /\ Honest(list[3]) /\ Honest(list[4])
        /\ Honest(list[5]) /\ Honest(list[7]) /\ Honest(list[8]) /\ Honest(list[9])
    BY List8, OthersHonest, SMTT(30)
  <2>3. Honest(list[10])
    BY List8, RenameHonest
  <2>4. Honest(list[6])
    BY List8, IndexHonest, SMTT(30) DEF Rebuilt, Indexes, On
  <2>5. Honest(list[11])
    BY List8, IndexHonest, SMTT(30) DEF Rebuilt, Indexes, On
  <2>6. Honest(list[12])
    BY List8, IndexHonest, SMTT(30) DEF Rebuilt, Indexes, On
  <2>7. i \in 1 .. 12
    BY <1>8, List8
  <2> HIDE DEF list
  <2>8. Honest(list[i])
    BY <2>2, <2>3, <2>4, <2>5, <2>6, <2>7
  <2> QED
    BY <2>1, <2>8 DEF list
<1>9. CASE n = 9
  <2>1. i \in 1 .. 3
    BY <1>9, List9
  <2> QED
    BY <1>9, <2>1, List9, OthersHonest
<1>10. CASE n = 10
  <2>1. i \in 1 .. 1
    BY <1>10, List10
  <2> QED
    BY <1>10, <2>1, List10, OthersHonest
<1>11. CASE n = 11
  <2>1. i \in 1 .. 2
    BY <1>11, List11
  <2> QED
    BY <1>11, <2>1, List11, OthersHonest
<1>12. CASE n = 12
  <2>1. i \in 1 .. 6
    BY <1>12, List12
  <2>2. CASE i \in 1 .. 3
    BY <1>12, <2>2, List12, OthersHonest
  <2>3. CASE i = 4
    BY <1>12, <2>3, List12, RenameHonest
  <2>4. CASE i \in 5 .. 6
    BY <1>12, <2>4, List12, IndexHonest, SMTT(30) DEF Rebuilt, Indexes, On
  <2> QED
    BY <2>1, <2>2, <2>3, <2>4
<1>13. CASE n = 13
  <2>1. i \in 1 .. 4
    BY <1>13, List13
  <2>2. CASE i \in {1, 3}
    BY <1>13, <2>2, List13, OthersHonest
  <2>3. CASE i \in {2, 4}
    BY <1>13, <2>3, List13, IndexHonest, SMTT(30) DEF Rebuilt, Indexes, On
  <2> QED
    BY <2>1, <2>2, <2>3
<1>14. CASE n = 14
  <2>1. i \in 1 .. 3
    BY <1>14, List14
  <2> QED
    BY <1>14, <2>1, List14, OthersHonest DEF StoredDocuments
<1>15. CASE n = 15
  <2>1. i \in 1 .. 5
    BY <1>15, List15
  <2> QED
    BY <1>15, <2>1, List15, OthersHonest DEF StoredDocuments
<1>16. CASE n = 16
  <2>1. i \in 1 .. 3
    BY <1>16, List16
  <2> QED
    BY <1>16, <2>1, List16, OthersHonest DEF StoredDocuments
<1>17. CASE n = 17
  <2>1. i \in 1 .. 3
    BY <1>17, List17
  <2> QED
    BY <1>17, <2>1, List17, OthersHonest DEF StoredDocuments
<1>18. CASE n = 18
  <2>1. i \in 1 .. 3
    BY <1>18, List18
  <2> QED
    BY <1>18, <2>1, List18, OthersHonest DEF StoredDocuments
<1>19. CASE n = 19
  <2>1. i \in 1 .. 7
    BY <1>19, List19
  <2>2. CASE i \in 1 .. 3
    BY <1>19, <2>2, List19, OthersHonest
  <2>3. CASE i = 4
    BY <1>19, <2>3, List19, RenameHonest
  <2>4. CASE i \in 5 .. 7
    BY <1>19, <2>4, List19, IndexHonest, SMTT(30) DEF Rebuilt, Indexes, On
  <2> QED
    BY <2>1, <2>2, <2>3, <2>4
<1>20. CASE n = 20
  <2>1. i \in 1 .. 3
    BY <1>20, List20
  <2> QED
    BY <1>20, <2>1, List20, IndexHonest DEF Rebuilt, Indexes, On
<1>21. CASE n = 21
  <2>1. i \in 1 .. 1
    BY <1>21, List21
  <2> QED
    BY <1>21, <2>1, List21, OthersHonest
<1>22. CASE n = 22
  <2>1. i \in 1 .. 4
    BY <1>22, List22
  <2>2. CASE i = 1
    BY <1>22, <2>2, List22, OthersHonest
  <2>3. CASE i \in 2 .. 4
    BY <1>22, <2>3, List22, IndexHonest DEF Rebuilt, Indexes, On
  <2> QED
    BY <2>1, <2>2, <2>3
<1>23. CASE n = 23
  <2>1. i \in 1 .. 1
    BY <1>23, List23
  <2> QED
    BY <1>23, <2>1, List23, OthersHonest
<1>24. CASE n = 24
  <2>1. i \in 1 .. 1
    BY <1>24, List24
  <2> QED
    BY <1>24, <2>1, List24, OthersHonest
<1>25. CASE n = 25
  <2>1. i \in 1 .. 1
    BY <1>25, List25
  <2> QED
    BY <1>25, <2>1, List25, OthersHonest
<1>26. CASE n = 26
  <2>1. i \in 1 .. 1
    BY <1>26, List26
  <2> QED
    BY <1>26, <2>1, List26, RenameHonest
<1>27. CASE n = 27
  <2>1. i \in 1 .. 2
    BY <1>27, List27
  <2> QED
    BY <1>27, <2>1, List27, OthersHonest
<1>28. CASE n = 28
  <2>1. i \in 1 .. 7
    BY <1>28, List28
  <2>2. CASE i \in 1 .. 3
    BY <1>28, <2>2, List28, OthersHonest
  <2>3. CASE i = 4
    BY <1>28, <2>3, List28, RenameHonest
  <2>4. CASE i \in 5 .. 7
    BY <1>28, <2>4, List28, IndexHonest DEF Rebuilt, Indexes, On
  <2> QED
    BY <2>1, <2>2, <2>3, <2>4
<1>29. CASE n = 29
  <2>1. i \in 1 .. 7
    BY <1>29, List29
  <2>2. CASE i = 1
    BY <1>29, <2>2, List29, RenameHonest
  <2>3. CASE i \in 2 .. 4
    BY <1>29, <2>3, List29, OthersHonest
  <2>4. CASE i \in 5 .. 7
    BY <1>29, <2>4, List29, IndexHonest, SMTT(30) DEF Rebuilt, Indexes, On
  <2> QED
    BY <2>1, <2>2, <2>3, <2>4
<1>30. CASE n = 30
  <2> DEFINE list == Steps(30)
  <2>1. Steps(n) = list
    BY <1>30
  <2>2. Honest(list[1]) /\ Honest(list[2]) /\ Honest(list[3])
    BY List30, OthersHonest, SMTT(30)
  <2>3. Honest(list[4])
    BY List30, IndexHonest, SMTT(30) DEF Rebuilt, Indexes, On
  <2>4. Honest(list[5]) /\ Honest(list[6])
    BY List30, IndexHonest, SMTT(30) DEF Rebuilt, Indexes, On
  <2>5. Honest(list[7]) /\ Honest(list[8])
    BY List30, IndexHonest, SMTT(30) DEF Rebuilt, Indexes, On
  <2>6. Honest(list[9])
    BY List30, IndexHonest, SMTT(30) DEF Rebuilt, Indexes, On
  <2>7. i \in 1 .. 9
    BY <1>30, List30
  <2> HIDE DEF list
  <2>8. Honest(list[i])
    BY <2>2, <2>3, <2>4, <2>5, <2>6, <2>7
  <2> QED
    BY <2>1, <2>8 DEF list
<1>31. CASE n = 31
  <2>1. i \in 1 .. 4
    BY <1>31, List31
  <2>2. CASE i \in 1 .. 3
    BY <1>31, <2>2, List31, IndexHonest DEF Rebuilt, Indexes, On
  <2>3. CASE i = 4
    BY <1>31, <2>3, List31, IndexHonest DEF Rebuilt, Indexes, On
  <2> QED
    BY <2>1, <2>2, <2>3
<1>32. CASE n = 32
  <2>1. i \in 1 .. 1
    BY <1>32, List32
  <2> QED
    BY <1>32, <2>1, List32, OthersHonest
<1>33. CASE n = 33
  <2>1. i \in 1 .. 8
    BY <1>33, List33
  <2>2. CASE i \in 1 .. 3
    BY <1>33, <2>2, List33, OthersHonest
  <2>3. CASE i = 4
    BY <1>33, <2>3, List33, RenameHonest
  <2>4. CASE i \in 5 .. 7
    BY <1>33, <2>4, List33, IndexHonest, SMTT(30) DEF Rebuilt, Indexes, On
  <2>5. CASE i = 8
    BY <1>33, <2>5, List33, IndexHonest, SMTT(30) DEF Rebuilt, Indexes, On
  <2> QED
    BY <2>1, <2>2, <2>3, <2>4, <2>5
<1>34. CASE n = 34
  <2>1. i \in 1 .. 6
    BY <1>34, List34
  <2>2. CASE i \in {1, 3, 5, 6}
    BY <1>34, <2>2, List34, OthersHonest
  <2>3. CASE i \in {2, 4}
    BY <1>34, <2>3, List34, IndexHonest, SMTT(30) DEF Rebuilt, Indexes, On
  <2> QED
    BY <2>1, <2>2, <2>3
<1>35. CASE n = 35
  <2>1. i \in 1 .. 2
    BY <1>35, List35
  <2> QED
    BY <1>35, <2>1, List35, OthersHonest
<1>36. CASE n = 36
  <2>1. i \in 1 .. 2
    BY <1>36, List36
  <2>2. CASE i = 1
    BY <1>36, <2>2, List36, OthersHonest
  <2>3. CASE i = 2
    BY <1>36, <2>3, List36, IndexHonest DEF Rebuilt, Indexes, On
  <2> QED
    BY <2>1, <2>2, <2>3
<1>37. CASE n = 37
  <2>1. i \in 1 .. 5
    BY <1>37, List37
  <2>2. CASE i \in 1 .. 3
    BY <1>37, <2>2, List37, OthersHonest
  <2>3. CASE i = 4
    BY <1>37, <2>3, List37, RenameHonest
  <2>4. CASE i = 5
    BY <1>37, <2>4, List37, IndexHonest DEF Rebuilt, Indexes, On
  <2> QED
    BY <2>1, <2>2, <2>3, <2>4
<1>38. CASE n = 38
  <2>1. i \in 1 .. 1
    BY <1>38, List38
  <2> QED
    BY <1>38, <2>1, List38, IndexHonest DEF Rebuilt, Indexes, On
<1>39. CASE n = 39
  <2>1. i \in 1 .. 1
    BY <1>39, List39
  <2> QED
    BY <1>39, <2>1, List39, IndexHonest DEF Rebuilt, Indexes, On
<1>40. CASE n = 40
  <2>1. i \in 1 .. 3
    BY <1>40, List40
  <2> QED
    BY <1>40, <2>1, List40, IndexHonest, SMTT(30) DEF Rebuilt, Indexes, On
<1>41. CASE n = 41
  <2>1. i \in 1 .. 1
    BY <1>41, List41
  <2> QED
    BY <1>41, <2>1, List41, OthersHonest
<1>42. CASE n = 42
  <2> DEFINE list == Steps(42)
  <2>1. Steps(n) = list
    BY <1>42
  <2>2. Honest(list[1]) /\ Honest(list[2]) /\ Honest(list[3])
    BY List42, OthersHonest, SMTT(30)
  <2>3. Honest(list[4])
    BY List42, RenameHonest
  <2>4. Honest(list[5]) /\ Honest(list[6])
    <3>1. Honest(list[5])
      BY List42, IndexHonest, SMTT(30) DEF Rebuilt, Indexes, On
    <3>2. Honest(list[6])
      BY List42, IndexHonest, SMTT(30) DEF Rebuilt, Indexes, On
    <3> QED
      BY <3>1, <3>2
  <2>5. Honest(list[7]) /\ Honest(list[8])
    BY List42, IndexHonest, SMTT(30) DEF Rebuilt, Indexes, On
  <2>6. Honest(list[9]) /\ Honest(list[10])
    BY List42, IndexHonest, SMTT(30) DEF Rebuilt, Indexes, On
  <2>7. Honest(list[11])
    BY List42, IndexHonest, SMTT(30) DEF Rebuilt, Indexes, On
  <2>8. i \in 1 .. 11
    BY <1>42, List42
  <2> HIDE DEF list
  <2>9. Honest(list[i])
    BY <2>2, <2>3, <2>4, <2>5, <2>6, <2>7, <2>8
  <2> QED
    BY <2>1, <2>9 DEF list
<1>43. CASE n = 43
  <2>1. i \in 1 .. 4
    BY <1>43, List43
  <2> QED
    BY <1>43, <2>1, List43, RenameHonest
<1>44. CASE n = 44
  <2>1. i \in 1 .. 2
    BY <1>44, List44
  <2> QED
    BY <1>44, <2>1, List44, OthersHonest
<1>45. CASE n = 45
  <2> DEFINE list == Steps(45)
  <2>1. Steps(n) = list
    BY <1>45
  <2>2. /\ Honest(list[1]) /\ Honest(list[2]) /\ Honest(list[3])
    BY List45, OthersHonest, SMTT(30)
  <2>3. /\ Honest(list[4]) /\ Honest(list[5]) /\ Honest(list[6]) /\ Honest(list[7])
        /\ Honest(list[15]) /\ Honest(list[16]) /\ Honest(list[19]) /\ Honest(list[21])
    BY List45, OthersHonest, SMTT(30)
  <2>4. /\ Honest(IndexIfAbsent("idx_image_vulnerabilities_image",
                                "image_vulnerabilities", {"image_id"}))
        /\ Honest(IndexIfAbsent("idx_image_vulnerabilities_severity",
                                "image_vulnerabilities", {"severity"}))
    BY IndexHonest DEF Rebuilt, Indexes
  <2>5. /\ Honest(list[8]) /\ Honest(list[9])
    BY List45, <2>4
  <2>6. /\ Honest(IndexIfAbsent("idx_image_vulnerabilities_cve",
                                "image_vulnerabilities", {"cve_id"}))
        /\ Honest(IndexIfAbsent("idx_image_vulnerabilities_image_severity",
                                "image_vulnerabilities", {"image_id", "severity"}))
        /\ Honest(IndexIfAbsent("idx_image_vulnerabilities_image_cve",
                                "image_vulnerabilities", {"image_id", "cve_id"}))
    BY IndexHonest DEF Rebuilt, Indexes
  <2>7. /\ Honest(list[10]) /\ Honest(list[11]) /\ Honest(list[12])
    BY List45, <2>6
  <2>8. /\ Honest(IndexIfAbsent("idx_image_vulnerabilities_fix_status",
                                "image_vulnerabilities", {"fix_status"}))
        /\ Honest(IndexIfAbsent("idx_image_vulnerabilities_package_type",
                                "image_vulnerabilities", {"package_type"}))
    BY IndexHonest DEF Rebuilt, Indexes
  <2>9. /\ Honest(list[13]) /\ Honest(list[14])
    BY List45, <2>8
  <2>10. /\ Honest(IndexIfAbsent("idx_image_packages_image", "image_packages", {"image_id"}))
        /\ Honest(IndexIfAbsent("idx_image_packages_type", "image_packages", {"type"}))
    BY IndexHonest DEF Rebuilt, Indexes
  <2>11. /\ Honest(list[17]) /\ Honest(list[18])
    BY List45, <2>10
  <2>12. /\ Honest(IndexIfAbsent("idx_image_vulnerability_details_vuln",
                                 "image_vulnerability_details", {"vulnerability_id"}))
    BY IndexHonest DEF Rebuilt, Indexes
  <2>13. Honest(list[20])
    BY List45, <2>12
  <2>14. /\ Honest(IndexIfAbsent("idx_image_package_details_pkg",
                                 "image_package_details", {"package_id"}))
    BY IndexHonest DEF Rebuilt, Indexes
  <2>15. Honest(list[22])
    BY List45, <2>14
  <2>16. i \in 1 .. 22
    BY <1>45, List45
  <2> HIDE DEF list
  <2>17. i \in 1 .. 12 => Honest(list[i])
    BY <2>2, <2>3, <2>5, <2>7
  <2>18. i \in 13 .. 17 => Honest(list[i])
    BY <2>3, <2>9, <2>11
  <2>19. i \in 18 .. 22 => Honest(list[i])
    BY <2>3, <2>11, <2>13, <2>15
  <2>20. Honest(list[i])
    BY <2>17, <2>18, <2>19, <2>16
  <2> QED
    BY <2>1, <2>20 DEF list
<1>46. CASE n = 46
  <2>1. i \in 1 .. 2
    BY <1>46, List46
  <2> QED
    BY <1>46, <2>1, List46, OthersHonest
<1>47. CASE n = 47
  <2>1. i \in 1 .. 4
    BY <1>47, List47
  <2> QED
    BY <1>47, <2>1, List47, OthersHonest
<1>48. CASE n = 48
  <2>1. i \in 1 .. 3
    BY <1>48, List48
  <2>2. CASE i \in 1 .. 2
    BY <1>48, <2>2, List48, OthersHonest
  <2>3. CASE i = 3
    BY <1>48, <2>3, List48, IndexHonest DEF Rebuilt, Indexes, On
  <2> QED
    BY <2>1, <2>2, <2>3
<1>49. CASE n = 49
  <2>1. i \in 1 .. 2
    BY <1>49, List49
  <2> QED
    BY <1>49, <2>1, List49, IndexHonest DEF Rebuilt, Indexes, On
<1>50. CASE n = 50
  <2>1. i \in 1 .. 1
    BY <1>50, List50
  <2> QED
    BY <1>50, <2>1, List50, IndexHonest DEF Rebuilt, Indexes, On
<1>51. CASE n = 51
  <2>1. i \in 1 .. 8
    BY <1>51, List51
  <2> QED
    BY <1>51, <2>1, List51, OthersHonest
<1> QED
  BY <1>1, <1>2, <1>3, <1>4, <1>5, <1>6, <1>7, <1>8, <1>9, <1>10, <1>11, <1>12, <1>13, <1>14,
     <1>15, <1>16, <1>17, <1>18, <1>19, <1>20, <1>21, <1>22, <1>23, <1>24, <1>25, <1>26, <1>27,
     <1>28, <1>29, <1>30, <1>31, <1>32, <1>33, <1>34, <1>35, <1>36, <1>37, <1>38, <1>39, <1>40,
     <1>41, <1>42, <1>43, <1>44, <1>45, <1>46, <1>47, <1>48, <1>49, <1>50, <1>51

LEMMA Unrefused ==
    ASSUME NEW n \in 1 .. 51, NEW db, NEW k, Due(db, n, k), ~Collides(db, n, k)
    PROVE  ~Refused(db, Steps(n)[k + 1])
<1>1. CASE n = 1
  BY <1>1, Clear1
<1>2. CASE n = 2
  BY <1>2, Clear2
<1>3. CASE n = 3
  BY <1>3, Clear3
<1>4. CASE n = 4
  BY <1>4, Clear4
<1>5. CASE n = 5
  BY <1>5, Clear5
<1>6. CASE n = 6
  BY <1>6, Clear6
<1>7. CASE n = 7
  BY <1>7, Clear7
<1>8. CASE n = 8
  BY <1>8, Clear8
<1>9. CASE n = 9
  BY <1>9, Clear9
<1>10. CASE n = 10
  BY <1>10, Clear10
<1>11. CASE n = 11
  BY <1>11, Clear11
<1>12. CASE n = 12
  BY <1>12, Clear12
<1>13. CASE n = 13
  BY <1>13, Clear13
<1>14. CASE n = 14
  BY <1>14, Clear14
<1>15. CASE n = 15
  BY <1>15, Clear15
<1>16. CASE n = 16
  BY <1>16, Clear16
<1>17. CASE n = 17
  BY <1>17, Clear17
<1>18. CASE n = 18
  BY <1>18, Clear18
<1>19. CASE n = 19
  BY <1>19, Clear19
<1>20. CASE n = 20
  BY <1>20, Clear20
<1>21. CASE n = 21
  BY <1>21, Clear21
<1>22. CASE n = 22
  BY <1>22, Clear22
<1>23. CASE n = 23
  BY <1>23, Clear23
<1>24. CASE n = 24
  BY <1>24, Clear24
<1>25. CASE n = 25
  BY <1>25, Clear25
<1>26. CASE n = 26
  BY <1>26, Clear26
<1>27. CASE n = 27
  BY <1>27, Clear27
<1>28. CASE n = 28
  BY <1>28, Clear28
<1>29. CASE n = 29
  BY <1>29, Clear29
<1>30. CASE n = 30
  BY <1>30, Clear30
<1>31. CASE n = 31
  BY <1>31, Clear31
<1>32. CASE n = 32
  BY <1>32, Clear32
<1>33. CASE n = 33
  BY <1>33, Clear33
<1>34. CASE n = 34
  BY <1>34, Clear34
<1>35. CASE n = 35
  BY <1>35, Clear35
<1>36. CASE n = 36
  BY <1>36, Clear36
<1>37. CASE n = 37
  BY <1>37, Clear37
<1>38. CASE n = 38
  BY <1>38, Clear38
<1>39. CASE n = 39
  BY <1>39, Clear39
<1>40. CASE n = 40
  BY <1>40, Clear40
<1>41. CASE n = 41
  BY <1>41, Clear41
<1>42. CASE n = 42
  BY <1>42, Clear42
<1>43. CASE n = 43
  BY <1>43, Clear43
<1>44. CASE n = 44
  BY <1>44, Clear44
<1>45. CASE n = 45
  BY <1>45, Clear45
<1>46. CASE n = 46
  BY <1>46, Clear46
<1>47. CASE n = 47
  BY <1>47, Clear47
<1>48. CASE n = 48
  BY <1>48, Clear48
<1>49. CASE n = 49
  BY <1>49, Clear49
<1>50. CASE n = 50
  BY <1>50, Clear50
<1>51. CASE n = 51
  BY <1>51, Clear51
<1> QED
  BY <1>1, <1>2, <1>3, <1>4, <1>5, <1>6, <1>7, <1>8, <1>9, <1>10, <1>11, <1>12, <1>13, <1>14,
     <1>15, <1>16, <1>17, <1>18, <1>19, <1>20, <1>21, <1>22, <1>23, <1>24, <1>25, <1>26, <1>27,
     <1>28, <1>29, <1>30, <1>31, <1>32, <1>33, <1>34, <1>35, <1>36, <1>37, <1>38, <1>39, <1>40,
     <1>41, <1>42, <1>43, <1>44, <1>45, <1>46, <1>47, <1>48, <1>49, <1>50, <1>51

-----------------------------------------------------------------------------
(* What the statements still to come rely on, from the first to the last *)

LEMMA FromIsNatural == \A n : From(n) \in Nat
BY DEF From

LEMMA ReadyStart ==
    ASSUME NEW n \in 1 .. 51, NEW db, IsDatabase(db), Lies(db), Exact(db, n - 1)
    PROVE  Ready(db, n, 0)
<1> DEFINE list == Steps(n)
<1>1. n = 2 => /\ Is(db, "container_images", Images1)
               /\ Is(db, "container_instances", Instances1)
  BY DEF Exact, Names, As, Exists, Columns, ImageColumns, InstanceColumnsAt
<1>2. n = 42 => Is(db, "node_vulnerabilities", NodeMatches33)
  BY DEF Exact, Names, As, Exists, Columns, NodeMatchColumnsAt
<1>3. ASSUME n \in Making, 0 >= From(n), NEW j \in 0 + 1 .. Len(list), Makes(list[j])
      PROVE  Free(db, list[j].name)
  <2>1. From(n) = 0
    <3>1. From(n) \in Nat
      BY FromIsNatural
    <3> QED
      BY <1>3, <3>1
  <2>2. Amid(db, n, From(n))
    BY <2>1, AmidStart
  <2>3. j \in 1 .. Len(list)
    BY <1>3
  <2> QED
    BY <1>3, <2>2, <2>3, NamesAreFree
<1> QED
  BY <1>1, <1>2, <1>3 DEF Ready

LEMMA ReadyStep ==
    ASSUME NEW n \in 1 .. 51, NEW db, IsDatabase(db),
           NEW k \in 0 .. Len(Steps(n)) - 1,
           Ready(db, n, k), ~Refused(db, Steps(n)[k + 1]),
           IsDatabase(After(db, Steps(n)[k + 1])),
           Lies(After(db, Steps(n)[k + 1])),
           Amid(After(db, Steps(n)[k + 1]), n, k + 1)
    PROVE  Ready(After(db, Steps(n)[k + 1]), n, k + 1)
<1> DEFINE list == Steps(n)
           s == list[k + 1]
           new == After(db, s)
<1>1. n = 2 /\ k + 1 < 4 => /\ Is(new, "container_images", Images1)
                            /\ Is(new, "container_instances", Instances1)
  <2> SUFFICES ASSUME n = 2, k + 1 < 4
               PROVE  /\ Is(new, "container_images", Images1)
                      /\ Is(new, "container_instances", Instances1)
    OBVIOUS
  <2>1. list = Steps(2) /\ k \in 0 .. 2
    OBVIOUS
  <2>2. Is(db, "container_images", Images1) /\ Is(db, "container_instances", Instances1)
    BY <2>1 DEF Ready
  <2>3. CASE k = 0
    BY <2>1, <2>2, <2>3, List2, CreateEffect, SMTT(30) DEF Same, Is
  <2>4. CASE k = 1
    <3>1. s.op \in Quiet
      BY <2>1, <2>4, List2, QuietStatements
    <3> HIDE DEF s
    <3> QED
      BY <2>2, <3>1, QuietEffect DEF Is
  <2>5. CASE k = 2
    BY <2>1, <2>2, <2>5, List2, CreateEffect DEF Same, Is
  <2> QED
    BY <2>1, <2>3, <2>4, <2>5
<1>2. n = 42 /\ k + 1 < 2 => Is(new, "node_vulnerabilities", NodeMatches33)
  <2> SUFFICES ASSUME n = 42, k + 1 < 2 PROVE Is(new, "node_vulnerabilities", NodeMatches33)
    OBVIOUS
  <2>1. list = Steps(42) /\ k = 0
    OBVIOUS
  <2>2. Is(db, "node_vulnerabilities", NodeMatches33)
    BY <2>1 DEF Ready
  <2> QED
    BY <2>1, <2>2, List42, CreateEffect DEF Same, Is
<1>3. ASSUME n \in Making, k + 1 >= From(n), NEW j \in k + 1 + 1 .. Len(list), Makes(list[j])
      PROVE  Free(new, list[j].name)
  <2>1. From(n) \in Nat /\ Len(list) \in Nat /\ k \in Nat
    <3>1. Len(list) \in Nat
      BY StepsShape
    <3> QED
      BY <3>1, FromIsNatural
  <2>2. CASE From(n) = k + 1
    <3>1. Amid(new, n, From(n)) /\ j \in 1 .. Len(list) /\ From(n) # 0
      BY <1>3, <2>1, <2>2
    <3> HIDE DEF new
    <3> QED
      BY <1>3, <3>1, NamesAreFree DEF new
  <2>3. CASE From(n) # k + 1
    <3>1. /\ k >= From(n) /\ j \in k + 1 .. Len(list) /\ k + 1 \in From(n) + 1 .. Len(list)
          /\ j \in (k + 1) + 1 .. Len(list) /\ k + 1 \in 1 .. Len(list)
      BY <1>3, <2>1, <2>3
    <3>2. Free(db, list[j].name)
      BY <1>3, <3>1, ReadyMakes
    <3>3. s.op = "index" => s.name # list[j].name
      BY <1>3, <3>1, NamesDiffer, SMTT(30)
    <3>4. s.op \in Operations
      BY <3>1, StepsShape DEF Sound
    <3> HIDE DEF s
    <3> QED
      BY <3>2, <3>3, <3>4, StillFree DEF s
  <2> QED
    BY <2>2, <2>3
<1> HIDE DEF new
<1>4. Ready(new, n, k + 1)
  BY <1>1, <1>2, <1>3 DEF Ready
<1> QED
  BY <1>4 DEF new

-----------------------------------------------------------------------------
(* Only a torn migration is refused, or the copy of V42 *)

\* Steps that leave both databases alone, delete them or give a start up.
LEMMA TearKept ==
    ASSUME TearInv, UNCHANGED <<disk, work, torn, applied>>, why' = why \/ why' = "none",
           why = "statement" => why' = "none" \/ phase' = "refused",
           phase' \notin {"stepping", "committing"}
    PROVE  TearInv'
BY DEF TearInv, Lies, MayWedge, MatchesCollide

LEMMA EmptyLies == Lies(EmptyDatabase)
<1>1. DOMAIN EmptyDatabase.indexes = {}
  BY DEF EmptyDatabase, NoFunction
<1> QED
  BY <1>1 DEF Lies

LEMMA TearDeleted ==
    ASSUME TearInv, DeleteDatabase, why' = why, phase # "refused",
           phase' \notin {"stepping", "committing"}
    PROVE  TearInv'
<1>1. disk' = EmptyDatabase /\ work' = EmptyDatabase
  BY DEF DeleteDatabase
<1> QED
  BY <1>1, EmptyLies DEF TearInv

LEMMA TearRefused ==
    ASSUME TearInv, NEW reason, Refuse(reason), reason = "statement" => MayWedge
    PROVE  TearInv'
<1>1. /\ disk' = disk /\ work' = disk /\ torn' = torn /\ applied' = applied
      /\ phase' = "refused" /\ why' = reason
  BY DEF Refuse
<1> QED
  BY <1>1 DEF TearInv, MayWedge, MatchesCollide

LEMMA TearNextMigration ==
    ASSUME OpenInv, LayoutInv, TearInv, NextMigration
    PROVE  TearInv'
<1>1. /\ UNCHANGED <<disk, work, torn, why, applied>> /\ work = disk
      /\ phase # "refused" /\ at' = 0
  BY DEF NextMigration, OpenInv, Progress
<1>2. CASE applied < release
  <2>1. phase' = "stepping" /\ cur' = applied + 1 /\ applied' = applied
    BY <1>2 DEF NextMigration
  <2>2. applied + 1 \in 1 .. 51 /\ applied \in Nat /\ torn \in {0, applied + 1}
    BY <1>2, LatestIs51 DEF OpenInv, Types
  <2>3. torn = 0 => Exact(work, applied)
    BY <1>1 DEF LayoutInv
  <2>4. torn = 0 => Ready(work, applied + 1, 0)
    <3>1. (applied + 1) - 1 = applied
      BY <2>2
    <3> QED
      BY <2>2, <2>3, <3>1, ReadyStart DEF OpenInv, TearInv
  <2>5. applied + 1 \notin RunOnce => Ready(work, applied + 1, 0)
    <3> SUFFICES ASSUME applied + 1 \notin RunOnce PROVE Ready(work, applied + 1, 0)
      OBVIOUS
    <3>1. applied + 1 \notin {2, 42}
      BY DEF RunOnce
    <3>2. applied + 1 \in Making => applied + 1 \in {12, 19, 28, 33, 48}
      BY DEF Making, RunOnce
    <3>3. applied + 1 \in {12, 19, 28, 33, 48} => ~(0 >= From(applied + 1))
      BY DEF From
    <3> QED
      BY <3>1, <3>2, <3>3 DEF Ready
  <2> QED
    BY <1>1, <2>1, <2>3, <2>4, <2>5 DEF TearInv
<1>3. CASE ~(applied < release)
  <2>1. phase' = "up"
    BY <1>3 DEF NextMigration
  <2> QED
    BY <1>1, <2>1, TearKept DEF TearInv
<1> QED
  BY <1>2, <1>3

\* What is executed is what its migration expects, unless the migration was torn
\* and cannot run twice.
LEMMA StatementIsDue ==
    ASSUME OpenInv, LayoutInv, TearInv, phase = "stepping", torn = 0 \/ cur \notin RunOnce
    PROVE  Due(work, cur, at)
<1>1. /\ at \in Nat /\ at < Len(Steps(cur)) /\ cur = applied + 1
      /\ cur \in 1 .. 51 /\ applied \in Nat
  BY UnderWay, LatestIs51 DEF OpenInv, Types, Progress, Migration, Steps
<1>2. at \in 0 .. Len(Steps(cur)) - 1
  BY <1>1, StepsShape
<1>3. cur - 1 = applied
  BY <1>1
<1>4. cur \in RunOnce => torn = 0
  OBVIOUS
<1>5. torn = 0 => /\ at = 0 => Exact(work, cur - 1)
                  /\ at = 0 \/ at < Len(migrations[cur].tx)
  BY <1>3 DEF TearInv, Migration
<1>6. IsDatabase(work) /\ Amid(work, cur, at) /\ Ready(work, cur, at)
  BY DEF OpenInv, LayoutInv, TearInv
<1> QED
  BY <1>2, <1>4, <1>5, <1>6 DEF Due

LEMMA TearStatement ==
    ASSUME OpenInv, OpenInv', LayoutInv, LayoutInv', TearInv, Statement
    PROVE  TearInv'
<1> DEFINE list == Steps(cur)
           s == list[at + 1]
<1>1. /\ phase = "stepping" /\ at \in Nat /\ at < Len(list) /\ cur = applied + 1
      /\ cur \in 1 .. 51 /\ torn \in {0, cur}
  BY UnderWay, LatestIs51 DEF Statement, OpenInv, Types, Progress, Migration, Steps
<1>2. at \in 0 .. Len(list) - 1 /\ at + 1 \in 1 .. Len(list)
  BY <1>1, StepsShape
<1>3. CASE Refused(work, s)
  <2>1. MayWedge
    <3>1. CASE Collides(work, cur, at)
      <4>1. cur = 42 /\ at = 1 /\ "node_vulnerabilities" \in disk.twins
        BY <1>1, <3>1 DEF Collides, TearInv
      <4>2. applied = 41 /\ 42 \in RunOnce
        BY <1>1, <4>1 DEF OpenInv, Types, RunOnce
      <4> QED
        BY <1>1, <4>1, <4>2 DEF MayWedge, MatchesCollide
    <3>2. CASE ~Collides(work, cur, at)
      <4>1. ~(torn = 0 \/ cur \notin RunOnce)
        BY <1>1, <1>3, <3>2, StatementIsDue, Unrefused
      <4> QED
        BY <1>1, <4>1 DEF MayWedge
    <3> QED
      BY <3>1, <3>2
  <2>2. Refuse("statement")
    BY <1>3 DEF Statement, Migration, Steps
  <2> QED
    BY <2>1, <2>2, TearRefused
<1>4. CASE ~Refused(work, s)
  <2>1. /\ work' = After(work, s) /\ at' = at + 1 /\ phase' = PhaseAfter(at + 1)
        /\ UNCHANGED <<cur, why, applied>>
        /\ at < Len(migrations[cur].tx) => UNCHANGED <<disk, torn>>
        /\ ~(at < Len(migrations[cur].tx)) => disk' = work' /\ torn' = cur
    BY <1>4, SMTT(30) DEF Statement, Migration, Steps
  <2>2. s.op \in Operations /\ Honest(s)
    BY <1>1, <1>2, StepsShape, StatementsHonest DEF Sound
  <2>3. Lies(work')
    <3> HIDE DEF s
    <3> QED
      BY <2>1, <2>2, HonestKeeps DEF OpenInv, TearInv
  <2>4. Lies(disk')
    BY <2>1, <2>3 DEF TearInv
  <2>5. why = "statement" => phase = "refused"
    BY DEF TearInv
  <2>6. phase' \in {"stepping", "committing"} /\ (torn' = 0 \/ cur \notin RunOnce)
           => Ready(work', cur, at + 1)
    <3> SUFFICES ASSUME phase' \in {"stepping", "committing"}, torn' = 0 \/ cur \notin RunOnce
                 PROVE  Ready(work', cur, at + 1)
      OBVIOUS
    <3>1. torn = 0 \/ cur \notin RunOnce
      BY <1>1, <2>1
    <3>2. Ready(work, cur, at) /\ IsDatabase(work) /\ IsDatabase(work')
      BY <1>1, <3>1 DEF TearInv, OpenInv
    <3>3. Amid(work', cur, at + 1)
      BY <2>1 DEF LayoutInv
    <3> HIDE DEF s
    <3> QED
      BY <1>1, <1>2, <1>4, <2>1, <2>3, <3>2, <3>3, ReadyStep DEF s
  <2>7. phase' = "stepping" /\ torn' = 0 => at + 1 < Len(migrations[cur].tx)
    <3> SUFFICES ASSUME phase' = "stepping", torn' = 0
                 PROVE  at + 1 < Len(migrations[cur].tx)
      OBVIOUS
    <3>1. at < Len(migrations[cur].tx)
      <4>1. cur \in 1 .. 51
        BY <1>1
      <4>2. cur # 0
        BY <4>1
      <4> QED
        BY <2>1, <4>2
    <3>2. at + 1 # Len(migrations[cur].tx)
      <4>1. at + 1 > 0
        BY <1>1
      <4> QED
        BY <2>1, <4>1 DEF PhaseAfter, Migration
    <3>3. Len(migrations[cur].tx) \in Nat
      BY <1>1, StepsShape
    <3> QED
      BY <1>1, <3>1, <3>2, <3>3
  <2>8. at + 1 # 0
    BY <1>1
  <2>9. cur = 42 /\ at + 1 < 2 => work'.twins = disk'.twins
    <3> SUFFICES ASSUME cur = 42, at + 1 < 2 PROVE work'.twins = disk'.twins
      OBVIOUS
    <3>1. at = 0 /\ work.twins = disk.twins
      BY <1>1 DEF TearInv
    <3>2. Len(migrations[cur].tx) = 11 /\ s.op = "create"
      BY <3>1, List42 DEF Create
    <3>3. After(work, s).twins = work.twins
      BY <3>2 DEF After, OpenInv, IsDatabase
    <3> QED
      BY <2>1, <3>1, <3>2, <3>3
  <2> HIDE DEF list, s
  <2> QED
    BY <1>1, <2>1, <2>3, <2>4, <2>5, <2>6, <2>7, <2>8, <2>9 DEF TearInv, Migration
<1> QED
  BY <1>3, <1>4

LEMMA TearCommit == ASSUME OpenInv, TearInv, Commit PROVE TearInv'
<1>1. /\ disk' = work /\ torn' = cur /\ UNCHANGED <<work, cur, at, why>>
      /\ phase = "committing"
  BY DEF Commit
<1>2. cur # 0
  <2>1. cur \in 1 .. Latest
    BY <1>1, UnderWay
  <2> QED
    BY <2>1, LatestIs51
<1>3. cur \notin RunOnce => Ready(work, cur, at)
  BY <1>1 DEF TearInv
<1> QED
  BY <1>1, <1>2, <1>3 DEF TearInv

LEMMA TearNext ==
    OpenInv /\ OpenInv' /\ LayoutInv /\ LayoutInv' /\ TearInv /\ [Next]_vars => TearInv'
<1> SUFFICES ASSUME OpenInv, OpenInv', LayoutInv, LayoutInv', TearInv, [Next]_vars
             PROVE  TearInv'
  OBVIOUS
<1>1. CASE Start
  BY <1>1, TearKept DEF Start, Keep
<1>2. CASE CheckpointTruncates \/ CheckpointFails \/ Close \/ ExitOnCorruption
  BY <1>2, TearKept DEF CheckpointTruncates, CheckpointFails, Close, ExitOnCorruption, Keep,
                        TearInv
<1>3. CASE Probe
  <2>1. CASE damage \in {"none", "page"}
    BY <1>3, <2>1, TearKept DEF Probe, Keep, TearInv
  <2>2. CASE damage = "shm"
    BY <1>3, <2>2, TearDeleted DEF Probe
  <2>3. CASE damage = "header"
    BY <1>3, <2>3, TearRefused DEF Probe
  <2> QED
    BY <1>3, <2>1, <2>2, <2>3 DEF Probe
<1>4. CASE CheckpointBusy
  <2>1. CASE damage = "page"
    BY <1>4, <2>1, TearDeleted DEF CheckpointBusy
  <2>2. CASE damage # "page"
    BY <1>4, <2>2, TearKept DEF CheckpointBusy, Keep, TearInv
  <2> QED
    BY <2>1, <2>2
<1>5. CASE Record
  <2>1. /\ UNCHANGED <<disk, work, why>> /\ phase' = "migrating" /\ phase = "recording"
    BY <1>5 DEF Record
  <2> QED
    BY <2>1 DEF TearInv
<1>6. CASE AccessFails
  <2>1. CASE Refuse("fault")
    BY <2>1, TearRefused
  <2>2. CASE DeleteDatabase /\ phase' = "opening" /\ UNCHANGED why
    BY <1>6, <2>2, TearDeleted DEF AccessFails
  <2> QED
    BY <1>6, <2>1, <2>2 DEF AccessFails
<1>7. CASE Serve
  <2>1. /\ work'.indexes = work.indexes /\ disk' = work' /\ UNCHANGED <<phase, torn, why>>
        /\ phase = "up"
    BY <1>7, ServeEffect DEF Serve
  <2> QED
    BY <2>1 DEF TearInv, Lies
<1>8. CASE Crash
  <2>1. disk' = disk /\ work' = disk /\ UNCHANGED <<torn, why>> /\ phase' = "down"
        /\ phase # "refused"
    BY <1>8 DEF Crash
  <2> QED
    BY <2>1 DEF TearInv
<1>9. CASE Upgrade
  BY <1>9, TearKept DEF Upgrade, Keep, TearInv
<1>10. CASE UNCHANGED vars
  BY <1>10 DEF TearInv, MayWedge, MatchesCollide, Migration, vars
<1> QED
  BY <1>1, <1>2, <1>3, <1>4, <1>5, <1>6, <1>7, <1>8, <1>9, <1>10, TearNextMigration,
     TearStatement, TearCommit DEF Next

\* From whatever release and through whatever crashes, a statement ends a start for
\* two reasons only: the migration is on disk, wholly or in part, without being
\* recorded, and is one of those that cannot run twice (migrations.go:310), or it is
\* V42 and two matches of a host are one under its new key (migrations.go:2660).
THEOREM WedgesExplained == Spec => []WedgeExplained
<1>1. Init => TearInv
  BY EmptyLies DEF Init, TearInv
<1>2. TearInv => WedgeExplained
  BY DEF TearInv, WedgeExplained
<1> QED
  BY <1>1, <1>2, TearNext, LayoutAlways, PTL DEF Spec
=============================================================================
