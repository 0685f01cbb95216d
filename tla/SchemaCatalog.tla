--------------------------- MODULE SchemaCatalog ---------------------------
(* CREATE TABLE and CREATE INDEX of one database, the catalog table that    *)
(* records them, the files they make and what a restart finds of it all.   *)
(*                                                                          *)
(* A table is a .table file (its TableMeta as JSON), a data file and at     *)
(* most one index file.  The catalog (SchemaCatalog) is a heap table with a *)
(* row per column, per index and per table; its rows travel through the     *)
(* buffer pool and the log like any others, while the files are there at    *)
(* once.  Statements run one after another; the process may stop between    *)
(* any two of their steps.                                                  *)
EXTENDS Integers, FiniteSets, FiniteSetsExt, Sequences, SequencesExt, TLC

CONSTANTS Tables,     \* names of tables
          Columns,    \* columns of every table: 1..Columns
          FaultSets,  \* what may go wrong in one behaviour: sets of Fault
          MaxDdl,     \* bound on statements
          MaxHalts    \* bound on stops

Fault == {"attributes",    \* a CREATE TABLE with an attribute TableMeta::init refuses
          "row",           \* insert_row fails, e.g. no free frame
          "entry",         \* filling or publishing a new index fails
          "files",         \* a stop between the files of one table
          "half",          \* a stop that keeps part of a registration
          "ahead"}         \* a stop when the log knows more than the catalog's pages

ASSUME CatalogAssumption == Columns \in Nat \ {0} /\ FaultSets \subseteq SUBSET Fault

VARIABLES
  meta,      \* .table file of a table: NoFile, EmptyFile or [id, index]
  data,      \* tables with a data file
  ifile,     \* tables with an index file
  rows,      \* rows of the catalog, oldest first
  rowsDisk,  \* how many of them are in pages on disk
  clog,      \* log: one entry per catalog row or change of an index file
  ckpt,      \* entries before the checkpoint
  tabs,      \* opened_tables_: [id, cols, index, mem, handle] or Closed
  nextId,    \* next_table_id_
  ddl,       \* the statement under way
  legacy,    \* legacy_tables_to_register_
  phase,     \* of the process: see Phases
  promised,  \* history: tables whose CREATE TABLE was answered with success
  faults,    \* what may go wrong in this behaviour
  ddls, halts

cvars == <<meta, data, ifile, rows, rowsDisk, clog, ckpt, tabs, nextId, ddl,
           legacy, phase, promised, faults, ddls, halts>>
files == <<meta, data, ifile>>

Phases == {"up", "down", "opened", "replayed", "broken"}
NoFile == [id |-> -1, index |-> FALSE]
EmptyFile == [id |-> 0, index |-> FALSE]
Closed == [id |-> 0]
NoDdl == [op |-> "none"]

AllColumns == [c \in 1..Columns |-> c]
Row(kind, id, t, ordinal) == [kind |-> kind, id |-> id, tab |-> t, ordinal |-> ordinal]
Log(entry) == clog' = Append(clog, entry)

(* insert_row: a record of the catalog table, logged like any other.        *)
InsertRow(row) == rows' = Append(rows, row) /\ Log([kind |-> "row", tab |-> row.tab])

RegisterRowsMut(id, t, index) ==
    [c \in 1..Columns-1 |-> Row("COLUMN", id, t, c)] \o <<Row("TABLE", id, t, 0)>>
(* register_table: the rows a table is registered with.  The TABLE row is   *)
(* the last one.                                                            *)
RegisterRows(id, t, index) ==
    [c \in 1..Columns |-> Row("COLUMN", id, t, c)]
    \o (IF index THEN <<Row("INDEX", id, t, 1)>> ELSE <<>>)
    \o <<Row("TABLE", id, t, 0)>>

CInit ==
    /\ meta = [t \in Tables |-> NoFile] /\ data = {} /\ ifile = {}
    /\ rows = <<>> /\ rowsDisk = 0 /\ clog = <<>> /\ ckpt = 0
    /\ tabs = [t \in Tables |-> Closed] /\ nextId = 1 /\ ddl = NoDdl
    /\ legacy = <<>> /\ phase = "up" /\ promised = {} /\ ddls = 0 /\ halts = 0
    /\ faults \in FaultSets

-----------------------------------------------------------------------------
(* CREATE TABLE.                                                            *)

(* Db::create_table up to the exclusive creation of the .table file.  The   *)
(* number is used up whatever comes of the statement.                       *)
CreateTable(t, good) ==
    /\ phase = "up" /\ ddl = NoDdl /\ ddls < MaxDdl
    /\ tabs[t] = Closed
    /\ good \/ "attributes" \in faults
    /\ ddls' = ddls + 1 /\ nextId' = nextId + 1
    /\ IF meta[t] # NoFile
       THEN UNCHANGED <<meta, ddl>>
       ELSE /\ meta' = [meta EXCEPT ![t] = EmptyFile]
            /\ ddl' = [op |-> "table", tab |-> t, id |-> nextId,
                       at |-> IF good THEN "meta" ELSE "refused"]
    /\ UNCHANGED <<data, ifile, rows, rowsDisk, clog, ckpt, tabs, legacy, phase,
                   promised, halts, faults>>

(* TableMeta::init and serialize: a table that is refused leaves its empty  *)
(* file behind.                                                             *)
WriteMeta ==
    /\ phase = "up" /\ ddl.op = "table" /\ ddl.at \in {"meta", "refused"}
    /\ IF ddl.at = "refused"
       THEN ddl' = NoDdl /\ UNCHANGED meta
       ELSE /\ meta' = [meta EXCEPT ![ddl.tab] = [id |-> ddl.id, index |-> FALSE]]
            /\ ddl' = [ddl EXCEPT !.at = "data"]
    /\ UNCHANGED <<data, ifile, rows, rowsDisk, clog, ckpt, tabs, nextId, legacy,
                   phase, promised, ddls, halts, faults>>

CreateDataMut ==
    /\ phase = "up" /\ ddl.op = "table" /\ ddl.at = "data"
    /\ ddl' = [ddl EXCEPT !.at = "rows"] @@ [todo |-> RegisterRows(ddl.id, ddl.tab, FALSE)]
    /\ UNCHANGED <<files, rows, rowsDisk, clog, ckpt, tabs, nextId, legacy,
                   phase, promised, ddls, halts, faults>>
(* BufferPoolManager::create_file and the opening of the engine: a data     *)
(* file that is there ends the statement.                                   *)
CreateData ==
    /\ phase = "up" /\ ddl.op = "table" /\ ddl.at = "data"
    /\ IF ddl.tab \in data
       THEN ddl' = NoDdl /\ UNCHANGED data
       ELSE /\ data' = data \union {ddl.tab}
            /\ ddl' = [ddl EXCEPT !.at = "rows"] @@
                      [todo |-> RegisterRows(ddl.id, ddl.tab, FALSE)]
    /\ UNCHANGED <<meta, ifile, rows, rowsDisk, clog, ckpt, tabs, nextId, legacy,
                   phase, promised, ddls, halts, faults>>

(* The next row of register_table; after the last one the table is put in   *)
(* opened_tables_.                                                          *)
RegisterRow ==
    /\ phase = "up" /\ ddl.op = "table" /\ ddl.at = "rows"
    /\ InsertRow(Head(ddl.todo))
    /\ IF Len(ddl.todo) > 1
       THEN ddl' = [ddl EXCEPT !.todo = Tail(@)] /\ UNCHANGED tabs
       ELSE /\ tabs' = [tabs EXCEPT ![ddl.tab] =
                         [id |-> ddl.id, cols |-> AllColumns, index |-> 0, mem |-> 0,
                          handle |-> TRUE]]
            /\ ddl' = [op |-> "sync", tab |-> ddl.tab]
    /\ UNCHANGED <<files, rowsDisk, ckpt, nextId, legacy, phase, promised, ddls, halts,
                   faults>>

(* insert_row fails: create_table removes the files it made; the rows       *)
(* already inserted stay.                                                   *)
RegisterFails ==
    /\ "row" \in faults
    /\ phase = "up" /\ ddl.op = "table" /\ ddl.at = "rows"
    /\ meta' = [meta EXCEPT ![ddl.tab] = NoFile]
    /\ data' = data \ {ddl.tab}
    /\ ddl' = NoDdl
    /\ UNCHANGED <<ifile, rows, rowsDisk, clog, ckpt, tabs, nextId, legacy, phase,
                   promised, ddls, halts, faults>>

-----------------------------------------------------------------------------
(* CREATE INDEX, the index of table t.                                      *)

(* BplusTreeIndex::create: the file must be new; its first pages are logged.*)
CreateIndex(t) ==
    /\ phase = "up" /\ ddl = NoDdl /\ ddls < MaxDdl
    /\ tabs[t] # Closed /\ tabs[t].handle /\ tabs[t].mem = 0
    /\ ddls' = ddls + 1
    /\ IF t \in ifile
       THEN UNCHANGED <<ifile, clog, ddl>>
       ELSE /\ ifile' = ifile \union {t}
            /\ Log([kind |-> "index", tab |-> t])
            /\ ddl' = [op |-> "index", tab |-> t, at |-> "fill"]
    /\ UNCHANGED <<meta, data, rows, rowsDisk, ckpt, tabs, nextId, legacy, phase,
                   promised, halts, faults>>

(* The scan of the rows; an entry that is refused ends the statement, and   *)
(* the file stays.                                                          *)
FillIndex ==
    /\ phase = "up" /\ ddl.op = "index" /\ ddl.at = "fill"
    /\ \/ ddl' = [ddl EXCEPT !.at = "publish"] /\ Log([kind |-> "index", tab |-> ddl.tab])
       \/ "entry" \in faults /\ ddl' = NoDdl /\ UNCHANGED clog
    /\ UNCHANGED <<files, rows, rowsDisk, ckpt, tabs, nextId, legacy, phase, promised,
                   ddls, halts, faults>>

(* indexes_.push_back, then the new .table file is written beside the old   *)
(* one and renamed.  When that fails the index stays in indexes_.           *)
PublishIndex ==
    /\ phase = "up" /\ ddl.op = "index" /\ ddl.at = "publish"
    /\ \/ /\ meta' = [meta EXCEPT ![ddl.tab] = [id |-> tabs[ddl.tab].id, index |-> TRUE]]
          /\ tabs' = [tabs EXCEPT ![ddl.tab].mem = 1, ![ddl.tab].index = 1]
          /\ ddl' = [ddl EXCEPT !.at = "row"]
       \/ /\ "entry" \in faults
          /\ tabs' = [tabs EXCEPT ![ddl.tab].mem = 1]
          /\ ddl' = NoDdl
          /\ UNCHANGED meta
    /\ UNCHANGED <<data, ifile, rows, rowsDisk, clog, ckpt, nextId, legacy, phase,
                   promised, ddls, halts, faults>>

RegisterIndexMut ==
    /\ phase = "up" /\ ddl.op = "index" /\ ddl.at = "row"
    /\ ddl' = [op |-> "sync", tab |-> ddl.tab]
    /\ UNCHANGED <<files, rows, rowsDisk, clog, ckpt, tabs, nextId, legacy, phase,
                   promised, ddls, halts, faults>>
(* Db::register_index: the INDEX row.                                       *)
RegisterIndex ==
    /\ phase = "up" /\ ddl.op = "index" /\ ddl.at = "row"
    /\ \/ /\ InsertRow(Row("INDEX", tabs[ddl.tab].id, ddl.tab, 1))
          /\ ddl' = [op |-> "sync", tab |-> ddl.tab]
       \/ "row" \in faults /\ ddl' = NoDdl /\ UNCHANGED <<rows, clog>>
    /\ UNCHANGED <<files, rowsDisk, ckpt, tabs, nextId, legacy, phase, promised,
                   ddls, halts, faults>>

-----------------------------------------------------------------------------
(* Pages and log reach the disk; the process stops.                         *)

(* A page of the catalog is written when its frame is wanted or the table   *)
(* is synced.                                                               *)
WriteCatalog ==
    /\ phase = "up" /\ rowsDisk < Len(rows)
    /\ rowsDisk' = Len(rows)
    /\ UNCHANGED <<files, rows, clog, ckpt, tabs, nextId, ddl, legacy, phase, promised,
                   ddls, halts, faults>>

(* Db::sync, at the end of every statement that succeeds and when the       *)
(* server ends: every table's pages, then the checkpoint.                   *)
Sync ==
    /\ phase = "up" /\ ddl.op \in {"none", "sync"}
    /\ ddl.op = "sync" \/ ckpt < Len(clog) \/ rowsDisk < Len(rows)
    /\ rowsDisk' = Len(rows) /\ ckpt' = Len(clog)
    /\ promised' = promised \union (IF ddl.op = "sync" THEN {ddl.tab} ELSE {})
    /\ ddl' = NoDdl
    /\ UNCHANGED <<files, rows, clog, tabs, nextId, legacy, phase, ddls, halts, faults>>

RowEntries(n) == Cardinality({i \in 1..n : clog[i].kind = "row"})

(* The log entries that are surely on disk: a page is written after its log.*)
LogOnDisk ==
    LET upto == {i \in 1..Len(clog) : clog[i].kind = "row" /\ RowEntries(i) <= rowsDisk}
    IN  Max({ckpt} \union upto)

(* The first n entries of the log know a row or an index that the pages of  *)
(* the catalog do not.                                                      *)
LogAhead(n) ==
    \/ RowEntries(n) > rowsDisk
    \/ \E i \in ckpt+1..n :
          /\ clog[i].kind = "index"
          /\ ~\E r \in 1..rowsDisk : rows[r].kind = "INDEX" /\ rows[r].tab = clog[i].tab

HalfRegistered(rs) ==
    \E r \in Range(rs) : ~\E q \in Range(rs) : q.kind = "TABLE" /\ q.id = r.id

(* The process is killed; the log keeps a prefix.                           *)
Halt ==
    /\ phase \in {"up", "opened", "replayed"} /\ halts < MaxHalts
    /\ "files" \in faults \/ (ddl.op = "table" => ddl.at = "rows")
    /\ \E n \in LogOnDisk..Len(clog) :
          /\ ~LogAhead(n) \/ "ahead" \in faults
          /\ clog' = SubSeq(clog, 1, n)
          /\ rows' = SubSeq(rows, 1, Max({rowsDisk, RowEntries(n)}))
          /\ ~HalfRegistered(rows') \/ faults \intersect {"half", "row"} # {}
    /\ phase' = "down" /\ halts' = halts + 1
    /\ tabs' = [t \in Tables |-> Closed] /\ nextId' = 1 /\ ddl' = NoDdl /\ legacy' = <<>>
    /\ UNCHANGED <<files, rowsDisk, ckpt, promised, ddls, faults>>

-----------------------------------------------------------------------------
(* Db::init after a stop.                                                   *)

OfKindMut(rs, id, kind) == {i \in 1..Len(rs) : rs[i].kind = kind}
(* load_tables on the rows rs: what the catalog says of the table with      *)
(* number id.                                                               *)
OfKind(rs, id, kind) == {i \in 1..Len(rs) : rs[i].id = id /\ rs[i].kind = kind}

LoadTable(rs, id) ==
    LET cols == OfKind(rs, id, "COLUMN")
    IN  [id |-> id,
         tab |-> rs[Max(OfKind(rs, id, "TABLE"))].tab,
         cols |-> SortSeq([i \in 1..Cardinality(cols) |->
                    rs[CHOOSE c \in cols : Cardinality({d \in cols : d < c}) = i - 1].ordinal],
                    LAMBDA a, b : a < b),
         index |-> Cardinality(OfKind(rs, id, "INDEX"))]

LoadTables(rs) ==
    {LoadTable(rs, id) : id \in {r.id : r \in {q \in Range(rs) : q.kind = "TABLE"}}}

(* Table::open: a missing data file is not noticed, an index file that is   *)
(* missing or already open is.                                              *)
Opened(id, t, cols, index) ==
    [id |-> id, cols |-> cols, index |-> index, mem |-> index, handle |-> t \in data]
Opens(t, index) == index = 0 \/ (index = 1 /\ t \in ifile)

LegacyMut(known) ==
    {t \in Tables : meta[t] # NoFile}
(* The .table files of tables the catalog does not know.                    *)
Legacy(known) ==
    {t \in Tables : meta[t] # NoFile /\ t \notin known}

(* TableMeta::deserialize fails on a file without content.                  *)
Deserializes(t) == meta[t] # EmptyFile

NextIdMut(ids) == Max({0} \union {l.id : l \in LoadTables(SubSeq(rows, 1, rowsDisk))}) + 1
NextId(ids) == Max({0} \union ids) + 1

(* open_all_tables: the tables of the catalog, as its pages are on disk,    *)
(* then the .table files of others.  An unreadable .table file ends it.     *)
OpenAllTables ==
    /\ phase = "down"
    /\ LET loaded == LoadTables(SubSeq(rows, 1, rowsDisk))
           known  == {l.tab : l \in loaded}
           old    == Legacy(known)
           ok     == /\ \A t \in Tables : Deserializes(t)
                     /\ \A l \in loaded : Opens(l.tab, l.index)
                     /\ \A t \in old : t \notin known /\ Opens(t, IF meta[t].index THEN 1 ELSE 0)
       IN  IF ~ok
           THEN phase' = "broken" /\ UNCHANGED <<tabs, nextId, legacy>>
           ELSE /\ phase' = "opened"
                /\ tabs' = [t \in Tables |->
                     CASE t \in known ->
                            LET l == CHOOSE x \in loaded : x.tab = t
                            IN  Opened(l.id, t, l.cols, l.index)
                       [] t \in old ->
                            Opened(meta[t].id, t, AllColumns, IF meta[t].index THEN 1 ELSE 0)
                       [] OTHER -> Closed]
                /\ nextId' = NextId({l.id : l \in loaded} \union {meta[t].id : t \in old})
                /\ \E order \in SetToSeqs(old) : legacy' = order
    /\ UNCHANGED <<files, rows, rowsDisk, clog, ckpt, ddl, promised, ddls, halts, faults>>

(* recover: a log entry of a file that is not open fails the replay.        *)
Recover ==
    /\ phase = "opened"
    /\ phase' = IF \E i \in ckpt+1..Len(clog) :
                      clog[i].kind = "index" /\ (tabs[clog[i].tab] = Closed \/ tabs[clog[i].tab].mem = 0)
                THEN "broken" ELSE "replayed"
    /\ ddl' = IF phase' = "replayed" /\ legacy # <<>>
              THEN [op |-> "legacy",
                    todo |-> FlattenSeq([i \in 1..Len(legacy) |->
                       RegisterRows(tabs[legacy[i]].id, legacy[i], tabs[legacy[i]].index = 1)])]
              ELSE NoDdl
    /\ UNCHANGED <<files, rows, rowsDisk, clog, ckpt, tabs, nextId, legacy, promised,
                   ddls, halts, faults>>

(* finish_schema_catalog_bootstrap: the rows of the legacy tables, then the *)
(* catalog is synced.                                                       *)
RegisterLegacy ==
    /\ phase = "replayed" /\ ddl.op = "legacy"
    /\ InsertRow(Head(ddl.todo))
    /\ ddl' = IF Len(ddl.todo) > 1 THEN [ddl EXCEPT !.todo = Tail(@)] ELSE NoDdl
    /\ UNCHANGED <<files, rowsDisk, ckpt, tabs, nextId, legacy, phase, promised, ddls, halts, faults>>

FinishBootstrap ==
    /\ phase = "replayed" /\ ddl = NoDdl
    /\ phase' = "up" /\ rowsDisk' = Len(rows) /\ legacy' = <<>>
    /\ UNCHANGED <<files, rows, clog, ckpt, tabs, nextId, ddl, promised, ddls, halts, faults>>

CNext ==
    \/ \E t \in Tables : CreateIndex(t) \/ \E good \in BOOLEAN : CreateTable(t, good)
    \/ WriteMeta \/ CreateData \/ RegisterRow \/ RegisterFails
    \/ FillIndex \/ PublishIndex \/ RegisterIndex
    \/ WriteCatalog \/ Sync \/ Halt
    \/ OpenAllTables \/ Recover \/ RegisterLegacy \/ FinishBootstrap

CSpec == CInit /\ [][CNext]_cvars

-----------------------------------------------------------------------------
CTypeOK ==
    /\ \A t \in Tables :
          /\ meta[t].id \in -1..MaxDdl
          /\ tabs[t] = Closed \/ Range(tabs[t].cols) = 1..Columns
    /\ data \subseteq Tables /\ ifile \subseteq data
    /\ rowsDisk \in 0..Len(rows) /\ ckpt \in 0..Len(clog)
    /\ phase \in Phases
    /\ RowEntries(Len(clog)) <= Len(rows)

(* A database that was stopped opens again: Db::init meets no .table file   *)
(* it cannot read, no index file it opens twice or misses, and no log entry *)
(* of a file it did not open.  A refused CREATE TABLE, a stop between the   *)
(* files of a table, and a log that is ahead of the catalog, do prevent it. *)
EveryStopReopens ==
    faults \intersect {"attributes", "files", "half", "ahead"} = {} => phase # "broken"

(* A table whose CREATE TABLE was answered is in opened_tables_ of every later *)
(* run of the server, on its data file.                                     *)
CreatedTablesStay ==
    phase = "up" => \A t \in promised : tabs[t] # Closed /\ tabs[t].handle

(* However often the server is restarted, a table has the columns it was    *)
(* created with, each once.                                                 *)
ColumnsAreKept ==
    \A t \in Tables : tabs[t] # Closed => tabs[t].cols = AllColumns

(* So it is in every behaviour in which each registration is whole or       *)
(* absent: a table that was cut before its registration is registered from  *)
(* its .table file, once.                                                   *)
SchemaIsKept ==
    faults \intersect {"row", "half", "ahead"} = {} => ColumnsAreKept

(* Rows left by a failed registration have no effect (register_table): what *)
(* load_tables makes of the catalog is what was created.                    *)
LeftoverRowsHaveNoEffect == ColumnsAreKept

(* Between statements the indexes a table maintains, the ones its TableMeta *)
(* lists and the ones the catalog knows of it are the same, unless a        *)
(* CREATE INDEX failed after indexes_.push_back or a registration was       *)
(* repeated.                                                                *)
IndexesAgree ==
    phase = "up" /\ faults \intersect {"row", "entry", "half", "ahead"} = {} =>
       \A t \in Tables :
          tabs[t] # Closed /\ (ddl = NoDdl \/ ddl.tab # t) =>
             /\ tabs[t].mem = tabs[t].index
             /\ tabs[t].index = Cardinality(OfKind(rows, tabs[t].id, "INDEX"))

(* No two open tables have one number, and the next number is free: log     *)
(* entries and catalog rows name tables by number.                          *)
TableIdsAreUnique ==
    \A t \in Tables : tabs[t] # Closed =>
       /\ tabs[t].id < nextId
       /\ \A u \in Tables \ {t} : tabs[u] # Closed => tabs[u].id # tabs[t].id

(* Stops, restarts and failing statements leave a schema: the database      *)
(* opens, with the tables, columns, numbers and indexes that were created,  *)
(* each property for the faults it can stand (Db::init, SchemaCatalog).     *)
SchemaSurvives ==
    /\ CTypeOK /\ EveryStopReopens /\ CreatedTablesStay
    /\ SchemaIsKept /\ IndexesAgree /\ TableIdsAreUnique
=============================================================================
