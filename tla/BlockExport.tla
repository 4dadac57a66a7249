---------------------------- MODULE BlockExport ----------------------------
(***************************************************************************)
(* The blocks of a stored object written as a document: the block half of  *)
(* src/codec/anyblockjson/export.go, and table.go's tableToJSON.  A stored *)
(* object is a graph no one has checked: a block may have several parents, *)
(* children that do not exist, or itself among its descendants.            *)
(*                                                                         *)
(* A stored block is its kind, its children, its words (what its text,     *)
(* view or divider shows) and, for a row of a table, whether it is a       *)
(* header.  A document is a flat run of entries, each with an indent; a    *)
(* table's entry has columns and rows of cells, and a cell is again a run. *)
(* Values, marks and styles of a block are left out.                       *)
(***************************************************************************)
EXTENDS BlockIds

CONSTANTS
  NoWords,    \* the words of an empty block
  MaxIndent,  \* 32: the deepest indent
  MaxGrid     \* 100000: the most cells the grid of a table may have

Structural == {"title", "header"}
Transparent == {"group"}
Descending == {"text", "styled", "title", "row", "column"}
Leaves == {"table", "divider", "dataview"}
Served == Descending \cup Leaves
Inner == {"tcol", "trow"}    \* the members of a table's axes
Unmapped == Inner            \* kinds no entry of its own stands for

StoredBlock(kind, kids, words, header) ==
  [kind |-> kind, kids |-> kids, words |-> words, header |-> header]

Entry(type, indent, id, words, columns, rows) ==
  [type |-> type, indent |-> indent, id |-> id, words |-> words,
   columns |-> columns, rows |-> rows]

Known(s, ids) == SelectSeq(ids, LAMBDA id : id \in DOMAIN s.blocks)

(* The root is the block of the object's own id, else the first that is    *)
(* nobody's child.                                                         *)
RootKids(s) ==
  LET children == UNION {ToSet(s.blocks[id].kids) : id \in DOMAIN s.blocks}
      orphans == SelectSeq(s.order, LAMBDA id : id \notin children)
  IN  CASE s.object \in DOMAIN s.blocks -> s.blocks[s.object].kids
        [] s.object \notin DOMAIN s.blocks /\ orphans # <<>>
             -> s.blocks[Head(orphans)].kids
        [] OTHER -> <<>>

(* A sequence without its repetitions.                                     *)
Once(seq) == FoldLeft(LAMBDA once, e : IF e \in ToSet(once) THEN once
                                       ELSE Append(once, e), <<>>, seq)

(* A table's axis: the members in the last wrapper of its kind.            *)
Wrappers(s, table, kind) ==
  SelectSeq(Known(s, s.blocks[table].kids),
            LAMBDA id : s.blocks[id].kind = kind)
Axis(s, table, wrapper, member) ==
  LET wrappers == Wrappers(s, table, wrapper)
  IN  IF wrappers = <<>> THEN <<>>
      ELSE Once(SelectSeq(Known(s, s.blocks[Last(wrappers)].kids),
                          LAMBDA id : s.blocks[id].kind = member))
ColumnAxis(s, table) == Axis(s, table, "columns", "tcol")
RowAxis(s, table) == Axis(s, table, "rows", "trow")

HeadersFirst(rows, headers) ==
  SelectSeq(rows, LAMBDA row : row \in headers)
    \o SelectSeq(rows, LAMBDA row : row \notin headers)

HeaderRows(s, rows) == {row \in ToSet(rows) : s.blocks[row].header}

WithinLimit(rows, columns) == Len(rows) * Len(columns) <= MaxGrid

(* The cells of a row: its children that exist at the pair's id.           *)
HasCell(s, row, column) ==
  CellId(row, column) \in ToSet(s.blocks[row].kids) \cap DOMAIN s.blocks

---------------------------------------------------------------------------
(***************************************************************************)
(* The emission plan: a walk of the graph that writes nothing.             *)
(***************************************************************************)
NoPlan == [visited |-> {}, emitted |-> {}, tables |-> <<>>, order |-> <<>>]

RECURSIVE Walk(_, _, _, _, _)

WalkIds(s, plan, ids, top) ==
  FoldLeft(LAMBDA p, id : Walk(s, p, id, top, TRUE), plan, Known(s, ids))

(* Mutant: a cell is planned like any block.                               *)
WalkCellAsBlock(s, plan, cell) == Walk(s, plan, cell, FALSE, TRUE)

WalkCell(s, plan, cell) ==
  IF s.blocks[cell].kind \in Transparent
  THEN [plan EXCEPT !.visited = @ \cup {cell}]
  ELSE Walk(s, plan, cell, FALSE, FALSE)

WalkTable(s, plan, table) ==
  LET columns == SelectSeq(ColumnAxis(s, table),
                           LAMBDA id : id \notin plan.visited)
      rows == SelectSeq(RowAxis(s, table), LAMBDA id : id \notin plan.visited)
      owned == ToSet(columns) \cup ToSet(rows)
      claimed == [visited |-> plan.visited \cup owned,
                  emitted |-> plan.emitted \cup owned,
                  tables  |-> plan.tables @@
                                (table :> [columns |-> columns, rows |-> rows]),
                  order   |-> Append(plan.order, table)]
      WalkRow(p, row) ==
        FoldLeft(LAMBDA q, column : WalkCell(s, q, CellId(row, column)), p,
                 SelectSeq(columns, LAMBDA column : HasCell(s, row, column)))
  IN  IF WithinLimit(rows, columns)
      THEN FoldLeft(WalkRow, claimed,
                    HeadersFirst(rows, HeaderRows(s, rows)))
      ELSE claimed

Walk(s, plan, id, top, record) ==
  LET b == s.blocks[id]
      marked == [plan EXCEPT !.visited = @ \cup {id}]
      served == [marked EXCEPT !.emitted = IF record THEN @ \cup {id} ELSE @]
  IN  IF (top /\ b.kind \in Structural) \/ id \in plan.visited THEN plan
      ELSE CASE b.kind \in Transparent -> WalkIds(s, marked, b.kids, top)
             [] b.kind = "table"       -> WalkTable(s, served, id)
             [] b.kind \in Descending  -> WalkIds(s, served, b.kids, FALSE)
             [] b.kind \in Leaves \ {"table"} -> served
             [] OTHER                  -> marked

EmissionPlan(s) == WalkIds(s, NoPlan, RootKids(s), TRUE)

---------------------------------------------------------------------------
(***************************************************************************)
(* The labels reserved before anything is written.                         *)
(***************************************************************************)
Short(local, id) == IF id \in DOMAIN local THEN local[id] ELSE id

(* The cells the labelled axes of the planned tables imply.                *)
DerivedCells(plan, labels) ==
  UNION {{CellId(labels[row], labels[column]) :
             row \in ToSet(plan.tables[table].rows) \cap DOMAIN labels,
             column \in ToSet(plan.tables[table].columns) \cap DOMAIN labels} :
         table \in {t \in ToSet(plan.order) :
                      WithinLimit(plan.tables[t].rows, plan.tables[t].columns)}}

ServedInOrder(s, plan) ==
  SelectSeq(s.order, LAMBDA id : id \in plan.emitted)

(* Rows and columns first: the ids that fit, then the others by turns,     *)
(* clear of every id that is written as it is.                             *)
AxisLabels(s, plan, local) ==
  LET wanted == {Short(local, id) : id \in ToSet(ServedInOrder(s, plan))}
      inner == SelectSeq(ServedInOrder(s, plan),
                         LAMBDA id : s.blocks[id].kind \in Inner)
      valid == {id \in ToSet(inner) : IsInnerId(Short(local, id))}
      verbatim == [labels |-> [id \in valid |-> Short(local, id)],
                   used   |-> {Short(local, id) : id \in valid}]
      Reserve(t, id) ==
        LET label == UniqueLabel(SanitizeInner(Short(local, id)),
                                 t.used \cup wanted)
        IN  [labels |-> t.labels @@ (id :> label), used |-> t.used \cup {label}]
  IN  FoldLeft(Reserve, verbatim, SelectSeq(inner, LAMBDA id : id \notin valid))

(* Mutant: only the tables reserve; a text's id is taken as it comes.      *)
SeedAxesOnly(s, plan, local) ==
  LET axes == AxisLabels(s, plan, local)
  IN  [axes EXCEPT !.used = @ \cup DerivedCells(plan, axes.labels)]

(* Then the grids they imply, which cannot move, and every other block.    *)
SeedIdLabels(s, plan, local) ==
  LET axes == AxisLabels(s, plan, local)
      taken == axes.used \cup DerivedCells(plan, axes.labels)
      kept == {id \in ToSet(ServedInOrder(s, plan)) :
                 /\ s.blocks[id].kind \notin Inner
                 /\ IsBlockId(Short(local, id)) /\ Short(local, id) \notin taken}
  IN  [labels |-> axes.labels @@ [id \in kept |-> Short(local, id)],
       used   |-> taken \cup {Short(local, id) : id \in kept}]

(* The label of a block that is written, or dropped after it was asked     *)
(* for: the reserved one, or the next that is free.                        *)
Labelled(s, local, e, id) ==
  LET label == UniqueLabel(SanitizeBlock(Short(local, id)), e.used)
  IN  IF id \in DOMAIN e.labels THEN e
      ELSE [e EXCEPT !.labels = @ @@ (id :> label), !.used = @ \cup {label}]

---------------------------------------------------------------------------
(***************************************************************************)
(* The emission.  `o` has the options: whether a sink for warnings was     *)
(* given, whether ids are omitted, and whether labels are compact.  `c`    *)
(* adds the plan and the compact labels of this run; `e` is what the run   *)
(* has done so far.                                                        *)
(***************************************************************************)
Fail(e) == [e EXCEPT !.failed = TRUE]
Mark(e, id) == [e EXCEPT !.visited = @ \cup {id}]

RECURSIVE AppendBlock(_, _, _, _, _, _)

AppendBlocks(s, c, e, ids, depth, top) ==
  FoldLeft(LAMBDA q, id : AppendBlock(s, c, q, id, depth, top), e,
           Known(s, ids))

Written(c, e, s, id, depth, table) ==
  Entry(s.blocks[id].kind, depth, IF c.omit THEN NoId ELSE e.labels[id],
        s.blocks[id].words, table.columns, table.rows)

NoTable == [columns |-> <<>>, rows |-> <<>>]

(* A cell: nothing, the bare words of a plain text without children, or    *)
(* its block and below it the run of its descendants.  Its label is used   *)
(* up and its id not written.  No cell holds a table.  `t` has the cells   *)
(* of its row so far.                                                      *)
CellToJSON(s, c, t, cell) ==
  LET b == s.blocks[cell]
      root == Entry(b.kind, 0, NoId, b.words, <<>>, <<>>)
      Renders(st, run) == [t EXCEPT !.st = [st EXCEPT !.out = t.st.out],
                                    !.cells = Append(@, run)]
      HasTable(run) == \E i \in DOMAIN run : run[i].type = "table"
      Below(st) == Renders(IF HasTable(st.out) THEN Fail(st) ELSE st, st.out)
      Render(marked) ==
        CASE b.kind \in Descending ->
               Below(AppendBlocks(s, c, [marked EXCEPT !.out = <<root>>], b.kids,
                                  1, FALSE))
          [] b.kind \in Leaves \ {"table"} -> Renders(marked, <<root>>)
          [] b.kind = "table" -> Renders(Fail(marked), <<>>)
          [] b.kind \in Unmapped ->
               Renders(IF c.sink THEN marked ELSE Fail(marked), <<>>)
          [] OTHER -> Renders(marked, <<>>)
  IN  CASE b.kind \in Transparent -> Renders(Mark(t.st, cell), <<>>)
        [] b.kind \notin Transparent /\ cell \in t.st.visited ->
             Renders(t.st, <<>>)
        [] OTHER ->
             IF b.kind = "text" /\ b.kids = <<>>
             THEN Renders(Mark(t.st, cell),
                          IF b.words = NoWords THEN <<>>
                          ELSE <<[root EXCEPT !.type = "words"]>>)
             ELSE Render(Labelled(s, c.local, Mark(t.st, cell), cell))

(* Mutant: every empty cell is dropped, not only the last ones.            *)
TrimmedThroughout(cells) == SelectSeq(cells, LAMBDA cell : cell # <<>>)

Trimmed(cells) ==
  LET written == {0} \cup {i \in DOMAIN cells : cells[i] # <<>>}
  IN  SubSeq(cells, 1, CHOOSE i \in written : \A j \in written : j <= i)

(* The columns and rows of `axes`, and what their cells have done.         *)
GridToJSON(s, c, e, axes) ==
  LET Label(id) == IF c.omit THEN NoId ELSE e.labels[id]
      owned == ToSet(axes.columns) \cup ToSet(axes.rows)
      AddCell(t, row, column) ==
        IF HasCell(s, row, column) /\ ~ t.st.failed
        THEN CellToJSON(s, c, t, CellId(row, column))
        ELSE [t EXCEPT !.cells = Append(@, <<>>)]
      Ended(t, row) ==
        [t EXCEPT !.rows = Append(@, [id     |-> Label(row),
                                      header |-> s.blocks[row].header,
                                      cells  |-> Trimmed(t.cells)])]
      AddRow(t, row) ==
        Ended(FoldLeft(LAMBDA u, column : AddCell(u, row, column),
                       [t EXCEPT !.cells = <<>>], axes.columns), row)
  IN  FoldLeft(AddRow,
               [st      |-> [e EXCEPT !.visited = @ \cup owned,
                                      !.emitted = @ \cup owned],
                columns |-> [i \in DOMAIN axes.columns |-> Label(axes.columns[i])],
                rows    |-> <<>>,
                cells   |-> <<>>],
               HeadersFirst(axes.rows, HeaderRows(s, axes.rows)))

TableToJSON(s, c, e, table) ==
  IF Wrappers(s, table, "columns") = <<>> \/ Wrappers(s, table, "rows") = <<>>
  THEN [st |-> Fail(e), columns |-> <<>>, rows |-> <<>>]
  ELSE GridToJSON(s, c, e,
            IF table \in DOMAIN c.plan.tables THEN c.plan.tables[table]
            ELSE [columns |-> ColumnAxis(s, table), rows |-> RowAxis(s, table)])

(* One block and its subtree: the depth is checked before the visit.       *)
AppendBlock(s, c, e, id, depth, top) ==
  LET b == s.blocks[id]
      indent == IF depth > MaxIndent THEN MaxIndent ELSE depth
      Emit(st, table) ==
        [st EXCEPT !.emitted = @ \cup {id},
                   !.out = Append(@, Written(c, st, s, id, indent, table))]
      EmitTable(t) == IF t.st.failed THEN t.st ELSE Emit(t.st, t)
      Serve(marked) ==
        CASE b.kind \in Descending ->
               AppendBlocks(s, c, Emit(marked, NoTable), b.kids, depth + 1,
                            FALSE)
          [] b.kind = "table" -> EmitTable(TableToJSON(s, c, marked, id))
          [] b.kind \in Leaves \ {"table"} -> Emit(marked, NoTable)
          [] b.kind \in Unmapped /\ ~ c.sink -> Fail(marked)
          [] OTHER -> marked
  IN  CASE e.failed \/ (top /\ b.kind \in Structural) -> e
        [] ~ e.failed /\ b.kind \in Transparent ->
             IF id \in e.visited THEN e
             ELSE AppendBlocks(s, c, Mark(e, id), b.kids, depth, top)
        [] OTHER ->
             CASE depth > MaxIndent /\ ~ c.sink -> Fail(e)
               [] ~ (depth > MaxIndent /\ ~ c.sink) /\ id \in e.visited -> e
               [] OTHER -> Serve(Labelled(s, c.local, Mark(e, id), id))

Emission(s, o, plan, local) ==
  LET c == [sink |-> o.sink, omit |-> o.omit, plan |-> plan, local |-> local]
      From(seeded) == [visited |-> {}, emitted |-> {}, out |-> <<>>,
                       failed |-> FALSE, labels |-> seeded.labels,
                       used |-> seeded.used]
  IN  AppendBlocks(s, c, From(SeedIdLabels(s, plan, local)), RootKids(s), 0,
                   TRUE)

(* Mutant: the labels keep clear of blocks that no document shows.         *)
LocalIdsOfTheStore(s, o, plan) ==
  IF o.compact /\ ~ o.omit
  THEN SuffixLabels(DOMAIN s.blocks, DOMAIN s.blocks \cup s.mentions)
  ELSE <<>>

(* Compact labels are planned over what a first emission wrote, the cells  *)
(* its tables imply, and what else the document names.                     *)
LocalIds(s, o, plan) ==
  LET Labels(ids) == SuffixLabels(ids, ids \cup s.mentions \cup {s.object})
      Census(probe) == probe.emitted \cup DerivedCells(plan, probe.labels)
  IN  IF o.compact /\ ~ o.omit
      THEN Labels(Census(Emission(s, o, plan, <<>>)))
      ELSE <<>>

GridsFit(plan) ==
  \A table \in ToSet(plan.order) :
    WithinLimit(plan.tables[table].rows, plan.tables[table].columns)

Document(id, mentions, blocks) ==
  [id |-> id, mentions |-> mentions, blocks |-> blocks]

(* The document, or a failure.                                             *)
Marshal(s, o) ==
  LET Result(plan, run) ==
        [failed   |-> ~ GridsFit(plan) \/ run.failed,
         document |-> Document(s.object, s.mentions, run.out),
         emitted  |-> run.emitted]
      Planned(plan) ==
        Result(plan, Emission(s, o, plan, LocalIds(s, o, plan)))
  IN  Planned(EmissionPlan(s))
=============================================================================
