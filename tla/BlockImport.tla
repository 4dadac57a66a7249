---------------------------- MODULE BlockImport ----------------------------
(***************************************************************************)
(* A document's blocks read back: the containment and id rules of          *)
(* src/codec/anyblockjson/validate.go, and the rebuild of import.go and    *)
(* table.go's tableFromJSON.  A document may be another program's or       *)
(* person's: entries without ids, groups, any indents.                     *)
(***************************************************************************)
EXTENDS BlockExport

CONSTANT DataviewId  \* "dataview": the id of an object's own dataview

(* The entries of a run, of its tables' cells and of their own tables.     *)
RECURSIVE AllEntries(_)
AllEntries(run) ==
  FlattenSeq([i \in DOMAIN run |->
    <<run[i]>> \o FlattenSeq([r \in DOMAIN run[i].rows |->
                    FlattenSeq([k \in DOMAIN run[i].rows[r].cells |->
                                  AllEntries(run[i].rows[r].cells[k])])])])

Present(ids) == SelectSeq(ids, LAMBDA id : id # NoId)

(* What one entry claims: its id, its axes, and every pair of them.        *)
RowIds(entry) == Present([r \in DOMAIN entry.rows |-> entry.rows[r].id])
ColumnIds(entry) == Present(entry.columns)
GridCells(entry) ==
  FlattenSeq([r \in DOMAIN RowIds(entry) |->
    [k \in DOMAIN ColumnIds(entry) |->
      CellId(RowIds(entry)[r], ColumnIds(entry)[k])]])
EntryIds(entry) ==
  Present(<<entry.id>>) \o ColumnIds(entry) \o RowIds(entry) \o GridCells(entry)

DocumentIds(doc) ==
  LET entries == AllEntries(doc.blocks)
  IN  FlattenSeq([i \in DOMAIN entries |-> EntryIds(entries[i])])

(* The entries an entry of a flat run is below, and the nearest of them    *)
(* that is not a group.                                                    *)
Ancestors(run, i) ==
  {j \in 1..(i - 1) : \A k \in (j + 1)..i : run[k].indent > run[j].indent}
EffectiveParents(run, i) ==
  {j \in Ancestors(run, i) :
     /\ run[j].type \notin Transparent
     /\ \A k \in Ancestors(run, i) : k > j => run[k].type \in Transparent}

Monotone(run) ==
  \A i \in DOMAIN run :
    run[i].indent <= (IF i = 1 THEN 0 ELSE run[i - 1].indent + 1)

Contained(run) ==
  \A i \in {i \in DOMAIN run : run[i].type \notin Transparent} :
    /\ \A j \in EffectiveParents(run, i) :
         /\ run[j].type \notin Leaves
         /\ run[j].type = "row" => run[i].type = "column"
    /\ run[i].type = "column" =>
         \E j \in EffectiveParents(run, i) : run[j].type = "row"

Shaped(entry) ==
  /\ entry.indent <= MaxIndent
  /\ entry.id # NoId => IsBlockId(entry.id)
  /\ \A id \in ToSet(entry.columns) \cup {row.id : row \in ToSet(entry.rows)} :
       id # NoId => IsInnerId(id)
  /\ WithinLimit(entry.rows, entry.columns)
  /\ \A row \in ToSet(entry.rows) : Len(row.cells) <= Len(entry.columns)

(* One block and its descendants: nothing a cell holds is a table, and its *)
(* own block has no id.  The containment of a cell of one block is not     *)
(* asked, for it is no run.                                                *)
CellAccepted(cell) ==
  /\ \A i \in DOMAIN cell : cell[i].type # "table"
  /\ cell # <<>> => cell[1].id = NoId /\ cell[1].type \notin Transparent
  /\ Len(cell) > 1 => /\ Monotone(cell) /\ Contained(cell)
                      /\ \A i \in 2..Len(cell) : cell[i].indent > 0

Validates(doc) ==
  LET entries == ToSet(AllEntries(doc.blocks))
  IN  /\ IsInjective(DocumentIds(doc))
      /\ Monotone(doc.blocks) /\ Contained(doc.blocks)
      /\ \A entry \in entries :
           /\ Shaped(entry)
           /\ \A row \in ToSet(entry.rows) :
                \A k \in DOMAIN row.cells : CellAccepted(row.cells[k])

---------------------------------------------------------------------------
(***************************************************************************)
(* The rebuild.  `st` has the ids in use, how often the caller's generator *)
(* was asked, the last id minted and the blocks built, in order.  `g` is   *)
(* the generator: its answers, over and over.                              *)
(***************************************************************************)
Claim(st, ids) == [st EXCEPT !.used = @ \cup ids]

GenId(g, st) ==
  LET proposal == g[1 + (st.asked % Len(g))]
      id == UniqueLabel(IF proposal = NoId THEN <<"b">> ELSE proposal, st.used)
  IN  [Claim(st, {id}) EXCEPT !.asked = @ + 1, !.id = id]

(* Mutant: the generator's answer is trusted.                              *)
NewTableInnerIdAsMinted(g, st, rows, columns) == GenId(g, st)

(* The id of a column across `rows`, or of a row across `columns`: no "-", *)
(* and no cell it implies is taken.                                        *)
Untangled(made, rows, columns) ==
  LET clean == SanitizeInner(made.id)
      Implies(id) ==
        \/ \E row \in rows : CellId(row, id) \in made.used
        \/ \E column \in columns : CellId(id, column) \in made.used
      id == UniqueLabel(clean,
                        made.used \cup {v \in Variants(clean) : Implies(v)})
  IN  IF clean = made.id /\ ~ Implies(made.id) THEN made
      ELSE [Claim(made, {id}) EXCEPT !.id = id]

NewTableInnerId(g, st, rows, columns) == Untangled(GenId(g, st), rows, columns)

Built(st, id, kind, kids, words, header) ==
  [st EXCEPT !.blocks = Append(@, [id    |-> id,
                                   block |-> StoredBlock(kind, kids, words, header)])]

Adopt(st, parent, id) ==
  [st EXCEPT !.blocks[parent].block.kids = Append(@, id)]

(* A group is not a block: what it holds takes its place, one level up.    *)
Lifted(run) ==
  LET Containers(i) == {j \in Ancestors(run, i) : run[j].type \in Transparent}
      up == [i \in DOMAIN run |->
               [run[i] EXCEPT !.indent = @ - Cardinality(Containers(i))]]
  IN  SelectSeq(up, LAMBDA entry : entry.type \notin Transparent)

RECURSIVE AddEntry(_, _, _, _)

(* The run below the block at position `root`, whose indent is `base`: an  *)
(* entry's parent is the nearest before it that is indented less.          *)
AddRun(g, st, run, root) ==
  LET Parent(t, i) ==
        LET shallower == {j \in 1..(i - 1) : run[j].indent < run[i].indent}
        IN  IF shallower = {} THEN root ELSE t.at[Max(shallower)]
      Placed(t, i, added) ==
        LET position == Len(t.st.blocks) + 1
        IN  [st |-> Adopt(added, Parent(t, i), added.blocks[position].id),
             at |-> Append(t.at, position)]
      Add(t, i) == Placed(t, i, AddEntry(g, t.st, run[i], NoId))
  IN  FoldLeftDomain(Add, [st |-> st, at |-> <<>>], run).st

EmptyCell(cell) ==
  \/ cell = <<>>
  \/ Len(cell) = 1 /\ cell[1].type = "text" /\ cell[1].words = NoWords

AddCell(g, st, cell, cellId) ==
  AddRun(g, AddEntry(g, st, Head(cell), cellId), Lifted(Tail(cell)),
         Len(st.blocks) + 1)

(* A table under the id in hand: its wrappers', columns' and rows' ids     *)
(* are found before any of its cells is built.                             *)
AddTable(g, st, entry) ==
  LET authored == ToSet(RowIds(entry))
      rows == HeadersFirst(entry.rows, {row \in ToSet(entry.rows) : row.header})
      Mint(t, axis, made) == [t EXCEPT !.st = made, ![axis] = Append(@, made.id)]
      Wrapper(t) == Mint(t, "wrappers", GenId(g, t.st))
      AddColumn(t, column) ==
        Mint(t, "columns",
             IF column # NoId THEN [t.st EXCEPT !.id = column]
             ELSE NewTableInnerId(g, t.st, authored, {}))
      AddRowId(t, row) ==
        Mint(t, "rows",
             IF row.id # NoId THEN [t.st EXCEPT !.id = row.id]
             ELSE NewTableInnerId(g, t.st, {}, ToSet(t.columns)))
      Named(t) == FoldLeft(AddRowId, FoldLeft(AddColumn, t, entry.columns), rows)
      Laid(t) ==
        LET Cell(i, k) == CellId(t.rows[i], t.columns[k])
            grid == {Cell(i, k) : i \in DOMAIN t.rows, k \in DOMAIN t.columns}
            Wrap(u, id, kind, kids) == Built(u, id, kind, kids, NoWords, FALSE)
            Frame(u) ==
              Wrap(Wrap(Wrap(u, st.id, "table", t.wrappers),
                        t.wrappers[1], "columns", t.columns),
                   t.wrappers[2], "rows", t.rows)
            AddRow(u, i) ==
              LET written == SelectSeq([k \in DOMAIN rows[i].cells |-> k],
                                       LAMBDA k : ~ EmptyCell(rows[i].cells[k]))
              IN  Built(FoldLeft(LAMBDA v, k :
                                   AddCell(g, v, rows[i].cells[k], Cell(i, k)),
                                 u, written),
                        t.rows[i], "trow",
                        [j \in DOMAIN written |-> Cell(i, written[j])], NoWords,
                        rows[i].header)
        IN  FoldLeftDomain(AddRow,
                           FoldLeft(LAMBDA u, id : Wrap(u, id, "tcol", <<>>),
                                    Frame(Claim(t.st, grid)), t.columns),
                           rows)
  IN  Laid(Named(Wrapper(Wrapper([st |-> st, wrappers |-> <<>>,
                                  columns |-> <<>>, rows |-> <<>>]))))

AddEntry(g, st, entry, forced) ==
  LET Add(made) ==
        IF entry.type = "table" THEN AddTable(g, made, entry)
        ELSE Built(made, made.id,
                   IF entry.type = "words" THEN "text" ELSE entry.type,
                   <<>>, entry.words, FALSE)
  IN  Add(IF forced # NoId THEN [st EXCEPT !.id = forced]
          ELSE IF entry.id # NoId THEN [st EXCEPT !.id = entry.id]
          ELSE GenId(g, st))

(* The first dataview at the top that has no id is the object's own.       *)
PinPrimaryDataview(st, run) ==
  LET unnamed == {i \in DOMAIN run : /\ run[i].indent = 0 /\ run[i].id = NoId
                                     /\ run[i].type = "dataview"}
      first == CHOOSE i \in unnamed : \A j \in unnamed : i <= j
  IN  IF DataviewId \in st.used \/ unnamed = {} THEN [st |-> st, run |-> run]
      ELSE [st |-> Claim(st, {DataviewId}),
            run |-> [run EXCEPT ![first].id = DataviewId]]

(* A title at the top is a property of the object: it is no block, nor is  *)
(* what is below it.                                                       *)
Absorbed(run) ==
  LET Root(i) == CHOOSE j \in 1..i :
                   /\ run[j].indent = 0
                   /\ \A k \in (j + 1)..i : run[k].indent > 0
      kept == SelectSeq([i \in DOMAIN run |-> i],
                        LAMBDA i : run[Root(i)].type \notin Structural)
  IN  [i \in DOMAIN kept |-> run[kept[i]]]

(* The blocks built, as a store has them; of two of one id, a reader finds *)
(* the last.                                                               *)
AsStored(object, built, mentions) ==
  LET ids == [i \in DOMAIN built |-> built[i].id]
  IN  [object   |-> object,
       ids      |-> ids,
       order    |-> Once(ids),
       blocks   |-> [id \in ToSet(ids) |->
                      built[Max({i \in DOMAIN ids : ids[i] = id})].block],
       mentions |-> mentions]

(* The stored object a document becomes.                                   *)
Unmarshal(g, doc) ==
  LET start == [used |-> ToSet(DocumentIds(doc)) \cup {doc.id}, asked |-> 0,
                id |-> doc.id, blocks |-> <<>>]
      Root == IF doc.id = NoId THEN GenId(g, start) ELSE start
      Object(st) == Built(st, st.id, "smartblock", <<>>, NoWords, FALSE)
      Rebuilt(pinned) ==
        AsStored(pinned.st.id,
                 AddRun(g, Object(pinned.st), Absorbed(pinned.run), 1).blocks,
                 doc.mentions)
  IN  Rebuilt(PinPrimaryDataview(Root, Lifted(doc.blocks)))
=============================================================================
