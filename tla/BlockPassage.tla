---------------------------- MODULE BlockPassage ----------------------------
(***************************************************************************)
(* The life of an object's blocks: stored, marshalled, perhaps changed by  *)
(* an author, validated and unmarshalled into a store again, and           *)
(* marshalled from there.  Every export and every import is one call, of   *)
(* Marshal and of Unmarshal; a start is a stored object with the options   *)
(* of the exports, the generator of the imports and how many changes the   *)
(* author makes.                                                           *)
(***************************************************************************)
EXTENDS BlockImport

CONSTANTS
  Starts,        \* [stored, options, generator, edits]
  AuthoredIds,   \* ids an author may write
  MaxDocuments   \* how many documents are followed

VARIABLES
  start,      \* the start this behaviour has
  stored,     \* the stored object
  served,     \* the stored ids the last export recorded as written
  documents,  \* the documents, the one in hand last
  edits,      \* what the author still changes
  stage       \* "stored", "written", or how the passage ended

vars == <<start, stored, served, documents, edits, stage>>

Init ==
  /\ start \in Starts
  /\ stored = start.stored
  /\ served = {}
  /\ documents = <<>>
  /\ edits = start.edits
  /\ stage = "stored"

Export ==
  /\ stage = "stored" /\ Len(documents) < MaxDocuments
  /\ \E result \in {Marshal(stored, start.options)} :
       /\ stage' = IF result.failed THEN "failed" ELSE "written"
       /\ documents' = IF result.failed THEN documents
                       ELSE Append(documents, result.document)
       /\ served' = result.emitted
  /\ UNCHANGED <<start, stored, edits>>

InHand == Last(documents)

(* Every entry, column and row under another id, those of cells included.  *)
RECURSIVE Renamed(_, _, _)
Renamed(run, old, new) ==
  LET Name(id) == IF id = old THEN new ELSE id
  IN  [i \in DOMAIN run |->
        [run[i] EXCEPT
          !.id = Name(@),
          !.columns = [k \in DOMAIN @ |-> Name(@[k])],
          !.rows = [r \in DOMAIN @ |->
                     [@[r] EXCEPT !.id = Name(@),
                                  !.cells = [k \in DOMAIN @ |->
                                              Renamed(@[k], old, new)]]]]]

Edit(blocks) ==
  /\ stage = "written" /\ Len(documents) = 1 /\ edits > 0
  /\ documents' = <<[InHand EXCEPT !.blocks = blocks]>>
  /\ edits' = edits - 1
  /\ UNCHANGED <<start, stored, served, stage>>

(* An author names a block anew, or takes its id away.                     *)
Rename(old, new) == old # new /\ Edit(Renamed(InHand.blocks, old, new))

(* An author puts a block, or a group, before another.                     *)
Insert(i, type, indent) ==
  Edit(SubSeq(InHand.blocks, 1, i - 1)
         \o <<Entry(type, indent, NoId, NoWords, <<>>, <<>>)>>
         \o SubSeq(InHand.blocks, i, Len(InHand.blocks)))

(* An author indents a block and those after it one deeper.                *)
Indent(i) ==
  Edit([j \in DOMAIN InHand.blocks |->
         IF j < i THEN InHand.blocks[j]
         ELSE [InHand.blocks[j] EXCEPT !.indent = @ + 1]])

Import ==
  /\ stage = "written" /\ Validates(InHand)
  /\ Len(documents) < MaxDocuments
  /\ stored' = Unmarshal(start.generator, InHand)
  /\ stage' = "stored"
  /\ UNCHANGED <<start, served, documents, edits>>

Refuse ==
  /\ stage = "written" /\ ~ Validates(InHand)
  /\ stage' = "refused"
  /\ UNCHANGED <<start, stored, served, documents, edits>>

Author ==
  \/ \E i \in 1..Len(DocumentIds(InHand)), new \in AuthoredIds \cup {NoId} :
       Rename(DocumentIds(InHand)[i], new)
  \/ \E i \in 1..(Len(InHand.blocks) + 1), indent \in 0..1,
        type \in {"group", "dataview", "title"} : Insert(i, type, indent)
  \/ \E i \in DOMAIN InHand.blocks : Indent(i)

Next == Export \/ (stage = "written" /\ Author) \/ Import \/ Refuse

Spec == Init /\ [][Next]_vars

---------------------------------------------------------------------------
Untouched == edits = start.edits
FirstHand == Len(documents) = 1 /\ Untouched
Imported == stage = "stored" /\ documents # <<>>

(* The ids of every document an export writes are ids the reader accepts:  *)
(* of its characters and length, and no two of them the same, the whole    *)
(* grid of each table included.                                            *)
WrittenIdsAreAccepted ==
  stage = "written" /\ (Len(documents) > 1 \/ Untouched) =>
    /\ IsInjective(DocumentIds(InHand))
    /\ \A entry \in ToSet(AllEntries(InHand.blocks)) : Shaped(entry)

(* A stored id the document can hold stays with its block all the way to   *)
(* the next store: no id that has to change takes it, whichever of the two *)
(* blocks is written first.  It yields only to the cells of the tables'    *)
(* grids.                                                                  *)
FittingIdsAreKept ==
  Imported /\ FirstHand /\ ~ start.options.omit /\ ~ start.options.compact =>
    LET was == start.stored.blocks
        cells == UNION {ToSet(GridCells(entry)) :
                          entry \in ToSet(AllEntries(InHand.blocks))}
        Fits(id) == IF was[id].kind \in Inner THEN IsInnerId(id)
                    ELSE IsBlockId(id) /\ id \notin cells
    IN  \A id \in {id \in served : Fits(id)} :
          /\ id \in DOMAIN stored.blocks
          /\ stored.blocks[id].kind = was[id].kind
          /\ stored.blocks[id].words = was[id].words

(* The walk that plans an export and the export itself, two traversals of  *)
(* one graph, agree on the blocks that are written.                        *)
CensusIsTheEmission ==
  stage = "written" => served = EmissionPlan(stored).emitted

(* Whatever the generator answers and the author left out, no two blocks   *)
(* below the root have one id, and a block at the id of a cell is the cell.*)
RebuiltBlocksAreApart ==
  Imported =>
    /\ IsInjective(Tail(stored.ids))
    /\ \A table \in {id \in DOMAIN stored.blocks :
                       stored.blocks[id].kind = "table"} :
         \A row \in ToSet(RowAxis(stored, table)),
            column \in ToSet(ColumnAxis(stored, table)) :
           /\ "-" \notin ToSet(row) \cup ToSet(column)
           /\ CellId(row, column) \in DOMAIN stored.blocks =>
                HasCell(stored, row, column)

(* The tree a stored object shows, said without a document: every block    *)
(* below its parent in order, groups dissolved, a table's cells in its     *)
(* grid.                                                                   *)
RECURSIVE Outline(_, _, _)
Outline(s, ids, top) ==
  LET Cell(row, column) ==
        LET id == CellId(row, column)
            shown == Outline(s, <<id>>, FALSE)
        IN  IF \/ ~ HasCell(s, row, column)
               \/ s.blocks[id].kind \in Transparent
               \/ /\ s.blocks[id].kind = "text" /\ s.blocks[id].words = NoWords
                  /\ shown[1].below = <<>>
            THEN <<>> ELSE shown
      Grid(table) ==
        LET columns == ColumnAxis(s, table)
            axis == RowAxis(s, table)
            rows == HeadersFirst(axis, HeaderRows(s, axis))
        IN  [r \in DOMAIN rows |->
              [header |-> s.blocks[rows[r]].header,
               cells  |-> [k \in DOMAIN columns |-> Cell(rows[r], columns[k])]]]
      Shown(id, below) == <<[kind  |-> s.blocks[id].kind,
                             words |-> s.blocks[id].words, below |-> below]>>
      One(id) ==
        LET kind == s.blocks[id].kind
        IN  CASE top /\ kind \in Structural -> <<>>
              [] kind \in Transparent -> Outline(s, s.blocks[id].kids, top)
              [] kind = "table" -> Shown(id, Grid(id))
              [] kind \in Descending /\ ~ (top /\ kind \in Structural)
                   -> Shown(id, Outline(s, s.blocks[id].kids, FALSE))
              [] kind \in Leaves \ {"table"} -> Shown(id, <<>>)
              [] OTHER -> <<>>
      known == Known(s, ids)
  IN  FlattenSeq([i \in DOMAIN known |-> One(known[i])])

(* No block is anybody's child twice, and the root nobody's.               *)
IsTree(s) ==
  IsInjective(<<s.object>> \o FlattenSeq([i \in DOMAIN s.order |->
                                           s.blocks[s.order[i]].kids]))

(* A stored tree arrives as the tree it was.                               *)
TreesArrive ==
  Imported /\ FirstHand /\ ~ start.options.sink /\ IsTree(start.stored) =>
    Outline(stored, RootKids(stored), TRUE)
      = Outline(start.stored, RootKids(start.stored), TRUE)

(* Marshal never emits a document its own Validate rejects (SPEC.md 11).   *)
OwnDocumentsValidate == stage = "refused" => ~ FirstHand

(* An export of what was imported is the document that was imported, when  *)
(* that is one an export wrote.                                            *)
SecondExportRepeats ==
  stage = "written" =>
    \A i \in 2..Len(documents) :
      i > 2 \/ Untouched => documents[i].blocks = documents[i - 1].blocks
=============================================================================
