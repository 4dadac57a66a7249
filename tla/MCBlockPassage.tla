--------------------------- MODULE MCBlockPassage ---------------------------
(***************************************************************************)
(* Small objects for TLC, one family per kind of trouble: graphs that are  *)
(* no trees, ids that clash when they are written, tables whose pairs of   *)
(* ids clash, and documents an author has changed.                         *)
(***************************************************************************)
EXTENDS BlockPassage

Seqs(S, n) == UNION {[1..k -> S] : k \in 0..n}
Plain(sink) == [sink |-> sink, omit |-> FALSE, compact |-> FALSE]
O == <<"o">>
X == <<"x">>
Y == <<"y">>
Z == <<"z">>

Stored(order, blocks, mentions) ==
  [object |-> O, order |-> order, blocks |-> blocks, mentions |-> mentions,
   ids |-> order]
Block(kind, kids, words) == StoredBlock(kind, kids, words, FALSE)

(* Three blocks below a root, in every shape: shared, dangling, cyclic.    *)
Body(kinds, root, x, y, z) ==
  Stored(<<O, X, Y, Z>>,
         O :> Block("smartblock", root, NoWords)
           @@ X :> Block(kinds[1], x, "hi")
           @@ Y :> Block(kinds[2], y, NoWords)
           @@ Z :> Block(kinds[3], z, "yo"), {})
BodyKinds == {"text", "row", "column", "group", "divider", "title"}
Bodies ==
  [stored : {Body(kinds, root, x, y, z) :
               kinds \in [1..3 -> BodyKinds],
               root \in {<<X>>, <<Y, X>>},
               x \in {<<>>, <<Y, Z>>, <<Z, <<"l">>>>},
               y \in {<<>>, <<Z>>, <<X>>},
               z \in {<<>>, <<Y>>}},
   options : {Plain(TRUE), Plain(FALSE)}, generator : {<<<<"a">>>>}, edits : {0}]

(* Three texts whose ids clash when they are cut, cleaned or shortened.    *)
Clashing == {<<"a", "f", "a">>, <<"f", "f", "a">>, <<"f", "a">>,
             <<".", "f">>, <<"_", "f">>, <<"f", "a", "f", "a", "f", "a", "a">>,
             <<"f", "a", "f", "a", "f", "a", "f">>, <<"f", "a", "f", "a", "_", "2">>}
Texts(a, b, c, kind) ==
  Stored(<<O, a, b, c>>,
         O :> Block("smartblock", <<a, b, c>>, NoWords)
           @@ a :> Block("text", <<>>, "hi") @@ b :> Block("text", <<>>, "yo")
           @@ c :> Block(kind, <<>>, NoWords), {<<"f", "f">>})
Labels ==
  [stored : {Texts(t[1], t[2], t[3], kind) :
               t \in {u \in [1..3 -> Clashing] : IsInjective(u)},
               kind \in {"text", "group"}},
   options : [sink : {TRUE}, omit : {FALSE}, compact : BOOLEAN],
   generator : {<<<<"a">>>>}, edits : {0}]

(* A table of two columns and one row, and a text beside it, whose ids     *)
(* clash with each other and with the cells they imply; a cell is absent,  *)
(* empty, a text, a text with a child, or the text beside the table.       *)
AxisIds == {<<"r">>, <<".">>, <<"_">>, <<"r", "-", "r">>, <<"a", "f", "a">>,
            <<"f", "f", "a">>, <<"f", "a">>}
TableRowIds == {<<"r">>, <<".">>, <<"_">>, <<"a", "f", "a">>}
BesideIds == {<<"r", "-", "_">>, <<"_">>, <<"f", "a">>, <<"r", "-", "f", "a">>}
T == <<"t">>
C == <<"c">>
R == <<"w">>
Table(c1, c2, r, beside, first, cell, turned) ==
  LET pair == CellId(r, c1)
      all == <<O, beside, T, C, R, c1, c2, r, pair, Z>>
      blocks == O :> Block("smartblock", IF first THEN <<T, beside>> ELSE <<beside, T>>, NoWords)
           @@ beside :> Block("text", <<>>, "yo")
           @@ T :> Block("table", <<C, R>>, NoWords)
           @@ C :> Block("columns", IF turned THEN <<c2, c1>> ELSE <<c1, c2>>,
                      NoWords)
           @@ R :> Block("rows", <<r>>, NoWords)
           @@ c1 :> Block("tcol", <<>>, NoWords) @@ c2 :> Block("tcol", <<>>, NoWords)
           @@ r :> Block("trow", <<pair>>, NoWords)
           @@ pair :> (CASE cell = "parent" -> Block("text", <<Z>>, "hi")
                         [] cell = "lost" -> Block("styled", <<<<"l">>>>, "hi")
                         [] cell = "back" -> Block("styled", <<beside>>, "hi")
                         [] cell = "group" -> Block("group", <<Z>>, "hi")
                         [] cell = "empty" -> Block("text", <<>>, NoWords)
                         [] OTHER -> Block("text", <<>>, "hi"))
           @@ Z :> Block("text", <<>>, "yo")
  IN Stored(Once(all), blocks, {})
Tables ==
  [stored : {Table(i[1], i[2], i[3], b, first, "parent", FALSE) :
               i \in {u \in AxisIds \X AxisIds \X TableRowIds :
                        IsInjective(u)},
               b \in BesideIds, first \in BOOLEAN},
   options : [sink : {FALSE}, omit : {FALSE}, compact : BOOLEAN],
   generator : {<<<<"a">>>>}, edits : {0}]
Cells ==
  [stored : {Table(<<"k">>, <<"m">>, <<"r">>, X, first, cell, turned) :
               first \in BOOLEAN, turned \in BOOLEAN,
               cell \in {"text", "parent", "lost", "back", "empty", "group"}},
   options : [sink : BOOLEAN, omit : BOOLEAN, compact : {FALSE}],
   generator : {<<<<"a">>>>}, edits : {0}]

(* Two tables that share columns, rows or both, lack a wrapper or have one *)
(* twice, with rows that list each other's cells, and a cell whose child   *)
(* is the cell again or the other table.                                   *)
T2 == <<"u">>
C2 == <<"e">>
R2 == <<"q">>
Two(second, root, kids1, kids2, below, header) ==
  LET c == [i \in 1..3 |-> <<"k", ToString(i)>>]
      r == [i \in 1..2 |-> <<"r", ToString(i)>>]
      cell(i, j) == CellId(r[i], c[j])
      cells(kids) == [n \in DOMAIN kids |-> cell(kids[n][1], kids[n][2])]
      blocks ==
        O :> Block("smartblock", root, NoWords)
          @@ T :> Block("table", <<C, R>>, NoWords)
          @@ T2 :> Block("table", second, NoWords)
          @@ C :> Block("columns", <<c[1], c[2]>>, NoWords)
          @@ C2 :> Block("columns", <<c[1], c[2], c[3]>>, NoWords)
          @@ R :> Block("rows", <<r[1]>>, NoWords)
          @@ R2 :> Block("rows", <<r[1], r[2]>>, NoWords)
          @@ [id \in Range(c) |-> Block("tcol", <<>>, NoWords)]
          @@ r[1] :> Block("trow", cells(kids1), NoWords)
          @@ r[2] :> StoredBlock("trow", cells(kids2), NoWords, header)
          @@ cell(1, 1) :> Block("styled", <<Z>>, "hi")
          @@ cell(1, 2) :> Block("text", <<>>, NoWords)
          @@ cell(2, 2) :> Block("text", <<>>, "yo")
          @@ Z :> Block("text", below, "yo")
  IN  Stored(<<O, T, T2, C, C2, R, R2>> \o c \o r
                \o <<cell(1, 1), cell(1, 2), cell(2, 2), Z>>, blocks, {})
Twins ==
  [stored : {Two(second, root, k1, k2, below, header) :
               second \in {<<C, R2>>, <<C2, R>>, <<C2, R2>>, <<R2>>, <<C2, C, R2, R>>},
               root \in {<<T, T2>>, <<T2, T>>, <<T2>>},
               k1 \in {<<<<1, 1>>, <<1, 2>>>>, <<<<1, 2>>>>, <<<<2, 2>>, <<1, 1>>>>},
               k2 \in {<<<<2, 2>>>>, <<<<1, 1>>, <<2, 2>>>>},
               below \in {<<>>, <<CellId(<<"r", "1">>, <<"k", "1">>)>>, <<T>>},
               header \in BOOLEAN},
   options : [sink : BOOLEAN, omit : {FALSE}, compact : {FALSE}],
   generator : {<<<<"a">>>>}, edits : {0}]

(* Documents an author changes: a table with unnamed and named members, a  *)
(* view, and a text with a child; the generator's answers fit, are none,   *)
(* or hold the character that joins a cell.                                *)
V == <<"v">>
Edited ==
  Stored(<<O, T, C, R, <<"k">>, <<"r">>, <<"r", "-", "k">>, V, X>>,
         O :> Block("smartblock", <<T, V>>, NoWords)
           @@ T :> Block("table", <<C, R>>, NoWords)
           @@ C :> Block("columns", <<<<"k">>>>, NoWords)
           @@ R :> Block("rows", <<<<"r">>>>, NoWords)
           @@ <<"k">> :> Block("tcol", <<>>, NoWords)
           @@ <<"r">> :> Block("trow", <<<<"r", "-", "k">>>>, NoWords)
           @@ <<"r", "-", "k">> :> Block("text", <<X>>, "hi")
           @@ V :> Block("dataview", <<>>, NoWords)
           @@ X :> Block("text", <<>>, "yo"), {})
Authored ==
  [stored : {Edited},
   options : [sink : {TRUE}, omit : BOOLEAN, compact : {FALSE}],
   generator : {<<<<"a">>>>, <<<<"a", "-">>>>, <<<<"d">>, NoId, <<"r">>>>}, edits : {2}]

MCStarts == Bodies \cup Labels \cup Tables \cup Cells \cup Twins \cup Authored
MCAuthored == {<<"a">>, <<"r", "-", "a">>, <<"a", "-", "k">>, <<"d">>, <<"a", "_", "2">>, O}
MCDataview == <<"d">>

(* A row of a layout that holds a text.                                    *)
StrayRow ==
  [stored : {Body(<<"row", kind, "text">>, <<X>>, <<Y>>, <<Z>>, <<>>) :
               kind \in {"text", "column"}},
   options : [sink : BOOLEAN, omit : BOOLEAN, compact : BOOLEAN],
   generator : {<<<<"a">>>>}, edits : {0}]
=============================================================================
