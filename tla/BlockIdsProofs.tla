--------------------------- MODULE BlockIdsProofs ---------------------------
(***************************************************************************)
(* What the ids of a document rest on, for ids of any length: a cell's id  *)
(* names one row and one column, what is brought into the format's         *)
(* characters is in them, and no compact label stands for two blocks.      *)
(* Ids are words over any letters that include the format's own.           *)
(***************************************************************************)
EXTENDS BlockIds, SequenceTheorems, TLAPS

(* The letters the format itself puts into an id are among them.           *)
Alphabet(Letters) == {"-", "_", "b", "c"} \subseteq Letters

(* What replaces a forbidden letter is not itself forbidden.               *)
Replaceable(forbidden) == "_" \notin forbidden

(* An id whose letters hold no joiner has none at any place.               *)
LEMMA JoinersCount ==
  ASSUME NEW Letters, NEW id \in Seq(Letters), "-" \notin ToSet(id)
  PROVE  \A i \in 1..Len(id) : id[i] # "-"
BY DEF ToSet

(* A cell's id: its length, its joiner, and what stands on either side.    *)
IsCell(cell, row, column) ==
  /\ Len(cell) = Len(row) + 1 + Len(column)
  /\ cell[Len(row) + 1] = "-"
  /\ \A i \in 1..Len(row) : cell[i] = row[i]
  /\ \A i \in 1..Len(column) : cell[Len(row) + 1 + i] = column[i]

(* A cell's id (table.go) reads as its row, the joiner and its column.     *)
LEMMA CellIdParts ==
  ASSUME NEW Letters, Alphabet(Letters),
         NEW row \in Seq(Letters), NEW column \in Seq(Letters)
  PROVE  IsCell(CellId(row, column), row, column)
<1>. DEFINE left == row \o <<"-">>
<1>1. "-" \in Letters
  BY DEF Alphabet
<1>2. /\ left \in Seq(Letters) /\ Len(left) = Len(row) + 1
      /\ left[Len(row) + 1] = "-"
      /\ \A i \in 1..Len(row) : left[i] = row[i]
  BY <1>1
<1>. HIDE DEF left
<1>3. /\ Len(left \o column) = Len(left) + Len(column)
      /\ \A i \in 1..Len(left) : (left \o column)[i] = left[i]
      /\ \A i \in 1..Len(column) : (left \o column)[Len(left) + i] = column[i]
  BY <1>2
<1>4. CellId(row, column) = left \o column
  BY DEF CellId, left
<1>. QED  BY <1>2, <1>3, <1>4 DEF IsCell

(* A row is no longer than another that shares a cell with it.             *)
LEMMA NoRowIsLonger ==
  ASSUME NEW Letters, Alphabet(Letters),
         NEW row \in Seq(Letters), NEW column \in Seq(Letters),
         NEW other \in Seq(Letters), NEW across \in Seq(Letters),
         "-" \notin ToSet(other), CellId(row, column) = CellId(other, across)
  PROVE  Len(other) <= Len(row)
<1>. SUFFICES ASSUME Len(row) < Len(other) PROVE FALSE
  OBVIOUS
<1>1. Len(row) + 1 \in 1..Len(other)
  OBVIOUS
<1>2. /\ IsCell(CellId(row, column), row, column)
      /\ IsCell(CellId(other, across), other, across)
  BY CellIdParts
<1>3. other[Len(row) + 1] # "-"
  BY <1>1, JoinersCount
<1>. QED  BY <1>1, <1>2, <1>3 DEF IsCell

(* Table ids hold no joiner, so that a cell is found by its id alone       *)
(* (table.go: a "-" in a row or column id silently reassigns cells).       *)
THEOREM CellsAreApart ==
  ASSUME NEW Letters, Alphabet(Letters),
         NEW row \in Seq(Letters), NEW column \in Seq(Letters),
         NEW other \in Seq(Letters), NEW across \in Seq(Letters),
         "-" \notin ToSet(row) \cup ToSet(other),
         CellId(row, column) = CellId(other, across)
  PROVE  row = other /\ column = across
<1>1. Len(row) = Len(other)
  <2>1. Len(other) <= Len(row)
    BY NoRowIsLonger
  <2>2. Len(row) <= Len(other)
    BY NoRowIsLonger
  <2>. QED  BY <2>1, <2>2
<1>2. /\ IsCell(CellId(row, column), row, column)
      /\ IsCell(CellId(other, across), other, across)
  BY CellIdParts
<1>3. Len(column) = Len(across)
  BY <1>1, <1>2 DEF IsCell
<1>4. \A i \in 1..Len(row) : row[i] = other[i]
  BY <1>1, <1>2 DEF IsCell
<1>5. \A i \in 1..Len(column) : column[i] = across[i]
  BY <1>1, <1>2, <1>3 DEF IsCell
<1>6. row = other
  BY <1>1, <1>4, SeqEqual
<1>7. column = across
  BY <1>3, <1>5, SeqEqual
<1>. QED  BY <1>6, <1>7

(* A set of letters none of which a word has is a set the word avoids.     *)
LEMMA Avoided ==
  ASSUME NEW Letters, NEW id \in Seq(Letters), NEW forbidden,
         \A i \in 1..Len(id) : id[i] \notin forbidden
  PROVE  \A letter \in ToSet(id) : letter \notin forbidden
BY DEF ToSet

(* Cutting a word to the longest id keeps it a word, of its own letters.   *)
LEMMA CutWords ==
  ASSUME NEW Letters, NEW word \in Seq(Letters), Len(word) > 0,
         NEW forbidden, \A i \in 1..Len(word) : word[i] \notin forbidden
  PROVE  /\ Len(Cut(word, MaxIdLen)) \in 1..MaxIdLen
         /\ \A letter \in ToSet(Cut(word, MaxIdLen)) : letter \notin forbidden
<1>1. MaxIdLen \in Nat /\ MaxIdLen > 0 /\ Len(word) \in Nat
  BY LengthsAssumption
<1>2. CASE Len(word) <= MaxIdLen
  <2>1. Cut(word, MaxIdLen) = word
    BY <1>2 DEF Cut
  <2>2. \A letter \in ToSet(word) : letter \notin forbidden
    BY Avoided
  <2>3. Len(word) \in 1..MaxIdLen
    BY <1>1, <1>2
  <2>. QED  BY <2>1, <2>2, <2>3
<1>3. CASE ~ (Len(word) <= MaxIdLen)
  <2>. DEFINE head == SubSeq(word, 1, MaxIdLen)
  <2>1. Cut(word, MaxIdLen) = head
    BY <1>3 DEF Cut
  <2>2. head \in Seq(Letters) /\ Len(head) = MaxIdLen
    BY <1>1, <1>3, SubSeqProperties
  <2>3. \A i \in 1..MaxIdLen : head[i] = word[i]
    BY <1>1, <1>3
  <2>. HIDE DEF head
  <2>4. \A i \in 1..Len(head) : head[i] \notin forbidden
    BY <1>1, <1>3, <2>2, <2>3
  <2>5. \A letter \in ToSet(head) : letter \notin forbidden
    BY <2>2, <2>4, Avoided
  <2>6. MaxIdLen \in 1..MaxIdLen
    BY <1>1
  <2>. QED  BY <2>1, <2>2, <2>5, <2>6
<1>. QED  BY <1>2, <1>3

(* A letter put for each forbidden one leaves a word of the same length.   *)
LEMMA ReplacedWords ==
  ASSUME NEW Letters, NEW id \in Seq(Letters), NEW forbidden,
         NEW other \in Letters, other \notin forbidden, NEW clean,
         clean = [i \in DOMAIN id |->
                    IF id[i] \in forbidden THEN other ELSE id[i]]
  PROVE  /\ clean \in Seq(Letters) /\ Len(clean) = Len(id)
         /\ \A i \in 1..Len(clean) : clean[i] \notin forbidden
<1>1. DOMAIN id = 1..Len(id) /\ Len(id) \in Nat
  OBVIOUS
<1>2. \A i \in 1..Len(id) : id[i] \in Letters
  OBVIOUS
<1>3. clean \in [1..Len(id) -> Letters]
  BY <1>1, <1>2
<1>4. \A i \in 1..Len(id) : clean[i] \notin forbidden
  BY <1>1
<1>5. clean \in Seq(Letters) /\ Len(clean) = Len(id)
  BY <1>1, <1>3
<1>. QED  BY <1>4, <1>5

(* An id that is not the empty one has letters.                            *)
LEMMA LettersCount ==
  ASSUME NEW Letters, NEW id \in Seq(Letters), id # NoId
  PROVE  Len(id) > 0
BY DEF NoId

(* The stub that stands for the empty id is short enough and allowed.      *)
LEMMA StubWords ==
  ASSUME NEW Letters, NEW stub \in Letters, NEW forbidden, stub \notin forbidden
  PROVE  /\ Len(<<stub>>) \in 1..MaxIdLen
         /\ \A letter \in ToSet(<<stub>>) : letter \notin forbidden
<1>1. <<stub>> \in Seq(Letters) /\ Len(<<stub>>) = 1 /\ <<stub>>[1] = stub
  OBVIOUS
<1>2. 1 \in 1..MaxIdLen
  BY LengthsAssumption
<1>3. \A letter \in ToSet(<<stub>>) : letter \notin forbidden
  <2>1. \A i \in 1..Len(<<stub>>) : <<stub>>[i] \notin forbidden
    BY <1>1
  <2>. QED  BY <1>1, <2>1, Avoided, Zenon
<1>. QED  BY <1>1, <1>2, <1>3

(* What is brought into the characters `forbidden` leaves is in them.      *)
LEMMA CleanWords ==
  ASSUME NEW Letters, Alphabet(Letters), NEW id \in Seq(Letters),
         NEW forbidden, Replaceable(forbidden),
         NEW stub \in Letters, stub \notin forbidden
  PROVE  /\ Len(Sanitize(id, forbidden, <<stub>>)) \in 1..MaxIdLen
         /\ \A letter \in ToSet(Sanitize(id, forbidden, <<stub>>)) :
              letter \notin forbidden
<1>1. CASE id = NoId
  <2>1. Sanitize(id, forbidden, <<stub>>) = <<stub>>
    BY <1>1, Zenon DEF Sanitize
  <2>. QED  BY <2>1, StubWords, Zenon
<1>2. CASE id # NoId
  <2>1. PICK clean : /\ clean = [i \in DOMAIN id |->
                                    IF id[i] \in forbidden THEN "_" ELSE id[i]]
                     /\ Sanitize(id, forbidden, <<stub>>) = Cut(clean, MaxIdLen)
    BY <1>2, Zenon DEF Sanitize
  <2>2. PICK other : /\ other \in Letters /\ other \notin forbidden
                     /\ clean = [i \in DOMAIN id |->
                                    IF id[i] \in forbidden THEN other ELSE id[i]]
    BY <2>1, Zenon DEF Alphabet, Replaceable
  <2>3. /\ clean \in Seq(Letters) /\ Len(clean) = Len(id)
        /\ \A i \in 1..Len(clean) : clean[i] \notin forbidden
    BY <2>2, ReplacedWords
  <2>4. Len(id) > 0
    BY <1>2, LettersCount
  <2>5. Len(clean) > 0
    BY <2>3, <2>4, Zenon
  <2>6. /\ Len(Cut(clean, MaxIdLen)) \in 1..MaxIdLen
        /\ \A letter \in ToSet(Cut(clean, MaxIdLen)) : letter \notin forbidden
    BY <2>3, <2>5, CutWords, Zenon
  <2>. QED  BY <2>1, <2>6, Zenon
<1>. QED  BY <1>1, <1>2

(* Whatever was stored, the id that is written instead is one the reader   *)
(* accepts: not empty, not too long, of the format's characters, and       *)
(* without a joiner for a row or a column (json.go sanitizeBlockId,        *)
(* table.go sanitizeTableInnerId).                                         *)
THEOREM CleanIdsAreAccepted ==
  ASSUME NEW Letters, Alphabet(Letters), NEW id \in Seq(Letters)
  PROVE  IsBlockId(SanitizeBlock(id)) /\ IsInnerId(SanitizeInner(id))
<1>1. /\ Replaceable({"."}) /\ "b" \notin {"."} /\ "b" \in Letters
      /\ Replaceable({".", "-"}) /\ "c" \notin {".", "-"} /\ "c" \in Letters
  BY DEF Alphabet, Replaceable
<1>2. /\ Len(SanitizeBlock(id)) \in 1..MaxIdLen
      /\ \A letter \in ToSet(SanitizeBlock(id)) : letter \notin {"."}
  BY <1>1, CleanWords DEF SanitizeBlock
<1>3. /\ Len(SanitizeInner(id)) \in 1..MaxIdLen
      /\ \A letter \in ToSet(SanitizeInner(id)) : letter \notin {".", "-"}
  BY <1>1, CleanWords DEF SanitizeInner
<1>4. Len(NoId) = 0
  BY DEF NoId
<1>5. SanitizeBlock(id) # NoId /\ SanitizeInner(id) # NoId
  BY <1>2, <1>3, <1>4, LengthsAssumption
<1>6. IsBlockId(SanitizeBlock(id))
  BY <1>2, <1>5, LengthsAssumption DEF IsBlockId
<1>7. IsInnerId(SanitizeInner(id))
  BY <1>3, <1>5, LengthsAssumption DEF IsBlockId, IsInnerId
<1>. QED  BY <1>6, <1>7

(* No compact label names two blocks, ends another block's id, or is a     *)
(* name the document has another use for (export.go buildLabelPlan).       *)
THEOREM LabelsAreApart ==
  ASSUME NEW ids, NEW names,
         NEW a \in DOMAIN SuffixLabels(ids, names),
         NEW b \in ids, a # b
  PROVE  LET labels == SuffixLabels(ids, names)
         IN  /\ labels[a] \notin names
             /\ Len(b) > LabelLen => labels[a] # Ending(b)
             /\ ~ (Len(b) > LabelLen) => labels[a] # b
             /\ b \in DOMAIN labels => labels[a] # labels[b]
<1>. DEFINE Bucket(id) == IF Len(id) > LabelLen THEN Ending(id) ELSE id
            Alone(id) == \A other \in ids \ {id} : Bucket(other) # Ending(id)
            held == {minted \in ids : /\ IsMinted(minted) /\ Alone(minted)
                                      /\ Ending(minted) \notin names
                                      /\ IsInnerId(Ending(minted))}
<1>1. SuffixLabels(ids, names) = [id \in held |-> Ending(id)]
  BY DEF SuffixLabels
<1>2. a \in held /\ SuffixLabels(ids, names)[a] = Ending(a)
  BY <1>1
<1>3. Bucket(b) # Ending(a)
  BY <1>2
<1>4. b \in held => Bucket(b) = Ending(b)
  BY LengthsAssumption DEF IsMinted
<1>5. b \in held => SuffixLabels(ids, names)[b] = Ending(b)
  BY <1>1
<1>6. DOMAIN SuffixLabels(ids, names) = held
  BY <1>1
<1>7. Ending(a) \notin names
  BY <1>2
<1>8. Len(b) > LabelLen => Bucket(b) = Ending(b)
  OBVIOUS
<1>9. ~ (Len(b) > LabelLen) => Bucket(b) = b
  OBVIOUS
<1>. HIDE DEF held, Bucket
<1>. QED  BY <1>2, <1>3, <1>4, <1>5, <1>6, <1>7, <1>8, <1>9
=============================================================================
