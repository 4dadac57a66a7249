------------------------------ MODULE BlockIds ------------------------------
(***************************************************************************)
(* The ids of the blocks of one document: src/codec/anyblockjson/json.go,  *)
(* table.go and the id helpers of export.go.  Blocks, table columns, table *)
(* rows and the cells their pairs imply share one domain of ids.  An id is *)
(* a sequence of characters, for what a document writes depends on them:   *)
(* "-" joins a row and a column into a cell, and "." stands for every      *)
(* character the format has no room for.  The empty sequence is no id.     *)
(***************************************************************************)
EXTENDS Naturals, FiniteSets, SequencesExt, TLC

CONSTANTS
  MaxIdLen,   \* 64: the length of the longest id
  MintedLen,  \* 24: the length of an id the editor mints
  LabelLen,   \* 5: the length of a compact label
  Hex         \* the characters of minted ids

ASSUME LengthsAssumption ==
  /\ MaxIdLen \in Nat /\ MintedLen \in Nat /\ LabelLen \in Nat
  /\ 0 < LabelLen /\ LabelLen < MintedLen /\ MintedLen <= MaxIdLen

NoId == <<>>

CellId(row, column) == row \o <<"-">> \o column

IsBlockId(id) == id # NoId /\ Len(id) <= MaxIdLen /\ "." \notin ToSet(id)

IsInnerId(id) == IsBlockId(id) /\ "-" \notin ToSet(id)

Cut(id, length) == IF Len(id) <= length THEN id ELSE SubSeq(id, 1, length)

(* A stored id brought into the characters `forbidden` leaves; the empty   *)
(* one becomes `stub`.                                                     *)
Sanitize(id, forbidden, stub) ==
  IF id = NoId THEN stub
  ELSE Cut([i \in DOMAIN id |-> IF id[i] \in forbidden THEN "_" ELSE id[i]],
           MaxIdLen)

SanitizeBlock(id) == Sanitize(id, {"."}, <<"b">>)
(* Mutant: a joiner is left in.                                            *)
SanitizeInnerAsBlock(id) == Sanitize(id, {"."}, <<"c">>)
SanitizeInner(id) == Sanitize(id, {".", "-"}, <<"c">>)

(* Ids are told apart by _2, _3 and so on, within the longest id; no model *)
(* needs a tenth.                                                          *)
MaxSuffix == 9
Suffixed(base, n) == Cut(base, MaxIdLen - 2) \o <<"_", ToString(n)>>

UniqueLabel(base, taken) ==
  IF base \notin taken THEN base
  ELSE Suffixed(base,
         CHOOSE n \in 2..MaxSuffix :
           /\ Suffixed(base, n) \notin taken
           /\ \A m \in 2..(n - 1) : Suffixed(base, m) \in taken)

(* What `UniqueLabel` may make of `base`.                                  *)
Variants(base) == {base} \cup {Suffixed(base, n) : n \in 2..MaxSuffix}

Ending(id) == SubSeq(id, Len(id) - LabelLen + 1, Len(id))

IsMinted(id) == Len(id) = MintedLen /\ ToSet(id) \subseteq Hex

(* The compact label of each minted id of `ids`: its tail, when no other   *)
(* id of the document ends so and the label itself names nothing.  The     *)
(* names are the full ids of the document.                                 *)
SuffixLabels(ids, names) ==
  LET Bucket(id) == IF Len(id) > LabelLen THEN Ending(id) ELSE id
      Alone(id) == \A other \in ids \ {id} : Bucket(other) # Ending(id)
  IN  [id \in {minted \in ids : /\ IsMinted(minted) /\ Alone(minted)
                                /\ Ending(minted) \notin names
                                /\ IsInnerId(Ending(minted))}
         |-> Ending(id)]
=============================================================================
