-------------------------- MODULE OptionVocabulary --------------------------
(***************************************************************************)
(* The select vocabulary of one property, as the composer's Finish writes  *)
(* it (bundle/compose.go): the observed options sorted into the order the  *)
(* application's option picker shows, and reduced to the options the       *)
(* dictionary writer accepts.                                              *)
(*                                                                         *)
(* An observed option is a record                                          *)
(*   order    its lexid `orderId`, 0 when it states none                   *)
(*   created  its `createdDate`                                            *)
(*   id       the option object's own id, 0 when the snapshot states none  *)
(*   def      what the dictionary states about it: [name, color]           *)
(* Lexids, dates and ids are compared and never inspected, so naturals     *)
(* stand for them.  `name` stands for every member of the definition but   *)
(* the colour (the stored key and the API key travel beside the name).     *)
(***************************************************************************)
EXTENDS Integers, Sequences, FiniteSets, SequencesExt

CONSTANTS SelectFormats,  \* the formats whose entries may state a vocabulary
          Palette         \* the colours the dictionary writer accepts

(***************************************************************************)
(* The comparator without its last resort, the id (a mutant of Before).    *)
(***************************************************************************)
BeforeWithoutId(a, b) ==
  \/ a.order # 0 /\ b.order = 0
  \/ a.order # 0 /\ b.order # 0 /\ a.order < b.order
  \/ a.order = b.order /\ a.created > b.created

(***************************************************************************)
(* The comparator of the sort: an ordered option before an order-less one, *)
(* then the lexids ascending, then the newest first, then the id.          *)
(***************************************************************************)
Before(a, b) ==
  \/ a.order # 0 /\ b.order = 0
  \/ a.order # 0 /\ b.order # 0 /\ a.order < b.order
  \/ a.order = b.order /\ a.created > b.created
  \/ a.order = b.order /\ a.created = b.created /\ a.id < b.id

(***************************************************************************)
(* sort.SliceStable: options the comparator ties keep their arrival order. *)
(***************************************************************************)
Precedes(stored, i, j) ==
  \/ Before(stored[i], stored[j])
  \/ ~Before(stored[j], stored[i]) /\ i < j

Earlier(stored, i) == {j \in DOMAIN stored : Precedes(stored, j, i)}

(* The option that n - 1 others precede.                                   *)
Place(stored, n) ==
  CHOOSE i \in DOMAIN stored : Cardinality(Earlier(stored, i)) = n - 1

PickerOrder(stored) == [n \in DOMAIN stored |-> stored[Place(stored, n)]]

(***************************************************************************)
(* The writer's gate, asked of one option: only a select or a multi-select *)
(* states a vocabulary, and the colour must be in the palette.             *)
(***************************************************************************)
Carryable(format, def) == format \in SelectFormats /\ def.color \in Palette

(***************************************************************************)
(* What the entry of a property of that format states: the picker's order, *)
(* less the options the writer refuses.  Probing the whole vocabulary      *)
(* first and each option after that comes to the same selection.           *)
(***************************************************************************)
Lifted(format, stored) ==
  LET Keep(kept, option) ==
        IF Carryable(format, option.def) THEN Append(kept, option.def) ELSE kept
  IN  FoldLeft(Keep, <<>>, PickerOrder(stored))

=============================================================================
