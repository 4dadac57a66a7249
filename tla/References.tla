----------------------------- MODULE References -----------------------------
(***************************************************************************)
(* Object references (codec/anyblockjson/refs.go).  A member's id and a    *)
(* type's id restate facts a document already carries, so the writer folds *)
(* them to derived ids, and a reader rebuilds the ids of its own space.    *)
(*                                                                         *)
(* An id is a record, one form for each spelling the code tells apart:     *)
(*   composite  _participant_<space>_<name>, a member as a store knows it  *)
(*   member     participant-<name>, the member's derived id                *)
(*   bare       <name> alone, an account identity                          *)
(*   type       type-<name>, a type's derived id                           *)
(*   plain      any other id                                               *)
(* `o` is the Options of a run: the space it names, whether its resolver   *)
(* knows the types (`wired`, and then keyById and idByKey, its two maps),  *)
(* and NoDerivedTypeIds.                                                   *)
(***************************************************************************)
CONSTANTS
  Spaces, NoSpace, \* space ids; NoSpace: a run that names none
  Readable,        \* the space ids a composite can be split back into
  Names,           \* what an id says after its prefix
  Identities,      \* the names that pass an account identity's checksum
  Foldable,        \* the names that pass the fold gate of a type key
  Addresses        \* the names that are object ids or begin with `_`

ASSUME NamesAssumption ==
  /\ Readable \subseteq Spaces /\ NoSpace \notin Spaces
  /\ Identities \subseteq Names /\ Foldable \subseteq Names
  /\ Addresses \subseteq Names

Forms == {"composite", "member", "bare", "type", "plain"}

Ids ==
  {id \in [form: Forms, space: Spaces \cup {NoSpace}, name: Names] :
     id.form = "composite" <=> id.space # NoSpace}

Id(form, space, name) == [form |-> form, space |-> space, name |-> name]

Composite(space, name) == Id("composite", space, name)
Member(name) == Id("member", NoSpace, name)
Bare(name) == Id("bare", NoSpace, name)
TypeId(name) == Id("type", NoSpace, name)
Plain(name) == Id("plain", NoSpace, name)

Kinds == {"page", "template", "type", "participant", "file"}

-----------------------------------------------------------------------------
(* Writing.                                                                *)

(* Any space's member folds (a mutant of FoldsAsMember).                   *)
FoldsAnyMember(o, id) ==
  /\ id.form = "composite" /\ id.name \in Identities
  /\ o.space # NoSpace

(***************************************************************************)
(* foldParticipantRef: only a member of the run's own space folds, and     *)
(* only if a reader can rebuild the composite.                             *)
(***************************************************************************)
FoldsAsMember(o, id) ==
  /\ id.form = "composite" /\ id.name \in Identities
  /\ id.space = o.space /\ id.space \in Readable

FoldParticipant(o, id) ==
  IF FoldsAsMember(o, id) THEN Member(id.name) ELSE id

(***************************************************************************)
(* typeRef: the keys a derived id may be made of.                          *)
(***************************************************************************)
Derivable == Foldable \ Addresses

(***************************************************************************)
(* foldTypeRef: by the store's answer to which key an id names.            *)
(***************************************************************************)
FoldType(o, id) ==
  IF /\ ~o.noDerivedTypeIds /\ o.wired
     /\ id \in DOMAIN o.keyById /\ o.keyById[id] \in Derivable
  THEN TypeId(o.keyById[id])
  ELSE id

(***************************************************************************)
(* foldRef: what a reference slot writes.                                  *)
(***************************************************************************)
FoldRef(o, id) ==
  IF FoldParticipant(o, id) # id THEN FoldParticipant(o, id)
                                 ELSE FoldType(o, id)

(***************************************************************************)
(* FoldDocumentId: a document's own id folds only to the derived id of its *)
(* kind, and a type's by the key the document states.                      *)
(***************************************************************************)
FoldDocumentId(o, kind, id, key) ==
  CASE kind = "participant" -> FoldParticipant(o, id)
    [] kind = "type" /\ ~o.noDerivedTypeIds /\ key \in Derivable -> TypeId(key)
    [] OTHER -> id

(* The resolver is never consulted (a mutant of MappingAgrees).            *)
AnyMappingAgrees(o, kind, id, key) == TRUE

(***************************************************************************)
(* ValidateTypeExportMapping: a type's document and the references to it   *)
(* export under one id.                                                    *)
(***************************************************************************)
MappingAgrees(o, kind, id, key) ==
  kind = "type" => FoldDocumentId(o, kind, id, key) = FoldRef(o, id)

(***************************************************************************)
(* reservedIdViolation: a derived spelling belongs to the kind it names.   *)
(***************************************************************************)
EntitledId(kind, id, key) ==
  CASE id.form = "type"   -> kind = "type" /\ key = id.name
    [] id.form = "member" -> kind = "participant" /\ id.name \in Identities
    [] id.form = "bare"   -> kind = "participant"
    [] OTHER              -> TRUE

-----------------------------------------------------------------------------
(* Reading.                                                                *)

(***************************************************************************)
(* participantRefIdentity and derivedTypeIdKey: the derived ids a reader   *)
(* recognises.  It reads a bare identity, which no writer writes.          *)
(***************************************************************************)
NamesMember(id) == id.form \in {"member", "bare"} /\ id.name \in Identities
NamesType(id) == id.form = "type" /\ id.name \in Foldable

(* Composites are rebuilt too (a mutant of UnfoldParticipant).             *)
UnfoldEveryMember(o, id) ==
  IF id.form \in {"member", "bare", "composite"} /\ id.name \in Identities
     /\ o.space # NoSpace
  THEN Composite(o.space, id.name)
  ELSE id

UnfoldParticipant(o, id) ==
  IF NamesMember(id) /\ o.space # NoSpace
  THEN Composite(o.space, id.name)
  ELSE id

UnfoldType(o, id) ==
  IF NamesType(id) /\ o.wired /\ id.name \in DOMAIN o.idByKey
  THEN o.idByKey[id.name]
  ELSE id

UnfoldRef(o, id) ==
  IF UnfoldParticipant(o, id) # id THEN UnfoldParticipant(o, id)
                                   ELSE UnfoldType(o, id)

(***************************************************************************)
(* The importer's unfoldRef reports half an address it cannot complete: a  *)
(* member without a space, a type in a space whose types it cannot ask.    *)
(***************************************************************************)
TypeRefUnrebuildable(o, id) ==
  o.space # NoSpace /\ NamesType(id) /\ ~o.wired

Unrebuildable(o, id) ==
  \/ NamesMember(id) /\ o.space = NoSpace
  \/ TypeRefUnrebuildable(o, id)

ImportRef(o, id) == IF Unrebuildable(o, id) THEN id ELSE UnfoldRef(o, id)

(* A member's document keeps the id it wears (a mutant of ImportEnvelope). *)
ImportEnvelopeVerbatim(o, kind, id) ==
  IF kind = "type" /\ ~TypeRefUnrebuildable(o, id) THEN UnfoldType(o, id)
                                                   ELSE id

(***************************************************************************)
(* envelopeId: a document's own id rebuilds only into an id of its kind.   *)
(***************************************************************************)
ImportEnvelope(o, kind, id) ==
  CASE kind = "participant" -> UnfoldParticipant(o, id)
    [] kind = "type" -> IF TypeRefUnrebuildable(o, id) THEN id
                                                       ELSE UnfoldType(o, id)
    [] OTHER -> id
=============================================================================
