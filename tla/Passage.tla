------------------------------ MODULE Passage ------------------------------
(***************************************************************************)
(* Documents on their way into another space: the envelope ids Marshal     *)
(* writes (codec/anyblockjson/export.go), filed under the paths of the     *)
(* plan, and the ids an importer reads back from the envelopes and from    *)
(* the references that name them.                                          *)
(***************************************************************************)
EXTENDS BundlePlan

CONSTANTS
  Destinations, \* the Options a reader may import with
  Spellings     \* further ids a reader may be handed

(***************************************************************************)
(* What a store mints: only a member's id is a composite, and the resolver *)
(* answers for the ids of types alone.                                     *)
(***************************************************************************)
ASSUME MintedAssumption ==
  \A docs \in Collections : \A d \in docs :
    /\ d.id.form = "composite" => d.kind = "participant"
    /\ \A o \in Runs : d.id \in DOMAIN o.keyById => d.kind = "type"

(***************************************************************************)
(* Every member's id is one, as a store mints them.                        *)
(***************************************************************************)
ASSUME MembersAssumption ==
  \A docs \in Collections : \A d \in docs :
    d.kind = "participant" => d.id.form = "composite"

(***************************************************************************)
(* A resolver that says which key an id names can say which id the key     *)
(* names, though it need not be the same one.                              *)
(***************************************************************************)
ASSUME ResolverAssumption ==
  \A o \in Runs : \A id \in DOMAIN o.keyById : o.keyById[id] \in DOMAIN o.idByKey

(***************************************************************************)
(* A destination has one type for a key, known by its derived id or by the *)
(* id of an object of its own.  If that is the id of a collected document  *)
(* as well, as where a space reads itself, it is the same type.            *)
(***************************************************************************)
ASSUME DestinationsAssumption ==
  \A there \in Destinations : \A key \in DOMAIN there.idByKey :
    LET id == there.idByKey[key]
    IN  /\ \A other \in DOMAIN there.idByKey : there.idByKey[other] = id => other = key
        /\ \/ id = TypeId(key)
           \/ /\ id.form = "plain"
              /\ \A docs \in Collections : \A d \in docs :
                   d.id = id => d.kind = "type" /\ d.key = key /\ key \in Derivable

(***************************************************************************)
(* The further ids are no derived ids, and no members of a run's space.    *)
(***************************************************************************)
ASSUME SpellingsAssumption ==
  \A ref \in Spellings :
    /\ ref \in Ids /\ ~NamesMember(ref) /\ ~NamesType(ref)
    /\ \A o \in Runs :
         /\ ref \notin DOMAIN o.keyById
         /\ ref.form = "composite" => (ref.space # o.space \/ ref.name \notin Identities)

(***************************************************************************)
(* buildDoc refuses an envelope id its document is not entitled to, and a  *)
(* type whose references export under another id.                          *)
(***************************************************************************)
Marshals(d) ==
  /\ EntitledId(d.kind, Stem(opts, d), d.key)
  /\ MappingAgrees(opts, d.kind, d.id, d.key)

Written == {d \in collected : verdict = "planned" /\ Marshals(d)}

(***************************************************************************)
(* A reference leads to its document with no other help than the path: the *)
(* id every reference slot writes is the id the document's file is named   *)
(* by, and in its envelope (refs.go 462-463, 696-724, plan.go 83-93).      *)
(***************************************************************************)
ReferencesNameTheirDocument ==
  \A d \in Written :
    /\ FoldRef(opts, d.id) = docPaths[d.id].stem
    /\ Stem(opts, d) = docPaths[d.id].stem

(***************************************************************************)
(* The bond survives the passage: wherever a bundle is imported, the id    *)
(* rebuilt from a reference is the id rebuilt from the envelope of the     *)
(* document it names (refs.go unfoldRef, envelopeId).                      *)
(***************************************************************************)
ReferencesArriveAtTheirDocument ==
  \A d \in Written, there \in Destinations :
    ImportRef(there, FoldRef(opts, d.id))
      = ImportEnvelope(there, d.kind, Stem(opts, d))

(***************************************************************************)
(* Nobody is re-homed: a member of a space that is not the exported one is *)
(* the same member of the same space after the passage, wherever it leads  *)
(* (refs.go 302-310).                                                      *)
(***************************************************************************)
NobodyIsRehomed ==
  \A d \in collected, there \in Destinations :
    (d.id.form = "composite" /\ d.id.space # opts.space) =>
      ImportRef(there, FoldRef(opts, d.id)) = d.id

(***************************************************************************)
(* Two documents arrive as two objects, except for one person who is here  *)
(* a member of the exported space and there already of the destination.    *)
(***************************************************************************)
Arrival(there, d) == ImportEnvelope(there, d.kind, Stem(opts, d))

DocumentsArriveApart ==
  \A d, e \in Written, there \in Destinations :
    (d # e /\ Arrival(there, d) = Arrival(there, e)) =>
      /\ d.kind = "participant" /\ e.kind = "participant"
      /\ there.space \in {d.id.space, e.id.space}

(***************************************************************************)
(* A type document the store itself does not serve for its key.            *)
(***************************************************************************)
Displaced ==
  {d \in Written :
     /\ d.kind = "type" /\ d.key \in DOMAIN opts.idByKey
     /\ opts.idByKey[d.key] # d.id}

(***************************************************************************)
(* What one space writes it reads back: unfold(fold(x)) = x for the ids of *)
(* its store and fold(unfold(y)) = y for the references it wrote or is     *)
(* handed (refs.go 351-354).  A bare identity is not among the latter: it  *)
(* is an old spelling, which is read and then written with the prefix.     *)
(***************************************************************************)
FoldAndUnfoldInvert ==
  \A d \in Written \ Displaced :
    /\ UnfoldRef(opts, FoldRef(opts, d.id)) = d.id
    /\ \A ref \in {FoldRef(opts, d.id)} \cup Spellings :
         FoldRef(opts, UnfoldRef(opts, ref)) = ref
=============================================================================
