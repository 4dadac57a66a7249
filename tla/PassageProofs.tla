--------------------------- MODULE PassageProofs ---------------------------
(***************************************************************************)
(* What a plan promises, for every collection of documents and every run.  *)
(* The inductive invariant says what the three tables hold while documents *)
(* are still pending, and that a refusal has a reason in the collection.   *)
(***************************************************************************)
EXTENDS Passage, TLAPS

Visited == collected \ pending

TablesFollowTheVisited ==
  verdict \in {"planning", "planned"} =>
    /\ DOMAIN claimed = {DocPath(opts, d) : d \in Visited}
    /\ DOMAIN docPaths = {d.id : d \in Visited}
    /\ \A d \in Visited : docPaths[d.id] = DocPath(opts, d)
    /\ DOMAIN blobPaths = {d.id : d \in {e \in Visited : e.kind = "file"}}
    /\ \A d \in Visited : d.kind = "file" => blobPaths[d.id] = BlobPath(opts, d)

VisitedArePlannable ==
  verdict \in {"planning", "planned"} /\ pending # collected =>
    Plannable(opts, Visited)

PlannedIsComplete ==
  verdict = "planned" => pending = {} /\ OptionsAllowed(opts)

RefusedForCause ==
  verdict \notin {"planning", "planned"} => ~Plannable(opts, collected)

Inputs == opts \in Runs /\ collected \in Collections /\ pending \subseteq collected

PlanInv ==
  /\ Inputs /\ TablesFollowTheVisited /\ VisitedArePlannable
  /\ PlannedIsComplete /\ RefusedForCause

-----------------------------------------------------------------------------
(***************************************************************************)
(* Visiting a document adds it to the visited ones, and its id is not the  *)
(* id of one visited before.                                               *)
(***************************************************************************)
LEMMA VisitAdds ==
  ASSUME Inputs, NEW d \in pending, pending' = pending \ {d}, Given
  PROVE  /\ Visited' = Visited \cup {d} /\ d \notin Visited /\ d \in collected
         /\ \A e \in Visited : e.id # d.id
         /\ opts' = opts /\ collected' = collected /\ Inputs' /\ pending' # collected
BY CollectionsAssumption DEF Inputs, Visited, Given

(***************************************************************************)
(* A document that is claimed leaves the tables and the verdict in order.  *)
(***************************************************************************)
LEMMA ClaimKeeps ==
  ASSUME PlanInv, NEW d \in pending, Claim(d), ~WearsDocExtension(opts, d),
         verdict' = verdict,
         \/ /\ d.kind = "file"
            /\ blobPaths' = Bind(blobPaths, d.id, BlobPath(opts, d))
         \/ d.kind # "file" /\ blobPaths' = blobPaths
  PROVE  PlanInv'
<1>1. verdict = "planning" /\ OptionsAllowed(opts) /\ pending' = pending \ {d}
      /\ Mapped(d) /\ Safe(d) /\ ~Taken(d) /\ Given
      /\ claimed' = Bind(claimed, DocPath(opts, d), d.id)
      /\ docPaths' = Bind(docPaths, d.id, DocPath(opts, d))
  BY DEF Claim, Visits
<1>2. /\ Visited' = Visited \cup {d} /\ d \notin Visited /\ d \in collected
      /\ \A e \in Visited : e.id # d.id
      /\ opts' = opts /\ collected' = collected /\ Inputs' /\ pending' # collected
  BY <1>1, VisitAdds DEF PlanInv
<1>3. TablesFollowTheVisited'
  <2>1. /\ DOMAIN claimed = {DocPath(opts, e) : e \in Visited}
        /\ DOMAIN docPaths = {e.id : e \in Visited}
        /\ \A e \in Visited : docPaths[e.id] = DocPath(opts, e)
        /\ DOMAIN blobPaths = {f.id : f \in {e \in Visited : e.kind = "file"}}
        /\ \A e \in Visited : e.kind = "file" => blobPaths[e.id] = BlobPath(opts, e)
    BY <1>1 DEF PlanInv, TablesFollowTheVisited
  <2>2. \A e : DocPath(opts, e)' = DocPath(opts, e) /\ BlobPath(opts, e)' = BlobPath(opts, e)
    BY <1>2 DEF DocPath, BlobPath, Stem, FoldDocumentId, FoldParticipant, FoldsAsMember
  <2>3. DOMAIN claimed' = {DocPath(opts, e) : e \in Visited'}
    BY <1>1, <1>2, <2>1 DEF Bind
  <2>4. /\ DOMAIN docPaths' = {e.id : e \in Visited'}
        /\ \A e \in Visited' : docPaths'[e.id] = DocPath(opts, e)
    BY <1>1, <1>2, <2>1 DEF Bind
  <2>5. /\ DOMAIN blobPaths' = {f.id : f \in {e \in Visited' : e.kind = "file"}}
        /\ \A e \in Visited' : e.kind = "file" => blobPaths'[e.id] = BlobPath(opts, e)
    <3>1. CASE d.kind = "file"
      <4>1. blobPaths' = Bind(blobPaths, d.id, BlobPath(opts, d))
        BY <3>1
      <4>2. DOMAIN blobPaths' = {f.id : f \in {e \in Visited' : e.kind = "file"}}
        BY <1>2, <2>1, <3>1, <4>1 DEF Bind
      <4>3. QED
        BY <1>2, <2>1, <3>1, <4>1, <4>2 DEF Bind
    <3>2. CASE d.kind # "file"
      BY <1>2, <2>1, <3>2
    <3>3. QED
      BY <3>1, <3>2
  <2>6. QED
    BY <1>2, <2>2, <2>3, <2>4, <2>5 DEF TablesFollowTheVisited
<1>4. VisitedArePlannable'
  <2>1. DOMAIN claimed = {DocPath(opts, e) : e \in Visited}
    BY <1>1 DEF PlanInv, TablesFollowTheVisited
  <2>2. \A e \in Visited : DocPath(opts, e) # DocPath(opts, d)
    BY <1>1, <2>1 DEF Taken
  <2>3. Visited # {} => Plannable(opts, Visited)
    BY <1>1 DEF PlanInv, VisitedArePlannable, Visited, Inputs
  <2>4. Plannable(opts, Visited \cup {d})
    BY <1>1, <2>2, <2>3 DEF Plannable, Mapped, Safe
  <2>5. QED
    BY <1>2, <2>4 DEF VisitedArePlannable
<1>5. PlannedIsComplete' /\ RefusedForCause'
  BY <1>1 DEF PlannedIsComplete, RefusedForCause
<1>6. QED
  BY <1>2, <1>3, <1>4, <1>5 DEF PlanInv

(***************************************************************************)
(* A document that is refused shows why the collection cannot be planned.  *)
(***************************************************************************)
LEMMA RefusalHasCause ==
  ASSUME PlanInv, NEW d \in pending,
         RefuseMapping(d) \/ RefuseUnsafe(d) \/ RefuseClaimed(d)
           \/ RefuseExtension(d)
  PROVE  PlanInv'
<1>1. /\ verdict = "planning" /\ verdict' \notin {"planning", "planned"}
      /\ pending' = pending \ {d} /\ Given
  BY DEF RefuseMapping, RefuseUnsafe, RefuseClaimed, RefuseExtension, Claim,
         Visits, Refuse
<1>2. d \in collected /\ d \notin Visited /\ Inputs' /\ opts' = opts
      /\ collected' = collected
  BY <1>1, VisitAdds DEF PlanInv
<1>3. ~Plannable(opts, collected)
  <2>1. CASE RefuseMapping(d)
    BY <1>2, <2>1 DEF RefuseMapping, Mapped, Plannable
  <2>2. CASE RefuseUnsafe(d)
    BY <1>2, <2>2 DEF RefuseUnsafe, Safe, Plannable
  <2>3. CASE RefuseClaimed(d)
    <3>1. PICK e \in Visited : DocPath(opts, e) = DocPath(opts, d)
      BY <1>1, <2>3 DEF RefuseClaimed, Taken, PlanInv, TablesFollowTheVisited
    <3>2. QED
      BY <1>2, <3>1 DEF Plannable, Visited
  <2>4. CASE RefuseExtension(d)
    BY <1>2, <2>4 DEF RefuseExtension, Plannable
  <2>5. QED
    BY <2>1, <2>2, <2>3, <2>4
<1>4. RefusedForCause'
  BY <1>2, <1>3 DEF RefusedForCause, Plannable, OptionsAllowed, DocPath, Stem,
     WearsDocExtension, BlobPath, MappingAgrees
<1>5. QED
  BY <1>1, <1>2, <1>4 DEF PlanInv, TablesFollowTheVisited, VisitedArePlannable,
                          PlannedIsComplete

-----------------------------------------------------------------------------
LEMMA PlanStarts == Init => PlanInv
BY DEF Init, PlanInv, Inputs, TablesFollowTheVisited, VisitedArePlannable,
       PlannedIsComplete, RefusedForCause, Visited

LEMMA PlanKept == PlanInv /\ [Next]_vars => PlanInv'
<1>1. SUFFICES ASSUME PlanInv, [Next]_vars PROVE PlanInv'
  OBVIOUS
<1>2. CASE RefuseOptions
  <2>1. /\ verdict' = "options" /\ ~OptionsAllowed(opts)
        /\ UNCHANGED <<opts, collected, pending>>
    BY <1>2 DEF RefuseOptions, Refuse, Given
  <2>2. ~Plannable(opts, collected)'
    BY <2>1 DEF Plannable, OptionsAllowed
  <2>3. Inputs'
    BY <1>1, <2>1 DEF PlanInv, Inputs
  <2>4. QED
    BY <2>1, <2>2, <2>3 DEF PlanInv, TablesFollowTheVisited,
       VisitedArePlannable, PlannedIsComplete, RefusedForCause
<1>3. ASSUME NEW d \in pending, Visit(d) PROVE PlanInv'
  <2>1. CASE RefuseMapping(d) \/ RefuseUnsafe(d) \/ RefuseClaimed(d)
               \/ RefuseExtension(d)
    BY <1>1, <2>1, RefusalHasCause
  <2>2. CASE PlanFile(d)
    <3>1. /\ Claim(d) /\ ~WearsDocExtension(opts, d) /\ verdict' = verdict
          /\ d.kind = "file"
          /\ blobPaths' = Bind(blobPaths, d.id, BlobPath(opts, d))
      BY <2>2 DEF PlanFile
    <3>2. QED
      BY <1>1, <3>1, ClaimKeeps
  <2>3. CASE PlanDocument(d)
    <3>1. ~WearsDocExtension(opts, d)
      BY <2>3 DEF PlanDocument, WearsDocExtension
    <3>2. QED
      BY <1>1, <2>3, <3>1, ClaimKeeps DEF PlanDocument
  <2>4. QED
    BY <1>3, <2>1, <2>2, <2>3 DEF Visit
<1>4. CASE Return
  <2>1. /\ verdict = "planning" /\ verdict' = "planned" /\ pending = {}
        /\ OptionsAllowed(opts)
        /\ UNCHANGED <<opts, collected, pending, claimed, docPaths, blobPaths>>
    BY <1>4 DEF Return, Given
  <2>2. QED
    BY <1>1, <2>1 DEF PlanInv, Inputs, TablesFollowTheVisited, Visited,
       VisitedArePlannable, PlannedIsComplete, RefusedForCause
<1>5. CASE UNCHANGED vars
  BY <1>1, <1>5 DEF vars, PlanInv, Inputs, TablesFollowTheVisited, Visited,
     VisitedArePlannable, PlannedIsComplete, RefusedForCause
<1>6. QED
  BY <1>1, <1>2, <1>3, <1>4, <1>5 DEF Next, Ended

(***************************************************************************)
(* The inductive invariant of the plan phase.                              *)
(***************************************************************************)
THEOREM PlanInductive == Spec => []PlanInv
BY PlanStarts, PlanKept, PTL DEF Spec

-----------------------------------------------------------------------------
(***************************************************************************)
(* The tables map ids of the collection to paths, to the end of every run. *)
(***************************************************************************)
LEMMA PathsOfDocuments ==
  ASSUME NEW o, NEW docs \in Collections, NEW d \in docs
  PROVE  DocPath(o, d) \in Paths
<1>1. d \in Documents /\ NoSpace \in Spaces \cup {NoSpace}
  BY CollectionsAssumption
<1>2. FoldDocumentId(o, d.kind, d.id, d.key) \in Ids
  <2>1. d.id \in Ids /\ Derivable \subseteq Names
    BY <1>1, NamesAssumption DEF Documents, Derivable
  <2>2. \A n \in Names : Member(n) \in Ids /\ TypeId(n) \in Ids
    BY DEF Member, TypeId, Id, Ids, Forms
  <2>3. d.id.name \in Names
    BY <2>1 DEF Ids
  <2>. QED
    BY <2>1, <2>2, <2>3 DEF FoldDocumentId, FoldParticipant
<1>3. KindDirectory(d.kind) \in Directories
  BY DEF KindDirectory, Directories
<1>. QED
  BY <1>2, <1>3 DEF DocPath, Path, Paths, Stem

LEMMA ClaimTypes ==
  ASSUME TypeOK, NEW d \in pending, Claim(d)
  PROVE  /\ DOMAIN claimed' \subseteq Paths
         /\ DOMAIN docPaths' = DOMAIN docPaths \cup {d.id}
         /\ DOMAIN docPaths' \subseteq {e.id : e \in collected}
<1>1. d \in collected /\ DocPath(opts, d) \in Paths
  BY PathsOfDocuments DEF TypeOK
<1>. QED
  BY <1>1 DEF Claim, Bind, TypeOK

THEOREM PlanTypes == Spec => []TypeOK
<1>1. Init => TypeOK
  BY DEF Init, TypeOK, Verdicts
<1>2. TypeOK /\ [Next]_vars => TypeOK'
  <2>. SUFFICES ASSUME TypeOK, [Next]_vars PROVE TypeOK'
    OBVIOUS
  <2>1. CASE RefuseOptions \/ Return \/ UNCHANGED vars
    BY <2>1 DEF RefuseOptions, Return, Refuse, Given, vars, TypeOK, Verdicts
  <2>2. CASE Ended
    BY <2>2 DEF Ended, vars, TypeOK, Verdicts
  <2>3. ASSUME NEW d \in pending, RefuseMapping(d) \/ RefuseUnsafe(d) \/ RefuseClaimed(d)
        PROVE  TypeOK'
    BY <2>3 DEF RefuseMapping, RefuseUnsafe, RefuseClaimed, Refuse, Visits, Given, TypeOK,
                Verdicts
  <2>4. ASSUME NEW d \in pending, RefuseExtension(d) \/ PlanFile(d) \/ PlanDocument(d)
        PROVE  TypeOK'
    <3>1. Claim(d)
      BY <2>4 DEF RefuseExtension, PlanFile, PlanDocument
    <3>2. /\ opts' = opts /\ collected' = collected /\ pending' \subseteq pending
          /\ verdict = "planning"
      BY <3>1 DEF Claim, Visits, Given
    <3>3. verdict' \in Verdicts
      BY <2>4, <3>2 DEF RefuseExtension, PlanFile, PlanDocument, Verdicts
    <3>4. DOMAIN blobPaths' \subseteq DOMAIN blobPaths \cup {d.id}
      BY <2>4 DEF RefuseExtension, PlanFile, PlanDocument, Bind
    <3>. QED
      BY <3>1, <3>2, <3>3, <3>4, ClaimTypes DEF TypeOK
  <2>. QED
    BY <2>1, <2>2, <2>3, <2>4 DEF Next, Visit
<1>. QED
  BY <1>1, <1>2, PTL DEF Spec

-----------------------------------------------------------------------------
(***************************************************************************)
(* The verdict and the paths are functions of the set of documents.        *)
(***************************************************************************)
THEOREM OrderIrrelevant == Spec => []OrderDecidesNothing
<1>1. PlanInv => OrderDecidesNothing
  <2>1. SUFFICES ASSUME PlanInv PROVE OrderDecidesNothing
    OBVIOUS
  <2>2. ASSUME verdict = "planned"
        PROVE  Visited = collected /\ Plannable(opts, collected)
    <3>1. pending = {} /\ OptionsAllowed(opts) /\ Visited = collected
      BY <2>1, <2>2 DEF PlanInv, PlannedIsComplete, Visited
    <3>2. CASE collected = {}
      BY <3>1, <3>2 DEF Plannable
    <3>3. CASE collected # {}
      BY <2>1, <2>2, <3>1, <3>3 DEF PlanInv, VisitedArePlannable
    <3>4. QED
      BY <3>1, <3>2, <3>3
  <2>3. QED
    BY <2>1, <2>2 DEF PlanInv, TablesFollowTheVisited, RefusedForCause,
       OrderDecidesNothing
<1>2. QED
  BY <1>1, PlanInductive, PTL

(***************************************************************************)
(* A blob's path determines its file's stem unless it wears the document   *)
(* extension, which a plannable collection has none of.                    *)
(***************************************************************************)
LEMMA BlobPathsAreApart ==
  ASSUME NEW o, NEW docs, Plannable(o, docs), docs \in Collections,
         NEW d \in docs, NEW e \in docs, d.kind = "file"
  PROVE  /\ BlobPath(o, d) # DocPath(o, e)
         /\ e.kind = "file" /\ BlobPath(o, d) = BlobPath(o, e) => d = e
<1>1. /\ BlobPath(o, d).ext # DocExtension
      /\ e.kind = "file" => BlobPath(o, e).ext # DocExtension
  BY DEF Plannable, WearsDocExtension
<1>2. /\ BlobPath(o, d) = Path("files", Stem(o, d), BlobExtension(d))
      /\ e.kind = "file" =>
           BlobPath(o, e) = Path("files", Stem(o, e), BlobExtension(e))
  BY <1>1 DEF BlobPath, KindDirectory, Path
<1>3. DocPath(o, e).ext = DocExtension
  BY DEF DocPath, Path
<1>4. ASSUME e.kind = "file", BlobPath(o, d) = BlobPath(o, e) PROVE d = e
  <2>1. Stem(o, d) = Stem(o, e)
    BY <1>2, <1>4 DEF Path
  <2>2. DocPath(o, d) = DocPath(o, e)
    BY <1>4, <2>1 DEF DocPath, KindDirectory
  <2>3. QED
    BY <2>2 DEF Plannable
<1>5. QED
  BY <1>1, <1>3, <1>4

(***************************************************************************)
(* No two paths of a plan are the same file.                               *)
(***************************************************************************)
THEOREM PathsAreApart == Spec => []PathsNeverCollide
<1>1. PlanInv /\ OrderDecidesNothing => PathsNeverCollide
  <2>1. SUFFICES ASSUME PlanInv, OrderDecidesNothing, verdict = "planned"
                 PROVE  PathsNeverCollide
    BY DEF PathsNeverCollide
  <2>2. /\ Plannable(opts, collected) /\ collected \in Collections
        /\ \A d \in collected : docPaths[d.id] = DocPath(opts, d)
        /\ DOMAIN blobPaths = {d.id : d \in {e \in collected : e.kind = "file"}}
        /\ \A d \in collected :
             d.kind = "file" => blobPaths[d.id] = BlobPath(opts, d)
    BY <2>1 DEF OrderDecidesNothing, PlanInv, Inputs
  <2>3. \A d, e \in collected : docPaths[d.id] = docPaths[e.id] => d = e
    BY <2>2 DEF Plannable
  <2>4. ASSUME NEW id \in DOMAIN blobPaths
        PROVE  /\ \A d \in collected : blobPaths[id] # docPaths[d.id]
               /\ \A other \in DOMAIN blobPaths :
                    blobPaths[id] = blobPaths[other] => id = other
    <3>1. PICK d \in collected : d.kind = "file" /\ d.id = id
      BY <2>2
    <3>2. \A e \in collected :
            /\ BlobPath(opts, d) # DocPath(opts, e)
            /\ e.kind = "file" /\ BlobPath(opts, d) = BlobPath(opts, e) => d = e
      BY <2>2, <3>1, BlobPathsAreApart
    <3>3. QED
      BY <2>2, <3>1, <3>2
  <2>5. QED
    BY <2>3, <2>4 DEF PathsNeverCollide
<1>2. QED
  BY <1>1, PlanInductive, OrderIrrelevant, PTL

-----------------------------------------------------------------------------
(***************************************************************************)
(* What a reference slot writes is the document's own id.                  *)
(***************************************************************************)
LEMMA FoldsAgree ==
  ASSUME NEW o \in Runs, NEW docs \in Collections, NEW d \in docs,
         MappingAgrees(o, d.kind, d.id, d.key)
  PROVE  FoldRef(o, d.id) = Stem(o, d)
<1>1. CASE d.kind = "type"
  BY <1>1 DEF MappingAgrees, Stem
<1>2. CASE d.kind # "type"
  <2>1. FoldType(o, d.id) = d.id
    BY <1>2, MintedAssumption DEF FoldType
  <2>2. d.kind # "participant" => FoldParticipant(o, d.id) = d.id
    BY MintedAssumption DEF FoldParticipant, FoldsAsMember
  <2>3. QED
    BY <1>2, <2>1, <2>2 DEF FoldRef, Stem, FoldDocumentId
<1>3. QED
  BY <1>1, <1>2

(***************************************************************************)
(* An entitled id is read alike from an envelope and from a reference.     *)
(***************************************************************************)
LEMMA ReadAlike ==
  ASSUME NEW there, NEW kind, NEW id, NEW key, EntitledId(kind, id, key)
  PROVE  ImportRef(there, id) = ImportEnvelope(there, kind, id)
<1>1. CASE kind = "participant"
  <2>1. ~NamesType(id)
    BY <1>1 DEF EntitledId, NamesType
  <2>2. QED
    BY <1>1, <2>1 DEF ImportRef, ImportEnvelope, Unrebuildable, UnfoldRef,
       TypeRefUnrebuildable, UnfoldParticipant, UnfoldType
<1>2. CASE kind # "participant"
  <2>1. ~NamesMember(id) /\ (kind # "type" => ~NamesType(id))
    BY <1>2 DEF EntitledId, NamesMember, NamesType
  <2>2. UnfoldParticipant(there, id) = id
    BY <2>1 DEF UnfoldParticipant
  <2>3. kind # "type" => /\ UnfoldType(there, id) = id
                         /\ ~TypeRefUnrebuildable(there, id)
    BY <2>1 DEF UnfoldType, TypeRefUnrebuildable
  <2>4. QED
    BY <1>2, <2>1, <2>2, <2>3 DEF ImportRef, ImportEnvelope, Unrebuildable,
       UnfoldRef
<1>3. QED
  BY <1>1, <1>2

(***************************************************************************)
(* A reference leads to its document by the path alone.                    *)
(***************************************************************************)
THEOREM ReferencesLead == Spec => []ReferencesNameTheirDocument
<1>1. PlanInv => ReferencesNameTheirDocument
  <2>1. SUFFICES ASSUME PlanInv, NEW d \in Written
                 PROVE  /\ FoldRef(opts, d.id) = docPaths[d.id].stem
                        /\ Stem(opts, d) = docPaths[d.id].stem
    BY DEF ReferencesNameTheirDocument
  <2>2. /\ opts \in Runs /\ collected \in Collections /\ d \in collected
        /\ verdict = "planned" /\ MappingAgrees(opts, d.kind, d.id, d.key)
    BY <2>1 DEF PlanInv, Inputs, Written, Marshals
  <2>3. docPaths[d.id] = DocPath(opts, d)
    BY <2>1, <2>2 DEF PlanInv, PlannedIsComplete, TablesFollowTheVisited, Visited
  <2>4. docPaths[d.id].stem = Stem(opts, d)
    BY <2>3 DEF DocPath, Path
  <2>5. QED
    BY <2>2, <2>4, FoldsAgree
<1>2. QED
  BY <1>1, PlanInductive, PTL

(***************************************************************************)
(* And it leads there wherever the bundle is imported.                     *)
(***************************************************************************)
THEOREM ReferencesArrive == Spec => []ReferencesArriveAtTheirDocument
<1>1. PlanInv => ReferencesArriveAtTheirDocument
  <2>1. SUFFICES ASSUME PlanInv, NEW d \in Written, NEW there \in Destinations
                 PROVE  ImportRef(there, FoldRef(opts, d.id))
                          = ImportEnvelope(there, d.kind, Stem(opts, d))
    BY DEF ReferencesArriveAtTheirDocument
  <2>2. /\ opts \in Runs /\ collected \in Collections /\ d \in collected
        /\ MappingAgrees(opts, d.kind, d.id, d.key)
        /\ EntitledId(d.kind, Stem(opts, d), d.key)
    BY <2>1 DEF PlanInv, Inputs, Written, Marshals
  <2>3. FoldRef(opts, d.id) = Stem(opts, d)
    BY <2>2, FoldsAgree
  <2>4. QED
    BY <2>2, <2>3, ReadAlike
<1>2. QED
  BY <1>1, PlanInductive, PTL

(***************************************************************************)
(* A member of another space stays the member of that space.               *)
(***************************************************************************)
THEOREM NobodyMoves == Spec => []NobodyIsRehomed
<1>1. PlanInv => NobodyIsRehomed
  <2>1. SUFFICES ASSUME PlanInv, NEW d \in collected, NEW there \in Destinations,
                        d.id.form = "composite", d.id.space # opts.space
                 PROVE  ImportRef(there, FoldRef(opts, d.id)) = d.id
    BY DEF NobodyIsRehomed
  <2>2. d.kind = "participant" /\ d.id \notin DOMAIN opts.keyById
    BY <2>1, MintedAssumption DEF PlanInv, Inputs
  <2>3. FoldRef(opts, d.id) = d.id
    BY <2>1, <2>2 DEF FoldRef, FoldParticipant, FoldsAsMember, FoldType
  <2>4. EntitledId(d.kind, d.id, d.key)
    BY <2>1 DEF EntitledId
  <2>5. ImportRef(there, d.id) = ImportEnvelope(there, d.kind, d.id)
    BY <2>4, ReadAlike
  <2>6. QED
    BY <2>1, <2>2, <2>3, <2>5 DEF ImportEnvelope, UnfoldParticipant, NamesMember
<1>2. QED
  BY <1>1, PlanInductive, PTL

-----------------------------------------------------------------------------
(***************************************************************************)
(* Reading back in the space that wrote.                                   *)
(***************************************************************************)
LEMMA ReadBack ==
  ASSUME NEW o \in Runs, NEW docs \in Collections, NEW d \in docs,
         MappingAgrees(o, d.kind, d.id, d.key), EntitledId(d.kind, Stem(o, d), d.key),
         d.kind = "type" /\ d.key \in DOMAIN o.idByKey => o.idByKey[d.key] = d.id
  PROVE  UnfoldRef(o, FoldRef(o, d.id)) = d.id
<1>1. FoldRef(o, d.id) = Stem(o, d)
  BY FoldsAgree
<1>2. d.id \in Ids
  BY CollectionsAssumption DEF Documents
<1>3. CASE d.kind = "participant"
  <2>1. d.id.form = "composite" /\ Stem(o, d) = FoldParticipant(o, d.id)
    BY <1>3, MembersAssumption DEF Stem, FoldDocumentId
  <2>2. CASE FoldsAsMember(o, d.id)
    <3>1. d.id.name \in Identities /\ d.id.space = o.space /\ o.space # NoSpace
      BY <2>2, NamesAssumption DEF FoldsAsMember
    <3>2. d.id = Composite(o.space, d.id.name)
      BY <1>2, <2>1, <3>1 DEF Ids, Composite, Id
    <3>3. Stem(o, d) = Member(d.id.name)
      BY <2>1, <2>2 DEF FoldParticipant
    <3>4. NamesMember(Member(d.id.name)) /\ Member(d.id.name).name = d.id.name
      BY <3>1 DEF NamesMember, Member, Id
    <3>5. UnfoldParticipant(o, Member(d.id.name)) = d.id
      BY <3>1, <3>2, <3>4 DEF UnfoldParticipant
    <3>6. Member(d.id.name) # d.id
      BY <2>1 DEF Member, Id
    <3>. QED
      BY <1>1, <3>3, <3>5, <3>6 DEF UnfoldRef
  <2>3. CASE ~FoldsAsMember(o, d.id)
    <3>1. Stem(o, d) = d.id
      BY <2>1, <2>3 DEF FoldParticipant
    <3>. QED
      BY <1>1, <2>1, <3>1
         DEF UnfoldRef, UnfoldParticipant, NamesMember, UnfoldType, NamesType
  <2>. QED
    BY <2>2, <2>3
<1>4. CASE d.kind = "type" /\ Stem(o, d) = d.id
  <2>1. ~NamesMember(d.id) /\ (d.id.form = "type" => d.key = d.id.name)
    BY <1>4 DEF EntitledId, NamesMember
  <2>. QED
    BY <1>1, <1>4, <2>1 DEF UnfoldRef, UnfoldParticipant, UnfoldType, NamesType
<1>5. CASE d.kind = "type" /\ Stem(o, d) # d.id
  <2>1. Stem(o, d) = TypeId(d.key) /\ d.key \in Derivable
    BY <1>5 DEF Stem, FoldDocumentId
  <2>2. ~FoldsAsMember(o, d.id)
    BY <1>5, MintedAssumption DEF FoldsAsMember
  <2>3. FoldRef(o, d.id) = FoldType(o, d.id) /\ FoldType(o, d.id) # d.id
    BY <1>1, <1>5, <2>2 DEF FoldRef, FoldParticipant
  <2>4. o.wired /\ d.id \in DOMAIN o.keyById /\ FoldType(o, d.id) = TypeId(o.keyById[d.id])
    BY <2>3 DEF FoldType
  <2>5. o.keyById[d.id] = d.key
    BY <1>1, <2>1, <2>3, <2>4 DEF TypeId, Id
  <2>6. d.key \in DOMAIN o.idByKey
    BY <2>4, <2>5, ResolverAssumption
  <2>7. NamesType(TypeId(d.key)) /\ ~NamesMember(TypeId(d.key)) /\ TypeId(d.key).name = d.key
    BY <2>1 DEF NamesType, NamesMember, TypeId, Id, Derivable
  <2>8. UnfoldType(o, TypeId(d.key)) = d.id
    BY <1>5, <2>4, <2>6, <2>7 DEF UnfoldType
  <2>9. UnfoldParticipant(o, TypeId(d.key)) = TypeId(d.key)
    BY <2>7 DEF UnfoldParticipant
  <2>. QED
    BY <1>1, <2>1, <2>8, <2>9 DEF UnfoldRef
<1>6. CASE d.kind \notin {"participant", "type"}
  <2>1. Stem(o, d) = d.id
    BY <1>6 DEF Stem, FoldDocumentId
  <2>2. ~NamesMember(d.id) /\ ~NamesType(d.id)
    BY <1>6, <2>1 DEF EntitledId, NamesMember, NamesType
  <2>. QED
    BY <1>1, <2>1, <2>2 DEF UnfoldRef, UnfoldParticipant, UnfoldType
<1>. QED
  BY <1>3, <1>4, <1>5, <1>6

(***************************************************************************)
(* One space reads back what it wrote, and writes again what it read.      *)
(***************************************************************************)
THEOREM PassageInverts == Spec => []FoldAndUnfoldInvert
<1>1. PlanInv => FoldAndUnfoldInvert
  <2>. SUFFICES ASSUME PlanInv, NEW d \in Written \ Displaced
                PROVE  /\ UnfoldRef(opts, FoldRef(opts, d.id)) = d.id
                       /\ \A ref \in {FoldRef(opts, d.id)} \cup Spellings :
                            FoldRef(opts, UnfoldRef(opts, ref)) = ref
    BY DEF FoldAndUnfoldInvert
  <2>1. /\ opts \in Runs /\ collected \in Collections /\ d \in collected
        /\ MappingAgrees(opts, d.kind, d.id, d.key)
        /\ EntitledId(d.kind, Stem(opts, d), d.key)
    BY DEF PlanInv, Inputs, Written, Marshals
  <2>2. d.kind = "type" /\ d.key \in DOMAIN opts.idByKey => opts.idByKey[d.key] = d.id
    BY DEF Displaced
  <2>3. UnfoldRef(opts, FoldRef(opts, d.id)) = d.id
    BY <2>1, <2>2, ReadBack
  <2>4. ASSUME NEW ref \in Spellings
        PROVE  FoldRef(opts, UnfoldRef(opts, ref)) = ref
    <3>1. UnfoldRef(opts, ref) = ref
      BY SpellingsAssumption DEF UnfoldRef, UnfoldParticipant, UnfoldType
    <3>2. ref \notin DOMAIN opts.keyById /\ ~FoldsAsMember(opts, ref)
      BY <2>1, SpellingsAssumption DEF FoldsAsMember
    <3>. QED
      BY <3>1, <3>2 DEF FoldRef, FoldParticipant, FoldType
  <2>. QED
    BY <2>3, <2>4
<1>. QED
  BY <1>1, PlanInductive, PTL

-----------------------------------------------------------------------------
(***************************************************************************)
(* Where a document of each kind arrives.                                  *)
(***************************************************************************)
LEMMA MembersArrive ==
  ASSUME NEW o \in Runs, NEW docs \in Collections, NEW d \in docs, NEW there,
         d.kind = "participant"
  PROVE  LET arrival == ImportEnvelope(there, d.kind, Stem(o, d))
         IN  \/ arrival = d.id /\ d.id.form = "composite"
             \/ /\ d.id = Composite(o.space, d.id.name)
                /\ \/ arrival = Composite(there.space, d.id.name)
                   \/ arrival = Member(d.id.name) /\ there.space = NoSpace
<1>1. d.id.form = "composite" /\ d.id \in Ids /\ Stem(o, d) = FoldParticipant(o, d.id)
  BY MembersAssumption, CollectionsAssumption DEF Documents, Stem, FoldDocumentId
<1>2. CASE FoldsAsMember(o, d.id)
  <2>1. d.id = Composite(o.space, d.id.name) /\ Stem(o, d) = Member(d.id.name)
    BY <1>1, <1>2 DEF FoldsAsMember, Ids, Composite, Id, FoldParticipant
  <2>2. NamesMember(Member(d.id.name)) /\ Member(d.id.name).name = d.id.name
    BY <1>2 DEF FoldsAsMember, NamesMember, Member, Id
  <2>. QED
    BY <2>1, <2>2 DEF ImportEnvelope, UnfoldParticipant
<1>3. CASE ~FoldsAsMember(o, d.id)
  BY <1>1, <1>3 DEF FoldParticipant, ImportEnvelope, UnfoldParticipant, NamesMember
<1>. QED
  BY <1>2, <1>3

LEMMA OthersArrive ==
  ASSUME NEW o \in Runs, NEW docs \in Collections, NEW d \in docs, NEW there,
         d.kind \notin {"participant", "type"}, EntitledId(d.kind, Stem(o, d), d.key)
  PROVE  /\ ImportEnvelope(there, d.kind, Stem(o, d)) = d.id
         /\ d.id.form \notin {"composite", "member", "type"}
<1>1. Stem(o, d) = d.id
  BY DEF Stem, FoldDocumentId
<1>. QED
  BY <1>1, MintedAssumption DEF ImportEnvelope, EntitledId

(* A type arrives under the id it wears, or is taken for the destination's *)
(* own type of its key.                                                    *)
LEMMA TypesArrive ==
  ASSUME NEW o \in Runs, NEW docs \in Collections, NEW d \in docs, NEW there,
         d.kind = "type", EntitledId(d.kind, Stem(o, d), d.key), ~o.noDerivedTypeIds
  PROVE  LET arrival == ImportEnvelope(there, d.kind, Stem(o, d))
         IN  /\ Stem(o, d) = TypeId(d.key) \/ (d.key \notin Derivable /\ Stem(o, d) = d.id)
             /\ Stem(o, d).form \in {"type", "plain"}
             /\ Stem(o, d).form = "type" => Stem(o, d) = TypeId(d.key)
             /\ \/ arrival = Stem(o, d)
                \/ /\ Stem(o, d) = TypeId(d.key) /\ d.key \in DOMAIN there.idByKey
                   /\ arrival = there.idByKey[d.key]
<1>1. d.id \in Ids /\ d.id.form # "composite"
  BY MintedAssumption, CollectionsAssumption DEF Documents
<1>2. Stem(o, d) = IF d.key \in Derivable THEN TypeId(d.key) ELSE d.id
  BY DEF Stem, FoldDocumentId
<1>3. /\ TypeId(d.key).form = "type" /\ TypeId(d.key).name = d.key
      /\ Stem(o, d).form \notin {"member", "bare"}
  BY DEF TypeId, Id, EntitledId
<1>4. Stem(o, d).form \in {"type", "plain"}
  BY <1>1, <1>2, <1>3 DEF Ids, Forms
<1>5. Stem(o, d).form = "type" => Stem(o, d).name = d.key
  BY DEF EntitledId
<1>6. Stem(o, d).form = "type" => Stem(o, d) = TypeId(d.key)
  BY <1>1, <1>2, <1>5 DEF Ids, TypeId, Id
<1>7. \/ ImportEnvelope(there, d.kind, Stem(o, d)) = Stem(o, d)
      \/ /\ Stem(o, d) = TypeId(d.key) /\ d.key \in DOMAIN there.idByKey
         /\ ImportEnvelope(there, d.kind, Stem(o, d)) = there.idByKey[d.key]
  BY <1>5, <1>6 DEF ImportEnvelope, UnfoldType, NamesType
<1>. QED
  BY <1>2, <1>4, <1>6, <1>7

(***************************************************************************)
(* Two documents of a plan that arrive as one object are one document, or  *)
(* one person's memberships of the exported and of the destination space.  *)
(***************************************************************************)
LEMMA ArriveApart ==
  ASSUME NEW o \in Runs, NEW docs \in Collections, NEW there \in Destinations,
         NEW d \in docs, NEW e \in docs, Plannable(o, docs),
         EntitledId(d.kind, Stem(o, d), d.key), EntitledId(e.kind, Stem(o, e), e.key),
         ImportEnvelope(there, d.kind, Stem(o, d))
           = ImportEnvelope(there, e.kind, Stem(o, e)),
         d.kind = "participant" \/ e.kind # "participant"
  PROVE  \/ d = e
         \/ /\ d.kind = "participant" /\ e.kind = "participant"
            /\ there.space \in {d.id.space, e.id.space}
<1>1. /\ d.id = e.id => d = e
      /\ d.id \in Ids /\ e.id \in Ids /\ ~o.noDerivedTypeIds
      /\ (d.kind = e.kind /\ Stem(o, d) = Stem(o, e)) => d = e
  BY CollectionsAssumption DEF Documents, Plannable, OptionsAllowed, DocPath, Path
<1>2. ASSUME NEW n, NEW s
      PROVE  /\ Composite(s, n).form = "composite" /\ Composite(s, n).space = s
             /\ Member(n).form = "member" /\ TypeId(n).form = "type"
             /\ Composite(s, n).name = n /\ Member(n).name = n /\ TypeId(n).name = n
  BY DEF Composite, Member, TypeId, Id
<1>3. ASSUME NEW k \in DOMAIN there.idByKey
      PROVE  there.idByKey[k] = TypeId(k) \/ there.idByKey[k].form = "plain"
  BY DestinationsAssumption
<1>4. CASE d.kind = "participant" /\ e.kind = "participant"
  BY <1>1, <1>2, <1>4, MembersArrive
<1>5. CASE d.kind = "participant" /\ e.kind # "participant"
  <2>1. ImportEnvelope(there, d.kind, Stem(o, d)).form \in {"composite", "member"}
    BY <1>2, <1>5, MembersArrive
  <2>2. ImportEnvelope(there, e.kind, Stem(o, e)).form \notin {"composite", "member"}
    <3>1. CASE e.kind = "type"
      BY <1>1, <1>2, <1>3, <3>1, TypesArrive
    <3>2. CASE e.kind # "type"
      BY <1>5, <3>2, OthersArrive
    <3>. QED
      BY <3>1, <3>2
  <2>. QED
    BY <2>1, <2>2
<1>6. CASE d.kind \notin {"participant", "type"} /\ e.kind \notin {"participant", "type"}
  BY <1>1, <1>6, OthersArrive
<1>7. ASSUME NEW f \in docs, NEW g \in docs, f.kind = "type",
             g.kind \notin {"participant", "type"}, EntitledId(f.kind, Stem(o, f), f.key),
             EntitledId(g.kind, Stem(o, g), g.key)
      PROVE  ImportEnvelope(there, f.kind, Stem(o, f))
               # ImportEnvelope(there, g.kind, Stem(o, g))
  <2>1. ImportEnvelope(there, g.kind, Stem(o, g)) = g.id /\ g.id.form # "type"
    BY <1>7, OthersArrive
  <2>2. f.id = g.id => f = g
    BY CollectionsAssumption
  <2>3. ASSUME NEW k \in DOMAIN there.idByKey
        PROVE  there.idByKey[k] # g.id
    BY <1>2, <1>7, <2>1, DestinationsAssumption
  <2>. QED
    BY <1>1, <1>2, <1>7, <2>1, <2>2, <2>3, TypesArrive
<1>8. CASE d.kind = "type" /\ e.kind = "type"
  <2>1. ASSUME NEW f \in docs, NEW g \in docs, f.kind = "type", g.kind = "type",
               EntitledId(g.kind, Stem(o, g), g.key),
               Stem(o, f) = TypeId(f.key), f.key \in DOMAIN there.idByKey,
               there.idByKey[f.key] = Stem(o, g)
        PROVE  Stem(o, f) = Stem(o, g)
    <3>1. CASE there.idByKey[f.key] = TypeId(f.key)
      BY <2>1, <3>1
    <3>2. CASE there.idByKey[f.key] # TypeId(f.key)
      <4>1. there.idByKey[f.key].form = "plain"
        BY <1>3, <2>1, <3>2
      <4>2. g.key \notin Derivable /\ Stem(o, g) = g.id
        BY <1>1, <1>2, <2>1, <4>1, TypesArrive
      <4>3. g.key = f.key /\ f.key \in Derivable
        BY <2>1, <3>2, <4>2, DestinationsAssumption
      <4>. QED
        BY <4>2, <4>3
    <3>. QED
      BY <3>1, <3>2
  <2>2. \/ ImportEnvelope(there, d.kind, Stem(o, d)) = Stem(o, d)
        \/ /\ Stem(o, d) = TypeId(d.key) /\ d.key \in DOMAIN there.idByKey
           /\ ImportEnvelope(there, d.kind, Stem(o, d)) = there.idByKey[d.key]
    BY <1>1, <1>8, TypesArrive
  <2>3. \/ ImportEnvelope(there, e.kind, Stem(o, e)) = Stem(o, e)
        \/ /\ Stem(o, e) = TypeId(e.key) /\ e.key \in DOMAIN there.idByKey
           /\ ImportEnvelope(there, e.kind, Stem(o, e)) = there.idByKey[e.key]
    BY <1>1, <1>8, TypesArrive
  <2>4. d.key \in DOMAIN there.idByKey /\ e.key \in DOMAIN there.idByKey
          /\ there.idByKey[d.key] = there.idByKey[e.key] => d.key = e.key
    BY DestinationsAssumption
  <2>5. Stem(o, d) = Stem(o, e)
    BY <1>8, <2>1, <2>2, <2>3, <2>4
  <2>. QED
    BY <1>1, <1>8, <2>5
<1>. QED
  BY <1>4, <1>5, <1>6, <1>7, <1>8

(***************************************************************************)
(* Two documents arrive as two objects, wherever a bundle is imported.     *)
(***************************************************************************)
THEOREM DocumentsApart == Spec => []DocumentsArriveApart
<1>1. PlanInv /\ OrderDecidesNothing => DocumentsArriveApart
  <2>. SUFFICES ASSUME PlanInv, OrderDecidesNothing, NEW d \in Written, NEW e \in Written,
                       NEW there \in Destinations,
                       d # e, Arrival(there, d) = Arrival(there, e)
                PROVE  /\ d.kind = "participant" /\ e.kind = "participant"
                       /\ there.space \in {d.id.space, e.id.space}
    BY DEF DocumentsArriveApart
  <2>1. /\ opts \in Runs /\ collected \in Collections /\ Plannable(opts, collected)
        /\ d \in collected /\ e \in collected
        /\ EntitledId(d.kind, Stem(opts, d), d.key)
        /\ EntitledId(e.kind, Stem(opts, e), e.key)
    BY DEF PlanInv, Inputs, OrderDecidesNothing, Written, Marshals
  <2>2. CASE d.kind = "participant" \/ e.kind # "participant"
    BY <2>1, <2>2, ArriveApart DEF Arrival
  <2>3. CASE e.kind = "participant" \/ d.kind # "participant"
    BY <2>1, <2>3, ArriveApart DEF Arrival
  <2>. QED
    BY <2>2, <2>3
<1>. QED
  BY <1>1, PlanInductive, OrderIrrelevant, PTL

=============================================================================
