------------------------------- MODULE Export -------------------------------
(***************************************************************************)
(* The writer and the reader together: the bundle an export run leaves     *)
(* behind, put to Inspect.  The composer declares what the bundle cannot   *)
(* answer for with one list of slots and the validator refuses with        *)
(* another, so the two agree or the export publishes a bundle its own      *)
(* reader refuses.                                                         *)
(***************************************************************************)
EXTENDS ComposerSafety

CONSTANT Listings  \* the reserved widget targets, which name no object

ASSUME ListingsAssumption == Listings \subseteq Platform

Reader == INSTANCE BundleInspect WITH
            Bundled <- DOMAIN Table, Reserved <- ReservedHome \cup Listings,
            NoTypeKey <- NoId

(***************************************************************************)
(* The envelope of a written document.  A type's id is a function of its   *)
(* key, so the derived id stands for the key.                              *)
(***************************************************************************)
Envelope(t) ==
  LET s == Snapshot[t]
  IN  [path |-> t,
       id |-> s.envelope,
       kind |-> CASE s.file -> "file_object"
                  [] s.type /\ ~s.file -> "object_type"
                  [] OTHER  -> "page",
       typeKey |-> IF s.type THEN s.envelope ELSE NoId,
       used |-> s.used,
       typeRefs |-> s.typeRefs]

(***************************************************************************)
(* The bundle on disk once Finish's two files are written.                 *)
(***************************************************************************)
Bundle ==
  [documents |-> {Envelope(t) : t \in docs},
   index |-> out.index,
   properties |-> [key \in DOMAIN out.dictionary |->
                     out.dictionary[key].definition.targets],
   blobs |-> {Snapshot[t].id : t \in blobs}]

(***************************************************************************)
(* What Finish publishes, its own reader accepts: whatever documents       *)
(* failed, whichever blobs were lost and in whatever order the tasks       *)
(* reported, the index declares everything the validator would refuse      *)
(* (compose.go Stats.UnresolvedTargets, validate.go inspect).              *)
(***************************************************************************)
PublishedBundlesValidate ==
  Published => Reader!Refusals(Reader!Inspect(Bundle, FALSE)) = {}

(***************************************************************************)
(* A loss is graded by what the space knows of the object: a tombstone is  *)
(* no loss, anything else is warned about, nothing is missing in silence,  *)
(* and the authoring surface accepts no bundle with a loss                 *)
(* (validate.go requireObject, refs.go ClassifyUnresolvedTarget).          *)
(***************************************************************************)
LossesAreGraded ==
  Published =>
    LET report == Reader!Inspect(Bundle, FALSE)
        lost == NamedByIndex(out.index) \ Carried
        Graded(id, told) ==
          /\ told # {}
          /\ \A issue \in told :
               (issue.severity = "info") <=>
                 (id \in ObjectShaped /\ Store[id] = "deleted")
    IN  /\ \A id \in lost :
             Graded(id, {issue \in report : issue.subject = id})
        /\ (Reader!Refusals(Reader!Inspect(Bundle, TRUE)) = {}) <=>
             (lost = {} /\ out.index.unresolved.types = {})

-----------------------------------------------------------------------------
(***************************************************************************)
(* The ids a space puts into the slots of an index.                        *)
(***************************************************************************)
Objects(kind) == {t \in Tasks : Snapshot[t].kind = kind}

HomepageIds == UNION {Snapshot[t].homepage : t \in Objects("space")}

IconIds == UNION {Snapshot[t].icon : t \in Objects("space")}

WidgetIds ==
  UNION {{Snapshot[t].widgets[n].target : n \in DOMAIN Snapshot[t].widgets} :
           t \in Objects("widget")}

(***************************************************************************)
(* The types a document or a definition may name.                          *)
(***************************************************************************)
NamedTypes ==
  (UNION {Snapshot[t].typeRefs : t \in Objects("document")})
    \cup (UNION {Snapshot[t].targets : t \in Objects("relation")})
    \cup (UNION {Resolver[key].targets : key \in DOMAIN Resolver})
    \cup (UNION {Table[key].targets : key \in DOMAIN Table})

(***************************************************************************)
(* What the composer takes for granted of a space, and checks nowhere.     *)
(* Two documents are not written under one id, a file's document keeps the *)
(* id its bytes are stored under, and one without an id names no type; the *)
(* slots of the index name ordinary objects, or the platform's own         *)
(* listings and screens where they have a place: a slot that names a       *)
(* participant breaks this, because its stored id is in the platform's     *)
(* namespace and the id it folds to is not.  A type is named by its        *)
(* derived id, never by that of a stored object.                           *)
(***************************************************************************)
PlainDocuments ==
  \A t \in Objects("document") :
    /\ \A u \in Objects("document") :
         Snapshot[t].envelope = Snapshot[u].envelope /\ t # u => Snapshot[t].envelope = NoId
    /\ Snapshot[t].file => Snapshot[t].envelope = Snapshot[t].id
    /\ Snapshot[t].envelope = NoId => Snapshot[t].typeRefs = {}

PlainSlots ==
  /\ \A id \in HomepageIds \cup IconIds \cup WidgetIds :
       IF id \in Platform THEN Fold[id] = id ELSE Fold[id] \notin Platform
  /\ IconIds \cap Platform = {}
  /\ WidgetIds \cap Platform \subseteq Listings

PlainSpace ==
  PlainDocuments /\ PlainSlots /\ NamedTypes \cap ObjectShaped = {}
=============================================================================
