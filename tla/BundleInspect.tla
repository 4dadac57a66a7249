--------------------------- MODULE BundleInspect ---------------------------
(***************************************************************************)
(* Inspect and Validate (bundle/validate.go, report.go): what a reader     *)
(* reports of a bundle, given its documents, its two bundle-level files    *)
(* and the files its manifest may point at.                                *)
(*                                                                         *)
(* A bundle is a record                                                    *)
(*   documents   the documents found by the walk, each a record            *)
(*               [path, id, kind, typeKey, used, typeRefs]: its envelope,  *)
(*               the stored keys its bytes reference and the derived type  *)
(*               ids they name                                             *)
(*   index       [entrypoint, homepage, icon, widgets, autoTargets,        *)
(*               autoDisabled, files, unresolved] as UnmarshalIndex        *)
(*               decodes it                                                *)
(*   properties  [stored keys -> the derived type ids the entry names]     *)
(*   blobs       the ids whose manifest path is a file of the bundle       *)
(* Paths are unique, so a document is known by its path.                   *)
(***************************************************************************)
EXTENDS Integers, FiniteSets

CONSTANTS Bundled,   \* the stored keys of the shipped relation table
          Reserved,  \* the reserved listings and homepages
          NoTypeKey, \* the internal_key of a document that is no type's
          NoId       \* the id of a document that states none

DocumentIds(bundle) == {d.id : d \in bundle.documents} \ {NoId}

WidgetTargets(bundle) ==
  {bundle.index.widgets[n].target : n \in DOMAIN bundle.index.widgets}

Issue(severity, code, subject) ==
  [severity |-> severity, code |-> code, subject |-> subject]

Errors(code, subjects) == {Issue("error", code, x) : x \in subjects}

(***************************************************************************)
(* Every manifest entry points at a file of the bundle.                    *)
(***************************************************************************)
MissingBlobs(bundle) ==
  Errors("missing path", bundle.index.files.ids \ bundle.blobs)

(***************************************************************************)
(* One id, and one stored type key, per document.                          *)
(***************************************************************************)
DuplicateIds(bundle) ==
  Errors("duplicate id",
         {id \in DocumentIds(bundle) :
            Cardinality({d \in bundle.documents : d.id = id}) > 1})

DuplicateTypeKeys(bundle) ==
  LET keys == {d.typeKey : d \in bundle.documents} \ {NoTypeKey}
  IN  Errors("duplicate type key",
             {key \in keys :
                Cardinality({d \in bundle.documents : d.typeKey = key}) > 1})

(***************************************************************************)
(* requireObject: an object the index names is carried; on the full        *)
(* surface a missing one is excused by the index's own declaration, at the *)
(* severity the stated reason earns.  The ledger of widgets added once     *)
(* (autoTargets) requires nothing.                                         *)
(***************************************************************************)
RequiredObjects(bundle) ==
  (bundle.index.entrypoint \cup bundle.index.homepage \cup WidgetTargets(bundle)
     \cup bundle.index.icon \cup bundle.index.files.ids) \ Reserved

RequireObject(bundle, id, authoring) ==
  LET unresolved == bundle.index.unresolved
  IN  CASE authoring \/ id \notin unresolved.targets ->
             Issue("error", "missing object", id)
        [] ~authoring /\ id \in unresolved.deleted ->
             Issue("info", "deleted target", id)
        [] ~authoring /\ id \in unresolved.omitted \ unresolved.deleted ->
             Issue("warning", "omitted target", id)
        [] OTHER -> Issue("warning", "unresolved target", id)

MissingObjects(bundle, authoring) ==
  {RequireObject(bundle, id, authoring) :
     id \in RequiredObjects(bundle) \ DocumentIds(bundle)}

(***************************************************************************)
(* A manifest entry binds the bytes of a file document and of no other.    *)
(***************************************************************************)
MisboundFiles(bundle) ==
  Errors("not a file object",
         {d.id : d \in {e \in bundle.documents :
                          /\ e.id \in bundle.index.files.ids
                          /\ e.kind # "file_object"}})

(***************************************************************************)
(* A type named by its derived id is carried, or declared as one the space *)
(* never held; one that is both carried and declared is refused.           *)
(***************************************************************************)
TypeUsesOf(bundle) ==
  (UNION {d.typeRefs : d \in bundle.documents})
    \cup (UNION {bundle.properties[key] : key \in DOMAIN bundle.properties})

MissingTypes(bundle, authoring) ==
  {IF ref \in bundle.index.unresolved.types /\ ~authoring
   THEN Issue("warning", "unresolved type", ref)
   ELSE Issue("error", "missing type", ref) :
     ref \in TypeUsesOf(bundle) \ DocumentIds(bundle)}

CarriedTypesDeclaredMissing(bundle) ==
  Errors("carried type declared missing",
         bundle.index.unresolved.types \cap DocumentIds(bundle))

(***************************************************************************)
(* Every stored key a document or a widget references has an entry, or is  *)
(* one the reader's own table defines.                                     *)
(***************************************************************************)
UndefinedProperties(bundle) ==
  LET used     == UNION {d.used : d \in bundle.documents}
      labelled == UNION {bundle.index.widgets[n].properties :
                           n \in DOMAIN bundle.index.widgets}
  IN  Errors("undefined property",
             ((used \cup labelled) \ DOMAIN bundle.properties) \ Bundled)

Inspect(bundle, authoring) ==
  MissingBlobs(bundle) \cup DuplicateIds(bundle) \cup DuplicateTypeKeys(bundle)
    \cup MissingObjects(bundle, authoring) \cup MisboundFiles(bundle)
    \cup MissingTypes(bundle, authoring) \cup CarriedTypesDeclaredMissing(bundle)
    \cup UndefinedProperties(bundle)

(***************************************************************************)
(* Report.Err: only an error refuses the bundle.                           *)
(***************************************************************************)
Refusals(report) == {issue \in report : issue.severity = "error"}
=============================================================================
