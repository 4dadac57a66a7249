----------------------------- MODULE BundlePlan -----------------------------
(***************************************************************************)
(* The plan phase of an export (bundle/plan.go, BuildPlan): every path of  *)
(* the bundle is fixed before the first emit task starts, or the export is *)
(* refused.  The collected documents are visited one by one; the slice has *)
(* no order the store guarantees, so any of them may be next.              *)
(*                                                                         *)
(* A document's metadata is a record [id, kind, key, ext, mime]: its store *)
(* id, its kind, the type key it states, and a file's stored extension and *)
(* mime type.  A path is a record [dir, stem, ext].                        *)
(***************************************************************************)
EXTENDS References

CONSTANTS
  Collections,  \* the collections of documents an export may be given
  Runs,         \* the Options it may be given them with
  NoKey,        \* the type key of a document that states none
  Exts,         \* file extensions, raw and clean, the document's excluded
  CleanExt,     \* [stored extensions that clean up -> the clean extension]
  Mimes,        \* stored mime types
  MimeExt,      \* blobExtensionByMime: [stored mime types -> extensions]
  UnsafeIds,    \* the ids that cannot be a filename stem
  Clipped       \* [ids that end in ".anyblock" -> the rest of the id]

DocExtension == "anyblock.json"

Directories == {"objects", "types", "templates", "participants", "files"}

Documents ==
  [id: Ids, kind: Kinds, key: Names \cup {NoKey}, ext: Exts, mime: Mimes]

Paths == [dir: Directories, stem: Ids, ext: Exts \cup {DocExtension}]

(***************************************************************************)
(* The store's ids are unique, and an extension has no dot.                *)
(***************************************************************************)
ASSUME CollectionsAssumption ==
  \A docs \in Collections :
    /\ docs \subseteq Documents
    /\ \A d, e \in docs : d.id = e.id => d = e

ASSUME ExtensionAssumption ==
  /\ DocExtension \notin Exts
  /\ {"bin", "json"} \subseteq Exts
  /\ \A ext \in DOMAIN CleanExt : CleanExt[ext] \in Exts
  /\ \A mime \in DOMAIN MimeExt : MimeExt[mime] \in Exts
  /\ \A id \in DOMAIN Clipped : Clipped[id] \in Ids

VARIABLES
  opts,       \* the Options of the run
  collected,  \* the documents it was given
  pending,    \* those not visited yet
  claimed,    \* claimed: [document paths -> the id that claimed each]
  docPaths,   \* Plan.docPaths: [ids -> document paths]
  blobPaths,  \* Plan.blobPaths: [ids of files -> blob paths]
  verdict     \* "planning", "planned", or why the export was refused

vars == <<opts, collected, pending, claimed, docPaths, blobPaths, verdict>>

Verdicts == {"planning", "planned", "options", "mapping", "unsafe", "claimed",
             "extension"}

-----------------------------------------------------------------------------
(* The path of a document is a function of its metadata.                   *)

KindDirectory(kind) ==
  CASE kind = "type"        -> "types"
    [] kind = "template"    -> "templates"
    [] kind = "participant" -> "participants"
    [] kind = "file"        -> "files"
    [] OTHER                -> "objects"

Stem(o, d) == FoldDocumentId(o, d.kind, d.id, d.key)

Path(dir, stem, ext) == [dir |-> dir, stem |-> stem, ext |-> ext]

DocPath(o, d) == Path(KindDirectory(d.kind), Stem(o, d), DocExtension)

(***************************************************************************)
(* BlobExtension: the stored extension, lowercased and without its dot, if *)
(* that is clean, or else the usual one of the mime type.                  *)
(***************************************************************************)
BlobExtension(d) ==
  CASE d.ext \in DOMAIN CleanExt -> CleanExt[d.ext]
    [] d.ext \notin DOMAIN CleanExt /\ d.mime \in DOMAIN MimeExt ->
         MimeExt[d.mime]
    [] OTHER -> "bin"

(***************************************************************************)
(* A blob called x.anyblock with the extension json has the path of x's    *)
(* document.                                                               *)
(***************************************************************************)
BlobPath(o, d) ==
  LET stem == Stem(o, d)
      ext  == BlobExtension(d)
  IN  IF ext = "json" /\ stem \in DOMAIN Clipped
      THEN Path(KindDirectory(d.kind), Clipped[stem], DocExtension)
      ELSE Path(KindDirectory(d.kind), stem, ext)

(* A blob is never a document's namesake (a mutant of WearsDocExtension).  *)
NeverWearsDocExtension(o, d) == FALSE

WearsDocExtension(o, d) ==
  d.kind = "file" /\ BlobPath(o, d).ext = DocExtension

-----------------------------------------------------------------------------
Init ==
  /\ opts \in Runs
  /\ collected \in Collections
  /\ pending = collected
  /\ claimed = [path \in {} |-> path]
  /\ docPaths = [id \in {} |-> id]
  /\ blobPaths = [id \in {} |-> id]
  /\ verdict = "planning"

Given == UNCHANGED <<opts, collected>>

(***************************************************************************)
(* refuseDocumentOnlyOptions, ahead of every path.                         *)
(***************************************************************************)
OptionsAllowed(o) == ~o.noDerivedTypeIds

Refuse(reason) ==
  /\ verdict' = reason
  /\ UNCHANGED <<claimed, docPaths, blobPaths>> /\ Given

RefuseOptions ==
  /\ verdict = "planning" /\ ~OptionsAllowed(opts)
  /\ Refuse("options") /\ UNCHANGED pending

Visits(d) ==
  /\ verdict = "planning" /\ OptionsAllowed(opts)
  /\ d \in pending /\ pending' = pending \ {d}

Mapped(d) == MappingAgrees(opts, d.kind, d.id, d.key)
Safe(d) == Stem(opts, d) \notin UnsafeIds

(* A path may be claimed again; only an id may not (mutants of Taken).     *)
NeverTaken(d) == FALSE
TakenById(d) == d.id \in DOMAIN docPaths

Taken(d) == DocPath(opts, d) \in DOMAIN claimed

RefuseMapping(d) == Visits(d) /\ ~Mapped(d) /\ Refuse("mapping")

RefuseUnsafe(d) == Visits(d) /\ Mapped(d) /\ ~Safe(d) /\ Refuse("unsafe")

RefuseClaimed(d) ==
  Visits(d) /\ Mapped(d) /\ Safe(d) /\ Taken(d) /\ Refuse("claimed")

Bind(map, key, value) ==
  [k \in DOMAIN map \cup {key} |-> IF k = key THEN value ELSE map[k]]

(* The plan is kept by the envelope id (a mutant of Claim).                *)
ClaimByStem(d) ==
  /\ Visits(d) /\ Mapped(d) /\ Safe(d) /\ ~Taken(d)
  /\ claimed' = Bind(claimed, DocPath(opts, d), d.id)
  /\ docPaths' = Bind(docPaths, Stem(opts, d), DocPath(opts, d))
  /\ Given

Claim(d) ==
  /\ Visits(d) /\ Mapped(d) /\ Safe(d) /\ ~Taken(d)
  /\ claimed' = Bind(claimed, DocPath(opts, d), d.id)
  /\ docPaths' = Bind(docPaths, d.id, DocPath(opts, d))
  /\ Given

RefuseExtension(d) ==
  /\ Claim(d) /\ WearsDocExtension(opts, d)
  /\ verdict' = "extension" /\ UNCHANGED blobPaths

PlanFile(d) ==
  /\ Claim(d) /\ d.kind = "file" /\ ~WearsDocExtension(opts, d)
  /\ blobPaths' = Bind(blobPaths, d.id, BlobPath(opts, d))
  /\ UNCHANGED verdict

PlanDocument(d) ==
  Claim(d) /\ d.kind # "file" /\ UNCHANGED <<blobPaths, verdict>>

Visit(d) ==
  \/ RefuseMapping(d) \/ RefuseUnsafe(d) \/ RefuseClaimed(d)
  \/ RefuseExtension(d) \/ PlanFile(d) \/ PlanDocument(d)

Return ==
  /\ verdict = "planning" /\ OptionsAllowed(opts) /\ pending = {}
  /\ verdict' = "planned"
  /\ UNCHANGED <<claimed, docPaths, blobPaths, pending>> /\ Given

Ended == verdict # "planning" /\ UNCHANGED vars

Next == RefuseOptions \/ (\E d \in pending : Visit(d)) \/ Return \/ Ended

Spec == Init /\ [][Next]_vars
-----------------------------------------------------------------------------
TypeOK ==
  /\ opts \in Runs /\ collected \in Collections /\ pending \subseteq collected
  /\ verdict \in Verdicts
  /\ DOMAIN claimed \subseteq Paths
  /\ DOMAIN docPaths \subseteq {d.id : d \in collected}
  /\ DOMAIN blobPaths \subseteq DOMAIN docPaths

(***************************************************************************)
(* A plan is safe to write: no two of its paths are the same file, be they *)
(* of two documents, of two blobs, or of a document and a blob             *)
(* (plan.go BuildPlan).                                                    *)
(***************************************************************************)
PathsNeverCollide ==
  verdict = "planned" =>
    /\ \A d, e \in collected :
         docPaths[d.id] = docPaths[e.id] => d = e
    /\ \A id, other \in DOMAIN blobPaths :
         blobPaths[id] = blobPaths[other] => id = other
    /\ \A id \in DOMAIN blobPaths, d \in collected :
         blobPaths[id] # docPaths[d.id]

(***************************************************************************)
(* Which collections can be planned, whatever the order.                   *)
(***************************************************************************)
Plannable(o, documents) ==
  /\ OptionsAllowed(o)
  /\ \A d \in documents :
       /\ MappingAgrees(o, d.kind, d.id, d.key)
       /\ Stem(o, d) \notin UnsafeIds
       /\ ~WearsDocExtension(o, d)
  /\ \A d, e \in documents : DocPath(o, d) = DocPath(o, e) => d = e

(***************************************************************************)
(* The order of the collected documents decides nothing: whether the       *)
(* export is refused and, if it is not, every path depend on the set of    *)
(* the documents and the options alone (plan.go 6-10).                     *)
(***************************************************************************)
OrderDecidesNothing ==
  /\ verdict = "planned" =>
       /\ Plannable(opts, collected)
       /\ DOMAIN docPaths = {d.id : d \in collected}
       /\ \A d \in collected : docPaths[d.id] = DocPath(opts, d)
       /\ DOMAIN blobPaths = {d.id : d \in {e \in collected : e.kind = "file"}}
       /\ \A d \in collected :
            d.kind = "file" => blobPaths[d.id] = BlobPath(opts, d)
  /\ verdict \notin {"planning", "planned"} => ~Plannable(opts, collected)
=============================================================================
