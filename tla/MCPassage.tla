----------------------------- MODULE MCPassage -----------------------------
(***************************************************************************)
(* Small collections of documents, planned, written and read elsewhere:    *)
(* every pair of the documents below, and larger collections of them.      *)
(***************************************************************************)
EXTENDS Passage, FiniteSetsExt

MCNames == {"ann", "bob", "wine", "cider", "my type", "page", "draft", "vintage",
            "stored", "stored2", "twin", "photo", "photo.anyblock", "/"}

Document(id, kind) ==
  [id |-> id, kind |-> kind, key |-> NoKey, ext |-> "", mime |-> ""]

Type(id, key) == [Document(id, "type") EXCEPT !.key = key]

File(id, ext, mime) == [Document(id, "file") EXCEPT !.ext = ext, !.mime = mime]

MCDocuments ==
  { Document(Plain("page"), "page"),
    Document(Plain("draft"), "template"),
    Document(Plain("/"), "page"),
    Document(TypeId("cider"), "page"),
    Document(Member("bob"), "page"),
    Type(Plain("vintage"), "wine"),
    Type(TypeId("wine"), "wine"),
    Type(Plain("stored"), "my type"),
    Type(Plain("twin"), "cider"),
    Document(Composite("here", "ann"), "participant"),
    Document(Composite("there", "ann"), "participant"),
    Document(Composite("flat", "bob"), "participant"),
    File(Plain("photo"), ".PNG", ""),
    File(Plain("photo"), "P-NG", "image/png"),
    File(Plain("photo.anyblock"), "json", ""),
    File(Plain("photo.anyblock"), "", "") }

(* A space, and the same space with a second type of wine.                 *)
Household ==
  { Document(Plain("page"), "page"), Document(Plain("draft"), "template"),
    Type(Plain("vintage"), "wine"), Type(Plain("stored"), "my type"),
    Document(Composite("here", "ann"), "participant"),
    Document(Composite("flat", "bob"), "participant"),
    File(Plain("photo"), "P-NG", "image/png") }

MCCollections ==
  {docs \in UNION {kSubset(n, MCDocuments) : n \in 0..2} :
     \A d, e \in docs : d.id = e.id => d = e}
    \cup {Household, Household \cup {Type(TypeId("wine"), "wine")}}

MCUnsafeIds == {Plain("/")}
MCCleanExt ==
  [ext \in {".PNG", "png", "json", "bin"} |-> IF ext = ".PNG" THEN "png" ELSE ext]
MCMimeExt == [mime \in {"image/png"} |-> "png"]
MCClipped == [id \in {Plain("photo.anyblock")} |-> Plain("photo")]

(* The exported space knows its type of wine; its answer for the other     *)
(* type is right, wrong, or missing.                                       *)
Run(space, other) ==
  [space |-> space, wired |-> TRUE, noDerivedTypeIds |-> FALSE,
   keyById |-> [id \in {Plain("vintage"), Plain("twin")} |->
                  IF id = Plain("twin") THEN other ELSE "wine"],
   idByKey |-> [key \in {"wine"} |-> Plain("vintage")]]

Agreeing(space) ==
  [Run(space, "cider") EXCEPT
     !.idByKey = [key \in {"wine", "cider"} |->
                    IF key = "wine" THEN Plain("vintage") ELSE Plain("twin")]]

Unwired(space) == [Agreeing(space) EXCEPT !.wired = FALSE]

MCRuns ==
  { Agreeing("here"), Agreeing(NoSpace), Agreeing("flat"), Run("here", "wine"),
    Unwired("here"), [Agreeing("here") EXCEPT !.noDerivedTypeIds = TRUE] }

(* A converter that knows the carried types by their derived ids, a space  *)
(* that has its own type of wine, one that has none, and readers that name *)
(* no space or cannot ask for types.                                       *)
Reads(space, wine) ==
  [Agreeing(space) EXCEPT !.idByKey = [key \in {"wine"} |-> wine]]

MCDestinations ==
  { Reads("there", TypeId("wine")), Reads("there", Plain("stored2")),
    [Agreeing("there") EXCEPT !.idByKey = [key \in {} |-> key]],
    Reads(NoSpace, TypeId("wine")), Unwired("there"), Agreeing("here") }

MCSpellings == {Plain("page"), Composite("there", "ann"), TypeId("my type")}
=============================================================================
