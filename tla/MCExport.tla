------------------------------ MODULE MCExport ------------------------------
(***************************************************************************)
(* Exports put to their reader.  The composer model is MCComposer's.       *)
(***************************************************************************)
EXTENDS MCComposer, Export

MCListings == {"_favorite"}

(* One export of everything: the sources of a definition, a disputed       *)
(* declaration, a property nothing names and one only the sidebar names;   *)
(* space settings in two observations that complete each other; a file;    *)
(* and references to what is carried, deleted, live and never there.  Any  *)
(* document may fail.                                                      *)
BundleScenario ==
  [due     |-> Relation("due", "B", "date", FALSE),
   budget  |-> Relation("budget", "C", "text", TRUE),
   space   |-> Space({"A"}, {}, {"gone"}, {}),
   reread  |-> Space({"A"}, {"B"}, {}, {"image"}),
   sidebar |-> Sidebar(<<Widget("page", {"status"}, "view"),
                         Widget("type", {}, NoView),
                         Widget("_favorite", {}, NoView)>>, {"home"}),
   page    |-> Page("page", {"due", "season", "mood"},
                    {"type-habit", "type-lost"}, {<<"view", "v1">>}),
   type    |-> Type("type", {"status"}, {Declares("season", "A", "text"),
                                         Declares("mood", "B", "date")}),
   type2   |-> Type("type2", {"mood"}, {Declares("season", "A", "text"),
                                        Declares("mood", "B", "text")}),
   file    |-> File("file", "none", {})]

BundleTasks == DOMAIN BundleScenario
BundleFlaky == {"due", "space"}

ASSUME BundleIsPlain == PlainSpace
=============================================================================
