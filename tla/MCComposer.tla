----------------------------- MODULE MCComposer -----------------------------
(***************************************************************************)
(* Small spaces for the composer: each scenario is what the emit tasks of  *)
(* one export observe.  Object ids, property keys and names are strings.   *)
(***************************************************************************)
EXTENDS ComposerSafety

MCKeys == {"priority", "due", "status", "mood", "season", "budget"}
MCFormats == {"select", "date", "text", "objects", "emoji"}
MCNames == {"A", "B", "C"}
MCColors == {"red", "blue", "plaid"}
MCIds == {"page", "home", "gone", "file", "image", "space", "sidebar", "type",
          "type-habit", "type2", "type-goal", "type-lost", "_graph", "_favorite",
          "_participant", "participant"}
MCViews == {"view", "v1"}

MCTable == [key \in {"due"} |->
              [name |-> "A", format |-> "date", targets |-> {}]]
MCResolver == [key \in {"status"} |->
                 [name |-> "B", format |-> "objects", targets |-> {"type-lost"},
                  uninstalled |-> TRUE]]

(* A type's and a participant's stored id fold to their derived ids.       *)
MCFold == [id \in MCIds |-> CASE id = "type"         -> "type-habit"
                              [] id = "type2"        -> "type-goal"
                              [] id = "_participant" -> "participant"
                              [] OTHER               -> id]
MCObjectShaped == {"page", "home", "gone", "file", "image", "type"}
MCPlatform == {"_graph", "_favorite", "_participant"}
MCReservedHome == {"_graph"}
MCStore == [id \in MCIds |-> CASE id \in {"gone", "image"} -> "deleted"
                               [] id \in {"home", "page"} -> "live"
                               [] OTHER -> "absent"]

Relation(key, name, format, extra) ==
  [kind |-> "relation", key |-> key, name |-> name, format |-> format,
   targets |-> {}, uninstalled |-> FALSE, extra |-> extra]

Option(owner, name, color, order, created, id) ==
  [kind |-> "option", owner |-> owner, name |-> name, color |-> color,
   order |-> order, created |-> created, id |-> id, extra |-> FALSE]

Space(name, description, homepage, icon) ==
  [kind |-> "space", id |-> "space", name |-> name,
   description |-> description, homepage |-> homepage, icon |-> icon]

Sidebar(widgets, autoTargets) ==
  [kind |-> "widget", id |-> "sidebar", widgets |-> widgets,
   autoTargets |-> autoTargets, autoDisabled |-> FALSE]

Widget(target, properties, view) ==
  [target |-> target, properties |-> properties, view |-> view]

Page(id, used, typeRefs, labels) ==
  [kind |-> "document", id |-> id, envelope |-> id, type |-> FALSE,
   legible |-> TRUE, file |-> FALSE, remote |-> "none", used |-> used, declares |-> {},
   typeRefs |-> typeRefs, labels |-> labels]

Type(id, used, declares) ==
  [kind |-> "document", id |-> id, envelope |-> MCFold[id], type |-> TRUE,
   legible |-> TRUE, file |-> FALSE, remote |-> "none", used |-> used, declares |-> declares,
   typeRefs |-> {}, labels |-> {}]

File(id, remote, used) ==
  [kind |-> "document", id |-> id, envelope |-> id, type |-> FALSE,
   legible |-> TRUE, file |-> TRUE, remote |-> remote, used |-> used, declares |-> {},
   typeRefs |-> {}, labels |-> {}]

Declares(key, name, format) ==
  [key |-> key, name |-> name, format |-> format, uninstalled |-> FALSE]

(* A select whose vocabulary arrives as an ordered option, two order-less  *)
(* ones minted in one second, a colour the writer refuses, a repeat and a  *)
(* nameless one; the vocabulary of a property nothing defines; and the     *)
(* objects that nothing is read of, a relation without a key among them.   *)
VocabularyScenario ==
  [system   |-> [kind |-> "system"],
   keyless  |-> Relation(NoKey, "A", "text", FALSE),
   priority |-> Relation("priority", "A", "select", FALSE),
   high     |-> Option("priority", "A", "red", 2, 1, 3),
   low      |-> Option("priority", "B", "blue", 0, 5, 2),
   lower    |-> Option("priority", "C", "blue", 0, 5, 1),
   odd      |-> Option("priority", "C", "plaid", 0, 7, 4),
   again    |-> Option("priority", "A", "red", 2, 1, 3),
   nameless |-> Option("priority", NoName, "red", 0, 1, 5),
   stray    |-> Option("mood", "A", "red", 0, 1, 6),
   page     |-> Page("page", {"priority", "mood"}, {}, {})]

VocabularyTasks == DOMAIN VocabularyScenario
VocabularyFlaky == {"priority", "high"}

(* A remote export that is declared metadata-only and streams bytes all    *)
(* the same, of a space observed twice with two names, the first time with *)
(* a homepage no index can name.  No dictionary can state the definition   *)
(* of the property the file uses, nor the key of the one the sidebar       *)
(* shows; one file document lacks its remote facts, and the page uses no   *)
(* property at all.                                                        *)
OutcomeScenario ==
  [budget   |-> Relation("budget", "C", "emoji", FALSE),
   sidebar  |-> Sidebar(<<Widget("page", {"season"}, NoView)>>, {}),
   space    |-> Space({"A"}, {}, {"_favorite"}, {}),
   reread   |-> Space({"B"}, {}, {}, {}),
   page     |-> Page("page", {}, {}, {}),
   file     |-> File("file", "sound", {"budget"}),
   image    |-> File("image", "none", {})]

OutcomeTasks == DOMAIN OutcomeScenario
OutcomeFlaky == {"budget", "sidebar", "space", "reread"}

ASSUME OptionsArePlain == PlainOptions
=============================================================================
