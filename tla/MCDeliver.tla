----------------------------- MODULE MCDeliver -----------------------------
(***************************************************************************)
(* Small bundles, converted for several destinations: up to two documents  *)
(* of every sort, with and without the documents of two types, under       *)
(* several indexes and dictionaries.                                       *)
(***************************************************************************)
EXTENDS Deliver

MCNames ==
  {"notes", "Notes", "log", "old", "draft", "letter", "blank", "set", "wall",
   "habit", "my-type", "a1b2", "odd", "quirk", "ghost", "lost", "page", "template",
   "objectType", "bafytype", "bafypage", "cid", "ann", "photo", "gone", "held", "absent",
   "/", "opt-k1", "rel-status", "loud", "card", "_set", "_graph"}

MCNativeKey ==
  [key \in MCNames |-> IF key = "my-type" THEN "a1b2" ELSE key]

Document(id, kind, types) ==
  [path |-> 0, id |-> id, kind |-> kind, key |-> NoTypeKey, types |-> types,
   typeSlots |-> {}, refs |-> {}, values |-> <<>>, targeted |-> FALSE,
   remote |-> FALSE]

Page(name) == Document(Plain(name), "page", <<"page">>)
Type(id, key) == [Document(id, "type", <<"objectType">>) EXCEPT !.key = key]
Template(name, types) == Document(Plain(name), "template", types)

Habit == Type(TypeId("habit"), "habit")
MyType == Type(TypeId("my-type"), "my-type")
Odd == Type(Plain("bafytype"), "odd")

Pool ==
  << [Page("notes") EXCEPT
        !.values = << <<"status", "Done">>, <<"mood", "Good">>, <<"status", "New">> >>],
     [Page("Notes") EXCEPT !.refs = {Plain("notes"), TypeId("page")}],
     [Document(Plain("log"), "page", <<"habit">>) EXCEPT
        !.refs = {Plain("bafytype"), TypeId("my-type"), Plain("letter")}],
     [Document(Plain("old"), "page", <<"ghost">>) EXCEPT !.refs = {TypeId("page")}],
     Template("draft", <<"template", "ghost">>),
     Template("letter", <<"template", "my-type">>),
     Template("blank", <<"template">>),
     [Template("card", <<"template">>) EXCEPT
        !.targeted = TRUE, !.refs = {TypeId("habit")}],
     [Page("set") EXCEPT !.typeSlots = {"ghost", "cid"}],
     [Page("wall") EXCEPT !.refs = {TypeId("lost")}],
     Document(Plain("photo"), "file", <<"page">>),
     [Document(Member("ann"), "participant", <<"page">>) EXCEPT !.refs = {Bare("ann")}],
     Document(Plain("quirk"), "page", <<"odd">>), Odd,
     Type(Plain("bafypage"), "page"), Type(TypeId("a1b2"), "a1b2"),
     [Page("rel-status") EXCEPT !.values = << <<"status", "Done">> >>],
     [Page("loud") EXCEPT !.values = << <<"status", "key:k1">> >>],
     Page("opt-k1"), Page("/") >>

NoUnresolved == [targets |-> {}, deleted |-> {}, omitted |-> {}, types |-> {}]

Index(homepage, widgets, ids, unresolved) ==
  [entrypoint |-> {}, homepage |-> homepage, autoTargets |-> {}, autoDisabled |-> FALSE,
   widgets |-> [n \in DOMAIN widgets |-> [target |-> widgets[n], properties |-> {}]],
   icon |-> {}, files |-> [ids |-> ids], unresolved |-> unresolved]

Unsaid == Index({}, <<>>, {}, NoUnresolved)
Ghost == [NoUnresolved EXCEPT !.types = {TypeId("ghost")}]

(* A shipped type may be declared missing too.                             *)
Losing ==
  Index({Plain("gone")}, <<Plain("held"), Plain("absent")>>, {},
        [targets |-> {Plain("gone"), Plain("held"), Plain("absent")},
         deleted |-> {Plain("gone")}, omitted |-> {Plain("held")},
         types |-> {TypeId("ghost"), TypeId("page")}])

Haunted == Index({}, <<>>, {}, Ghost)

(* A ledger of widgets the user deleted, of a type and of a member too.    *)
Cleared ==
  [Haunted EXCEPT !.autoTargets = {Plain("gone"), Plain("_set"), TypeId("habit"), Member("ann")}]

(* Its type is gone with the widget, which declaring it does not mend.     *)
Deserted ==
  [Haunted EXCEPT !.autoTargets = {TypeId("lost")}, !.autoDisabled = TRUE,
                  !.unresolved.types = {TypeId("ghost"), TypeId("lost")}]

(* A space with a member's picture, and a sidebar switched off.            *)
Portrait ==
  [Haunted EXCEPT !.icon = {Member("ann")}, !.autoDisabled = TRUE,
                  !.unresolved.targets = {Member("ann")}]

Binding == Index({}, <<>>, {Plain("photo")}, Ghost)

(* One member under two spellings, deleted and omitted.                    *)
Merging ==
  Index({}, <<>>, {},
        [Ghost EXCEPT !.targets = {Member("ann"), Bare("ann")},
                      !.deleted = {Member("ann")}, !.omitted = {Bare("ann")}])

Sidebar == Index({Plain("notes")}, <<TypeId("habit"), Plain("notes")>>, {}, NoUnresolved)

(* The listing opens nothing, so the second widget does.                   *)
Listed == Index({}, <<Plain("_set"), Plain("notes")>>, {}, Ghost)

Pointing ==
  Index({TypeId("lost")}, <<>>, {}, [Ghost EXCEPT !.targets = {TypeId("lost")}])

Option(name, key) == [name |-> name, internalKey |-> key]

Definition(key, internal, options, targets) ==
  [key |-> key, internal |-> internal, unknown |-> FALSE,
   options |-> options, targets |-> targets]

Mood(options) == Definition("mood", TRUE, options, {})

Stated ==
  << Definition("status", TRUE, <<Option("Done", "k1"), Option("Later", NoOptionKey)>>,
                {Sentinel, "ghost", "page"}),
     Mood(<<Option("Good", "k2")>>) >>

Authored ==
  << Definition("status", FALSE, <<Option("Done", NoOptionKey), Option("Done", "k1")>>, {}),
     [Mood(<<>>) EXCEPT !.unknown = TRUE] >>

Twofold ==
  << Definition("status", TRUE, <<Option("Done", "k1"), Option("New", "k1")>>, {}),
     Mood(<<>>) >>

(* The name of one option is the spelling of the other's key.              *)
Coinciding ==
  << Definition("status", TRUE, <<Option("Done", "k1"), Option("key:k1", NoOptionKey)>>, {}),
     Mood(<<>>) >>

Shared == << Definition("status", TRUE, <<Option("Done", "k1")>>, {}), Mood(<<Option("Good", "k1")>>) >>

Repeated == << Definition("status", TRUE, <<>>, {}), Mood(<<>>), Definition("status", TRUE, <<>>, {}) >>

(* The option was made of the name New, and renamed since.                 *)
Renamed ==
  << Definition("status", TRUE, <<Option("Done", "status New")>>, {}), Mood(<<>>) >>

Numbered(docs) ==
  {[docs[n] EXCEPT !.path = n] : n \in DOMAIN docs}

(* The reader enters at the last document.                                 *)
Entered(docs, idx) ==
  IF docs = <<>> THEN idx ELSE [idx EXCEPT !.entrypoint = {Last(docs).id}]

Bundle(docs, idx, definitions) ==
  [documents |-> Numbered(docs), index |-> idx, definitions |-> definitions,
   blobs |-> idx.files.ids, odd |-> FALSE]

Carriers == {<<>>, <<Habit, MyType>>}

Picks ==
  {<<>>} \cup {<<d>> : d \in Range(Pool)}
    \cup {<<Pool[n], Pool[m]>> : <<n, m>> \in {p \in (1..Len(Pool)) \X (1..Len(Pool)) : p[1] < p[2]}}

Frames ==
  {<<Haunted, Stated>>, <<Losing, Stated>>, <<Losing, Authored>>,
   <<Binding, Stated>>, <<Haunted, Twofold>>,
   <<Unsaid, Shared>>, <<Unsaid, Repeated>>}

EnteredFrames == {<<Unsaid, Authored>>, <<Sidebar, Authored>>}

RareFrames ==
  {<<Merging, Stated>>, <<Cleared, Stated>>, <<Deserted, Stated>>,
   <<Portrait, Stated>>, <<Listed, Stated>>, <<Haunted, Coinciding>>, <<Haunted, Authored>>}

MCBundles ==
  {Bundle(carried \o picked, frame[1], frame[2]) :
     carried \in Carriers, picked \in Picks, frame \in Frames}
    \cup {Bundle(carried \o picked, Entered(carried \o picked, frame[1]), frame[2]) :
            carried \in Carriers, picked \in Picks, frame \in EnteredFrames}
    \cup {Bundle(carried \o <<d>>, frame[1], frame[2]) :
            carried \in Carriers, d \in Range(Pool), frame \in RareFrames}
    \cup {[Bundle(<<Habit>>, Unsaid, <<>>) EXCEPT !.odd = TRUE]}

(* Bundles whose index names a type that it declares missing.              *)
PointingBundles ==
  {Bundle(carried \o picked, Pointing, Stated) : carried \in Carriers, picked \in Picks}

RenamedBundles ==
  {Bundle(picked, Unsaid, Renamed) : picked \in Picks}

MCRequests ==
  {[valid |-> TRUE, authoring |-> FALSE, space |-> "here"],
   [valid |-> TRUE, authoring |-> FALSE, space |-> NoSpace],
   [valid |-> TRUE, authoring |-> TRUE, space |-> "here"]}
    \cup {[valid |-> FALSE, authoring |-> TRUE, space |-> "here"]}

MCShippedTypes == {"page", "template", "objectType"}
MCUrlOf == [key \in MCShippedTypes |-> Plain("ot-" \o key)]
MCMintKey == [key \in {"status", "mood"} |-> "minted " \o key]
MCKeys == {"status", "mood", "minted status", "minted mood"}
MCMintOption ==
  [pair \in MCKeys \X {"Done", "New", "Later", "Good", "key:k1"} |->
     pair[1] \o " " \o pair[2]]
MCOptionKeys == {"k1", "k2"} \cup Range(MCMintOption)
MCKeyedName == [key \in MCOptionKeys |-> "key:" \o key]
MCRelationId == [key \in MCKeys |-> Plain("rel-" \o key)]
MCOptionId == [key \in MCOptionKeys |-> Plain("opt-" \o key)]

MCWidgetsId == Plain("widgets")
MCWorkspaceId == Plain("_anyblock_space")
MCUnsafeOutputs == {Plain("/")}
MCListings == {Plain("_set")}
MCReserved == MCListings \cup {Plain("_graph")}

MCOutputIds ==
  {d.id : d \in Range(Pool) \cup {Habit, MyType}} \cup Range(MCUrlOf)
    \cup Range(MCRelationId) \cup Range(MCOptionId)
    \cup {MCWidgetsId, MCWorkspaceId, Composite("here", "ann")}

MCLowerCase ==
  [id \in MCOutputIds |-> IF id = Plain("Notes") THEN Plain("notes") ELSE id]
=============================================================================
