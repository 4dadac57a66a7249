------------------------------ MODULE Composer ------------------------------
(***************************************************************************)
(* The bundle composer (bundle/compose.go) under the concurrent emit phase *)
(* that drives it.                                                         *)
(*                                                                         *)
(* One emit task handles one collected object.  It shows the object's      *)
(* snapshot to the composer (Observe); an object index.json or             *)
(* properties.json carries instead is omitted, and any other object is     *)
(* written as a document, reported (ObserveWritten), and, for a file,      *)
(* followed by its bytes (ObserveFileBlob).  When no task is left, Finish  *)
(* composes the two bundle-level files.                                    *)
(*                                                                         *)
(* Every Composer method runs under one mutex, so each is one step; the    *)
(* interleaving of the tasks is the interleaving of those steps.  `c` is   *)
(* the Composer struct, field by field.                                    *)
(***************************************************************************)
EXTENDS Integers, Sequences, FiniteSets, FiniteSetsExt, OptionVocabulary

CONSTANTS
  Tasks,         \* the emit tasks
  Snapshot,      \* Snapshot[t]: what task t observes, see SnapshotShapes
  Flaky,         \* the tasks whose object the cache may fail to load
  Width,         \* how many documents may be in flight at once
  Keys, NoKey,   \* stored property keys; NoKey: the snapshot states none
  Ids, NoId,     \* object ids, stored and derived; NoId: none
  Names, NoName, \* names, standing for a definition's other members; none
  Colors,        \* option colours, those of the palette included
  Formats,       \* property formats
  Unknown,       \* the sentinel format of an entry nothing could define
  Views, NoView, \* dataview view ids and their compact labels; none
  NoDefinition,  \* the absence of a definition
  UnwritableKeys,  \* keys with no written form: too long, or not plain text
  NamelessFormats, \* formats that a dictionary entry has no word for
  TargetFormats    \* formats whose values have types: objects and files

CONSTANTS
  Table,         \* the shipped table: [bundled keys -> facts]
  Resolver,      \* the space's resolver: [keys it answers -> facts]
  Fold,          \* foldRef: the id a reference slot writes
  ObjectShaped,  \* the ids shaped like a stored object's id
  Platform,      \* the stored ids in the reserved `_` namespace
  ReservedHome,  \* the platform ids an index may name as its homepage
  Store,         \* Store[id]: "live", "deleted" (a tombstone) or "absent"
  SpaceName,     \* the caller's fallback name, NoName for none
  IncludeFileRemote, CompactBlockLabels,  \* two of the run's Options
  MetadataOnly,  \* whether the caller declares a metadata-only export
  StreamsBlobs   \* whether the caller streams the bytes of file objects

VARIABLES
  c,        \* the Composer struct
  issues,   \* the issues Observe returned, by task
  task,     \* the state of each emit task
  docs,     \* the tasks whose document is in the bundle
  blobs,    \* the tasks whose bytes are in the bundle, whole
  run,      \* the export run: emitting, finished, cancelled or failed
  out       \* what Finish returned

vars == <<c, issues, task, docs, blobs, run, out>>

-----------------------------------------------------------------------------
(* What a snapshot states.  `kind` is the first classification of observe  *)
(* that accepts it; its other fields are the details that one reads.       *)

Facts == [name: Names, format: Formats, targets: SUBSET Ids]

Definitions ==
  [name: Names, format: Formats \cup {Unknown}, targets: SUBSET Ids,
   uninstalled: BOOLEAN, diverged: BOOLEAN]

Declarations ==
  [key: Keys, name: Names, format: Formats, uninstalled: BOOLEAN]

OptionDefs == [name: Names, color: Colors]

StoredOptions == [order: Nat, created: Nat, id: Nat, def: OptionDefs]

Widgets == [target: Ids, properties: SUBSET Keys, view: Views \cup {NoView}]

SettingFields == {"name", "description", "homepage", "icon"}

SystemSnapshots == [kind: {"system"}]

RelationSnapshots ==
  [kind: {"relation"}, key: Keys \cup {NoKey}, name: Names, format: Formats,
   targets: SUBSET Ids, uninstalled: BOOLEAN, extra: BOOLEAN]

OptionSnapshots ==
  [kind: {"option"}, owner: Keys \cup {NoKey}, name: Names \cup {NoName},
   color: Colors, order: Nat, created: Nat, id: Nat, extra: BOOLEAN]

SpaceSnapshots ==
  [kind: {"space"}, id: Ids, name: SUBSET Names, description: SUBSET Names,
   homepage: SUBSET Ids, icon: SUBSET Ids]

WidgetSnapshots ==
  [kind: {"widget"}, id: Ids, widgets: Seq(Widgets),
   autoTargets: SUBSET Ids, autoDisabled: BOOLEAN]

DocumentSnapshots ==
  [kind: {"document"}, id: Ids, envelope: Ids \cup {NoId}, legible: BOOLEAN,
   type: BOOLEAN, file: BOOLEAN, remote: {"sound", "broken", "none"},
   used: SUBSET Keys,
   declares: SUBSET Declarations, typeRefs: SUBSET Ids,
   labels: SUBSET (Views \X Views)]

SnapshotShapes ==
  SystemSnapshots \cup RelationSnapshots \cup OptionSnapshots
    \cup SpaceSnapshots \cup WidgetSnapshots \cup DocumentSnapshots

ASSUME SnapshotAssumption ==
  /\ \A t \in Tasks : Snapshot[t] \in SnapshotShapes
  /\ NoKey \notin Keys /\ NoId \notin Ids /\ NoName \notin Names
  /\ NoDefinition \notin Definitions /\ Unknown \notin Formats

(***************************************************************************)
(* The documents whose views have labels: a view has one label, no other   *)
(* object is stored or read under one of a document's ids, though it may   *)
(* be observed again, and an id folds to a document's only if it is one.   *)
(***************************************************************************)
OwnIds(s) == {s.id, s.envelope} \ {NoId}

Labelled == {t \in Tasks : Snapshot[t].kind = "document" /\ Snapshot[t].labels # {}}

ASSUME LabelsAssumption ==
  \A t \in Labelled :
    /\ \A pair, other \in Snapshot[t].labels : pair[1] = other[1] => pair = other
    /\ \A id \in Ids : Fold[id] = Snapshot[t].envelope => id \in OwnIds(Snapshot[t])
    /\ \A u \in Labelled : OwnIds(Snapshot[t]) \cap OwnIds(Snapshot[u]) # {} =>
         /\ OwnIds(Snapshot[u]) = OwnIds(Snapshot[t])
         /\ Snapshot[u].labels = Snapshot[t].labels

ASSUME KeysAssumption == IsFiniteSet(Keys)

ASSUME FlakyAssumption == Flaky \subseteq Tasks

ASSUME WidthAssumption == Width \in Nat \ {0}

ASSUME VocabularyAssumption ==
  /\ DOMAIN Table \subseteq Keys
  /\ \A key \in DOMAIN Table : Table[key] \in Facts
  /\ DOMAIN Resolver \subseteq Keys
  /\ \A key \in DOMAIN Resolver :
        Resolver[key] \in [name: Names, format: Formats, targets: SUBSET Ids,
                           uninstalled: BOOLEAN]

ASSUME IdAssumption ==
  /\ Fold \in [Ids -> Ids]
  /\ Store \in [Ids -> {"live", "deleted", "absent"}]
  /\ ReservedHome \subseteq Platform /\ Platform \subseteq Ids

-----------------------------------------------------------------------------
(* References of the index, in the spelling MarshalIndex writes.           *)

(* The ids as the snapshots spell them (a mutant of ObjectReferences).     *)
ObjectReferencesUnfolded(homepage, widgets, icon) ==
  LET named == {[path |-> <<"homepage", 0>>, target |-> id] : id \in homepage}
          \cup {[path |-> <<"widgets", n>>, target |-> widgets[n].target] :
                   n \in DOMAIN widgets}
          \cup {[path |-> <<"icon", 0>>, target |-> id] : id \in icon}
  IN  {ref \in named : ref.target \notin Platform}

(***************************************************************************)
(* Every slot of an index that names an object, with the folded id, save   *)
(* the names of the platform's own namespace.  homepage and icon are sets  *)
(* of at most one id.                                                      *)
(***************************************************************************)
ObjectReferences(homepage, widgets, icon) ==
  LET named == {[path |-> <<"homepage", 0>>, target |-> id] : id \in homepage}
          \cup {[path |-> <<"widgets", n>>, target |-> widgets[n].target] :
                   n \in DOMAIN widgets}
          \cup {[path |-> <<"icon", 0>>, target |-> id] : id \in icon}
  IN  {[ref EXCEPT !.target = Fold[@]] :
         ref \in {r \in named : r.target \notin Platform}}

Sourced(refs, object) ==
  {[path |-> ref.path, target |-> ref.target, object |-> object] : ref \in refs}

(* Tombstones never asked for (a mutant of ClassifyUnresolvedTarget).      *)
ClassifyAsOmitted(id) == IF id \in ObjectShaped THEN "live" ELSE "absent"

ClassifyUnresolvedTarget(id) ==
  IF id \in ObjectShaped THEN Store[id] ELSE "absent"

DroppedDeletedIconRef(id) == id \in ObjectShaped /\ Store[id] = "deleted"

-----------------------------------------------------------------------------
(* The composer as NewComposer returns it, and the run before any task.    *)

NewComposer ==
  [entries |-> [key \in Keys |-> NoDefinition],
   filePaths |-> {},
   metadataOnly |-> FALSE,
   optionsByKey |-> [key \in Keys |-> <<>>],
   optionsUnliftable |-> 0,
   optionsRepeated |-> 0,
   seenOptions |-> {},
   used |-> {},
   declared |-> [key \in Keys |-> {}],
   documentIds |-> {},
   typeRefs |-> {},
   indexReferenceSources |-> {},
   widgetViewLabels |-> {},
   written |-> 0,
   omitted |-> 0,
   observedSpaceSettings |-> FALSE,
   spaceSettings |-> [field \in SettingFields |-> {}],
   index |-> [widgets |-> <<>>, autoTargets |-> {}, autoDisabled |-> FALSE]]

NoOutput == [status |-> "none"]

Init ==
  /\ c = NewComposer
  /\ issues = {}
  /\ task = [t \in Tasks |-> "queued"]
  /\ docs = {}
  /\ blobs = {}
  /\ run = "emitting"
  /\ out = NoOutput

-----------------------------------------------------------------------------
(* Observe.  An omitted object's task ends with its observation.           *)

InFlight == {t \in Tasks : task[t] \in {"rendering", "written", "streaming",
                                        "streamed"}}

(* A task of the pool starts while the run is not cancelled.               *)
Starts(t, kind) ==
  /\ run = "emitting"
  /\ task[t] = "queued"
  /\ Cardinality(InFlight) < Width
  /\ Snapshot[t].kind = kind

Reports(t, categories) ==
  issues' = issues \cup {[task |-> t, category |-> cat] : cat \in categories}

(* The object does not load: the composer never sees it, and the run goes  *)
(* on without it.                                                          *)
FailObject(t) ==
  /\ t \in Flaky
  /\ Starts(t, Snapshot[t].kind)
  /\ task' = [task EXCEPT ![t] = "failed"]
  /\ UNCHANGED <<c, issues, docs, blobs, run, out>>

(* The outcome of Observe for an object that is not written: composer is   *)
(* the struct with the lift recorded.                                      *)
Omits(t, composer, categories) ==
  /\ c' = [composer EXCEPT !.omitted = @ + 1]
  /\ Reports(t, categories)
  /\ task' = [task EXCEPT ![t] = "omitted"]
  /\ UNCHANGED <<docs, blobs, run, out>>

(* A system type definition, or the deprecated profile object.             *)
ObserveSystem(t) ==
  /\ Starts(t, "system")
  /\ Omits(t, c, {})

(* The last observation wins (a mutant of ObserveSpaceSettings).           *)
ObserveLastSpaceSettings(t) ==
  LET s == Snapshot[t]
      refs == ObjectReferences(s.homepage, <<>>, s.icon)
  IN  /\ Starts(t, "space")
      /\ Omits(t, [c EXCEPT
                     !.observedSpaceSettings = TRUE,
                     !.indexReferenceSources = @ \cup Sourced(refs, s.id),
                     !.spaceSettings = [field \in SettingFields |-> s[field]]],
               {})

(* The space's own object: every stated field joins the candidates.        *)
ObserveSpaceSettings(t) ==
  LET s == Snapshot[t]
      refs == ObjectReferences(s.homepage, <<>>, s.icon)
  IN  /\ Starts(t, "space")
      /\ Omits(t, [c EXCEPT
                     !.observedSpaceSettings = TRUE,
                     !.indexReferenceSources = @ \cup Sourced(refs, s.id),
                     !.spaceSettings = [field \in SettingFields |->
                                          @[field] \cup s[field]]], {})

(* Options are one option when they have one owner and one id, or, stating *)
(* no id, one content.                                                     *)
SameOption(a, b) ==
  /\ a.owner = b.owner
  /\ a.id = b.id
  /\ a.id = 0 => a.def = b.def

OptionOf(s) ==
  [owner |-> s.owner, id |-> s.id, def |-> [name |-> s.name, color |-> s.color]]

(* An option that states no owner or no name reaches no entry.             *)
ObserveUnliftableOption(t) ==
  LET s == Snapshot[t]
  IN  /\ Starts(t, "option")
      /\ s.owner = NoKey \/ s.name = NoName
      /\ Omits(t, [c EXCEPT !.optionsUnliftable = @ + 1], {"reconstruction"})

(* The repeat not counted (a mutant of ObserveRepeatedOption).             *)
ObserveUncountedOption(t) ==
  /\ Starts(t, "option")
  /\ \E seen \in c.seenOptions : SameOption(seen, OptionOf(Snapshot[t]))
  /\ Omits(t, c, {})

(* An option already seen is collapsed into its first observation.         *)
ObserveRepeatedOption(t) ==
  LET s == Snapshot[t]
      previous == {seen \in c.seenOptions : SameOption(seen, OptionOf(s))}
  IN  /\ Starts(t, "option")
      /\ s.owner # NoKey /\ s.name # NoName
      /\ previous # {}
      /\ Omits(t, [c EXCEPT !.optionsRepeated = @ + 1],
               IF \E seen \in previous : seen.def # OptionOf(s).def
               THEN {"reconstruction"} ELSE {})

(* A nameless option lifted too (a mutant of ObserveNewOption).            *)
ObserveNamelessOption(t) ==
  LET s == Snapshot[t]
      o == OptionOf(s)
      stored == [order |-> s.order, created |-> s.created, id |-> s.id,
                 def |-> o.def]
  IN  /\ Starts(t, "option")
      /\ s.owner # NoKey
      /\ \A seen \in c.seenOptions : ~SameOption(seen, o)
      /\ Omits(t, [c EXCEPT !.seenOptions = @ \cup {o},
                            !.optionsByKey[s.owner] = Append(@, stored)], {})

(* Any other option joins the vocabulary of its owner, last.               *)
ObserveNewOption(t) ==
  LET s == Snapshot[t]
      o == OptionOf(s)
      stored == [order |-> s.order, created |-> s.created, id |-> s.id,
                 def |-> o.def]
  IN  /\ Starts(t, "option")
      /\ s.owner # NoKey /\ s.name # NoName
      /\ \A seen \in c.seenOptions : ~SameOption(seen, o)
      /\ Omits(t, [c EXCEPT !.seenOptions = @ \cup {o},
                            !.optionsByKey[s.owner] = Append(@, stored)],
               IF s.extra THEN {"option content"} ELSE {})

(* The sidebar: each stated member of the index's is replaced, and what    *)
(* the index would now rebuild is compared with the snapshot.              *)
LiftWidgets(index, s) ==
  [widgets |-> IF s.widgets # <<>> THEN s.widgets ELSE index.widgets,
   autoTargets |-> IF s.autoTargets # {} THEN s.autoTargets
                                         ELSE index.autoTargets,
   autoDisabled |-> index.autoDisabled \/ s.autoDisabled]

ObserveWidgets(t) ==
  LET s == Snapshot[t]
      lifted == LiftWidgets(c.index, s)
      stated == [widgets |-> s.widgets, autoTargets |-> s.autoTargets,
                 autoDisabled |-> s.autoDisabled]
      refs == ObjectReferences({}, s.widgets, {})
  IN  /\ Starts(t, "widget")
      /\ Omits(t, [c EXCEPT
                     !.indexReferenceSources = @ \cup Sourced(refs, s.id),
                     !.index = lifted],
               IF lifted # stated THEN {"reconstruction"} ELSE {})

(* The name not compared (a mutant of IdenticalToTable).                   *)
IdenticalButForTheName(s) ==
  /\ s.key \in DOMAIN Table
  /\ ~s.extra
  /\ s.format = Table[s.key].format /\ s.targets = Table[s.key].targets

(* A relation's stored definition, flagged when it is a copy of a bundled  *)
(* relation that is not the shipped table's.  `extra` is a detail or a     *)
(* block no definition member states.                                      *)
IdenticalToTable(s) ==
  /\ s.key \in DOMAIN Table
  /\ ~s.extra
  /\ [name |-> s.name, format |-> s.format, targets |-> s.targets] = Table[s.key]

StoredDefinition(s) ==
  [name |-> s.name, format |-> s.format, targets |-> s.targets,
   uninstalled |-> s.uninstalled,
   diverged |-> ~IdenticalToTable(s) /\ s.key \in DOMAIN Table]

ObserveKeylessRelation(t) ==
  /\ Starts(t, "relation")
  /\ Snapshot[t].key = NoKey
  /\ Omits(t, c, {"reconstruction"})

ObserveRelation(t) ==
  LET s == Snapshot[t]
  IN  /\ Starts(t, "relation")
      /\ s.key # NoKey
      /\ Omits(t, [c EXCEPT !.entries[s.key] = StoredDefinition(s)],
               IF s.extra THEN {"reconstruction"} ELSE {})

(* Any other object travels as a document: Observe records nothing.        *)
ObserveDocument(t) ==
  /\ Starts(t, "document")
  /\ task' = [task EXCEPT ![t] = "rendering"]
  /\ UNCHANGED <<c, issues, docs, blobs, run, out>>

-----------------------------------------------------------------------------
(* A document's way into the bundle.  Marshalling, writing and streaming   *)
(* are the caller's; each may fail, and the run goes on without the file.  *)

WriteDocument(t) ==
  /\ task[t] = "rendering"
  /\ task' = [task EXCEPT ![t] = "written"]
  /\ docs' = docs \cup {t}
  /\ UNCHANGED <<c, issues, blobs, run, out>>

FailDocument(t) ==
  /\ task[t] = "rendering"
  /\ task' = [task EXCEPT ![t] = "failed"]
  /\ UNCHANGED <<c, issues, docs, blobs, run, out>>

(* What ObserveWritten refuses before it records anything: bytes one of    *)
(* its readings fails on, a file without the remote facts these Options    *)
(* require, or with facts that do not decode, and a type whose own id and  *)
(* whose reference fold disagree.                                          *)
RefusedDocument(s) ==
  \/ ~s.legible
  \/ s.file /\ IncludeFileRemote /\ s.remote = "none"
  \/ s.file /\ s.remote = "broken"
  \/ s.type /\ s.envelope # Fold[s.id]

PropertiesFile == "properties.json"

TypeUses(s) ==
  IF s.envelope = NoId THEN {}
  ELSE {[ref |-> ref, source |-> s.envelope] : ref \in s.typeRefs}

CarriedIds(s) == {s.envelope} \ {NoId}

(* Labels kept only for the widgets the sidebar already shows (a mutant of *)
(* ViewLabels).                                                            *)
ViewLabelsOfShown(s) ==
  LET shown == {c.index.widgets[n].target : n \in DOMAIN c.index.widgets}
  IN  {[id |-> id, view |-> pair[1], label |-> pair[2]] :
         id \in ({s.id} \cup CarriedIds(s)) \cap shown, pair \in s.labels}

(* The compact labels of a document's views, under both of its ids.        *)
ViewLabels(s) ==
  IF CompactBlockLabels
  THEN {[id |-> id, view |-> pair[1], label |-> pair[2]] :
          id \in OwnIds(s), pair \in s.labels}
  ELSE {}

DeclaredFor(s, key) == {d \in s.declares : d.key = key}

RecordWritten(composer, s) ==
  [composer EXCEPT
     !.widgetViewLabels =
        IF ViewLabels(s) = {} THEN @
        ELSE {l \in @ : l.id \notin OwnIds(s)} \cup ViewLabels(s),
     !.written = @ + 1,
     !.documentIds = @ \cup CarriedIds(s),
     !.typeRefs = @ \cup TypeUses(s),
     !.used = @ \cup s.used,
     !.declared = [key \in Keys |-> @[key] \cup DeclaredFor(s, key)]]

ObserveWritten(t) ==
  LET s == Snapshot[t]
  IN  /\ task[t] = "written"
      /\ ~RefusedDocument(s)
      /\ c' = RecordWritten(c, s)
      /\ task' = [task EXCEPT ![t] = IF s.file /\ StreamsBlobs
                                     THEN "streaming" ELSE "done"]
      /\ UNCHANGED <<issues, docs, blobs, run, out>>

(* Its error ends the run: the bundle holds a document the composer could  *)
(* not account for.                                                        *)
RefuseWritten(t) ==
  /\ task[t] = "written"
  /\ RefusedDocument(Snapshot[t])
  /\ task' = [task EXCEPT ![t] = "failed"]
  /\ run' = "failed"
  /\ UNCHANGED <<c, issues, docs, blobs, out>>

StreamBlob(t) ==
  /\ task[t] = "streaming"
  /\ task' = [task EXCEPT ![t] = "streamed"]
  /\ blobs' = blobs \cup {t}
  /\ UNCHANGED <<c, issues, docs, run, out>>

(* The writer removes a truncated blob; nothing is reported.               *)
FailStream(t) ==
  /\ task[t] = "streaming"
  /\ task' = [task EXCEPT ![t] = "done"]
  /\ UNCHANGED <<c, issues, docs, blobs, run, out>>

(* A worker that waits on a cancelled run (a mutant of ObserveFileBlob).   *)
ObserveFileBlobWhileEmitting(t) ==
  /\ run = "emitting"
  /\ task[t] = "streamed"
  /\ c' = [c EXCEPT !.filePaths = @ \cup {Snapshot[t].id}]
  /\ task' = [task EXCEPT ![t] = "done"]
  /\ UNCHANGED <<issues, docs, blobs, run, out>>

ObserveFileBlob(t) ==
  /\ task[t] = "streamed"
  /\ c' = [c EXCEPT !.filePaths = @ \cup {Snapshot[t].id}]
  /\ task' = [task EXCEPT ![t] = "done"]
  /\ UNCHANGED <<issues, docs, blobs, run, out>>

DeclareMetadataOnly ==
  /\ MetadataOnly /\ ~c.metadataOnly
  /\ run = "emitting"
  /\ c' = [c EXCEPT !.metadataOnly = TRUE]
  /\ UNCHANGED <<issues, task, docs, blobs, run, out>>

-----------------------------------------------------------------------------
(* Finish, read off the struct.                                            *)

TheOne(S, none) == IF S = {} THEN none ELSE CHOOSE x \in S : TRUE

(* An off-by-one (a mutant of ConflictingSettings).                        *)
ConflictingThrice ==
  {field \in SettingFields : Cardinality(c.spaceSettings[field]) > 2}

(* Space settings whose observations disagree are refused, not chosen.     *)
ConflictingSettings ==
  {field \in SettingFields : Cardinality(c.spaceSettings[field]) > 1}

WidgetProperties(widgets) ==
  UNION {widgets[n].properties : n \in DOMAIN widgets}

(* The documents' census, and the properties the lifted sidebar shows.     *)
UsedKeys == c.used \cup WidgetProperties(c.index.widgets)

(* The written documents not asked (a mutant of HasSemanticState).         *)
HasLiftedState ==
  \/ c.observedSpaceSettings /\ SpaceName # NoName
  \/ \E field \in SettingFields : c.spaceSettings[field] # {}
  \/ \E key \in Keys : c.entries[key] # NoDefinition \/ c.optionsByKey[key] # <<>>
  \/ UsedKeys # {}
  \/ c.filePaths # {}
  \/ c.index # NewComposer.index

HasSemanticState ==
  \/ c.written # 0
  \/ c.observedSpaceSettings /\ SpaceName # NoName
  \/ \E field \in SettingFields : c.spaceSettings[field] # {}
  \/ \E key \in Keys : c.entries[key] # NoDefinition \/ c.optionsByKey[key] # <<>>
  \/ UsedKeys # {}
  \/ c.filePaths # {}
  \/ c.index # NewComposer.index

(* The definition of a used key, from the first source that has one: its   *)
(* own snapshot, the resolver, the shipped table, and one type document's  *)
(* undisputed declaration.                                                 *)
ResolvedDefinition(key) ==
  LET def == Resolver[key]
  IN  [name |-> def.name, format |-> def.format, targets |-> def.targets,
       uninstalled |-> def.uninstalled,
       diverged |-> /\ key \in DOMAIN Table
                    /\ [name |-> def.name, format |-> def.format,
                        targets |-> def.targets] # Table[key]]

BundledDefinition(key) ==
  [name |-> Table[key].name, format |-> Table[key].format,
   targets |-> Table[key].targets, uninstalled |-> FALSE, diverged |-> FALSE]

DeclaredDefinition(key) ==
  LET d == CHOOSE d \in c.declared[key] : TRUE
  IN  [name |-> d.name, format |-> d.format, targets |-> {},
       uninstalled |-> d.uninstalled, diverged |-> FALSE]

(* Some declaration wins (a mutant of Undisputed).                         *)
Declared(key) == c.declared[key] # {}

Undisputed(key) == Cardinality(c.declared[key]) = 1

DefinitionOf(key) ==
  CASE c.entries[key] # NoDefinition          -> c.entries[key]
    [] /\ c.entries[key] = NoDefinition
       /\ key \in DOMAIN Resolver             -> ResolvedDefinition(key)
    [] /\ c.entries[key] = NoDefinition
       /\ key \in DOMAIN Table \ DOMAIN Resolver -> BundledDefinition(key)
    [] /\ c.entries[key] = NoDefinition
       /\ key \notin DOMAIN Resolver \cup DOMAIN Table
       /\ Undisputed(key)                     -> DeclaredDefinition(key)
    [] OTHER                                  -> NoDefinition

Orphans == {key \in UsedKeys : DefinitionOf(key) = NoDefinition}

UndefinedEntry(name) ==
  [name |-> name, format |-> Unknown, targets |-> {},
   uninstalled |-> FALSE, diverged |-> FALSE]

(* The options a key's entry states: none without an entry of its own.     *)
LiftedOptions(key) ==
  IF key \in UsedKeys \ Orphans
  THEN Lifted(DefinitionOf(key).format, c.optionsByKey[key])
  ELSE <<>>

Dictionary ==
  [key \in UsedKeys |->
     [definition |-> IF key \in Orphans THEN UndefinedEntry(NoName)
                                        ELSE DefinitionOf(key),
      options |-> LiftedOptions(key)]]

(* Definitions forgotten (a mutant of UnusedPropertyKeys).                 *)
UnusedVocabularies ==
  {key \in Keys \ UsedKeys : c.optionsByKey[key] # <<>>}

UnusedPropertyKeys ==
  {key \in Keys \ UsedKeys : c.entries[key] # NoDefinition
                              \/ c.optionsByKey[key] # <<>>}

RefusedOptions ==
  {key \in UsedKeys \ Orphans :
     Len(LiftedOptions(key)) # Len(c.optionsByKey[key])}

OptionsLifted ==
  LET Count(key) == Len(LiftedOptions(key)) IN MapThenSumSet(Count, Keys)

OptionsDropped ==
  LET Count(key) == Len(c.optionsByKey[key]) - Len(LiftedOptions(key))
  IN  MapThenSumSet(Count, Keys)

-----------------------------------------------------------------------------
(* The index.                                                              *)

(* A widget shows a view under the label the target's document gives it.   *)
LabelledWidget(widget) ==
  LET labels == {l \in c.widgetViewLabels :
                   l.id = widget.target /\ l.view = widget.view}
  IN  [target |-> Fold[widget.target], properties |-> widget.properties,
       view |-> IF labels = {} THEN widget.view
                               ELSE (CHOOSE l \in labels : TRUE).label]

PublishedWidgets ==
  [n \in DOMAIN c.index.widgets |-> LabelledWidget(c.index.widgets[n])]

(* An icon whose image the space deleted is dropped.                       *)
KeptIcon == {id \in c.spaceSettings["icon"] : ~DroppedDeletedIconRef(id)}

(* The sidebar's targets forgotten (a mutant of IndexReferences).          *)
SettingReferences ==
  ObjectReferences(c.spaceSettings["homepage"], <<>>, KeptIcon)

IndexReferences ==
  ObjectReferences(c.spaceSettings["homepage"], c.index.widgets, KeptIcon)

UnresolvedTargets == {ref.target : ref \in IndexReferences} \ c.documentIds

(* Where each reference to a missing object was lifted from.               *)
UnresolvedReferences ==
  UNION {LET sources == {source \in c.indexReferenceSources :
                           /\ source.path = ref.path
                           /\ source.target = ref.target}
         IN  IF sources = {} THEN Sourced({ref}, NoId) ELSE sources :
           ref \in {r \in IndexReferences : r.target \notin c.documentIds}}

(* The dictionary's targets forgotten (a mutant of TypeRefsAtFinish).      *)
TypeRefsOfDocuments == c.typeRefs

TypeRefsAtFinish ==
  c.typeRefs \cup
    UNION {{[ref |-> ref, source |-> PropertiesFile] :
              ref \in Dictionary[key].definition.targets} : key \in UsedKeys}

UnresolvedTypes == {use.ref : use \in TypeRefsAtFinish} \ c.documentIds

Unresolved ==
  [properties |-> Orphans,
   targets |-> UnresolvedTargets,
   deleted |-> {id \in UnresolvedTargets :
                  ClassifyUnresolvedTarget(id) = "deleted"},
   omitted |-> {id \in UnresolvedTargets :
                  ClassifyUnresolvedTarget(id) = "live"},
   types |-> UnresolvedTypes]

(* The manifest states the blobs, or, of a metadata-only export without    *)
(* remote facts, that there are none.                                      *)
ManifestFiles ==
  [stated |-> c.filePaths # {} \/ (c.metadataOnly /\ ~IncludeFileRemote),
   ids |-> c.filePaths]

Index ==
  [entrypoint |-> {},
   name |-> TheOne(c.spaceSettings["name"], SpaceName),
   description |-> c.spaceSettings["description"],
   homepage |-> {Fold[id] : id \in c.spaceSettings["homepage"]},
   icon |-> {Fold[id] : id \in KeptIcon},
   widgets |-> PublishedWidgets,
   autoTargets |-> {Fold[id] : id \in c.index.autoTargets},
   autoDisabled |-> c.index.autoDisabled,
   files |-> ManifestFiles,
   unresolved |-> Unresolved]

Stats ==
  [omittedDocs |-> c.omitted, optionsLifted |-> OptionsLifted,
   optionsDropped |-> OptionsDropped,
   optionsUnliftable |-> c.optionsUnliftable,
   optionsRepeated |-> c.optionsRepeated, orphans |-> Orphans,
   unused |-> UnusedPropertyKeys, refused |-> RefusedOptions,
   references |-> UnresolvedReferences]

-----------------------------------------------------------------------------
(* The ways Finish returns, in the order the code reaches them.            *)

Finishes(outcome) ==
  /\ run = "emitting"
  /\ \A t \in Tasks : task[t] \in {"omitted", "done", "failed"}
  /\ MetadataOnly => c.metadataOnly
  /\ run' = "finished"
  /\ out' = outcome
  /\ UNCHANGED <<issues, task, docs, blobs>>

(* A definition the dictionary cannot state: its format has no word, or it *)
(* names target types where no value has one.                              *)
Unstatable(def) ==
  \/ def.format \in NamelessFormats
  \/ def.targets # {} /\ def.format \notin TargetFormats

UnwritableDictionary ==
  \E key \in UsedKeys :
    \/ key \in UnwritableKeys
    \/ key \notin Orphans /\ Unstatable(DefinitionOf(key))

ContradictsMetadataOnly == c.metadataOnly /\ c.filePaths # {}

(* The index writer spells the homepage folded, and its own reader refuses *)
(* a platform name that is no reserved screen.                             *)
UnreadableIndex ==
  \E id \in c.spaceSettings["homepage"] : Fold[id] \in Platform \ ReservedHome

FinishConflicting ==
  /\ ConflictingSettings # {}
  /\ Finishes([status |-> "refused", why |-> "space settings"])
  /\ UNCHANGED c

FinishEmpty ==
  /\ ConflictingSettings = {} /\ ~HasSemanticState
  /\ Finishes([status |-> "empty"])
  /\ c' = [c EXCEPT !.used = UsedKeys]

FinishRefused ==
  /\ ConflictingSettings = {} /\ HasSemanticState
  /\ \/ /\ UnwritableDictionary
        /\ Finishes([status |-> "refused", why |-> "dictionary"])
        /\ c' = [c EXCEPT !.used = UsedKeys]
     \/ /\ ~UnwritableDictionary /\ ContradictsMetadataOnly
        /\ Finishes([status |-> "refused", why |-> "metadata only"])
        /\ c' = [c EXCEPT !.used = UsedKeys]
     \/ /\ ~UnwritableDictionary /\ ~ContradictsMetadataOnly /\ UnreadableIndex
        /\ Finishes([status |-> "refused", why |-> "index"])
        /\ c' = [c EXCEPT !.used = UsedKeys, !.typeRefs = TypeRefsAtFinish]

FinishBundle ==
  /\ ConflictingSettings = {} /\ HasSemanticState
  /\ ~UnwritableDictionary /\ ~ContradictsMetadataOnly /\ ~UnreadableIndex
  /\ Finishes([status |-> "bundle", index |-> Index,
               dictionary |-> Dictionary, stats |-> Stats])
  /\ c' = [c EXCEPT !.used = UsedKeys, !.typeRefs = TypeRefsAtFinish]

Finish == FinishConflicting \/ FinishEmpty \/ FinishRefused \/ FinishBundle

(* A cancelled run starts no task, lets those in flight end, and writes    *)
(* neither file.                                                           *)
Cancel ==
  /\ run = "emitting"
  /\ run' = "cancelled"
  /\ UNCHANGED <<c, issues, task, docs, blobs, out>>

Ended == run # "emitting" /\ InFlight = {}

Stop == Ended /\ UNCHANGED vars

Observe(t) ==
  \/ ObserveSystem(t) \/ ObserveSpaceSettings(t) \/ ObserveUnliftableOption(t)
  \/ ObserveRepeatedOption(t) \/ ObserveNewOption(t) \/ ObserveWidgets(t)
  \/ ObserveKeylessRelation(t) \/ ObserveRelation(t) \/ ObserveDocument(t)

Emit(t) ==
  \/ WriteDocument(t) \/ FailDocument(t) \/ ObserveWritten(t)
  \/ RefuseWritten(t) \/ StreamBlob(t) \/ FailStream(t) \/ ObserveFileBlob(t)

Next ==
  \/ \E t \in Tasks : FailObject(t) \/ Observe(t) \/ Emit(t)
  \/ DeclareMetadataOnly
  \/ Finish
  \/ Cancel
  \/ Stop

(* The pool runs every task to its end and the caller declares its mode    *)
(* and calls Finish; nothing obliges anyone to cancel.                     *)
Fairness ==
  /\ \A t \in Tasks : WF_vars(Observe(t)) /\ WF_vars(Emit(t))
  /\ WF_vars(DeclareMetadataOnly)
  /\ WF_vars(Finish)

Spec == Init /\ [][Next]_vars /\ Fairness

-----------------------------------------------------------------------------
(* The state the struct and the run may be in.                             *)

TaskStates == {"queued", "omitted", "rendering", "written", "streaming",
               "streamed", "done", "failed"}

SeenOptions == [owner: Keys, id: Nat, def: OptionDefs]

DerivedTypeUses == [ref: Ids, source: Ids \cup {PropertiesFile}]

SourcedReferences ==
  [path: {"homepage", "widgets", "icon"} \X Nat, target: Ids, object: Ids]

WidgetViewLabels == [id: Ids, view: Views, label: Views]

SpaceSettings == [SettingFields -> SUBSET (Names \cup Ids)]

Sidebars ==
  [widgets: Seq(Widgets), autoTargets: SUBSET Ids, autoDisabled: BOOLEAN]

ComposerStructs ==
  [entries: [Keys -> Definitions \cup {NoDefinition}],
   filePaths: SUBSET Ids,
   metadataOnly: BOOLEAN,
   optionsByKey: [Keys -> Seq(StoredOptions)],
   optionsUnliftable: Nat,
   optionsRepeated: Nat,
   seenOptions: SUBSET SeenOptions,
   used: SUBSET Keys,
   declared: [Keys -> SUBSET Declarations],
   documentIds: SUBSET Ids,
   typeRefs: SUBSET DerivedTypeUses,
   indexReferenceSources: SUBSET SourcedReferences,
   widgetViewLabels: SUBSET WidgetViewLabels,
   written: Nat,
   omitted: Nat,
   observedSpaceSettings: BOOLEAN,
   spaceSettings: SpaceSettings,
   index: Sidebars]

IssueRecords == [task: Tasks, category: {"reconstruction", "option content"}]

TypeOK ==
  /\ c \in ComposerStructs
  /\ issues \subseteq IssueRecords
  /\ task \in [Tasks -> TaskStates]
  /\ docs \subseteq Tasks
  /\ blobs \subseteq Tasks
  /\ run \in {"emitting", "finished", "cancelled", "failed"}
  /\ out.status \in {"none", "refused", "empty", "bundle"}
=============================================================================
