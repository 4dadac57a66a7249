--------------------------- MODULE ComposerProofs ---------------------------
(***************************************************************************)
(* Theorems about the composer, for every set of tasks, every space they   *)
(* observe and every option of the run.                                    *)
(***************************************************************************)
EXTENDS ComposerSafety, FiniteSetTheorems, TLAPS

-----------------------------------------------------------------------------
(* What the kind of a snapshot says of its fields.                         *)

LEMMA ShapeOfRelation ==
  ASSUME NEW t \in Tasks, Snapshot[t].kind = "relation"
  PROVE  Snapshot[t] \in RelationSnapshots
  BY SnapshotAssumption
     DEF SnapshotShapes, SystemSnapshots, RelationSnapshots, OptionSnapshots,
         SpaceSnapshots, WidgetSnapshots, DocumentSnapshots

LEMMA ShapeOfOption ==
  ASSUME NEW t \in Tasks, Snapshot[t].kind = "option"
  PROVE  Snapshot[t] \in OptionSnapshots
  BY SnapshotAssumption
     DEF SnapshotShapes, SystemSnapshots, RelationSnapshots, OptionSnapshots,
         SpaceSnapshots, WidgetSnapshots, DocumentSnapshots

LEMMA ShapeOfSpace ==
  ASSUME NEW t \in Tasks, Snapshot[t].kind = "space"
  PROVE  Snapshot[t] \in SpaceSnapshots
  BY SnapshotAssumption
     DEF SnapshotShapes, SystemSnapshots, RelationSnapshots, OptionSnapshots,
         SpaceSnapshots, WidgetSnapshots, DocumentSnapshots

LEMMA ShapeOfWidget ==
  ASSUME NEW t \in Tasks, Snapshot[t].kind = "widget"
  PROVE  Snapshot[t] \in WidgetSnapshots
  BY SnapshotAssumption
     DEF SnapshotShapes, SystemSnapshots, RelationSnapshots, OptionSnapshots,
         SpaceSnapshots, WidgetSnapshots, DocumentSnapshots

LEMMA ShapeOfDocument ==
  ASSUME NEW t \in Tasks, Snapshot[t].kind = "document"
  PROVE  Snapshot[t] \in DocumentSnapshots
  BY SnapshotAssumption
     DEF SnapshotShapes, SystemSnapshots, RelationSnapshots, OptionSnapshots,
         SpaceSnapshots, WidgetSnapshots, DocumentSnapshots

LEMMA StartsTyped == Init => TypeOK
  BY DEF Init, TypeOK, NewComposer, NoOutput, ComposerStructs, TaskStates,
            SettingFields, SpaceSettings, Sidebars, IssueRecords

-----------------------------------------------------------------------------
(* Each update of the struct the methods make keeps it a Composer struct.  *)

LEMMA CountOmitted ==
  ASSUME NEW s \in ComposerStructs
  PROVE  [s EXCEPT !.omitted = @ + 1] \in ComposerStructs
<1>1. \A n \in Nat : [s EXCEPT !.omitted = n] \in ComposerStructs
  BY Zenon DEF ComposerStructs
<1>2. s.omitted \in Nat
  BY DEF ComposerStructs
<1>. QED
  BY <1>1, <1>2

LEMMA CountUnliftable ==
  ASSUME NEW s \in ComposerStructs
  PROVE  [s EXCEPT !.optionsUnliftable = @ + 1] \in ComposerStructs
<1>1. \A n \in Nat : [s EXCEPT !.optionsUnliftable = n] \in ComposerStructs
  BY Zenon DEF ComposerStructs
<1>2. s.optionsUnliftable \in Nat
  BY DEF ComposerStructs
<1>. QED
  BY <1>1, <1>2

LEMMA CountRepeated ==
  ASSUME NEW s \in ComposerStructs
  PROVE  [s EXCEPT !.optionsRepeated = @ + 1] \in ComposerStructs
<1>1. \A n \in Nat : [s EXCEPT !.optionsRepeated = n] \in ComposerStructs
  BY Zenon DEF ComposerStructs
<1>2. s.optionsRepeated \in Nat
  BY DEF ComposerStructs
<1>. QED
  BY <1>1, <1>2

LEMMA AddEntry ==
  ASSUME NEW s \in ComposerStructs, NEW key \in Keys,
         NEW def \in Definitions
  PROVE  [s EXCEPT !.entries[key] = def] \in ComposerStructs
<1>1. \A e \in [Keys -> Definitions \cup {NoDefinition}] :
        [s EXCEPT !.entries = e] \in ComposerStructs
  BY Zenon DEF ComposerStructs
<1>2. [s.entries EXCEPT ![key] = def] \in [Keys -> Definitions \cup {NoDefinition}]
  BY DEF ComposerStructs
<1>. QED
  BY <1>1, <1>2

LEMMA AddOption ==
  ASSUME NEW s \in ComposerStructs, NEW key \in Keys,
         NEW o \in SeenOptions, NEW stored \in StoredOptions
  PROVE  [s EXCEPT !.seenOptions = @ \cup {o},
                   !.optionsByKey[key] = Append(@, stored)] \in ComposerStructs
<1>1. \A seen \in SUBSET SeenOptions, options \in [Keys -> Seq(StoredOptions)] :
        [s EXCEPT !.seenOptions = seen, !.optionsByKey = options]
          \in ComposerStructs
  BY Zenon DEF ComposerStructs
<1>2. s.seenOptions \cup {o} \in SUBSET SeenOptions
  BY DEF ComposerStructs
<1>3. [s.optionsByKey EXCEPT ![key] = Append(@, stored)]
        \in [Keys -> Seq(StoredOptions)]
  BY DEF ComposerStructs
<1>. QED
  BY <1>1, <1>2, <1>3

LEMMA SetSpace ==
  ASSUME NEW s \in ComposerStructs, NEW refs \in SUBSET SourcedReferences,
         NEW settings \in SpaceSettings
  PROVE  [s EXCEPT !.observedSpaceSettings = TRUE,
                   !.indexReferenceSources = refs,
                   !.spaceSettings = settings] \in ComposerStructs
  BY Zenon DEF ComposerStructs

LEMMA SetSidebar ==
  ASSUME NEW s \in ComposerStructs, NEW refs \in SUBSET SourcedReferences,
         NEW index \in Sidebars
  PROVE  [s EXCEPT !.indexReferenceSources = refs, !.index = index]
           \in ComposerStructs
  BY Zenon DEF ComposerStructs

LEMMA SetWritten ==
  ASSUME NEW s \in ComposerStructs, NEW labels \in SUBSET WidgetViewLabels,
         NEW n \in Nat, NEW ids \in SUBSET Ids,
         NEW uses \in SUBSET DerivedTypeUses, NEW used \in SUBSET Keys,
         NEW declared \in [Keys -> SUBSET Declarations]
  PROVE  [s EXCEPT !.widgetViewLabels = labels, !.written = n,
                   !.documentIds = ids, !.typeRefs = uses, !.used = used,
                   !.declared = declared] \in ComposerStructs
  BY Zenon DEF ComposerStructs

LEMMA SetFiles ==
  ASSUME NEW s \in ComposerStructs, NEW ids \in SUBSET Ids
  PROVE  [s EXCEPT !.filePaths = ids] \in ComposerStructs
  BY Zenon DEF ComposerStructs

LEMMA SetMetadataOnly ==
  ASSUME NEW s \in ComposerStructs
  PROVE  [s EXCEPT !.metadataOnly = TRUE] \in ComposerStructs
  BY Zenon DEF ComposerStructs

LEMMA SetUsed ==
  ASSUME NEW s \in ComposerStructs, NEW used \in SUBSET Keys
  PROVE  [s EXCEPT !.used = used] \in ComposerStructs
  BY Zenon DEF ComposerStructs

LEMMA SetCensus ==
  ASSUME NEW s \in ComposerStructs, NEW used \in SUBSET Keys,
         NEW uses \in SUBSET DerivedTypeUses
  PROVE  [s EXCEPT !.used = used, !.typeRefs = uses] \in ComposerStructs
  BY Zenon DEF ComposerStructs

LEMMA OmitsTyped ==
  ASSUME TypeOK, NEW t \in Tasks, NEW composer \in ComposerStructs,
         NEW cats \in SUBSET {"reconstruction", "option content"},
         Omits(t, composer, cats)
  PROVE  TypeOK'
<1>1. [composer EXCEPT !.omitted = @ + 1] \in ComposerStructs
  BY CountOmitted
<1>2. c' \in ComposerStructs
  BY <1>1 DEF Omits
<1>3. issues' \subseteq IssueRecords
  <2>1. \A cat \in cats : [task |-> t, category |-> cat] \in IssueRecords
    BY DEF IssueRecords
  <2>. QED
    BY <2>1 DEF Omits, Reports, TypeOK
<1>4. task' \in [Tasks -> TaskStates]
  BY DEF Omits, TypeOK, TaskStates
<1>. QED
  BY <1>2, <1>3, <1>4 DEF Omits, TypeOK

LEMMA ReferencesTyped ==
  ASSUME NEW homepage \in SUBSET Ids, NEW widgets \in Seq(Widgets),
         NEW icon \in SUBSET Ids, NEW object \in Ids
  PROVE  Sourced(ObjectReferences(homepage, widgets, icon), object)
           \subseteq SourcedReferences
<1>. DEFINE refs == [path: {"homepage", "widgets", "icon"} \X Nat, target: Ids]
<1>1. \A id \in homepage : [path |-> <<"homepage", 0>>, target |-> id] \in refs
  OBVIOUS
<1>2. \A n \in DOMAIN widgets :
        [path |-> <<"widgets", n>>, target |-> widgets[n].target] \in refs
  <2>. SUFFICES ASSUME NEW n \in DOMAIN widgets
                PROVE  [path |-> <<"widgets", n>>, target |-> widgets[n].target]
                         \in refs
    OBVIOUS
  <2>1. n \in Nat /\ widgets[n] \in Widgets
    OBVIOUS
  <2>2. widgets[n].target \in Ids
    BY <2>1 DEF Widgets
  <2>. QED
    BY <2>1, <2>2
<1>3. \A id \in icon : [path |-> <<"icon", 0>>, target |-> id] \in refs
  OBVIOUS
<1>4. \A ref \in refs : [ref EXCEPT !.target = Fold[@]] \in refs
  BY IdAssumption
<1>5. ObjectReferences(homepage, widgets, icon) \subseteq refs
  BY <1>1, <1>2, <1>3, <1>4 DEF ObjectReferences
<1>6. \A ref \in refs :
        [path |-> ref.path, target |-> ref.target, object |-> object]
          \in SourcedReferences
  BY DEF SourcedReferences
<1>. QED
  BY <1>5, <1>6 DEF Sourced

LEMMA SystemTyped ==
  ASSUME TypeOK, NEW t \in Tasks, ObserveSystem(t)
  PROVE  TypeOK'
  BY OmitsTyped DEF ObserveSystem, TypeOK

LEMMA SpaceTyped ==
  ASSUME TypeOK, NEW t \in Tasks, ObserveSpaceSettings(t)
  PROVE  TypeOK'
<1>. DEFINE s == Snapshot[t]
            refs == Sourced(ObjectReferences(s.homepage, <<>>, s.icon), s.id)
            settings == [field \in SettingFields |->
                           c.spaceSettings[field] \cup s[field]]
            composer == [c EXCEPT !.observedSpaceSettings = TRUE,
                                  !.indexReferenceSources = @ \cup refs,
                                  !.spaceSettings = settings]
<1>1. s \in SpaceSnapshots
  BY ShapeOfSpace DEF ObserveSpaceSettings, Starts
<1>2. refs \subseteq SourcedReferences
  <2>1. /\ s.homepage \in SUBSET Ids /\ s.icon \in SUBSET Ids /\ s.id \in Ids
        /\ <<>> \in Seq(Widgets)
    BY <1>1 DEF SpaceSnapshots
  <2>. QED
    BY <2>1, ReferencesTyped
<1>3. c.indexReferenceSources \subseteq SourcedReferences
      /\ c.spaceSettings \in SpaceSettings
  BY DEF TypeOK, ComposerStructs
<1>4. settings \in SpaceSettings
  BY <1>1, <1>3 DEF SpaceSettings, SettingFields, SpaceSnapshots
<1>5. composer \in ComposerStructs
  BY <1>2, <1>3, <1>4, SetSpace DEF TypeOK
<1>6. Omits(t, composer, {})
  BY Zenon DEF ObserveSpaceSettings
<1>. HIDE DEF composer
<1>. QED
  BY <1>5, <1>6, OmitsTyped

LEMMA UnliftableOptionTyped ==
  ASSUME TypeOK, NEW t \in Tasks, ObserveUnliftableOption(t)
  PROVE  TypeOK'
<1>1. [c EXCEPT !.optionsUnliftable = @ + 1] \in ComposerStructs
  BY CountUnliftable DEF TypeOK
<1>. QED
  BY <1>1, OmitsTyped DEF ObserveUnliftableOption

LEMMA RepeatedOptionTyped ==
  ASSUME TypeOK, NEW t \in Tasks, ObserveRepeatedOption(t)
  PROVE  TypeOK'
<1>1. [c EXCEPT !.optionsRepeated = @ + 1] \in ComposerStructs
  BY CountRepeated DEF TypeOK
<1>. QED
  BY <1>1, OmitsTyped DEF ObserveRepeatedOption

LEMMA NewOptionTyped ==
  ASSUME TypeOK, NEW t \in Tasks, ObserveNewOption(t)
  PROVE  TypeOK'
<1>. DEFINE s == Snapshot[t]
            o == OptionOf(s)
            stored == [order |-> s.order, created |-> s.created,
                       id |-> s.id, def |-> o.def]
<1>1. s \in OptionSnapshots
  BY ShapeOfOption DEF ObserveNewOption, Starts
<1>2. s.owner \in Keys /\ s.name \in Names
  BY <1>1 DEF ObserveNewOption, OptionSnapshots
<1>3. o \in SeenOptions /\ stored \in StoredOptions
  BY <1>1, <1>2 DEF OptionSnapshots, OptionOf, SeenOptions, StoredOptions,
                    OptionDefs
<1>4. [c EXCEPT !.seenOptions = @ \cup {o},
                !.optionsByKey[s.owner] = Append(@, stored)] \in ComposerStructs
  BY <1>2, <1>3, AddOption DEF TypeOK
<1>. QED
  BY <1>4, OmitsTyped DEF ObserveNewOption

LEMMA WidgetsTyped ==
  ASSUME TypeOK, NEW t \in Tasks, ObserveWidgets(t)
  PROVE  TypeOK'
<1>. DEFINE s == Snapshot[t]
            refs == Sourced(ObjectReferences({}, s.widgets, {}), s.id)
<1>1. s \in WidgetSnapshots
  BY ShapeOfWidget DEF ObserveWidgets, Starts
<1>2. refs \subseteq SourcedReferences
  BY <1>1, ReferencesTyped DEF WidgetSnapshots
<1>3. c.indexReferenceSources \subseteq SourcedReferences /\ c.index \in Sidebars
  BY DEF TypeOK, ComposerStructs
<1>4. LiftWidgets(c.index, s) \in Sidebars
  BY <1>1, <1>3 DEF LiftWidgets, Sidebars, WidgetSnapshots
<1>5. [c EXCEPT !.indexReferenceSources = @ \cup refs,
                !.index = LiftWidgets(c.index, s)] \in ComposerStructs
  BY <1>2, <1>3, <1>4, SetSidebar DEF TypeOK
<1>. QED
  BY <1>5, OmitsTyped DEF ObserveWidgets

LEMMA KeylessRelationTyped ==
  ASSUME TypeOK, NEW t \in Tasks, ObserveKeylessRelation(t)
  PROVE  TypeOK'
  BY OmitsTyped DEF ObserveKeylessRelation, TypeOK

LEMMA RelationTyped ==
  ASSUME TypeOK, NEW t \in Tasks, ObserveRelation(t)
  PROVE  TypeOK'
<1>1. Snapshot[t] \in RelationSnapshots
  BY ShapeOfRelation DEF ObserveRelation, Starts
<1>2. Snapshot[t].key \in Keys
  BY <1>1 DEF RelationSnapshots, ObserveRelation
<1>3. StoredDefinition(Snapshot[t]) \in Definitions
  BY <1>1 DEF StoredDefinition, RelationSnapshots, Definitions, IdenticalToTable
<1>4. [c EXCEPT !.entries[Snapshot[t].key] = StoredDefinition(Snapshot[t])]
        \in ComposerStructs
  BY <1>2, <1>3, AddEntry DEF TypeOK
<1>. QED
  BY <1>4, OmitsTyped DEF ObserveRelation

LEMMA WrittenTyped ==
  ASSUME TypeOK, TasksFollowTheirKind, NEW t \in Tasks, ObserveWritten(t)
  PROVE  TypeOK'
<1>. DEFINE s == Snapshot[t]
<1>1. s \in DocumentSnapshots
  BY ShapeOfDocument DEF ObserveWritten, TasksFollowTheirKind
<1>2. CarriedIds(s) \subseteq Ids
  BY <1>1 DEF CarriedIds, DocumentSnapshots
<1>3. ViewLabels(s) \subseteq WidgetViewLabels
  BY <1>1, <1>2 DEF ViewLabels, OwnIds, WidgetViewLabels, DocumentSnapshots
<1>4. TypeUses(s) \subseteq DerivedTypeUses
  BY <1>1 DEF TypeUses, DerivedTypeUses, DocumentSnapshots
<1>5. s.used \subseteq Keys
  BY <1>1 DEF DocumentSnapshots
<1>6. \A key \in Keys : DeclaredFor(s, key) \subseteq Declarations
  BY <1>1 DEF DeclaredFor, DocumentSnapshots
<1>7. /\ c.widgetViewLabels \subseteq WidgetViewLabels
      /\ c.written \in Nat
      /\ c.documentIds \subseteq Ids
      /\ c.typeRefs \subseteq DerivedTypeUses
      /\ c.used \subseteq Keys
      /\ c.declared \in [Keys -> SUBSET Declarations]
      /\ c \in ComposerStructs
  BY DEF TypeOK, ComposerStructs
<1>. DEFINE labels == IF ViewLabels(s) = {} THEN c.widgetViewLabels
                      ELSE {l \in c.widgetViewLabels :
                              l.id \notin OwnIds(s)}
                             \cup ViewLabels(s)
            declared == [key \in Keys |-> c.declared[key] \cup DeclaredFor(s, key)]
<1>8. labels \in SUBSET WidgetViewLabels /\ declared \in [Keys -> SUBSET Declarations]
  BY <1>3, <1>6, <1>7
<1>9. c' \in ComposerStructs
  <2>1. /\ c.written + 1 \in Nat
        /\ c.documentIds \cup CarriedIds(s) \in SUBSET Ids
        /\ c.typeRefs \cup TypeUses(s) \in SUBSET DerivedTypeUses
        /\ c.used \cup s.used \in SUBSET Keys
    BY <1>2, <1>4, <1>5, <1>7
  <2>2. c' = [c EXCEPT !.widgetViewLabels = labels, !.written = @ + 1,
                       !.documentIds = @ \cup CarriedIds(s),
                       !.typeRefs = @ \cup TypeUses(s), !.used = @ \cup s.used,
                       !.declared = declared]
    BY Zenon DEF ObserveWritten, RecordWritten
  <2>. HIDE DEF labels, declared, s
  <2>. QED
    BY <1>7, <1>8, <2>1, <2>2, SetWritten, Zenon
<1>10. task' \in [Tasks -> TaskStates]
  BY DEF ObserveWritten, TypeOK, TaskStates
<1>. QED
  BY <1>9, <1>10 DEF ObserveWritten, TypeOK

LEMMA FileBlobTyped ==
  ASSUME TypeOK, TasksFollowTheirKind, NEW t \in Tasks, ObserveFileBlob(t)
  PROVE  TypeOK'
<1>1. Snapshot[t].id \in Ids
  BY ShapeOfDocument DEF ObserveFileBlob, TasksFollowTheirKind, DocumentSnapshots
<1>2. c.filePaths \cup {Snapshot[t].id} \in SUBSET Ids
  BY <1>1 DEF TypeOK, ComposerStructs
<1>3. c' \in ComposerStructs
  BY <1>2, SetFiles DEF ObserveFileBlob, TypeOK
<1>4. task' \in [Tasks -> TaskStates]
  BY DEF ObserveFileBlob, TypeOK, TaskStates
<1>. QED
  BY <1>3, <1>4 DEF ObserveFileBlob, TypeOK

LEMMA DefinitionTyped ==
  ASSUME TypeOK, NEW key \in Keys
  PROVE  DefinitionOf(key) \in Definitions \cup {NoDefinition}
<1>1. c.entries[key] \in Definitions \cup {NoDefinition}
      /\ c.declared[key] \subseteq Declarations
  BY DEF TypeOK, ComposerStructs
<1>2. key \in DOMAIN Resolver => ResolvedDefinition(key) \in Definitions
  BY VocabularyAssumption DEF ResolvedDefinition, Definitions, Facts
<1>3. key \in DOMAIN Table => BundledDefinition(key) \in Definitions
  BY VocabularyAssumption DEF BundledDefinition, Definitions, Facts
<1>4. Cardinality(c.declared[key]) = 1 => DeclaredDefinition(key) \in Definitions
  <2>1. SUFFICES ASSUME Cardinality(c.declared[key]) = 1
                 PROVE  DeclaredDefinition(key) \in Definitions
    OBVIOUS
  <2>2. c.declared[key] # {}
    BY <2>1, FS_EmptySet
  <2>3. (CHOOSE d \in c.declared[key] : TRUE) \in Declarations
    BY <1>1, <2>2
  <2>. QED
    BY <2>3 DEF DeclaredDefinition, Declarations, Definitions
<1>. QED
  BY <1>1, <1>2, <1>3, <1>4 DEF DefinitionOf, Undisputed

LEMMA UsedKeysTyped ==
  ASSUME TypeOK
  PROVE  UsedKeys \in SUBSET Keys
<1>1. c.used \subseteq Keys /\ c.index.widgets \in Seq(Widgets)
  BY DEF TypeOK, ComposerStructs, Sidebars
<1>2. \A n \in DOMAIN c.index.widgets : c.index.widgets[n].properties \subseteq Keys
  <2>. SUFFICES ASSUME NEW n \in DOMAIN c.index.widgets
                PROVE  c.index.widgets[n].properties \subseteq Keys
    OBVIOUS
  <2>1. c.index.widgets[n] \in Widgets
    BY <1>1
  <2>. QED
    BY <2>1 DEF Widgets
<1>. QED
  BY <1>1, <1>2 DEF UsedKeys, WidgetProperties

LEMMA CensusTyped ==
  ASSUME TypeOK
  PROVE  TypeRefsAtFinish \in SUBSET DerivedTypeUses
<1>1. \A key \in UsedKeys : Dictionary[key].definition.targets \subseteq Ids
  <2>. SUFFICES ASSUME NEW key \in UsedKeys
                PROVE  Dictionary[key].definition.targets \subseteq Ids
    OBVIOUS
  <2>1. Dictionary[key].definition =
          IF key \in Orphans THEN UndefinedEntry(NoName) ELSE DefinitionOf(key)
    BY DEF Dictionary
  <2>2. CASE key \in Orphans
    BY <2>1, <2>2 DEF UndefinedEntry
  <2>3. CASE key \notin Orphans
    <3>1. DefinitionOf(key) \in Definitions
      BY <2>3, UsedKeysTyped, DefinitionTyped DEF Orphans
    <3>. QED
      BY <2>1, <2>3, <3>1 DEF Definitions
  <2>. QED
    BY <2>2, <2>3
<1>2. c.typeRefs \subseteq DerivedTypeUses
  BY DEF TypeOK, ComposerStructs
<1>. QED
  BY <1>1, <1>2 DEF TypeRefsAtFinish, DerivedTypeUses

LEMMA FinishTyped ==
  ASSUME TypeOK, Finish
  PROVE  TypeOK'
<1>. DEFINE used == [c EXCEPT !.used = UsedKeys]
            census == [c EXCEPT !.used = UsedKeys, !.typeRefs = TypeRefsAtFinish]
<1>1. used \in ComposerStructs /\ census \in ComposerStructs
  BY UsedKeysTyped, CensusTyped, SetUsed, SetCensus DEF TypeOK
<1>2. c' \in {c, used, census}
  BY DEF Finish, FinishConflicting, FinishEmpty, FinishRefused, FinishBundle
<1>3. c' \in ComposerStructs
  BY <1>1, <1>2 DEF TypeOK
<1>4. out'.status \in {"none", "refused", "empty", "bundle"}
  <2>1. CASE FinishConflicting
    BY <2>1, Zenon DEF FinishConflicting, Finishes
  <2>2. CASE FinishEmpty
    BY <2>2, Zenon DEF FinishEmpty, Finishes
  <2>3. CASE FinishRefused
    <3>1. CASE Finishes([status |-> "refused", why |-> "metadata only"])
      BY <3>1, Zenon DEF Finishes
    <3>2. CASE Finishes([status |-> "refused", why |-> "index"])
      BY <3>2, Zenon DEF Finishes
    <3>3. CASE Finishes([status |-> "refused", why |-> "dictionary"])
      BY <3>3, Zenon DEF Finishes
    <3>. QED
      BY <2>3, <3>1, <3>2, <3>3, Zenon DEF FinishRefused
  <2>4. CASE FinishBundle
    BY <2>4, Zenon DEF FinishBundle, Finishes
  <2>. QED
    BY <2>1, <2>2, <2>3, <2>4 DEF Finish
<1>5. run' = "finished" /\ UNCHANGED <<issues, task, docs, blobs>>
  BY DEF Finish, FinishConflicting, FinishEmpty, FinishRefused, FinishBundle,
         Finishes
<1>. QED
  BY <1>3, <1>4, <1>5 DEF TypeOK

LEMMA DeclareTyped ==
  ASSUME TypeOK, DeclareMetadataOnly
  PROVE  TypeOK'
<1>1. c' \in ComposerStructs
  BY SetMetadataOnly DEF DeclareMetadataOnly, TypeOK
<1>. QED
  BY <1>1 DEF DeclareMetadataOnly, TypeOK

LEMMA ObserveTyped ==
  ASSUME TypeOK, NEW t \in Tasks, Observe(t)
  PROVE  TypeOK'
<1>1. CASE ObserveDocument(t)
  <2>1. task' \in [Tasks -> TaskStates]
    BY <1>1 DEF ObserveDocument, TypeOK, TaskStates
  <2>. QED
    BY <1>1, <2>1 DEF ObserveDocument, TypeOK
<1>. QED
  BY <1>1, SystemTyped, SpaceTyped, UnliftableOptionTyped, RepeatedOptionTyped,
     NewOptionTyped, WidgetsTyped, KeylessRelationTyped, RelationTyped
     DEF Observe

LEMMA EmitTyped ==
  ASSUME TypeOK, TasksFollowTheirKind, NEW t \in Tasks, Emit(t)
  PROVE  TypeOK'
<1>1. CASE WriteDocument(t)
  BY <1>1 DEF WriteDocument, TypeOK, TaskStates
<1>2. CASE FailDocument(t)
  BY <1>2 DEF FailDocument, TypeOK, TaskStates
<1>3. CASE RefuseWritten(t)
  BY <1>3 DEF RefuseWritten, TypeOK, TaskStates
<1>4. CASE StreamBlob(t)
  BY <1>4 DEF StreamBlob, TypeOK, TaskStates
<1>5. CASE FailStream(t)
  BY <1>5 DEF FailStream, TypeOK, TaskStates
<1>. QED
  BY <1>1, <1>2, <1>3, <1>4, <1>5, WrittenTyped, FileBlobTyped DEF Emit

-----------------------------------------------------------------------------
(* Tasks and their kinds.                                                  *)

LEMMA KindsStart == Init => TasksFollowTheirKind
  BY DEF Init, TasksFollowTheirKind

(* A lifted object's task goes from queued to omitted, and its kind is not *)
(* a document's.                                                           *)
LEMMA LiftedTask ==
  ASSUME TypeOK, NEW t \in Tasks, Observe(t), ~ObserveDocument(t)
  PROVE  /\ task[t] = "queued" /\ Snapshot[t].kind # "document"
         /\ task' = [task EXCEPT ![t] = "omitted"]
         /\ run = "emitting"
         /\ UNCHANGED <<docs, blobs, run, out>>
  BY DEF Observe, ObserveSystem, ObserveSpaceSettings, ObserveUnliftableOption,
         ObserveRepeatedOption, ObserveNewOption, ObserveWidgets,
         ObserveKeylessRelation, ObserveRelation, Starts, Omits

(* An object that does not load leaves the struct and the bundle alone.    *)
LEMMA FailedObject ==
  ASSUME TypeOK, NEW t \in Tasks, FailObject(t)
  PROVE  /\ task[t] = "queued" /\ run = "emitting"
         /\ task' = [task EXCEPT ![t] = "failed"]
         /\ UNCHANGED <<c, issues, docs, blobs, run, out>>
         /\ task' \in [Tasks -> TaskStates]
         /\ Reported' = Reported
         /\ Seen("relation")' = Seen("relation")
         /\ Seen("space")' = Seen("space")
         /\ {u \in blobs : task[u] = "done"}' = {u \in blobs : task[u] = "done"}
<1>1. /\ task[t] = "queued" /\ run = "emitting"
      /\ task' = [task EXCEPT ![t] = "failed"]
      /\ UNCHANGED <<c, issues, docs, blobs, run, out>>
  BY DEF FailObject, Starts
<1>. QED
  BY <1>1 DEF TypeOK, TaskStates, Reported, Seen

LEMMA KindsKept ==
  ASSUME TypeOK, TasksFollowTheirKind, [Next]_vars
  PROVE  TasksFollowTheirKind'
<1>1. ASSUME NEW t \in Tasks, Observe(t), ~ObserveDocument(t)
      PROVE  TasksFollowTheirKind'
  BY <1>1, LiftedTask DEF TypeOK, TasksFollowTheirKind
<1>2. ASSUME NEW t \in Tasks, ObserveDocument(t)
      PROVE  TasksFollowTheirKind'
  BY <1>2 DEF ObserveDocument, Starts, TypeOK, TasksFollowTheirKind
<1>3. ASSUME NEW t \in Tasks, Emit(t)
      PROVE  TasksFollowTheirKind'
  BY <1>3 DEF Emit, WriteDocument, FailDocument, ObserveWritten, RefuseWritten,
              StreamBlob, FailStream, ObserveFileBlob, TypeOK,
              TasksFollowTheirKind
<1>4. CASE UNCHANGED task
  BY <1>4 DEF TasksFollowTheirKind
<1>5. DeclareMetadataOnly \/ Finish \/ Cancel \/ Stop \/ UNCHANGED vars
        => UNCHANGED task
  BY DEF DeclareMetadataOnly, Finish, FinishConflicting, FinishEmpty,
         FinishRefused, FinishBundle, Finishes, Cancel, Stop, vars
<1>6. ASSUME NEW t \in Tasks, FailObject(t)
      PROVE  TasksFollowTheirKind'
  BY <1>6, FailedObject DEF TypeOK, TasksFollowTheirKind
<1>. QED
  BY <1>6, <1>1, <1>2, <1>3, <1>4, <1>5 DEF Next

-----------------------------------------------------------------------------
(* The end of the run.                                                     *)

LEMMA FinishShape ==
  ASSUME TypeOK, Finish
  PROVE  /\ run = "emitting" /\ run' = "finished"
         /\ \A t \in Tasks : task[t] \in {"omitted", "done", "failed"}
         /\ out'.status # "none"
         /\ UNCHANGED <<issues, task, docs, blobs>>
<1>1. CASE FinishConflicting
  BY <1>1, Zenon DEF FinishConflicting, Finishes
<1>2. CASE FinishEmpty
  BY <1>2, Zenon DEF FinishEmpty, Finishes
<1>3. CASE Finishes([status |-> "refused", why |-> "metadata only"])
  BY <1>3, Zenon DEF Finishes
<1>4. CASE Finishes([status |-> "refused", why |-> "index"])
  BY <1>4, Zenon DEF Finishes
<1>5. CASE Finishes([status |-> "refused", why |-> "dictionary"])
  BY <1>5, Zenon DEF Finishes
<1>6. CASE FinishBundle
  BY <1>6, Zenon DEF FinishBundle, Finishes
<1>. QED
  BY <1>1, <1>2, <1>3, <1>4, <1>5, <1>6, Zenon DEF Finish, FinishRefused

LEMMA FinishIsLastKept ==
  ASSUME TypeOK, FinishIsLast, [Next]_vars
  PROVE  FinishIsLast'
<1>1. ASSUME NEW t \in Tasks, Observe(t), ~ObserveDocument(t)
      PROVE  FinishIsLast'
  BY <1>1, LiftedTask DEF FinishIsLast
<1>2. ASSUME NEW t \in Tasks, ObserveDocument(t)
      PROVE  FinishIsLast'
  BY <1>2 DEF ObserveDocument, Starts, FinishIsLast
<1>3. ASSUME NEW t \in Tasks, Emit(t)
      PROVE  FinishIsLast'
  BY <1>3 DEF Emit, WriteDocument, FailDocument, ObserveWritten, RefuseWritten,
              StreamBlob, FailStream, ObserveFileBlob, FinishIsLast
<1>4. CASE Finish
  BY <1>4, FinishShape DEF FinishIsLast
<1>5. CASE DeclareMetadataOnly
  BY <1>5 DEF DeclareMetadataOnly, FinishIsLast
<1>6. CASE Cancel
  BY <1>6 DEF Cancel, FinishIsLast
<1>7. CASE Stop \/ UNCHANGED vars
  BY <1>7 DEF Stop, vars, FinishIsLast
<1>8. ASSUME NEW t \in Tasks, FailObject(t)
      PROVE  FinishIsLast'
  BY <1>8, FailedObject DEF FinishIsLast
<1>. QED
  BY <1>8, <1>1, <1>2, <1>3, <1>4, <1>5, <1>6, <1>7 DEF Next

-----------------------------------------------------------------------------
(* The bundle and the tasks.                                               *)

LEMMA BundleKept ==
  ASSUME TypeOK, TasksFollowTheirKind, BundleFollowsTheTasks, [Next]_vars
  PROVE  BundleFollowsTheTasks'
<1>1. ASSUME NEW t \in Tasks, Observe(t), ~ObserveDocument(t)
      PROVE  BundleFollowsTheTasks'
  BY <1>1, LiftedTask DEF BundleFollowsTheTasks, Arrived, Reported, TypeOK
<1>2. ASSUME NEW t \in Tasks, ObserveDocument(t)
      PROVE  BundleFollowsTheTasks'
  BY <1>2 DEF ObserveDocument, Starts, BundleFollowsTheTasks, Arrived, Reported,
              TypeOK
<1>3. ASSUME NEW t \in Tasks, WriteDocument(t)
      PROVE  BundleFollowsTheTasks'
  BY <1>3 DEF WriteDocument, BundleFollowsTheTasks, Arrived, Reported, TypeOK
<1>4. ASSUME NEW t \in Tasks, FailDocument(t)
      PROVE  BundleFollowsTheTasks'
  BY <1>4 DEF FailDocument, BundleFollowsTheTasks, Arrived, Reported, TypeOK
<1>5. ASSUME NEW t \in Tasks, ObserveWritten(t)
      PROVE  BundleFollowsTheTasks'
  BY <1>5 DEF ObserveWritten, BundleFollowsTheTasks, Arrived, Reported, TypeOK,
              TasksFollowTheirKind
<1>6. ASSUME NEW t \in Tasks, RefuseWritten(t)
      PROVE  BundleFollowsTheTasks'
  BY <1>6 DEF RefuseWritten, BundleFollowsTheTasks, Arrived, Reported, TypeOK
<1>7. ASSUME NEW t \in Tasks, StreamBlob(t)
      PROVE  BundleFollowsTheTasks'
  BY <1>7 DEF StreamBlob, BundleFollowsTheTasks, Arrived, Reported, TypeOK
<1>8. ASSUME NEW t \in Tasks, FailStream(t)
      PROVE  BundleFollowsTheTasks'
  BY <1>8 DEF FailStream, BundleFollowsTheTasks, Arrived, Reported, TypeOK
<1>9. ASSUME NEW t \in Tasks, ObserveFileBlob(t)
      PROVE  BundleFollowsTheTasks'
  BY <1>9 DEF ObserveFileBlob, BundleFollowsTheTasks, Arrived, Reported, TypeOK
<1>10. CASE Finish
  BY <1>10, FinishShape DEF BundleFollowsTheTasks, Arrived, Reported
<1>11. CASE Cancel
  BY <1>11 DEF Cancel, BundleFollowsTheTasks, Arrived, Reported
<1>12. CASE DeclareMetadataOnly \/ Stop \/ UNCHANGED vars
  BY <1>12 DEF DeclareMetadataOnly, Stop, vars, BundleFollowsTheTasks, Arrived,
               Reported
<1>13. ASSUME NEW t \in Tasks, FailObject(t)
      PROVE  BundleFollowsTheTasks'
  BY <1>13, FailedObject DEF BundleFollowsTheTasks, Arrived, Reported, TypeOK
<1>. QED
  BY <1>13, <1>1, <1>2, <1>3, <1>4, <1>5, <1>6, <1>7, <1>8, <1>9, <1>10, <1>11, <1>12
     DEF Next, Emit

-----------------------------------------------------------------------------
(* The aggregates.                                                         *)

(* Lifting an object touches neither the documents' census nor the files'; *)
(* it adds an entry only for a relation, and candidates only for a space.  *)
LEMMA LiftedFields ==
  ASSUME TypeOK, NEW t \in Tasks, Observe(t), ~ObserveDocument(t)
  PROVE  /\ c'.documentIds = c.documentIds /\ c'.declared = c.declared
         /\ c'.used = c.used /\ c'.typeRefs = c.typeRefs
         /\ c'.filePaths = c.filePaths /\ c'.metadataOnly = c.metadataOnly
         /\ c'.widgetViewLabels = c.widgetViewLabels
         /\ ~ObserveRelation(t) => c'.entries = c.entries
         /\ ~ObserveSpaceSettings(t) => c'.spaceSettings = c.spaceSettings
<1>. c \in ComposerStructs
  BY DEF TypeOK
<1>1. CASE ObserveSystem(t)
  BY <1>1, Zenon DEF ObserveSystem, Omits, ComposerStructs
<1>2. CASE ObserveSpaceSettings(t)
  BY <1>2, Zenon DEF ObserveSpaceSettings, Omits, ComposerStructs
<1>3. CASE ObserveUnliftableOption(t)
  BY <1>3, Zenon DEF ObserveUnliftableOption, Omits, ComposerStructs
<1>4. CASE ObserveRepeatedOption(t)
  BY <1>4, Zenon DEF ObserveRepeatedOption, Omits, ComposerStructs
<1>5. CASE ObserveNewOption(t)
  BY <1>5, Zenon DEF ObserveNewOption, Omits, ComposerStructs
<1>6. CASE ObserveWidgets(t)
  BY <1>6, Zenon DEF ObserveWidgets, Omits, ComposerStructs
<1>7. CASE ObserveKeylessRelation(t)
  BY <1>7, Zenon DEF ObserveKeylessRelation, Omits, ComposerStructs
<1>8. CASE ObserveRelation(t)
  BY <1>8, Zenon DEF ObserveRelation, Omits, ComposerStructs
<1>. QED
  BY <1>1, <1>2, <1>3, <1>4, <1>5, <1>6, <1>7, <1>8, Zenon DEF Observe

(* The census of lifts and of reports moves by the one task that stepped.  *)
LEMMA LiftedSets ==
  ASSUME TypeOK, NEW t \in Tasks, Observe(t), ~ObserveDocument(t)
  PROVE  /\ Reported' = Reported
         /\ Seen("relation")' = Seen("relation")
              \cup (IF Snapshot[t].kind = "relation" THEN {t} ELSE {})
         /\ Seen("space")' = Seen("space")
              \cup (IF Snapshot[t].kind = "space" THEN {t} ELSE {})
         /\ {u \in blobs : task[u] = "done"}' = {u \in blobs : task[u] = "done"}
  BY LiftedTask DEF Reported, Seen, TypeOK

LEMMA EmittedSets ==
  ASSUME TypeOK, TasksFollowTheirKind, NEW t \in Tasks,
         ObserveDocument(t) \/ Emit(t)
  PROVE  /\ Seen("relation")' = Seen("relation")
         /\ Seen("space")' = Seen("space")
         /\ ObserveWritten(t) => Reported' = Reported \cup {t}
         /\ ~ObserveWritten(t) => Reported' = Reported
<1>1. CASE ObserveDocument(t)
  BY <1>1 DEF ObserveDocument, Starts, ObserveWritten, Reported, Seen, TypeOK
<1>2. CASE Emit(t)
  BY <1>2 DEF Emit, WriteDocument, FailDocument, ObserveWritten, RefuseWritten,
              StreamBlob, FailStream, ObserveFileBlob, Reported, Seen, TypeOK,
              TasksFollowTheirKind
<1>. QED
  BY <1>1, <1>2

LEMMA EmittedFields ==
  ASSUME TypeOK, NEW t \in Tasks, ObserveDocument(t) \/ Emit(t)
  PROVE  /\ c'.entries = c.entries /\ c'.spaceSettings = c.spaceSettings
         /\ c'.metadataOnly = c.metadataOnly
         /\ ~ObserveFileBlob(t) => c'.filePaths = c.filePaths
         /\ ~ObserveWritten(t) =>
              /\ c'.documentIds = c.documentIds /\ c'.declared = c.declared
              /\ c'.used = c.used /\ c'.typeRefs = c.typeRefs
              /\ c'.widgetViewLabels = c.widgetViewLabels
<1>. c \in ComposerStructs
  BY DEF TypeOK
<1>1. CASE ObserveWritten(t)
  BY <1>1, Zenon DEF ObserveWritten, RecordWritten, ComposerStructs
<1>2. CASE ObserveFileBlob(t)
  BY <1>2, Zenon DEF ObserveFileBlob, ComposerStructs
<1>3. CASE UNCHANGED c
  BY <1>3, Zenon
<1>4. ObserveDocument(t) \/ WriteDocument(t) \/ FailDocument(t) \/ RefuseWritten(t)
        \/ StreamBlob(t) \/ FailStream(t) => UNCHANGED c
  BY Zenon DEF ObserveDocument, WriteDocument, FailDocument, RefuseWritten,
               StreamBlob, FailStream
<1>. QED
  BY <1>1, <1>2, <1>3, <1>4, Zenon DEF Emit

(* The run's own steps leave the aggregates to Finish, which adds to the   *)
(* censuses what the sidebar and the dictionary reference.                 *)
LEMMA RunFields ==
  ASSUME TypeOK, DeclareMetadataOnly \/ Finish \/ Cancel \/ Stop \/ UNCHANGED vars
  PROVE  /\ UNCHANGED <<task, blobs>>
         /\ c'.entries = c.entries /\ c'.spaceSettings = c.spaceSettings
         /\ c'.documentIds = c.documentIds /\ c'.declared = c.declared
         /\ c'.filePaths = c.filePaths /\ c'.widgetViewLabels = c.widgetViewLabels
         /\ ~Finish => out' = out /\ c'.used = c.used /\ c'.typeRefs = c.typeRefs
<1>. c \in ComposerStructs
  BY DEF TypeOK
<1>1. CASE DeclareMetadataOnly
  BY <1>1, Zenon DEF DeclareMetadataOnly, ComposerStructs
<1>2. CASE Finish
  <2>1. c' \in {c, [c EXCEPT !.used = UsedKeys],
                [c EXCEPT !.used = UsedKeys, !.typeRefs = TypeRefsAtFinish]}
    BY <1>2 DEF Finish, FinishConflicting, FinishEmpty, FinishRefused, FinishBundle
  <2>2. UNCHANGED <<task, blobs>>
    BY <1>2, FinishShape
  <2>. QED
    BY <1>2, <2>1, <2>2, Zenon DEF ComposerStructs
<1>3. CASE Cancel \/ Stop \/ UNCHANGED vars
  BY <1>3, Zenon DEF Cancel, Stop, vars
<1>. QED
  BY <1>1, <1>2, <1>3

LEMMA EntryCensusKept ==
  ASSUME TypeOK, TasksFollowTheirKind, EntryCensus, [Next]_vars
  PROVE  EntryCensus'
<1>1. ASSUME NEW t \in Tasks, ObserveRelation(t)
      PROVE  EntryCensus'
  <2>1. Observe(t) /\ ~ObserveDocument(t) /\ Snapshot[t].kind = "relation"
    BY <1>1 DEF Observe, ObserveRelation, ObserveDocument, Starts
  <2>2. Snapshot[t] \in RelationSnapshots
    BY <2>1, ShapeOfRelation
  <2>3. Snapshot[t].key \in Keys
    BY <1>1, <2>2 DEF RelationSnapshots, ObserveRelation
  <2>4. StoredDefinition(Snapshot[t]) # NoDefinition
    <3>1. StoredDefinition(Snapshot[t]) \in Definitions
      BY <2>2, <2>3 DEF StoredDefinition, RelationSnapshots, Definitions,
                        IdenticalToTable
    <3>. QED
      BY <3>1, SnapshotAssumption
  <2>5. c'.entries = [c.entries EXCEPT ![Snapshot[t].key] = StoredDefinition(Snapshot[t])]
    BY <1>1, Zenon DEF ObserveRelation, Omits, TypeOK, ComposerStructs
  <2>6. DOMAIN c.entries = Keys
    BY DEF TypeOK, ComposerStructs
  <2>7. Seen("relation")' = Seen("relation") \cup {t}
    BY <2>1, LiftedSets
  <2>. QED
    BY <2>3, <2>4, <2>5, <2>6, <2>7 DEF EntryCensus
<1>2. ASSUME NEW t \in Tasks, Observe(t), ~ObserveDocument(t), ~ObserveRelation(t)
      PROVE  EntryCensus'
  <2>1. c'.entries = c.entries
    BY <1>2, LiftedFields
  <2>2. Snapshot[t].kind = "relation" => Snapshot[t].key \notin Keys
    BY <1>2, SnapshotAssumption
       DEF Observe, ObserveSystem, ObserveSpaceSettings, ObserveUnliftableOption,
           ObserveRepeatedOption, ObserveNewOption, ObserveWidgets,
           ObserveKeylessRelation, Starts
  <2>3. Seen("relation")' =
          Seen("relation") \cup (IF Snapshot[t].kind = "relation" THEN {t} ELSE {})
    BY <1>2, LiftedSets
  <2>. QED
    BY <2>1, <2>2, <2>3 DEF EntryCensus
<1>3. ASSUME NEW t \in Tasks, ObserveDocument(t) \/ Emit(t)
      PROVE  EntryCensus'
  <2>1. c'.entries = c.entries /\ Seen("relation")' = Seen("relation")
    BY <1>3, EmittedFields, EmittedSets
  <2>. QED
    BY <2>1 DEF EntryCensus
<1>4. ASSUME DeclareMetadataOnly \/ Finish \/ Cancel \/ Stop \/ UNCHANGED vars
      PROVE  EntryCensus'
  BY <1>4, RunFields DEF EntryCensus, Seen
<1>5. ASSUME NEW t \in Tasks, FailObject(t)
      PROVE  EntryCensus'
  BY <1>5, FailedObject DEF EntryCensus
<1>. QED
  BY <1>5, <1>1, <1>2, <1>3, <1>4 DEF Next, Observe

LEMMA SettingsCensusKept ==
  ASSUME TypeOK, TasksFollowTheirKind, SettingsCensus, [Next]_vars
  PROVE  SettingsCensus'
<1>1. ASSUME NEW t \in Tasks, ObserveSpaceSettings(t)
      PROVE  SettingsCensus'
  <2>1. Observe(t) /\ ~ObserveDocument(t) /\ Snapshot[t].kind = "space"
    BY <1>1 DEF Observe, ObserveSpaceSettings, ObserveDocument, Starts
  <2>2. c'.spaceSettings = [field \in SettingFields |->
                              c.spaceSettings[field] \cup Snapshot[t][field]]
    BY <1>1, Zenon DEF ObserveSpaceSettings, Omits, TypeOK, ComposerStructs
  <2>3. Seen("space")' = Seen("space") \cup {t}
    BY <2>1, LiftedSets
  <2>. QED
    BY <2>2, <2>3 DEF SettingsCensus
<1>2. ASSUME NEW t \in Tasks, Observe(t), ~ObserveDocument(t),
             ~ObserveSpaceSettings(t)
      PROVE  SettingsCensus'
  <2>1. c'.spaceSettings = c.spaceSettings
    BY <1>2, LiftedFields
  <2>2. Snapshot[t].kind # "space"
    BY <1>2 DEF Observe, ObserveSystem, ObserveRelation, ObserveUnliftableOption,
                ObserveRepeatedOption, ObserveNewOption, ObserveWidgets,
                ObserveKeylessRelation, Starts
  <2>3. Seen("space")' = Seen("space")
    BY <1>2, <2>2, LiftedSets
  <2>. QED
    BY <2>1, <2>3 DEF SettingsCensus
<1>3. ASSUME NEW t \in Tasks, ObserveDocument(t) \/ Emit(t)
      PROVE  SettingsCensus'
  <2>1. c'.spaceSettings = c.spaceSettings /\ Seen("space")' = Seen("space")
    BY <1>3, EmittedFields, EmittedSets
  <2>. QED
    BY <2>1 DEF SettingsCensus
<1>4. ASSUME DeclareMetadataOnly \/ Finish \/ Cancel \/ Stop \/ UNCHANGED vars
      PROVE  SettingsCensus'
  BY <1>4, RunFields DEF SettingsCensus, Seen
<1>5. ASSUME NEW t \in Tasks, FailObject(t)
      PROVE  SettingsCensus'
  BY <1>5, FailedObject DEF SettingsCensus
<1>. QED
  BY <1>5, <1>1, <1>2, <1>3, <1>4 DEF Next, Observe

LEMMA DocumentCensusKept ==
  ASSUME TypeOK, TasksFollowTheirKind, DocumentCensus, [Next]_vars
  PROVE  DocumentCensus'
<1>1. ASSUME NEW t \in Tasks, Observe(t), ~ObserveDocument(t)
      PROVE  DocumentCensus'
  <2>1. /\ c'.documentIds = c.documentIds /\ c'.declared = c.declared
        /\ c'.used = c.used /\ c'.typeRefs = c.typeRefs
    BY <1>1, LiftedFields
  <2>2. Reported' = Reported /\ out' = out
    BY <1>1, LiftedSets, LiftedTask
  <2>. QED
    BY <2>1, <2>2 DEF DocumentCensus
<1>2. ASSUME NEW t \in Tasks, ObserveWritten(t)
      PROVE  DocumentCensus'
  <2>. DEFINE s == Snapshot[t]
  <2>1. c' = RecordWritten(c, s) /\ out' = out
    BY <1>2 DEF ObserveWritten
  <2>2. /\ c'.documentIds = c.documentIds \cup CarriedIds(s)
        /\ c'.declared = [key \in Keys |-> c.declared[key] \cup DeclaredFor(s, key)]
        /\ c'.used = c.used \cup s.used
        /\ c'.typeRefs = c.typeRefs \cup TypeUses(s)
    BY <2>1, Zenon DEF RecordWritten, TypeOK, ComposerStructs
  <2>3. Reported' = Reported \cup {t}
    BY <1>2, EmittedSets DEF Emit
  <2>4. c'.documentIds = UNION {CarriedIds(Snapshot[u]) : u \in Reported'}
    BY <2>2, <2>3 DEF DocumentCensus
  <2>5. ASSUME NEW key \in Keys
        PROVE  c'.declared[key] = UNION {DeclaredFor(Snapshot[u], key) : u \in Reported'}
    BY <2>2, <2>3 DEF DocumentCensus
  <2>6. ASSUME out.status = "none"
        PROVE  /\ c'.used = UNION {Snapshot[u].used : u \in Reported'}
               /\ c'.typeRefs = UNION {TypeUses(Snapshot[u]) : u \in Reported'}
    BY <2>2, <2>3, <2>6 DEF DocumentCensus
  <2>. QED
    BY <2>1, <2>4, <2>5, <2>6 DEF DocumentCensus
<1>3. ASSUME NEW t \in Tasks, ObserveDocument(t) \/ Emit(t), ~ObserveWritten(t)
      PROVE  DocumentCensus'
  <2>1. /\ c'.documentIds = c.documentIds /\ c'.declared = c.declared
        /\ c'.used = c.used /\ c'.typeRefs = c.typeRefs
    BY <1>3, EmittedFields
  <2>2. Reported' = Reported
    BY <1>3, EmittedSets
  <2>3. out' = out
    BY <1>3 DEF ObserveDocument, Emit, WriteDocument, FailDocument,
                RefuseWritten, StreamBlob, FailStream, ObserveFileBlob
  <2>. QED
    BY <2>1, <2>2, <2>3 DEF DocumentCensus
<1>4. ASSUME DeclareMetadataOnly \/ Finish \/ Cancel \/ Stop \/ UNCHANGED vars
      PROVE  DocumentCensus'
  <2>1. Reported' = Reported /\ c'.documentIds = c.documentIds
        /\ c'.declared = c.declared
    BY <1>4, RunFields DEF Reported
  <2>2. CASE Finish
    BY <2>1, <2>2, FinishShape DEF DocumentCensus
  <2>3. CASE ~Finish
    BY <1>4, <2>1, <2>3, RunFields DEF DocumentCensus
  <2>. QED
    BY <2>2, <2>3
<1>5. ASSUME NEW t \in Tasks, FailObject(t)
      PROVE  DocumentCensus'
  BY <1>5, FailedObject DEF DocumentCensus
<1>. QED
  BY <1>5, <1>1, <1>2, <1>3, <1>4 DEF Next

LEMMA FileCensusKept ==
  ASSUME TypeOK, BundleFollowsTheTasks, FileCensus, [Next]_vars
  PROVE  FileCensus'
<1>. DEFINE settled == {u \in blobs : task[u] = "done"}
<1>1. ASSUME NEW t \in Tasks, Observe(t), ~ObserveDocument(t)
      PROVE  FileCensus'
  <2>1. c'.filePaths = c.filePaths /\ settled' = settled
    BY <1>1, LiftedFields, LiftedSets
  <2>. QED
    BY <2>1 DEF FileCensus
<1>2. ASSUME NEW t \in Tasks, ObserveFileBlob(t)
      PROVE  FileCensus'
  <2>1. c'.filePaths = c.filePaths \cup {Snapshot[t].id}
    BY <1>2, Zenon DEF ObserveFileBlob, TypeOK, ComposerStructs
  <2>2. settled' = settled \cup {t}
    BY <1>2 DEF ObserveFileBlob, BundleFollowsTheTasks, TypeOK
  <2>. QED
    BY <2>1, <2>2 DEF FileCensus
<1>3. ASSUME NEW t \in Tasks, ObserveDocument(t) \/ Emit(t), ~ObserveFileBlob(t)
      PROVE  FileCensus'
  <2>1. c'.filePaths = c.filePaths
    BY <1>3, EmittedFields
  <2>2. settled' = settled
    BY <1>3 DEF ObserveDocument, Starts, Emit, WriteDocument, FailDocument,
                ObserveWritten, RefuseWritten, StreamBlob, FailStream,
                BundleFollowsTheTasks, TypeOK
  <2>. QED
    BY <2>1, <2>2 DEF FileCensus
<1>4. ASSUME DeclareMetadataOnly \/ Finish \/ Cancel \/ Stop \/ UNCHANGED vars
      PROVE  FileCensus'
  BY <1>4, RunFields DEF FileCensus
<1>5. ASSUME NEW t \in Tasks, FailObject(t)
      PROVE  FileCensus'
  BY <1>5, FailedObject DEF FileCensus
<1>. QED
  BY <1>5, <1>1, <1>2, <1>3, <1>4 DEF Next

-----------------------------------------------------------------------------
(* The inductive invariant: types, the tasks' life, and the aggregates.    *)

Ledger ==
  TypeOK /\ TasksFollowTheirKind /\ FinishIsLast /\ BundleFollowsTheTasks
    /\ AggregatesAreTheObservations

LEMMA LedgerStarts == Init => Ledger
<1>. SUFFICES ASSUME Init PROVE Ledger
  OBVIOUS
<1>1. TypeOK /\ TasksFollowTheirKind
  BY StartsTyped, KindsStart
<1>2. Reported = {} /\ Seen("relation") = {} /\ Seen("space") = {} /\ blobs = {}
      /\ docs = {} /\ Arrived = {}
  BY DEF Init, Reported, Seen, Arrived
<1>3. /\ c.documentIds = {} /\ c.used = {} /\ c.typeRefs = {} /\ c.filePaths = {}
      /\ c.declared = [key \in Keys |-> {}]
      /\ c.entries = [key \in Keys |-> NoDefinition]
      /\ c.spaceSettings = [field \in SettingFields |-> {}]
  BY Zenon DEF Init, NewComposer
<1>4. FinishIsLast /\ BundleFollowsTheTasks
  BY <1>2 DEF Init, NoOutput, FinishIsLast, BundleFollowsTheTasks
<1>5. DocumentCensus /\ FileCensus /\ EntryCensus /\ SettingsCensus
  BY <1>2, <1>3 DEF DocumentCensus, FileCensus, EntryCensus, SettingsCensus
<1>. QED
  BY <1>1, <1>4, <1>5 DEF Ledger, AggregatesAreTheObservations

LEMMA TypesKept ==
  ASSUME TypeOK, TasksFollowTheirKind, [Next]_vars
  PROVE  TypeOK'
<1>1. CASE \E t \in Tasks : Observe(t) \/ Emit(t)
  BY <1>1, ObserveTyped, EmitTyped
<1>2. CASE DeclareMetadataOnly
  BY <1>2, DeclareTyped
<1>3. CASE Finish
  BY <1>3, FinishTyped
<1>4. CASE Cancel
  BY <1>4 DEF Cancel, TypeOK
<1>5. CASE Stop \/ UNCHANGED vars
  BY <1>5 DEF Stop, vars, TypeOK
<1>6. ASSUME NEW t \in Tasks, FailObject(t)
      PROVE  TypeOK'
  BY <1>6, FailedObject DEF TypeOK
<1>. QED
  BY <1>6, <1>1, <1>2, <1>3, <1>4, <1>5 DEF Next

LEMMA LedgerKept == Ledger /\ [Next]_vars => Ledger'
  BY TypesKept, KindsKept, FinishIsLastKept, BundleKept, DocumentCensusKept,
     FileCensusKept, EntryCensusKept, SettingsCensusKept
     DEF Ledger, AggregatesAreTheObservations

(***************************************************************************)
(* The struct, the tasks and the run are always of their types: every      *)
(* composer method keeps the struct well formed, whatever it observed.     *)
(***************************************************************************)
THEOREM TypeCorrect == Spec => []TypeOK
<1>1. Ledger => TypeOK
  BY DEF Ledger
<1>. QED
  BY <1>1, LedgerStarts, LedgerKept, PTL DEF Spec

(***************************************************************************)
(* At every step of every schedule, each commutative aggregate is the same *)
(* function of the set of observations made so far.                        *)
(***************************************************************************)
THEOREM AggregatesCorrect == Spec => []AggregatesAreTheObservations
<1>1. Ledger => AggregatesAreTheObservations
  BY DEF Ledger
<1>. QED
  BY <1>1, LedgerStarts, LedgerKept, PTL DEF Spec

(***************************************************************************)
(* When Finish returns, every document of the bundle was reported to it.   *)
(***************************************************************************)
THEOREM StraysCorrect == Spec => []StrayDocumentsPublishNothing
<1>1. Ledger => StrayDocumentsPublishNothing
  <2>. SUFFICES ASSUME Ledger, out.status # "none"
                PROVE  docs = Reported
    BY DEF StrayDocumentsPublishNothing
  <2>1. run = "finished" /\ \A t \in Tasks : task[t] # "written"
    BY DEF Ledger, FinishIsLast
  <2>. QED
    BY <2>1 DEF Ledger, BundleFollowsTheTasks, Arrived
<1>. QED
  BY <1>1, LedgerStarts, LedgerKept, PTL DEF Spec

-----------------------------------------------------------------------------
(* What Finish returned stands: nothing happens after it.                  *)

LEMMA NothingFollowsFinish ==
  ASSUME Ledger, [Next]_vars, out.status # "none"
  PROVE  UNCHANGED vars
<1>1. run = "finished" /\ \A t \in Tasks : task[t] \in {"omitted", "done", "failed"}
  BY DEF Ledger, FinishIsLast
<1>2. ASSUME NEW t \in Tasks, Observe(t)
      PROVE  FALSE
  BY <1>1, <1>2, LiftedTask DEF Ledger, ObserveDocument, Starts
<1>3. ASSUME NEW t \in Tasks, Emit(t)
      PROVE  FALSE
  BY <1>1, <1>3 DEF Emit, WriteDocument, FailDocument, ObserveWritten,
                    RefuseWritten, StreamBlob, FailStream, ObserveFileBlob
<1>4. ~DeclareMetadataOnly /\ ~Cancel
  BY <1>1 DEF DeclareMetadataOnly, Cancel
<1>5. ~Finish
  BY <1>1, FinishShape DEF Ledger
<1>6. ASSUME NEW t \in Tasks, FailObject(t)
      PROVE  FALSE
  BY <1>1, <1>6, FailedObject DEF Ledger
<1>. QED
  BY <1>2, <1>3, <1>4, <1>5, <1>6 DEF Next, Stop

(* Only Finish returns anything.                                           *)
LEMMA OnlyFinishReturns ==
  ASSUME Ledger, [Next]_vars, ~Finish
  PROVE  out' = out
<1>1. ASSUME NEW t \in Tasks, Observe(t), ~ObserveDocument(t)
      PROVE  out' = out
  BY <1>1, LiftedTask DEF Ledger
<1>2. ASSUME NEW t \in Tasks, ObserveDocument(t) \/ Emit(t)
      PROVE  out' = out
  BY <1>2 DEF ObserveDocument, Emit, WriteDocument, FailDocument, ObserveWritten,
              RefuseWritten, StreamBlob, FailStream, ObserveFileBlob
<1>3. DeclareMetadataOnly \/ Cancel \/ Stop \/ UNCHANGED vars => out' = out
  BY DEF DeclareMetadataOnly, Cancel, Stop, vars
<1>4. ASSUME NEW t \in Tasks, FailObject(t)
      PROVE  out' = out
  BY <1>4, FailedObject DEF Ledger
<1>. QED
  BY <1>4, <1>1, <1>2, <1>3 DEF Next

LEMMA NothingPublishedAtFirst == Init => ~Published
<1>1. NoOutput.status = "none"
  BY DEF NoOutput
<1>. QED
  BY <1>1 DEF Init, Published

LEMMA IndexMembers ==
  /\ Index.files = ManifestFiles
  /\ Index.widgets = PublishedWidgets
  /\ Index.unresolved = Unresolved
  BY Zenon DEF Index

LEMMA ManifestMembers ==
  /\ ManifestFiles.ids = c.filePaths
  /\ c.filePaths # {} => ManifestFiles.stated
  BY Zenon DEF ManifestFiles

(* What a run that just published has behind it.                           *)
LEMMA JustPublished ==
  ASSUME Ledger, [Next]_vars, ~Published, Published'
  PROVE  /\ FinishBundle
         /\ out'.index = Index /\ out'.dictionary = Dictionary
         /\ c'.index = c.index /\ c'.filePaths = c.filePaths
         /\ c'.metadataOnly = c.metadataOnly
         /\ docs = Reported /\ UNCHANGED <<docs, blobs, task>>
         /\ \A t \in Tasks : task[t] \in {"omitted", "done", "failed"}
<1>1. out.status = "none" /\ Finish
  <2>1. out.status = "none"
    BY NothingFollowsFinish DEF Published, vars
  <2>. QED
    BY <2>1, OnlyFinishReturns DEF Published
<1>2. FinishBundle
  <2>1. CASE FinishConflicting
    BY <2>1, Zenon DEF FinishConflicting, Finishes, Published
  <2>2. CASE FinishEmpty
    BY <2>2, Zenon DEF FinishEmpty, Finishes, Published
  <2>3. CASE Finishes([status |-> "refused", why |-> "metadata only"])
    BY <2>3, Zenon DEF Finishes, Published
  <2>4. CASE Finishes([status |-> "refused", why |-> "index"])
    BY <2>4, Zenon DEF Finishes, Published
  <2>5. CASE Finishes([status |-> "refused", why |-> "dictionary"])
    BY <2>5, Zenon DEF Finishes, Published
  <2>. QED
    BY <1>1, <2>1, <2>2, <2>3, <2>4, <2>5, Zenon DEF Finish, FinishRefused
<1>3. out'.index = Index /\ out'.dictionary = Dictionary
  BY <1>2, Zenon DEF FinishBundle, Finishes
<1>4. c'.index = c.index /\ c'.filePaths = c.filePaths
      /\ c'.metadataOnly = c.metadataOnly
  BY <1>2, Zenon DEF FinishBundle, Ledger, TypeOK, ComposerStructs
<1>5. /\ run = "emitting" /\ UNCHANGED <<docs, blobs, task>>
      /\ \A t \in Tasks : task[t] \in {"omitted", "done", "failed"}
  BY <1>1, FinishShape DEF Ledger
<1>6. docs = Reported
  BY <1>5 DEF Ledger, BundleFollowsTheTasks, Arrived
<1>. QED
  BY <1>2, <1>3, <1>4, <1>5, <1>6

(***************************************************************************)
(* The manifest of a published bundle locates exactly the bytes in it.     *)
(***************************************************************************)
THEOREM ManifestCorrect == Spec => []ManifestMatchesBlobs
<1>1. Init => ManifestMatchesBlobs
  BY NothingPublishedAtFirst DEF ManifestMatchesBlobs
<1>2. Ledger /\ ManifestMatchesBlobs /\ [Next]_vars => ManifestMatchesBlobs'
  <2>. SUFFICES ASSUME Ledger, ManifestMatchesBlobs, [Next]_vars, Published'
                PROVE  ManifestMatchesBlobs'
    BY DEF ManifestMatchesBlobs
  <2>1. CASE Published
    <3>1. UNCHANGED vars
      BY <2>1, NothingFollowsFinish DEF Published
    <3>. QED
      BY <3>1 DEF vars, ManifestMatchesBlobs, Published
  <2>2. CASE ~Published
    <3>1. out'.index.files.ids = c.filePaths
          /\ (c.filePaths # {} => out'.index.files.stated)
      <4>1. out'.index = Index
        BY <2>2, JustPublished
      <4>2. out'.index.files = ManifestFiles
        BY <4>1, IndexMembers
      <4>. QED
        BY <4>2, ManifestMembers
    <3>2. c.filePaths = {Snapshot[t].id : t \in blobs}
      <4>1. \A t \in blobs : task[t] = "done"
        BY <2>2, JustPublished DEF Ledger, BundleFollowsTheTasks, TypeOK
      <4>. QED
        BY <4>1 DEF Ledger, AggregatesAreTheObservations, FileCensus
    <3>3. c'.metadataOnly => blobs' = {}
      <4>1. ~ContradictsMetadataOnly /\ c'.metadataOnly = c.metadataOnly
            /\ blobs' = blobs
        BY <2>2, JustPublished DEF FinishBundle
      <4>. QED
        BY <3>2, <4>1 DEF ContradictsMetadataOnly
    <3>4. /\ out'.index.files.ids = {Snapshot[t].id : t \in blobs}
          /\ blobs # {} => out'.index.files.stated
      BY <3>1, <3>2
    <3>5. blobs' = blobs
      BY <2>2, JustPublished
    <3>. QED
      BY <3>3, <3>4, <3>5 DEF ManifestMatchesBlobs
  <2>. QED
    BY <2>1, <2>2
<1>. QED
  BY <1>1, <1>2, LedgerStarts, LedgerKept, PTL DEF Spec

(***************************************************************************)
(* The dictionary has exactly the entries the bundle references.           *)
(***************************************************************************)
THEOREM EntriesCorrect == Spec => []EntriesAreTheReferencedKeys
<1>1. Init => EntriesAreTheReferencedKeys
  BY NothingPublishedAtFirst DEF EntriesAreTheReferencedKeys
<1>2. Ledger /\ EntriesAreTheReferencedKeys /\ [Next]_vars
        => EntriesAreTheReferencedKeys'
  <2>. SUFFICES ASSUME Ledger, EntriesAreTheReferencedKeys, [Next]_vars, Published'
                PROVE  EntriesAreTheReferencedKeys'
    BY DEF EntriesAreTheReferencedKeys
  <2>1. CASE Published
    <3>1. UNCHANGED vars
      BY <2>1, NothingFollowsFinish DEF Published
    <3>. QED
      BY <3>1 DEF vars, EntriesAreTheReferencedKeys, Published
  <2>2. CASE ~Published
    <3>1. DOMAIN out'.dictionary = UsedKeys
      BY <2>2, JustPublished DEF Dictionary
    <3>2. c.used = UNION {Snapshot[t].used : t \in docs}
      <4>1. out.status = "none"
        BY <2>2, NothingFollowsFinish DEF Published, vars
      <4>. QED
        BY <2>2, <4>1, JustPublished
           DEF Ledger, AggregatesAreTheObservations, DocumentCensus
    <3>3. WidgetProperties(out'.index.widgets) = WidgetProperties(c.index.widgets)
      <4>0. out'.index = Index
        BY <2>2, JustPublished
      <4>1. out'.index.widgets = PublishedWidgets
        BY <4>0, IndexMembers
      <4>2. \A widget : LabelledWidget(widget).properties = widget.properties
        BY Zenon DEF LabelledWidget
      <4>3. DOMAIN PublishedWidgets = DOMAIN c.index.widgets
            /\ \A n \in DOMAIN c.index.widgets :
                 PublishedWidgets[n].properties = c.index.widgets[n].properties
        BY <4>2 DEF PublishedWidgets
      <4>. QED
        BY <4>1, <4>3 DEF WidgetProperties
    <3>4. docs' = docs
      BY <2>2, JustPublished
    <3>5. DOMAIN out'.dictionary =
            (UNION {Snapshot[t].used : t \in docs})
              \cup WidgetProperties(out'.index.widgets)
      BY <3>1, <3>2, <3>3 DEF UsedKeys
    <3>. QED
      BY <3>4, <3>5 DEF EntriesAreTheReferencedKeys
  <2>. QED
    BY <2>1, <2>2
<1>. QED
  BY <1>1, <1>2, LedgerStarts, LedgerKept, PTL DEF Spec

=============================================================================
