---------------------------- MODULE PromiseProofs ----------------------------
(***************************************************************************)
(* The export seen from outside.  The composer under its pool implements   *)
(* ComposerPromise: each of its steps settles one object, publishes, or is *)
(* invisible, and what Finish returns is what the settled objects say.     *)
(* And what it publishes of a plain space, its reader accepts (Export).    *)
(* The last section has one space exported twice (ComposerTwin).           *)
(***************************************************************************)
EXTENDS CompositionProofs, Export, ComposerTwin

-----------------------------------------------------------------------------
(* What the ledger still lacks: each object is settled once.  (What the    *)
(* sidebar, the counters and the flags of the struct say of who was,       *)
(* CompositionProofs has.)                                                 *)

SettledOnce ==
  /\ \A t \in docs : task[t] \notin {"queued", "rendering", "omitted"}
  /\ \A t \in Tasks : task[t] \in {"streaming", "streamed"} => Snapshot[t].file
  /\ \A t \in blobs : Snapshot[t].file

Settlement ==
  /\ Ledger /\ OptionCensus /\ SettledOnce /\ SidebarCensus /\ CounterCensus
  /\ EntriesRead

LEMMA SettledOnceKept ==
  ASSUME TypeOK, SettledOnce, [Next]_vars
  PROVE  SettledOnce'
<1>1. ASSUME NEW t \in Tasks, Observe(t), ~ObserveDocument(t)
      PROVE  SettledOnce'
  BY <1>1, LiftedTask DEF SettledOnce, TypeOK
<1>2. ASSUME NEW t \in Tasks, ObserveDocument(t)
      PROVE  SettledOnce'
  BY <1>2 DEF ObserveDocument, Starts, SettledOnce, TypeOK
<1>3. ASSUME NEW t \in Tasks,
             WriteDocument(t) \/ FailDocument(t) \/ RefuseWritten(t) \/ StreamBlob(t)
               \/ FailStream(t)
      PROVE  SettledOnce'
  BY <1>3 DEF WriteDocument, FailDocument, RefuseWritten, StreamBlob, FailStream,
              SettledOnce, TypeOK
<1>4. ASSUME NEW t \in Tasks, ObserveWritten(t)
      PROVE  SettledOnce'
  BY <1>4 DEF ObserveWritten, SettledOnce, TypeOK
<1>5. ASSUME NEW t \in Tasks, ObserveFileBlob(t)
      PROVE  SettledOnce'
  BY <1>5 DEF ObserveFileBlob, SettledOnce, TypeOK
<1>6. ASSUME DeclareMetadataOnly \/ Finish \/ Cancel \/ Stop \/ UNCHANGED vars
      PROVE  SettledOnce'
  <2>1. docs' = docs /\ task' = task /\ blobs' = blobs
    BY <1>6, FinishShape DEF DeclareMetadataOnly, Cancel, Stop, vars
  <2>. QED
    BY <2>1 DEF SettledOnce
<1>7. ASSUME NEW t \in Tasks, FailObject(t)
      PROVE  SettledOnce'
  BY <1>7, FailedObject DEF SettledOnce, TypeOK
<1>. QED
  BY <1>1, <1>2, <1>3, <1>4, <1>5, <1>6, <1>7 DEF Next, Emit

LEMMA SettlementStarts == Init => Settlement
<1>. SUFFICES ASSUME Init PROVE Settlement
  OBVIOUS
<1>1. Ledger
  BY LedgerStarts
<1>2. /\ c.written = 0 /\ c.observedSpaceSettings = FALSE /\ c.metadataOnly = FALSE
      /\ c.index = [widgets |-> <<>>, autoTargets |-> {}, autoDisabled |-> FALSE]
      /\ c.optionsByKey = [key \in Keys |-> <<>>] /\ c.seenOptions = {}
      /\ c.entries = [key \in Keys |-> NoDefinition]
  BY Zenon DEF Init, NewComposer
<1>3. docs = {} /\ blobs = {} /\ task = [t \in Tasks |-> "queued"]
  BY DEF Init
<1>4. Reported = {} /\ \A kind : Seen(kind) = {}
  BY <1>3 DEF Reported, Seen
<1>5. OptionCensus
  BY <1>2, <1>4 DEF OptionCensus
<1>6. SettledOnce
  BY <1>3 DEF SettledOnce
<1>7. SidebarCensus
  <2>1. StatedWidgets = {}
    BY <1>4 DEF StatedWidgets
  <2>2. c.index.widgets = <<>> /\ c.index.autoTargets = {} /\ c.index.autoDisabled = FALSE
    BY <1>2
  <2>. QED
    BY <1>4, <2>1, <2>2 DEF SidebarCensus
<1>8. CounterCensus
  BY <1>2, <1>4 DEF CounterCensus
<1>9. EntriesRead
  BY <1>2 DEF EntriesRead
<1>. QED
  BY <1>1, <1>5, <1>6, <1>7, <1>8, <1>9 DEF Settlement

LEMMA SettlementKept == Settlement /\ [Next]_vars => Settlement'
  BY LedgerKept, OptionCensusKept, SettledOnceKept, SidebarCensusKept, CounterCensusKept,
     EntriesReadKept
     DEF Settlement, Ledger

-----------------------------------------------------------------------------
(* The struct says what the settled objects say.                           *)

LEMMA PromiseSees == \A kind : Promise!Of(kind) = Seen(kind)
  BY DEF Promise!Of, Lifts, Seen

LEMMA SettingsSay ==
  ASSUME Settlement, NEW field \in SettingFields
  PROVE  Promise!Stated(field) = c.spaceSettings[field]
  BY PromiseSees
     DEF Promise!Stated, Settlement, Ledger, AggregatesAreTheObservations, SettingsCensus

LEMMA SidebarSays ==
  ASSUME Settlement
  PROVE  c.index.widgets \in Promise!Sidebars
<1>1. Promise!StatedSidebars = StatedWidgets
  BY PromiseSees DEF Promise!StatedSidebars, StatedWidgets
<1>. QED
  BY <1>1 DEF Promise!Sidebars, Settlement, SidebarCensus

LEMMA KeysSay ==
  ASSUME Settlement, out.status = "none"
  PROVE  UsedKeys = Promise!Named(c.index.widgets)
<1>1. c.used = UNION {Snapshot[t].used : t \in Reported}
  BY DEF Settlement, Ledger, AggregatesAreTheObservations, DocumentCensus
<1>. QED
  BY <1>1 DEF UsedKeys, WidgetProperties, Promise!Named

LEMMA FilesSay ==
  ASSUME Settlement
  PROVE  c.filePaths = Promise!FileIds
  BY DEF Settlement, Ledger, AggregatesAreTheObservations, FileCensus, Promise!FileIds,
         Blobbed

LEMMA CarriedSay ==
  ASSUME Settlement
  PROVE  c.documentIds = Promise!CarriedIds
  BY DEF Settlement, Ledger, AggregatesAreTheObservations, DocumentCensus, CarriedIds,
         Promise!CarriedIds

(* The ids in the slots of the index, as the struct spells them.           *)
IndexNames ==
  c.spaceSettings["homepage"] \cup KeptIcon
    \cup {c.index.widgets[n].target : n \in DOMAIN c.index.widgets}

LEMMA IndexTargets ==
  {ref.target : ref \in IndexReferences} = {Fold[id] : id \in IndexNames \ Platform}
<1>. DEFINE widgets == c.index.widgets
            home == c.spaceSettings["homepage"]
            ids == home \cup KeptIcon \cup {widgets[n].target : n \in DOMAIN widgets}
<1>1. \A ref : ref \in IndexReferences <=> NamedBy(ref, home, widgets, KeptIcon)
  BY ReferencesNamed DEF IndexReferences
<1>2. ids = IndexNames
  BY DEF IndexNames
<1>. HIDE DEF home, widgets
<1>3. ASSUME NEW ref \in IndexReferences
      PROVE  ref.target \in {Fold[id] : id \in ids \ Platform}
  <2>1. NamedBy(ref, home, widgets, KeptIcon)
    BY <1>1
  <2>2. ASSUME NEW slot, NEW set, NamedIn(ref, slot, set)
        PROVE  \E id \in set : id \notin Platform /\ ref.target = Fold[id]
    BY <2>2 DEF NamedIn
  <2>3. (\E n \in DOMAIN widgets :
           /\ widgets[n].target \notin Platform
           /\ ref = [path |-> <<"widgets", n>>, target |-> Fold[widgets[n].target]])
          => \E n \in DOMAIN widgets : /\ widgets[n].target \notin Platform
                                       /\ ref.target = Fold[widgets[n].target]
    OBVIOUS
  <2>4. \E id \in ids : id \notin Platform /\ ref.target = Fold[id]
    BY <2>1, <2>2, <2>3 DEF NamedBy
  <2>. QED
    BY <2>4
<1>4. ASSUME NEW id \in ids \ Platform
      PROVE  \E ref \in IndexReferences : ref.target = Fold[id]
  <2>1. CASE id \in home
    <3>1. NamedBy([path |-> <<"homepage", 0>>, target |-> Fold[id]], home, widgets, KeptIcon)
      BY <1>4, <2>1 DEF NamedBy, NamedIn
    <3>. QED
      BY <1>1, <3>1
  <2>2. ASSUME NEW n \in DOMAIN widgets, id = widgets[n].target
        PROVE  \E ref \in IndexReferences : ref.target = Fold[id]
    <3>1. NamedBy([path |-> <<"widgets", n>>, target |-> Fold[id]], home, widgets, KeptIcon)
      BY <1>4, <2>2 DEF NamedBy
    <3>. QED
      BY <1>1, <3>1
  <2>3. CASE id \in KeptIcon
    <3>1. NamedBy([path |-> <<"icon", 0>>, target |-> Fold[id]], home, widgets, KeptIcon)
      BY <1>4, <2>3 DEF NamedBy, NamedIn
    <3>. QED
      BY <1>1, <3>1
  <2>. QED
    BY <1>4, <2>1, <2>2, <2>3
<1>5. {ref.target : ref \in IndexReferences} = {Fold[id] : id \in ids \ Platform}
  BY <1>3, <1>4
<1>. QED
  BY <1>2, <1>5

LEMMA TargetsSay ==
  ASSUME Settlement
  PROVE  {ref.target : ref \in IndexReferences} = Promise!Targets(c.index.widgets)
<1>1. /\ Promise!Stated("homepage") = c.spaceSettings["homepage"]
      /\ Promise!Stated("icon") = c.spaceSettings["icon"]
  BY SettingsSay DEF SettingFields
<1>2. KeptIcon = {id \in c.spaceSettings["icon"] :
                    ~(id \in ObjectShaped /\ Store[id] = "deleted")}
  BY DEF KeptIcon, DroppedDeletedIconRef
<1>3. Promise!Targets(c.index.widgets) = {Fold[id] : id \in IndexNames \ Platform}
  BY <1>1, <1>2 DEF Promise!Targets, IndexNames
<1>. QED
  BY <1>3, IndexTargets

LEMMA PromiseCounts == \A S : Promise!Cardinality(S) = Cardinality(S)
  BY Zenon DEF Promise!Cardinality, Cardinality

LEMMA OrphansSay ==
  ASSUME Settlement, NEW key \in Keys
  PROVE  DefinitionOf(key) = NoDefinition <=> Promise!Undefined(key)
<1>1. c.entries[key] # NoDefinition <=> key \in {Snapshot[t].key : t \in Seen("relation")}
  BY DEF Settlement, Ledger, AggregatesAreTheObservations, EntryCensus
<1>2. c.declared[key] = UNION {{d \in Snapshot[t].declares : d.key = key} : t \in Reported}
  BY DEF Settlement, Ledger, AggregatesAreTheObservations, DocumentCensus, DeclaredFor
<1>3. TypeOK
  BY DEF Settlement, Ledger
<1>4. Promise!Undefined(key)
        <=> /\ c.entries[key] = NoDefinition
            /\ key \notin DOMAIN Table \cup DOMAIN Resolver
            /\ Cardinality(c.declared[key]) # 1
  <2>1. Promise!Of("relation") = Seen("relation")
    BY PromiseSees
  <2>2. Promise!Undefined(key)
          <=> /\ key \notin {Snapshot[t].key : t \in Seen("relation")}
              /\ key \notin DOMAIN Table \cup DOMAIN Resolver
              /\ Cardinality(c.declared[key]) # 1
    BY <1>2, <2>1, PromiseCounts DEF Promise!Undefined
  <2>. QED
    BY <1>1, <2>2
<1>5. CASE c.entries[key] # NoDefinition
  BY <1>4, <1>5 DEF DefinitionOf
<1>6. CASE c.entries[key] = NoDefinition /\ key \in DOMAIN Table \cup DOMAIN Resolver
  <2>1. key \in DOMAIN Resolver => ResolvedDefinition(key) \in Definitions
    BY VocabularyAssumption DEF ResolvedDefinition, Definitions, Facts
  <2>2. key \in DOMAIN Table => BundledDefinition(key) \in Definitions
    BY VocabularyAssumption DEF BundledDefinition, Definitions, Facts
  <2>3. DefinitionOf(key) \in {ResolvedDefinition(key), BundledDefinition(key)}
          /\ (key \notin DOMAIN Resolver => DefinitionOf(key) = BundledDefinition(key))
          /\ (key \in DOMAIN Resolver => DefinitionOf(key) = ResolvedDefinition(key))
    BY <1>6 DEF DefinitionOf
  <2>. QED
    BY <1>4, <1>6, <2>1, <2>2, <2>3, SnapshotAssumption
<1>7. CASE c.entries[key] = NoDefinition /\ key \notin DOMAIN Table \cup DOMAIN Resolver
  BY <1>3, <1>4, <1>7, DeclarationsDecide
<1>. QED
  BY <1>5, <1>6, <1>7

(* A definition the dictionary cannot state comes from a source that       *)
(* raised the doubt.                                                       *)
LEMMA DoubtIsRaised ==
  ASSUME Settlement, NEW key \in Keys, DefinitionOf(key) # NoDefinition,
         Unstatable(DefinitionOf(key))
  PROVE  Promise!Doubtful(key)
<1>1. CASE c.entries[key] # NoDefinition
  <2>1. PICK t \in Seen("relation") :
          Snapshot[t].key = key /\ c.entries[key] = StoredDefinition(Snapshot[t])
    BY <1>1 DEF Settlement, EntriesRead
  <2>2. DefinitionOf(key) = StoredDefinition(Snapshot[t])
    BY <1>1, <2>1 DEF DefinitionOf
  <2>3. /\ DefinitionOf(key).format = Snapshot[t].format
        /\ DefinitionOf(key).targets = Snapshot[t].targets
    BY <2>2 DEF StoredDefinition
  <2>4. Promise!Unstatable(Snapshot[t])
    BY <2>3 DEF Unstatable, Promise!Unstatable
  <2>. QED
    BY <2>1, <2>4, PromiseSees DEF Promise!Doubtful
<1>2. CASE c.entries[key] = NoDefinition /\ key \in DOMAIN Resolver
  <2>1. DefinitionOf(key) = ResolvedDefinition(key)
    BY <1>2 DEF DefinitionOf
  <2>2. /\ DefinitionOf(key).format = Resolver[key].format
        /\ DefinitionOf(key).targets = Resolver[key].targets
    BY <2>1 DEF ResolvedDefinition
  <2>. QED
    BY <1>2, <2>2 DEF Unstatable, Promise!Unstatable, Promise!Doubtful
<1>3. CASE c.entries[key] = NoDefinition /\ key \in DOMAIN Table \ DOMAIN Resolver
  <2>1. DefinitionOf(key) = BundledDefinition(key)
    BY <1>3 DEF DefinitionOf
  <2>2. /\ DefinitionOf(key).format = Table[key].format
        /\ DefinitionOf(key).targets = Table[key].targets
    BY <2>1 DEF BundledDefinition
  <2>. QED
    BY <1>3, <2>2 DEF Unstatable, Promise!Unstatable, Promise!Doubtful
<1>4. CASE c.entries[key] = NoDefinition /\ key \notin DOMAIN Resolver \cup DOMAIN Table
  <2>1. Undisputed(key) /\ DefinitionOf(key) = DeclaredDefinition(key)
    BY <1>4 DEF DefinitionOf
  <2>2. PICK d \in c.declared[key] : d = (CHOOSE e \in c.declared[key] : TRUE)
    <3>1. c.declared[key] # {}
      <4>. SUFFICES ASSUME c.declared[key] = {} PROVE FALSE
        OBVIOUS
      <4>. QED
        BY <2>1, FS_EmptySet DEF Undisputed
    <3>. QED
      BY <3>1
  <2>3. DefinitionOf(key).format = d.format /\ DefinitionOf(key).targets = {}
    BY <2>1, <2>2 DEF DeclaredDefinition
  <2>4. PICK t \in Reported : d \in Snapshot[t].declares /\ d.key = key
    BY DEF Settlement, Ledger, AggregatesAreTheObservations, DocumentCensus, DeclaredFor
  <2>. QED
    BY <2>3, <2>4 DEF Unstatable, Promise!Doubtful
<1>. QED
  BY <1>1, <1>2, <1>3, <1>4

(* A dictionary is refused for a key that cannot be written, or for a      *)
(* doubtful definition.                                                    *)
LEMMA DictionarySays ==
  ASSUME Settlement, out.status = "none"
  PROVE  /\ Promise!Named(c.index.widgets) \cap UnwritableKeys # {} => UnwritableDictionary
         /\ UnwritableDictionary =>
              \/ Promise!Named(c.index.widgets) \cap UnwritableKeys # {}
              \/ \E key \in Promise!Named(c.index.widgets) : Promise!Doubtful(key)
<1>1. UsedKeys = Promise!Named(c.index.widgets)
  BY KeysSay
<1>2. UsedKeys \subseteq Keys
  BY UsedKeysTyped DEF Settlement, Ledger
<1>3. \A key \in UsedKeys \ Orphans :
        Unstatable(DefinitionOf(key)) => Promise!Doubtful(key)
  BY <1>2, DoubtIsRaised DEF Orphans
<1>. QED
  BY <1>1, <1>3 DEF UnwritableDictionary

(* A bundle has something to say exactly when a settled object has.        *)
LEMMA VoiceIsHeard ==
  ASSUME Settlement, out.status = "none", HasSemanticState
  PROVE  ~Promise!Silent
<1>. SUFFICES ASSUME Promise!Silent PROVE FALSE
  OBVIOUS
<1>1. Reported = {} /\ \A t \in Lifts : Promise!StatesNothing(Snapshot[t])
  BY DEF Promise!Silent
<1>2. \A kind : Seen(kind) \subseteq Lifts /\ \A t \in Seen(kind) : Snapshot[t].kind = kind
  BY DEF Seen, Lifts
<1>3. c.written = 0
  BY <1>1 DEF Settlement, CounterCensus
<1>4. ASSUME NEW t \in Seen("space")
      PROVE  SpaceName = NoName /\ \A field \in SettingFields : Snapshot[t][field] = {}
  BY <1>1, <1>2 DEF Promise!StatesNothing
<1>5. ~(c.observedSpaceSettings /\ SpaceName # NoName)
  BY <1>4 DEF Settlement, CounterCensus
<1>6. \A field \in SettingFields : c.spaceSettings[field] = {}
  BY <1>4 DEF Settlement, Ledger, AggregatesAreTheObservations, SettingsCensus
<1>7. \A key \in Keys : c.entries[key] = NoDefinition
  <2>1. ASSUME NEW t \in Seen("relation") PROVE Snapshot[t].key = NoKey
    BY <1>1, <1>2 DEF Promise!StatesNothing
  <2>. QED
    BY <2>1, SnapshotAssumption DEF Settlement, Ledger, AggregatesAreTheObservations, EntryCensus
<1>8. \A key \in Keys : c.optionsByKey[key] = <<>>
  <2>1. ASSUME NEW t \in Seen("option") PROVE ~Liftable(t)
    BY <1>1, <1>2 DEF Promise!StatesNothing, Liftable
  <2>. QED
    BY <2>1 DEF Settlement, OptionCensus
<1>9. ASSUME NEW t \in Seen("widget")
      PROVE  /\ Snapshot[t].widgets = <<>> /\ Snapshot[t].autoTargets = {}
             /\ ~Snapshot[t].autoDisabled
  BY <1>1, <1>2 DEF Promise!StatesNothing
<1>10. /\ c.index.widgets = <<>> /\ c.index.autoTargets = {} /\ ~c.index.autoDisabled
  BY <1>9 DEF Settlement, SidebarCensus, StatedWidgets
<1>11. UsedKeys = {}
  <2>1. c.used = {}
    BY <1>1 DEF Settlement, Ledger, AggregatesAreTheObservations, DocumentCensus
  <2>2. WidgetProperties(c.index.widgets) = {}
    BY <1>10 DEF WidgetProperties
  <2>. QED
    BY <2>1, <2>2 DEF UsedKeys
<1>12. c.filePaths = {}
  <2>1. \A t \in blobs : task[t] = "done" => t \in Reported
    BY DEF Settlement, Ledger, TypeOK, TasksFollowTheirKind, Reported
  <2>. QED
    BY <1>1, <2>1 DEF Settlement, Ledger, AggregatesAreTheObservations, FileCensus
<1>13. c.index = NewComposer.index
  <2>1. NewComposer.index = [widgets |-> <<>>, autoTargets |-> {}, autoDisabled |-> FALSE]
    BY Zenon DEF NewComposer
  <2>2. c.index \in Sidebars
    BY DEF Settlement, Ledger, TypeOK, ComposerStructs
  <2>. QED
    BY <1>10, <2>1, <2>2 DEF Sidebars
<1>. QED
  BY <1>3, <1>5, <1>6, <1>7, <1>8, <1>11, <1>12, <1>13 DEF HasSemanticState

LEMMA SilenceIsHeard ==
  ASSUME Settlement, out.status = "none", ~HasSemanticState
  PROVE  Promise!Silent
<1>1. Reported = {}
  BY DEF HasSemanticState, Settlement, CounterCensus
<1>2. ASSUME NEW t \in Lifts
      PROVE  Promise!StatesNothing(Snapshot[t])
  <2>. DEFINE s == Snapshot[t]
  <2>1. t \in Tasks /\ s.kind # "document" /\ t \in Seen(s.kind)
    BY <1>2 DEF Lifts, Seen, Settlement, Ledger, TasksFollowTheirKind
  <2>2. s \in SnapshotShapes
    BY <2>1, SnapshotAssumption
  <2>3. CASE s \in RelationSnapshots
    <3>1. s.kind = "relation" /\ s.key \in Keys \cup {NoKey}
      BY <2>3 DEF RelationSnapshots
    <3>2. s.key \notin Keys
      BY <2>1, <3>1
         DEF HasSemanticState, Settlement, Ledger, AggregatesAreTheObservations, EntryCensus
    <3>. QED
      BY <3>1, <3>2 DEF Promise!StatesNothing
  <2>4. CASE s \in OptionSnapshots
    <3>1. s.kind = "option" /\ s.owner \in Keys \cup {NoKey}
      BY <2>4 DEF OptionSnapshots
    <3>2. ~Liftable(t)
      BY <2>1, <3>1 DEF HasSemanticState, Settlement, OptionCensus, Liftable
    <3>. QED
      BY <3>1, <3>2 DEF Promise!StatesNothing, Liftable
  <2>5. CASE s \in SpaceSnapshots
    <3>1. s.kind = "space"
      BY <2>5 DEF SpaceSnapshots
    <3>2. SpaceName = NoName
      BY <2>1, <3>1 DEF HasSemanticState, Settlement, CounterCensus
    <3>3. \A field \in SettingFields : s[field] \subseteq c.spaceSettings[field]
      BY <2>1, <3>1 DEF Settlement, Ledger, AggregatesAreTheObservations, SettingsCensus
    <3>4. \A field \in SettingFields : s[field] = {}
      BY <3>3 DEF HasSemanticState
    <3>. QED
      BY <3>1, <3>2, <3>4 DEF Promise!StatesNothing
  <2>6. CASE s \in WidgetSnapshots
    <3>1. s.kind = "widget"
      BY <2>6 DEF WidgetSnapshots
    <3>2. c.index.widgets = <<>> /\ c.index.autoTargets = {} /\ c.index.autoDisabled = FALSE
      <4>1. c.index = [widgets |-> <<>>, autoTargets |-> {}, autoDisabled |-> FALSE]
        BY Zenon DEF HasSemanticState, NewComposer
      <4>. QED
        BY <4>1
    <3>3. s.widgets = <<>>
      <4>. SUFFICES ASSUME s.widgets # <<>> PROVE FALSE
        OBVIOUS
      <4>1. s.widgets \in StatedWidgets
        BY <2>1, <3>1 DEF StatedWidgets
      <4>2. c.index.widgets \in StatedWidgets
        BY <4>1 DEF Settlement, SidebarCensus
      <4>. QED
        BY <3>2, <4>2 DEF StatedWidgets
    <3>4. s.autoTargets = {} /\ ~s.autoDisabled
      BY <2>1, <3>1, <3>2 DEF Settlement, SidebarCensus
    <3>. QED
      BY <3>1, <3>3, <3>4 DEF Promise!StatesNothing
  <2>7. CASE s \in SystemSnapshots
    BY <2>7 DEF SystemSnapshots, Promise!StatesNothing
  <2>8. s \notin DocumentSnapshots
    BY <2>1 DEF DocumentSnapshots
  <2>. QED
    BY <2>2, <2>3, <2>4, <2>5, <2>6, <2>7, <2>8 DEF SnapshotShapes
<1>. QED
  BY <1>1, <1>2 DEF Promise!Silent

-----------------------------------------------------------------------------
(* What Finish returns is the verdict on the settled objects.              *)

LEMMA RefusalsSay ==
  ASSUME Settlement, MetadataOnly => c.metadataOnly
  PROVE  /\ ConflictingSettings # {} <=> Promise!Disagreeing
         /\ ContradictsMetadataOnly <=> MetadataOnly /\ Promise!FileIds # {}
         /\ UnreadableIndex
              <=> \E id \in Promise!Stated("homepage") : Fold[id] \in Platform \ ReservedHome
<1>1. ConflictingSettings # {} <=> Promise!Disagreeing
  BY SettingsSay, PromiseCounts DEF ConflictingSettings, Promise!Disagreeing
<1>2. c.metadataOnly <=> MetadataOnly
  BY DEF Settlement, CounterCensus
<1>3. ContradictsMetadataOnly <=> MetadataOnly /\ Promise!FileIds # {}
  BY <1>2, FilesSay DEF ContradictsMetadataOnly
<1>4. Promise!Stated("homepage") = c.spaceSettings["homepage"]
  BY SettingsSay DEF SettingFields
<1>. QED
  BY <1>1, <1>3, <1>4 DEF UnreadableIndex

LEMMA FinishMembers ==
  /\ Index.unresolved.properties = Orphans
  /\ Index.unresolved.targets = UnresolvedTargets
  /\ Index.files.ids = c.filePaths
<1>1. Unresolved.properties = Orphans /\ Unresolved.targets = UnresolvedTargets
  BY Zenon DEF Unresolved
<1>. QED
  BY <1>1, IndexMembers, ManifestMembers

LEMMA FinishSaysTheVerdict ==
  ASSUME Settlement, Finish
  PROVE  PublishedVerdict' \in Promise!Verdicts(c.index.widgets)
<1>. DEFINE bundle == [status |-> "bundle",
                       keys |-> Promise!Named(c.index.widgets),
                       undefined |-> {key \in Promise!Named(c.index.widgets) :
                                        Promise!Undefined(key)},
                       missing |-> Promise!Targets(c.index.widgets) \ Promise!CarriedIds,
                       files |-> Promise!FileIds]
<1>1. TypeOK /\ out.status = "none" /\ (MetadataOnly => c.metadataOnly)
  <2>1. TypeOK /\ FinishIsLast
    BY DEF Settlement, Ledger
  <2>2. run = "emitting"
    BY <2>1, FinishShape
  <2>3. MetadataOnly => c.metadataOnly
    BY DEF Finish, FinishConflicting, FinishEmpty, FinishRefused, FinishBundle, Finishes
  <2>. QED
    BY <2>1, <2>2, <2>3 DEF FinishIsLast
<1>2. HasSemanticState <=> ~Promise!Silent
  BY <1>1, VoiceIsHeard, SilenceIsHeard
<1>. SUFFICES \/ PublishedVerdict' = Promise!Verdict(c.index.widgets)
               \/ /\ PublishedVerdict' = [status |-> "refused", why |-> "dictionary"]
                  /\ ~Promise!Disagreeing /\ ~Promise!Silent
                  /\ \E key \in Promise!Named(c.index.widgets) : Promise!Doubtful(key)
  BY DEF Promise!Verdicts
<1>3. CASE FinishConflicting
  <2>1. out' = [status |-> "refused", why |-> "space settings"]
    BY <1>3, Zenon DEF FinishConflicting, Finishes
  <2>2. Promise!Verdict(c.index.widgets) = [status |-> "refused", why |-> "space settings"]
    BY <1>1, <1>3, RefusalsSay DEF FinishConflicting, Promise!Verdict
  <2>. QED
    BY <2>1, <2>2 DEF PublishedVerdict, Published
<1>4. CASE FinishEmpty
  <2>1. out' = [status |-> "empty"]
    BY <1>4, Zenon DEF FinishEmpty, Finishes
  <2>2. Promise!Verdict(c.index.widgets) = [status |-> "empty"]
    BY <1>1, <1>2, <1>4, RefusalsSay DEF FinishEmpty, Promise!Verdict
  <2>. QED
    BY <2>1, <2>2 DEF PublishedVerdict, Published
<1>5. CASE FinishRefused
  <2>1. ConflictingSettings = {} /\ ~Promise!Silent
    BY <1>2, <1>5 DEF FinishRefused
  <2>2. CASE /\ ~UnwritableDictionary /\ ContradictsMetadataOnly
             /\ Finishes([status |-> "refused", why |-> "metadata only"])
    <3>1. out' = [status |-> "refused", why |-> "metadata only"]
      BY <2>2, Zenon DEF Finishes
    <3>2. Promise!Verdict(c.index.widgets) = [status |-> "refused", why |-> "metadata only"]
      BY <1>1, <2>1, <2>2, RefusalsSay, DictionarySays DEF Promise!Verdict
    <3>. QED
      BY <3>1, <3>2 DEF PublishedVerdict, Published
  <2>3. CASE /\ ~UnwritableDictionary /\ ~ContradictsMetadataOnly /\ UnreadableIndex
             /\ Finishes([status |-> "refused", why |-> "index"])
    <3>1. out' = [status |-> "refused", why |-> "index"]
      BY <2>3, Zenon DEF Finishes
    <3>2. Promise!Verdict(c.index.widgets) = [status |-> "refused", why |-> "index"]
      BY <1>1, <2>1, <2>3, RefusalsSay, DictionarySays DEF Promise!Verdict
    <3>. QED
      BY <3>1, <3>2 DEF PublishedVerdict, Published
  <2>4. CASE /\ UnwritableDictionary
             /\ Finishes([status |-> "refused", why |-> "dictionary"])
    <3>1. out' = [status |-> "refused", why |-> "dictionary"]
      BY <2>4, Zenon DEF Finishes
    <3>2. PublishedVerdict' = [status |-> "refused", why |-> "dictionary"]
      BY <3>1 DEF PublishedVerdict, Published
    <3>3. CASE Promise!Named(c.index.widgets) \cap UnwritableKeys # {}
      <4>1. Promise!Verdict(c.index.widgets) = [status |-> "refused", why |-> "dictionary"]
        BY <1>1, <2>1, <3>3, RefusalsSay DEF Promise!Verdict
      <4>. QED
        BY <3>2, <4>1
    <3>4. CASE \E key \in Promise!Named(c.index.widgets) : Promise!Doubtful(key)
      <4>1. ~Promise!Disagreeing
        BY <1>1, <2>1, RefusalsSay
      <4>. QED
        BY <2>1, <3>2, <3>4, <4>1
    <3>. QED
      BY <1>1, <2>4, <3>3, <3>4, DictionarySays
  <2>. QED
    BY <1>5, <2>2, <2>3, <2>4 DEF FinishRefused
<1>6. CASE FinishBundle
  <2>1. out'.status = "bundle" /\ out'.index = Index /\ out'.dictionary = Dictionary
    BY <1>6, Zenon DEF FinishBundle, Finishes
  <2>2. Promise!Verdict(c.index.widgets) = bundle
    BY <1>1, <1>2, <1>6, RefusalsSay, DictionarySays DEF FinishBundle, Promise!Verdict
  <2>3. DOMAIN Dictionary = Promise!Named(c.index.widgets)
    BY <1>1, KeysSay DEF Dictionary
  <2>4. Orphans = {key \in Promise!Named(c.index.widgets) : Promise!Undefined(key)}
    <3>1. UsedKeys \subseteq Keys
      BY <1>1, UsedKeysTyped
    <3>. QED
      BY <1>1, <3>1, KeysSay, OrphansSay DEF Orphans
  <2>5. UnresolvedTargets = Promise!Targets(c.index.widgets) \ Promise!CarriedIds
    BY TargetsSay, CarriedSay DEF UnresolvedTargets
  <2>6. PublishedVerdict' = [status |-> "bundle", keys |-> DOMAIN Dictionary,
                            undefined |-> Orphans, missing |-> UnresolvedTargets,
                            files |-> c.filePaths]
    BY <2>1, FinishMembers, Zenon DEF PublishedVerdict, Published
  <2>. QED
    BY <2>2, <2>3, <2>4, <2>5, <2>6, FilesSay
<1>. QED
  BY <1>3, <1>4, <1>5, <1>6 DEF Finish

-----------------------------------------------------------------------------
(* Each step settles one object, publishes, or is not seen.                *)

(* No step of a task publishes, and none is taken after the publication.   *)
LEMMA TasksRunUnpublished ==
  ASSUME Settlement, NEW t \in Tasks, task[t] \notin {"omitted", "done", "failed"}
  PROVE  Promise!Unpublished
<1>1. out.status = "none"
  BY DEF Settlement, Ledger, FinishIsLast
<1>. QED
  BY <1>1 DEF Promise!Unpublished, PublishedVerdict, Published

LEMMA StepsKeepThePromise ==
  ASSUME Settlement, [Next]_vars
  PROVE  [Promise!Next]_(Promise!promise)
<1>. DEFINE unseen == /\ docs' = docs /\ blobs' = blobs /\ Reported' = Reported
                      /\ Blobbed' = Blobbed /\ Lifts' = Lifts /\ out' = out
<1>1. unseen => UNCHANGED Promise!promise
  BY DEF Promise!promise, PublishedVerdict, Published
<1>2. /\ TypeOK /\ TasksFollowTheirKind /\ FinishIsLast /\ BundleFollowsTheTasks
      /\ SettledOnce
  BY DEF Settlement, Ledger
<1>3. out' = out => PublishedVerdict' = PublishedVerdict
  BY DEF PublishedVerdict, Published
<1>4. ASSUME NEW t \in Tasks, Observe(t), ~ObserveDocument(t)
      PROVE  Promise!Lift(t)
  <2>1. /\ task[t] = "queued" /\ Snapshot[t].kind # "document"
        /\ task' = [task EXCEPT ![t] = "omitted"] /\ UNCHANGED <<docs, blobs, out>>
    BY <1>2, <1>4, LiftedTask
  <2>2. /\ t \notin Lifts /\ Lifts' = Lifts \cup {t}
        /\ Reported' = Reported /\ Blobbed' = Blobbed
    BY <1>2, <2>1 DEF Lifts, Reported, Blobbed, TypeOK
  <2>3. Promise!Unpublished
    BY <2>1, TasksRunUnpublished
  <2>. QED
    BY <1>3, <2>1, <2>2, <2>3 DEF Promise!Lift
<1>5. ASSUME NEW t \in Tasks,
             ObserveDocument(t) \/ FailDocument(t) \/ RefuseWritten(t) \/ FailStream(t)
               \/ FailObject(t)
      PROVE  unseen
  BY <1>2, <1>5 DEF ObserveDocument, FailDocument, RefuseWritten, FailStream, FailObject,
       Starts, Reported, Blobbed, Lifts, TypeOK, TasksFollowTheirKind, BundleFollowsTheTasks
<1>6. ASSUME NEW t \in Tasks, WriteDocument(t)
      PROVE  Promise!Write(t)
  <2>1. /\ task[t] = "rendering" /\ task' = [task EXCEPT ![t] = "written"]
        /\ docs' = docs \cup {t} /\ UNCHANGED <<blobs, out>>
    BY <1>6 DEF WriteDocument
  <2>2. Lifts' = Lifts /\ Reported' = Reported /\ Blobbed' = Blobbed
    BY <1>2, <2>1 DEF Lifts, Reported, Blobbed, TypeOK
  <2>3. t \notin docs /\ Snapshot[t].kind = "document"
    BY <1>2, <2>1 DEF SettledOnce, TasksFollowTheirKind
  <2>4. Promise!Unpublished
    BY <2>1, TasksRunUnpublished
  <2>. QED
    BY <1>3, <2>1, <2>2, <2>3, <2>4 DEF Promise!Write
<1>7. ASSUME NEW t \in Tasks, ObserveWritten(t)
      PROVE  Promise!Carry(t)
  <2>1. /\ task[t] = "written" /\ UNCHANGED <<docs, blobs, out>>
        /\ task' = [task EXCEPT ![t] = "streaming"] \/ task' = [task EXCEPT ![t] = "done"]
    BY <1>7 DEF ObserveWritten
  <2>2. t \in docs \ Reported
    BY <1>2, <2>1 DEF BundleFollowsTheTasks, Arrived, Reported
  <2>3. Lifts' = Lifts /\ Blobbed' = Blobbed
    BY <1>2, <2>1 DEF Lifts, Blobbed, TypeOK, BundleFollowsTheTasks
  <2>4. Reported' = Reported \cup {t}
    BY <1>2, <1>7, EmittedSets DEF Emit
  <2>5. Promise!Unpublished
    BY <2>1, TasksRunUnpublished
  <2>. QED
    BY <1>3, <2>1, <2>2, <2>3, <2>4, <2>5 DEF Promise!Carry
<1>8. ASSUME NEW t \in Tasks, StreamBlob(t)
      PROVE  Promise!Stream(t)
  <2>1. /\ task[t] = "streaming" /\ task' = [task EXCEPT ![t] = "streamed"]
        /\ blobs' = blobs \cup {t} /\ UNCHANGED <<docs, out>>
    BY <1>8 DEF StreamBlob
  <2>2. Lifts' = Lifts /\ Reported' = Reported /\ Blobbed' = Blobbed
    BY <1>2, <2>1 DEF Lifts, Reported, Blobbed, TypeOK
  <2>3. t \in Reported \ blobs /\ Snapshot[t].file
    BY <1>2, <2>1 DEF SettledOnce, TasksFollowTheirKind, BundleFollowsTheTasks, Reported
  <2>4. Promise!Unpublished
    BY <2>1, TasksRunUnpublished
  <2>. QED
    BY <1>3, <2>1, <2>2, <2>3, <2>4 DEF Promise!Stream
<1>9. ASSUME NEW t \in Tasks, ObserveFileBlob(t)
      PROVE  Promise!StoreBlob(t)
  <2>1. /\ task[t] = "streamed" /\ task' = [task EXCEPT ![t] = "done"]
        /\ UNCHANGED <<docs, blobs, out>>
    BY <1>9 DEF ObserveFileBlob
  <2>2. t \in blobs \ Blobbed
    BY <1>2, <2>1 DEF BundleFollowsTheTasks, Blobbed
  <2>3. Lifts' = Lifts /\ Reported' = Reported /\ Blobbed' = Blobbed \cup {t}
    BY <1>2, <2>1, <2>2 DEF Lifts, Reported, Blobbed, TypeOK
  <2>4. Promise!Unpublished
    BY <2>1, TasksRunUnpublished
  <2>. QED
    BY <1>3, <2>1, <2>2, <2>3, <2>4 DEF Promise!StoreBlob
<1>10. CASE Finish
  <2>1. /\ run = "emitting" /\ UNCHANGED <<task, docs, blobs>>
        /\ \A t \in Tasks : task[t] \in {"omitted", "done", "failed"}
    BY <1>2, <1>10, FinishShape
  <2>2. docs = Reported /\ blobs = Blobbed
    BY <1>2, <2>1 DEF BundleFollowsTheTasks, Arrived, Blobbed, TypeOK
  <2>3. Lifts' = Lifts /\ Reported' = Reported /\ Blobbed' = Blobbed
    BY <2>1 DEF Lifts, Reported, Blobbed
  <2>4. Promise!Unpublished
    BY <1>2, <2>1 DEF FinishIsLast, Promise!Unpublished, PublishedVerdict, Published
  <2>5. \E sidebar \in Promise!Sidebars : PublishedVerdict' \in Promise!Verdicts(sidebar)
    BY <1>10, SidebarSays, FinishSaysTheVerdict
  <2>6. Promise!Publish
    BY <2>1, <2>2, <2>3, <2>4, <2>5 DEF Promise!Publish
  <2>. QED
    BY <2>6 DEF Promise!Next
<1>11. CASE DeclareMetadataOnly \/ Cancel \/ Stop \/ UNCHANGED vars
  <2>1. UNCHANGED <<task, docs, blobs, out>>
    BY <1>11 DEF DeclareMetadataOnly, Cancel, Stop, vars
  <2>. QED
    BY <1>1, <2>1 DEF Lifts, Reported, Blobbed
<1>. HIDE DEF unseen
<1>12. ASSUME NEW t \in Tasks, FailObject(t) \/ Observe(t) \/ Emit(t)
       PROVE  [Promise!Next]_(Promise!promise)
  <2>1. \/ Promise!Lift(t) \/ Promise!Write(t) \/ Promise!Carry(t)
        \/ Promise!Stream(t) \/ Promise!StoreBlob(t) \/ unseen
    BY <1>4, <1>5, <1>6, <1>7, <1>8, <1>9, <1>12 DEF Emit
  <2>. QED
    BY <1>1, <2>1 DEF Promise!Next
<1>. QED
  BY <1>10, <1>11, <1>12 DEF Next

(***************************************************************************)
(* The composer under its pool implements the abstract export, for every   *)
(* space, pool, schedule and failure.                                      *)
(***************************************************************************)
THEOREM PromiseCorrect == Spec => PromiseKept
<1>1. Init => Promise!Init
  <2>. SUFFICES ASSUME Init PROVE Promise!Init
    OBVIOUS
  <2>1. docs = {} /\ blobs = {} /\ out = NoOutput /\ task = [t \in Tasks |-> "queued"]
    BY DEF Init
  <2>. QED
    BY <2>1 DEF Promise!Init, Reported, Blobbed, Lifts, PublishedVerdict, Published, NoOutput
<1>2. Settlement /\ [Next]_vars => [Promise!Next]_(Promise!promise)
  BY StepsKeepThePromise
<1>. QED
  BY <1>1, <1>2, SettlementStarts, SettlementKept, PTL DEF Spec, PromiseKept, Promise!Spec

-----------------------------------------------------------------------------
(* The reader.                                                             *)

(* The slots of the index come from the space's own objects.               *)
LEMMA SpaceNames ==
  ASSUME Settlement
  PROVE  /\ c.spaceSettings["homepage"] \subseteq HomepageIds
         /\ KeptIcon \subseteq IconIds
         /\ \A n \in DOMAIN c.index.widgets : c.index.widgets[n].target \in WidgetIds
         /\ IndexNames \subseteq HomepageIds \cup IconIds \cup WidgetIds
<1>1. /\ c.spaceSettings["homepage"] = UNION {Snapshot[t]["homepage"] : t \in Seen("space")}
      /\ c.spaceSettings["icon"] = UNION {Snapshot[t]["icon"] : t \in Seen("space")}
  BY DEF Settlement, Ledger, AggregatesAreTheObservations, SettingsCensus, SettingFields
<1>2. c.spaceSettings["homepage"] \subseteq HomepageIds
  BY <1>1 DEF HomepageIds, Objects, Seen
<1>3. KeptIcon \subseteq IconIds
  BY <1>1 DEF KeptIcon, IconIds, Objects, Seen
<1>4. \A n \in DOMAIN c.index.widgets : c.index.widgets[n].target \in WidgetIds
  <2>1. CASE c.index.widgets = <<>>
    BY <2>1
  <2>2. CASE c.index.widgets # <<>>
    <3>1. PICK t \in Seen("widget") : c.index.widgets = Snapshot[t].widgets
      BY <2>2 DEF Settlement, SidebarCensus, StatedWidgets
    <3>2. t \in Objects("widget")
      BY DEF Seen, Objects
    <3>. QED
      BY <3>1, <3>2 DEF WidgetIds
  <2>. QED
    BY <2>1, <2>2
<1>. QED
  BY <1>2, <1>3, <1>4 DEF IndexNames

(***************************************************************************)
(* What the reader's rules read of a published bundle, beside what the     *)
(* composer's own properties say of it.                                    *)
(***************************************************************************)
IndexStands ==
  Published =>
    /\ docs \subseteq Objects("document") /\ blobs \subseteq docs
    /\ \A t \in blobs : Snapshot[t].file
    /\ out.index.entrypoint = {}
    /\ out.index.homepage \cap Platform \subseteq ReservedHome
    /\ out.index.icon \cap Platform = {}
    /\ \A n \in DOMAIN out.index.widgets :
         out.index.widgets[n].target \in Platform => out.index.widgets[n].target \in Listings
    /\ NamedByIndex(out.index) \cap Platform = {}
    /\ out.index.unresolved.targets = NamedByIndex(out.index) \ Carried
    /\ out.index.unresolved.deleted =
         {id \in out.index.unresolved.targets : ClassifyUnresolvedTarget(id) = "deleted"}
    /\ out.index.unresolved.omitted =
         {id \in out.index.unresolved.targets : ClassifyUnresolvedTarget(id) = "live"}

LEMMA IndexSpelled ==
  /\ Index.entrypoint = {}
  /\ Index.homepage = {Fold[id] : id \in c.spaceSettings["homepage"]}
  /\ Index.icon = {Fold[id] : id \in KeptIcon}
  /\ Index.widgets = PublishedWidgets
  /\ Index.unresolved.targets = UnresolvedTargets
  /\ Index.unresolved.deleted =
       {id \in UnresolvedTargets : ClassifyUnresolvedTarget(id) = "deleted"}
  /\ Index.unresolved.omitted =
       {id \in UnresolvedTargets : ClassifyUnresolvedTarget(id) = "live"}
<1>1. /\ Unresolved.targets = UnresolvedTargets
      /\ Unresolved.deleted =
           {id \in UnresolvedTargets : ClassifyUnresolvedTarget(id) = "deleted"}
      /\ Unresolved.omitted =
           {id \in UnresolvedTargets : ClassifyUnresolvedTarget(id) = "live"}
  BY Zenon DEF Unresolved
<1>2. /\ Index.entrypoint = {}
      /\ Index.homepage = {Fold[id] : id \in c.spaceSettings["homepage"]}
      /\ Index.icon = {Fold[id] : id \in KeptIcon}
      /\ Index.widgets = PublishedWidgets
      /\ Index.unresolved = Unresolved
  BY Zenon DEF Index
<1>. QED
  BY <1>1, <1>2, Zenon

LEMMA WidgetsSpelled ==
  /\ DOMAIN PublishedWidgets = DOMAIN c.index.widgets
  /\ \A n \in DOMAIN c.index.widgets :
       PublishedWidgets[n].target = Fold[c.index.widgets[n].target]
  BY DEF PublishedWidgets, LabelledWidget

(* In a plain space the index names what it says it names.                 *)
LEMMA PlainIndex ==
  ASSUME PlainSlots, Settlement, ~UnreadableIndex
  PROVE  /\ Index.homepage \cap Platform \subseteq ReservedHome
         /\ Index.icon \cap Platform = {}
         /\ \A n \in DOMAIN Index.widgets :
              Index.widgets[n].target \in Platform => Index.widgets[n].target \in Listings
         /\ NamedByIndex(Index) = {Fold[id] : id \in IndexNames \ Platform}
         /\ NamedByIndex(Index) \cap Platform = {}
<1>. DEFINE home == c.spaceSettings["homepage"]
            shown == {c.index.widgets[n].target : n \in DOMAIN c.index.widgets}
<1>1. /\ home \subseteq HomepageIds /\ KeptIcon \subseteq IconIds /\ shown \subseteq WidgetIds
      /\ IndexNames = home \cup KeptIcon \cup shown
  BY SpaceNames DEF IndexNames
<1>2. /\ Index.homepage = {Fold[id] : id \in home}
      /\ Index.icon = {Fold[id] : id \in KeptIcon}
      /\ {Index.widgets[n].target : n \in DOMAIN Index.widgets} = {Fold[id] : id \in shown}
  BY IndexSpelled, WidgetsSpelled
<1>3. \A id \in home : Fold[id] \in Platform => Fold[id] \in ReservedHome
  BY DEF UnreadableIndex
<1>4. ReservedHome \subseteq Platform
  BY IdAssumption
<1>. HIDE DEF home, shown
<1>5. \A id \in home \cup KeptIcon \cup shown :
        IF id \in Platform THEN Fold[id] = id ELSE Fold[id] \notin Platform
  BY <1>1 DEF PlainSlots
<1>6. KeptIcon \cap Platform = {} /\ shown \cap Platform \subseteq Listings
  BY <1>1 DEF PlainSlots
<1>7. Index.homepage \cap Platform \subseteq ReservedHome /\ Index.icon \cap Platform = {}
  BY <1>2, <1>3, <1>5, <1>6
<1>8. \A n \in DOMAIN Index.widgets :
        Index.widgets[n].target \in Platform => Index.widgets[n].target \in Listings
  <2>1. \A id \in shown : Fold[id] \in Platform => Fold[id] \in Listings
    BY <1>5, <1>6
  <2>. QED
    BY <1>2, <2>1
<1>9. NamedByIndex(Index) = {Fold[id] : id \in IndexNames \ Platform}
  <2>1. NamedByIndex(Index) =
          ({Fold[id] : id \in home} \ ReservedHome) \cup {Fold[id] : id \in KeptIcon}
            \cup ({Fold[id] : id \in shown} \ Platform)
    BY <1>2 DEF NamedByIndex
  <2>. QED
    BY <1>1, <1>3, <1>4, <1>5, <1>6, <2>1
<1>. QED
  BY <1>1, <1>5, <1>7, <1>8, <1>9

LEMMA IndexStandsKept ==
  ASSUME PlainSlots, Settlement, IndexStands, [Next]_vars
  PROVE  IndexStands'
<1>. SUFFICES ASSUME Published' PROVE IndexStands'
  BY DEF IndexStands
<1>1. CASE Published
  <2>1. UNCHANGED vars
    BY <1>1, NothingFollowsFinish DEF Published, Settlement
  <2>. QED
    BY <1>1, <2>1 DEF vars, IndexStands, Published, Carried
<1>2. CASE ~Published
  <2>1. /\ FinishBundle /\ out'.index = Index
        /\ docs = Reported /\ docs' = docs /\ blobs' = blobs
    BY <1>2, JustPublished DEF Settlement
  <2>2. ~UnreadableIndex
    BY <2>1 DEF FinishBundle
  <2>3. docs \subseteq Objects("document")
    BY <2>1 DEF Reported, Objects
  <2>4. blobs \subseteq docs /\ \A t \in blobs : Snapshot[t].file
    <3>1. \A t \in blobs : t \in Tasks /\ task[t] \in {"streamed", "done"}
      BY DEF Settlement, Ledger, TypeOK, BundleFollowsTheTasks
    <3>2. \A t \in blobs : Snapshot[t].kind = "document"
      BY <3>1 DEF Settlement, Ledger, TasksFollowTheirKind
    <3>3. \A t \in blobs : Snapshot[t].file
      BY DEF Settlement, SettledOnce
    <3>. QED
      BY <2>1, <3>1, <3>2, <3>3 DEF Reported
  <2>5. /\ Index.homepage \cap Platform \subseteq ReservedHome
        /\ Index.icon \cap Platform = {}
        /\ \A n \in DOMAIN Index.widgets :
             Index.widgets[n].target \in Platform => Index.widgets[n].target \in Listings
        /\ NamedByIndex(Index) = {Fold[id] : id \in IndexNames \ Platform}
        /\ NamedByIndex(Index) \cap Platform = {}
    BY <2>2, PlainIndex
  <2>6. Index.unresolved.targets = NamedByIndex(Index) \ Carried
    <3>1. c.documentIds = UNION {CarriedIds(Snapshot[t]) : t \in docs}
      BY <2>1 DEF Settlement, Ledger, AggregatesAreTheObservations, DocumentCensus
    <3>2. c.documentIds = Carried
      BY <3>1 DEF CarriedIds, Carried
    <3>. QED
      BY <2>5, <3>2, IndexTargets, IndexSpelled DEF UnresolvedTargets
  <2>7. Carried' = Carried
    BY <2>1 DEF Carried
  <2>. QED
    BY <2>1, <2>3, <2>4, <2>5, <2>6, <2>7, IndexSpelled DEF IndexStands
<1>. QED
  BY <1>1, <1>2

(***************************************************************************)
(* In a plain space an object the index names is carried or declared       *)
(* missing, never both and never neither.                                  *)
(***************************************************************************)
THEOREM TargetsCorrect == ASSUME PlainSlots PROVE Spec => []TargetsAnswered
<1>1. Init => IndexStands
  BY NothingPublishedAtFirst DEF IndexStands
<1>2. Settlement /\ IndexStands /\ [Next]_vars => IndexStands'
  BY IndexStandsKept
<1>3. IndexStands => TargetsAnswered
  BY DEF IndexStands, TargetsAnswered
<1>. QED
  BY <1>1, <1>2, <1>3, SettlementStarts, SettlementKept, PTL DEF Spec

-----------------------------------------------------------------------------
(* The reader's rules, one by one.                                         *)

LEMMA BundleMembers ==
  /\ Bundle.documents = {Envelope(t) : t \in docs}
  /\ Bundle.index = out.index
  /\ Bundle.properties = [key \in DOMAIN out.dictionary |->
                            out.dictionary[key].definition.targets]
  /\ Bundle.blobs = {Snapshot[t].id : t \in blobs}
  BY Zenon DEF Bundle

LEMMA EnvelopeMembers ==
  \A t : /\ Envelope(t).path = t /\ Envelope(t).id = Snapshot[t].envelope
         /\ Envelope(t).used = Snapshot[t].used
         /\ Envelope(t).typeRefs = Snapshot[t].typeRefs
         /\ Envelope(t).kind = "file_object" <=> Snapshot[t].file
         /\ Envelope(t).typeKey = IF Snapshot[t].type THEN Snapshot[t].envelope ELSE NoId
<1>. SUFFICES ASSUME NEW t
              PROVE  /\ Envelope(t).path = t /\ Envelope(t).id = Snapshot[t].envelope
                     /\ Envelope(t).used = Snapshot[t].used
                     /\ Envelope(t).typeRefs = Snapshot[t].typeRefs
                     /\ Envelope(t).kind = "file_object" <=> Snapshot[t].file
                     /\ Envelope(t).typeKey =
                          IF Snapshot[t].type THEN Snapshot[t].envelope ELSE NoId
  OBVIOUS
<1>1. /\ Envelope(t).path = t /\ Envelope(t).id = Snapshot[t].envelope
      /\ Envelope(t).used = Snapshot[t].used
      /\ Envelope(t).typeRefs = Snapshot[t].typeRefs
      /\ Envelope(t).typeKey = IF Snapshot[t].type THEN Snapshot[t].envelope ELSE NoId
  BY DEF Envelope
<1>2. Snapshot[t].file => Envelope(t).kind = "file_object"
  BY DEF Envelope
<1>3. ~Snapshot[t].file => Envelope(t).kind # "file_object"
  BY DEF Envelope
<1>. QED
  BY <1>1, <1>2, <1>3

LEMMA NoErrors == \A code : Reader!Errors(code, {}) = {}
  BY DEF Reader!Errors

LEMMA ReaderFinds == Reader!DocumentIds(Bundle) = Carried
<1>1. Reader!DocumentIds(Bundle) = {Envelope(t).id : t \in docs} \ {NoId}
  BY BundleMembers DEF Reader!DocumentIds
<1>. QED
  BY <1>1, EnvelopeMembers DEF Carried

LEMMA ReaderCounts ==
  \A x : Reader!Cardinality({x}) = 1
<1>1. \A S : Reader!Cardinality(S) = Cardinality(S)
  BY Zenon DEF Reader!Cardinality, Cardinality
<1>. QED
  BY <1>1, FS_Singleton

(* The manifest, and the ids and keys the documents are known by.          *)
LEMMA ManifestAccepted ==
  ASSUME Published, ManifestMatchesBlobs
  PROVE  Reader!MissingBlobs(Bundle) = {}
<1>1. Bundle.index.files.ids \ Bundle.blobs = {}
  BY BundleMembers DEF ManifestMatchesBlobs
<1>. QED
  BY <1>1, NoErrors DEF Reader!MissingBlobs

LEMMA IdsAccepted ==
  ASSUME Published, PlainDocuments, IndexStands
  PROVE  Reader!DuplicateIds(Bundle) = {} /\ Reader!DuplicateTypeKeys(Bundle) = {}
<1>1. \A t, u \in docs :
        Snapshot[t].envelope = Snapshot[u].envelope /\ Snapshot[t].envelope # NoId => t = u
  BY DEF IndexStands, PlainDocuments
<1>2. ASSUME NEW id \in Reader!DocumentIds(Bundle)
      PROVE  \E d : {e \in Bundle.documents : e.id = id} = {d}
  <2>1. PICK t \in docs : id = Snapshot[t].envelope /\ id # NoId
    BY ReaderFinds DEF Carried
  <2>2. \A u \in docs : Envelope(u).id = id => u = t
    BY <1>1, <2>1, EnvelopeMembers
  <2>3. {e \in Bundle.documents : e.id = id} = {Envelope(t)}
    BY <2>1, <2>2, BundleMembers, EnvelopeMembers
  <2>. QED
    BY <2>3
<1>3. {id \in Reader!DocumentIds(Bundle) :
         Reader!Cardinality({d \in Bundle.documents : d.id = id}) > 1} = {}
  <2>1. \A id \in Reader!DocumentIds(Bundle) :
          Reader!Cardinality({d \in Bundle.documents : d.id = id}) = 1
    BY <1>2, ReaderCounts
  <2>. QED
    BY <2>1
<1>. DEFINE keys == {d.typeKey : d \in Bundle.documents} \ {NoId}
<1>4. ASSUME NEW key \in keys
      PROVE  \E d : {e \in Bundle.documents : e.typeKey = key} = {d}
  <2>1. PICK t \in docs : key = Envelope(t).typeKey /\ key # NoId
    BY BundleMembers
  <2>2. \A u \in docs : Envelope(u).typeKey = key => u = t
    BY <1>1, <2>1, EnvelopeMembers
  <2>3. {e \in Bundle.documents : e.typeKey = key} = {Envelope(t)}
    BY <2>1, <2>2, BundleMembers
  <2>. QED
    BY <2>3
<1>5. {key \in keys : Reader!Cardinality({d \in Bundle.documents : d.typeKey = key}) > 1} = {}
  <2>1. \A key \in keys :
          Reader!Cardinality({d \in Bundle.documents : d.typeKey = key}) = 1
    BY <1>4, ReaderCounts
  <2>. QED
    BY <2>1
<1>. QED
  BY <1>3, <1>5, NoErrors DEF Reader!DuplicateIds, Reader!DuplicateTypeKeys

(* The files of the manifest are carried, each by a file's document.       *)
LEMMA FilesAccepted ==
  ASSUME Published, PlainDocuments, IndexStands, ManifestMatchesBlobs
  PROVE  /\ out.index.files.ids \subseteq Carried
         /\ Reader!MisboundFiles(Bundle) = {}
<1>1. \A t \in blobs : t \in docs /\ Snapshot[t].file /\ t \in Objects("document")
  BY DEF IndexStands
<1>2. \A t \in blobs : Snapshot[t].envelope = Snapshot[t].id
  BY <1>1 DEF PlainDocuments
<1>3. \A t \in blobs : Snapshot[t].envelope \in Ids
  <2>1. \A t \in blobs : Snapshot[t] \in DocumentSnapshots
    BY <1>1, ShapeOfDocument DEF Objects
  <2>2. \A s \in DocumentSnapshots : s.id \in Ids
    BY DEF DocumentSnapshots
  <2>. QED
    BY <1>2, <2>1, <2>2
<1>4. NoId \notin Ids
  BY SnapshotAssumption
<1>5. out.index.files.ids = {Snapshot[t].id : t \in blobs}
  BY DEF ManifestMatchesBlobs
<1>6. out.index.files.ids \subseteq Carried
  BY <1>1, <1>2, <1>3, <1>4, <1>5 DEF Carried
<1>7. ASSUME NEW u \in docs, Snapshot[u].envelope \in out.index.files.ids
      PROVE  Snapshot[u].file
  <2>1. PICK t \in blobs : Snapshot[u].envelope = Snapshot[t].envelope
    BY <1>2, <1>5, <1>7
  <2>2. t = u
    BY <1>1, <1>3, <1>4, <2>1 DEF IndexStands, PlainDocuments
  <2>. QED
    BY <1>1, <2>2
<1>8. {e \in Bundle.documents : /\ e.id \in Bundle.index.files.ids
                                /\ e.kind # "file_object"} = {}
  BY <1>7, BundleMembers, EnvelopeMembers
<1>9. {d.id : d \in {e \in Bundle.documents : /\ e.id \in Bundle.index.files.ids
                                              /\ e.kind # "file_object"}} = {}
  BY <1>8
<1>. QED
  BY <1>6, <1>9, NoErrors DEF Reader!MisboundFiles

(* What the index leaves unresolved is what the reader misses.             *)
LEMMA ReaderRequires ==
  ASSUME Published, PlainDocuments, IndexStands, ManifestMatchesBlobs
  PROVE  Reader!RequiredObjects(Bundle) \ Reader!DocumentIds(Bundle) =
           out.index.unresolved.targets
<1>. DEFINE shown == {out.index.widgets[n].target : n \in DOMAIN out.index.widgets}
<1>1. Reader!RequiredObjects(Bundle) =
        (out.index.homepage \cup shown \cup out.index.icon \cup out.index.files.ids)
          \ (ReservedHome \cup Listings)
  BY BundleMembers DEF Reader!RequiredObjects, Reader!WidgetTargets, IndexStands
<1>2. NamedByIndex(out.index) =
        (out.index.homepage \ ReservedHome) \cup out.index.icon \cup (shown \ Platform)
  BY DEF NamedByIndex
<1>3. shown \cap Platform \subseteq Listings
  BY DEF IndexStands
<1>. HIDE DEF shown
<1>4. /\ out.index.homepage \cap Platform \subseteq ReservedHome
      /\ out.index.icon \cap Platform = {}
      /\ out.index.unresolved.targets = NamedByIndex(out.index) \ Carried
  BY DEF IndexStands
<1>5. ReservedHome \subseteq Platform /\ Listings \subseteq Platform
  BY IdAssumption, ListingsAssumption
<1>6. out.index.files.ids \subseteq Carried
  BY FilesAccepted
<1>. QED
  BY <1>1, <1>2, <1>3, <1>4, <1>5, <1>6, ReaderFinds

(* How the reader grades a missing object.                                 *)
Deleted(id) == id \in ObjectShaped /\ Store[id] = "deleted"

LEMMA ReaderGrades ==
  ASSUME Published, IndexStands, NEW id \in out.index.unresolved.targets,
         NEW authoring \in BOOLEAN
  PROVE  /\ Reader!RequireObject(Bundle, id, authoring).subject = id
         /\ Reader!RequireObject(Bundle, id, authoring).severity =
              IF authoring THEN "error" ELSE IF Deleted(id) THEN "info" ELSE "warning"
<1>. DEFINE told == Reader!RequireObject(Bundle, id, authoring)
<1>1. Bundle.index = out.index
  BY BundleMembers
<1>2. id \in out.index.unresolved.deleted <=> Deleted(id)
  BY DEF IndexStands, ClassifyUnresolvedTarget, Deleted
<1>3. ~authoring /\ Deleted(id) => told = Reader!Issue("info", "deleted target", id)
  BY <1>1, <1>2 DEF Reader!RequireObject
<1>4. ~authoring /\ ~Deleted(id) =>
        \/ told = Reader!Issue("warning", "omitted target", id)
        \/ told = Reader!Issue("warning", "unresolved target", id)
  BY <1>1, <1>2 DEF Reader!RequireObject
<1>5. authoring => told = Reader!Issue("error", "missing object", id)
  BY <1>1 DEF Reader!RequireObject
<1>6. \A severity, code :
        /\ Reader!Issue(severity, code, id).severity = severity
        /\ Reader!Issue(severity, code, id).subject = id
  BY DEF Reader!Issue
<1>. HIDE DEF told
<1>7. ~authoring /\ Deleted(id) => told.severity = "info" /\ told.subject = id
  BY <1>3, <1>6, Zenon
<1>8. ~authoring /\ ~Deleted(id) => told.severity = "warning" /\ told.subject = id
  BY <1>4, <1>6, Zenon
<1>9. authoring => told.severity = "error" /\ told.subject = id
  BY <1>5, <1>6, Zenon
<1>. QED
  BY <1>7, <1>8, <1>9 DEF told

(* The types a reader misses are those the index declares.                 *)
LEMMA TypesRequired ==
  ASSUME Published, PlainDocuments, IndexStands, TypesAnswered
  PROVE  /\ Reader!TypeUsesOf(Bundle) \ Reader!DocumentIds(Bundle) =
              out.index.unresolved.types
         /\ Reader!CarriedTypesDeclaredMissing(Bundle) = {}
<1>. DEFINE stated == UNION {Snapshot[t].typeRefs :
                               t \in {u \in docs : Snapshot[u].envelope # NoId}}
            drawn == UNION {out.dictionary[key].definition.targets :
                              key \in DOMAIN out.dictionary}
<1>1. out.index.unresolved.types = (stated \cup drawn) \ Carried
  BY DEF TypesAnswered
<1>2. UNION {d.typeRefs : d \in Bundle.documents} = UNION {Snapshot[t].typeRefs : t \in docs}
  BY BundleMembers, EnvelopeMembers
<1>3. UNION {Snapshot[t].typeRefs : t \in docs} = stated
  <2>1. \A t \in docs : Snapshot[t].envelope = NoId => Snapshot[t].typeRefs = {}
    BY DEF IndexStands, PlainDocuments
  <2>. QED
    BY <2>1
<1>4. UNION {Bundle.properties[key] : key \in DOMAIN Bundle.properties} = drawn
  BY BundleMembers
<1>. HIDE DEF stated, drawn
<1>5. Reader!TypeUsesOf(Bundle) = stated \cup drawn
  BY <1>2, <1>3, <1>4 DEF Reader!TypeUsesOf
<1>6. out.index.unresolved.types \cap Carried = {}
  BY <1>1
<1>. QED
  BY <1>1, <1>5, <1>6, ReaderFinds, BundleMembers, NoErrors
     DEF Reader!CarriedTypesDeclaredMissing

(* Every key a reader meets has an entry.                                  *)
LEMMA PropertiesAccepted ==
  ASSUME Published, EntriesAreTheReferencedKeys
  PROVE  Reader!UndefinedProperties(Bundle) = {}
<1>1. UNION {d.used : d \in Bundle.documents} = UNION {Snapshot[t].used : t \in docs}
  BY BundleMembers, EnvelopeMembers
<1>2. DOMAIN Bundle.properties = DOMAIN out.dictionary /\ Bundle.index = out.index
  BY BundleMembers
<1>3. DOMAIN out.dictionary =
        (UNION {Snapshot[t].used : t \in docs}) \cup WidgetProperties(out.index.widgets)
  BY DEF EntriesAreTheReferencedKeys
<1>4. (((UNION {d.used : d \in Bundle.documents})
          \cup (UNION {Bundle.index.widgets[n].properties :
                         n \in DOMAIN Bundle.index.widgets}))
         \ DOMAIN Bundle.properties) \ DOMAIN Table = {}
  BY <1>1, <1>2, <1>3 DEF WidgetProperties
<1>. QED
  BY <1>4, NoErrors DEF Reader!UndefinedProperties

(* The report on a published bundle: its missing objects and types.        *)
ReaderAccepts ==
  IndexStands /\ ManifestMatchesBlobs /\ TypesAnswered /\ EntriesAreTheReferencedKeys

LEMMA ReportSays ==
  ASSUME Published, PlainDocuments, ReaderAccepts, NEW authoring \in BOOLEAN
  PROVE  Reader!Inspect(Bundle, authoring) =
           Reader!MissingObjects(Bundle, authoring) \cup Reader!MissingTypes(Bundle, authoring)
<1>1. Reader!MissingBlobs(Bundle) = {} /\ Reader!MisboundFiles(Bundle) = {}
  BY ManifestAccepted, FilesAccepted DEF ReaderAccepts
<1>2. Reader!DuplicateIds(Bundle) = {} /\ Reader!DuplicateTypeKeys(Bundle) = {}
  BY IdsAccepted DEF ReaderAccepts
<1>3. Reader!CarriedTypesDeclaredMissing(Bundle) = {}
  BY TypesRequired DEF ReaderAccepts
<1>4. Reader!UndefinedProperties(Bundle) = {}
  BY PropertiesAccepted DEF ReaderAccepts
<1>. QED
  BY <1>1, <1>2, <1>3, <1>4, Zenon DEF Reader!Inspect

LEMMA ObjectsReported ==
  ASSUME Published, PlainDocuments, ReaderAccepts, NEW authoring \in BOOLEAN
  PROVE  Reader!MissingObjects(Bundle, authoring) =
           {Reader!RequireObject(Bundle, id, authoring) : id \in out.index.unresolved.targets}
BY ReaderRequires DEF ReaderAccepts, Reader!MissingObjects

LEMMA TypesReported ==
  ASSUME Published, PlainDocuments, ReaderAccepts, NEW authoring \in BOOLEAN
  PROVE  /\ \A issue \in Reader!MissingTypes(Bundle, authoring) :
              /\ issue.subject \in out.index.unresolved.types
              /\ issue.severity = IF authoring THEN "error" ELSE "warning"
         /\ Reader!MissingTypes(Bundle, authoring) = {}
              <=> out.index.unresolved.types = {}
<1>. DEFINE told(ref) == IF ref \in out.index.unresolved.types /\ ~authoring
                         THEN Reader!Issue("warning", "unresolved type", ref)
                         ELSE Reader!Issue("error", "missing type", ref)
<1>1. Reader!TypeUsesOf(Bundle) \ Reader!DocumentIds(Bundle) = out.index.unresolved.types
  BY TypesRequired DEF ReaderAccepts
<1>2. Bundle.index = out.index
  BY BundleMembers
<1>3. Reader!MissingTypes(Bundle, authoring) =
        {told(ref) : ref \in out.index.unresolved.types}
  BY <1>1, <1>2 DEF Reader!MissingTypes
<1>4. \A ref \in out.index.unresolved.types :
        /\ told(ref).subject = ref
        /\ told(ref).severity = IF authoring THEN "error" ELSE "warning"
  BY DEF Reader!Issue
<1>. HIDE DEF told
<1>. QED
  BY <1>3, <1>4

(***************************************************************************)
(* What the reader says of a published bundle: one issue for each missing  *)
(* object, graded, and otherwise only of the types the index declares.     *)
(***************************************************************************)
LEMMA ReportGrades ==
  ASSUME Published, PlainDocuments, ReaderAccepts, NEW authoring \in BOOLEAN
  PROVE  /\ \A issue \in Reader!Inspect(Bundle, authoring) :
              \/ /\ issue.subject \in out.index.unresolved.targets
                 /\ issue.severity =
                      IF authoring THEN "error"
                      ELSE IF Deleted(issue.subject) THEN "info" ELSE "warning"
              \/ /\ issue.subject \in out.index.unresolved.types
                 /\ issue.severity = IF authoring THEN "error" ELSE "warning"
         /\ \A id \in out.index.unresolved.targets :
              \E issue \in Reader!Inspect(Bundle, authoring) : issue.subject = id
         /\ Reader!Inspect(Bundle, authoring) = {}
              <=> out.index.unresolved.targets = {} /\ out.index.unresolved.types = {}
<1>. DEFINE told(id) == Reader!RequireObject(Bundle, id, authoring)
            objects == Reader!MissingObjects(Bundle, authoring)
            types == Reader!MissingTypes(Bundle, authoring)
            report == Reader!Inspect(Bundle, authoring)
<1>1. objects = {told(id) : id \in out.index.unresolved.targets}
  BY ObjectsReported
<1>2. \A id \in out.index.unresolved.targets :
        /\ told(id).subject = id
        /\ told(id).severity =
             IF authoring THEN "error" ELSE IF Deleted(id) THEN "info" ELSE "warning"
  BY ReaderGrades DEF ReaderAccepts
<1>3. /\ \A issue \in types : /\ issue.subject \in out.index.unresolved.types
                              /\ issue.severity = IF authoring THEN "error" ELSE "warning"
      /\ types = {} <=> out.index.unresolved.types = {}
  BY TypesReported
<1>4. report = objects \cup types
  BY ReportSays
<1>. HIDE DEF told, objects, types, report
<1>5. /\ \A issue \in report :
           \/ /\ issue.subject \in out.index.unresolved.targets
              /\ issue.severity = IF authoring THEN "error"
                                  ELSE IF Deleted(issue.subject) THEN "info" ELSE "warning"
           \/ /\ issue.subject \in out.index.unresolved.types
              /\ issue.severity = IF authoring THEN "error" ELSE "warning"
      /\ \A id \in out.index.unresolved.targets : \E issue \in report : issue.subject = id
  BY <1>1, <1>2, <1>3, <1>4
<1>6. report = {}
        <=> out.index.unresolved.targets = {} /\ out.index.unresolved.types = {}
  BY <1>1, <1>3, <1>4
<1>. QED
  BY <1>5, <1>6 DEF report

LEMMA BundleAccepted ==
  ASSUME PlainDocuments, ReaderAccepts
  PROVE  PublishedBundlesValidate
<1>1. ASSUME Published, NEW authoring \in BOOLEAN, authoring = FALSE
      PROVE  Reader!Refusals(Reader!Inspect(Bundle, authoring)) = {}
  <2>1. \A issue \in Reader!Inspect(Bundle, authoring) : issue.severity \in {"info", "warning"}
    BY <1>1, ReportGrades
  <2>. QED
    BY <2>1 DEF Reader!Refusals
<1>. QED
  BY <1>1 DEF PublishedBundlesValidate

(***************************************************************************)
(* What is published of a plain space, its own reader accepts, whatever    *)
(* documents failed, whichever blobs were lost and in whatever order.      *)
(***************************************************************************)
THEOREM BundlesAccepted ==
  ASSUME PlainDocuments, PlainSlots PROVE Spec => []PublishedBundlesValidate
<1>1. Init => IndexStands
  BY NothingPublishedAtFirst DEF IndexStands
<1>2. Settlement /\ IndexStands /\ [Next]_vars => IndexStands'
  BY IndexStandsKept
<1>3. ReaderAccepts => PublishedBundlesValidate
  BY BundleAccepted
<1>4. IndexStands /\ ManifestMatchesBlobs /\ TypesAnswered /\ EntriesAreTheReferencedKeys
        => ReaderAccepts
  BY DEF ReaderAccepts
<1>. QED
  BY <1>1, <1>2, <1>3, <1>4, SettlementStarts, SettlementKept, ManifestCorrect,
     TypesCorrect, EntriesCorrect, PTL DEF Spec

-----------------------------------------------------------------------------
(* The grades of the losses.                                               *)

(* The types a definition names come from where the definition does.       *)
EntriesDrawn ==
  \A key \in Keys :
    c.entries[key] # NoDefinition => c.entries[key].targets \subseteq NamedTypes

LEMMA EntriesDrawnKept ==
  ASSUME TypeOK, EntriesDrawn, [Next]_vars
  PROVE  EntriesDrawn'
<1>1. ASSUME NEW t \in Tasks, ObserveRelation(t)
      PROVE  EntriesDrawn'
  <2>1. c'.entries = [c.entries EXCEPT ![Snapshot[t].key] = StoredDefinition(Snapshot[t])]
    BY <1>1, Zenon DEF ObserveRelation, Omits, TypeOK, ComposerStructs
  <2>2. DOMAIN c.entries = Keys
    BY DEF TypeOK, ComposerStructs
  <2>3. StoredDefinition(Snapshot[t]).targets = Snapshot[t].targets
    BY DEF StoredDefinition
  <2>4. t \in Objects("relation")
    BY <1>1 DEF ObserveRelation, Starts, Objects
  <2>. QED
    BY <2>1, <2>2, <2>3, <2>4 DEF EntriesDrawn, NamedTypes
<1>2. ASSUME NEW t \in Tasks, Observe(t), ~ObserveDocument(t), ~ObserveRelation(t)
      PROVE  EntriesDrawn'
  BY <1>2, LiftedFields DEF EntriesDrawn
<1>3. ASSUME NEW t \in Tasks, ObserveDocument(t) \/ Emit(t)
      PROVE  EntriesDrawn'
  BY <1>3, EmittedFields DEF EntriesDrawn
<1>4. ASSUME DeclareMetadataOnly \/ Finish \/ Cancel \/ Stop \/ UNCHANGED vars
      PROVE  EntriesDrawn'
  BY <1>4, RunFields DEF EntriesDrawn
<1>5. ASSUME NEW t \in Tasks, FailObject(t)
      PROVE  EntriesDrawn'
  BY <1>5, FailedObject DEF EntriesDrawn
<1>. QED
  BY <1>1, <1>2, <1>3, <1>4, <1>5 DEF Next, Observe

LEMMA DefinitionsDrawn ==
  ASSUME TypeOK, EntriesDrawn, NEW key \in Keys
  PROVE  DefinitionOf(key) # NoDefinition => DefinitionOf(key).targets \subseteq NamedTypes
<1>1. CASE c.entries[key] # NoDefinition
  BY <1>1 DEF DefinitionOf, EntriesDrawn
<1>2. CASE c.entries[key] = NoDefinition /\ key \in DOMAIN Resolver
  <2>1. DefinitionOf(key) = ResolvedDefinition(key)
    BY <1>2 DEF DefinitionOf
  <2>2. ResolvedDefinition(key).targets = Resolver[key].targets
    BY DEF ResolvedDefinition
  <2>. QED
    BY <1>2, <2>1, <2>2 DEF NamedTypes
<1>3. CASE c.entries[key] = NoDefinition /\ key \in DOMAIN Table \ DOMAIN Resolver
  <2>1. DefinitionOf(key) = BundledDefinition(key)
    BY <1>3 DEF DefinitionOf
  <2>2. BundledDefinition(key).targets = Table[key].targets
    BY DEF BundledDefinition
  <2>. QED
    BY <1>3, <2>1, <2>2 DEF NamedTypes
<1>4. CASE c.entries[key] = NoDefinition /\ key \notin DOMAIN Resolver \cup DOMAIN Table
  <2>1. CASE Undisputed(key)
    <3>1. DefinitionOf(key) = DeclaredDefinition(key)
      BY <1>4, <2>1 DEF DefinitionOf
    <3>2. DeclaredDefinition(key).targets = {}
      BY DEF DeclaredDefinition
    <3>. QED
      BY <3>1, <3>2
  <2>2. CASE ~Undisputed(key)
    BY <1>4, <2>2 DEF DefinitionOf
  <2>. QED
    BY <2>1, <2>2
<1>. QED
  BY <1>1, <1>2, <1>3, <1>4

(* A published bundle names no type but those its space names.             *)
TypesDrawn ==
  Published =>
    \A key \in DOMAIN out.dictionary :
      out.dictionary[key].definition.targets \subseteq NamedTypes

LEMMA TypesDrawnKept ==
  ASSUME Settlement, EntriesDrawn, TypesDrawn, [Next]_vars
  PROVE  TypesDrawn'
<1>. SUFFICES ASSUME Published' PROVE TypesDrawn'
  BY DEF TypesDrawn
<1>1. CASE Published
  <2>1. UNCHANGED vars
    BY <1>1, NothingFollowsFinish DEF Published, Settlement
  <2>. QED
    BY <1>1, <2>1 DEF vars, TypesDrawn, Published
<1>2. CASE ~Published
  <2>1. out'.dictionary = Dictionary
    BY <1>2, JustPublished DEF Settlement
  <2>2. TypeOK
    BY DEF Settlement, Ledger
  <2>3. DOMAIN Dictionary = UsedKeys /\ UsedKeys \subseteq Keys
    BY <2>2, UsedKeysTyped DEF Dictionary
  <2>4. ASSUME NEW key \in UsedKeys
        PROVE  Dictionary[key].definition.targets \subseteq NamedTypes
    <3>1. CASE key \in Orphans
      <4>1. Dictionary[key].definition = UndefinedEntry(NoName)
        BY <3>1 DEF Dictionary
      <4>. QED
        BY <4>1 DEF UndefinedEntry
    <3>2. CASE key \notin Orphans
      <4>1. Dictionary[key].definition = DefinitionOf(key)
        BY <3>2 DEF Dictionary
      <4>2. DefinitionOf(key) # NoDefinition
        BY <3>2 DEF Orphans
      <4>. QED
        BY <2>2, <2>3, <4>1, <4>2, DefinitionsDrawn
    <3>. QED
      BY <3>1, <3>2
  <2>. QED
    BY <2>1, <2>3, <2>4 DEF TypesDrawn
<1>. QED
  BY <1>1, <1>2

LEMMA TypesNamed ==
  ASSUME Published, IndexStands, TypesAnswered, TypesDrawn
  PROVE  out.index.unresolved.types \subseteq NamedTypes
<1>1. UNION {Snapshot[t].typeRefs : t \in {u \in docs : Snapshot[u].envelope # NoId}}
        \subseteq NamedTypes
  BY DEF IndexStands, NamedTypes
<1>2. UNION {out.dictionary[key].definition.targets : key \in DOMAIN out.dictionary}
        \subseteq NamedTypes
  BY DEF TypesDrawn
<1>. QED
  BY <1>1, <1>2 DEF TypesAnswered

LEMMA LossGraded ==
  ASSUME PlainSpace, ReaderAccepts, TypesDrawn
  PROVE  LossesAreGraded
<1>. SUFFICES ASSUME Published PROVE LossesAreGraded
  BY DEF LossesAreGraded
<1>. DEFINE lost == NamedByIndex(out.index) \ Carried
            types == out.index.unresolved.types
<1>1. PlainDocuments /\ lost = out.index.unresolved.targets
  BY DEF PlainSpace, ReaderAccepts, IndexStands
<1>2. \A id \in types : ~Deleted(id)
  BY TypesNamed DEF PlainSpace, ReaderAccepts, Deleted
<1>3. ASSUME NEW authoring \in BOOLEAN, authoring = FALSE
      PROVE  \A id \in lost :
               LET told == {issue \in Reader!Inspect(Bundle, authoring) : issue.subject = id}
               IN  /\ told # {}
                   /\ \A issue \in told : (issue.severity = "info") <=> Deleted(id)
  <2>1. \A issue \in Reader!Inspect(Bundle, authoring) :
          /\ issue.severity \in {"info", "warning"}
          /\ issue.severity = "info" <=> Deleted(issue.subject)
    BY <1>1, <1>2, <1>3, ReportGrades
  <2>2. \A id \in lost : \E issue \in Reader!Inspect(Bundle, authoring) : issue.subject = id
    BY <1>1, ReportGrades
  <2>. QED
    BY <2>1, <2>2
<1>4. ASSUME NEW authoring \in BOOLEAN, authoring = TRUE
      PROVE  Reader!Refusals(Reader!Inspect(Bundle, authoring)) = {}
               <=> (lost = {} /\ types = {})
  <2>1. \A issue \in Reader!Inspect(Bundle, authoring) : issue.severity = "error"
    BY <1>1, <1>4, ReportGrades
  <2>2. Reader!Refusals(Reader!Inspect(Bundle, authoring)) = Reader!Inspect(Bundle, authoring)
    BY <2>1 DEF Reader!Refusals
  <2>. QED
    BY <1>1, <2>2, ReportGrades
<1>. QED
  BY <1>3, <1>4 DEF LossesAreGraded, Deleted

(***************************************************************************)
(* In a plain space the reader grades every loss by what the space knows   *)
(* of the object, and the authoring surface accepts no bundle with one.    *)
(***************************************************************************)
THEOREM LossesGraded == ASSUME PlainSpace PROVE Spec => []LossesAreGraded
<1>1. PlainDocuments /\ PlainSlots
  BY DEF PlainSpace
<1>2. Init => IndexStands /\ EntriesDrawn /\ TypesDrawn
  <2>. SUFFICES ASSUME Init PROVE EntriesDrawn /\ TypesDrawn /\ IndexStands
    OBVIOUS
  <2>1. c.entries = [key \in Keys |-> NoDefinition]
    BY Zenon DEF Init, NewComposer
  <2>. QED
    BY <2>1, NothingPublishedAtFirst DEF EntriesDrawn, TypesDrawn, IndexStands
<1>3. Settlement /\ IndexStands /\ [Next]_vars => IndexStands'
  BY <1>1, IndexStandsKept
<1>4. Settlement /\ EntriesDrawn /\ [Next]_vars => EntriesDrawn'
  BY EntriesDrawnKept DEF Settlement, Ledger
<1>5. Settlement /\ EntriesDrawn /\ TypesDrawn /\ [Next]_vars => TypesDrawn'
  BY TypesDrawnKept
<1>6. IndexStands /\ ManifestMatchesBlobs /\ TypesAnswered
        /\ EntriesAreTheReferencedKeys /\ TypesDrawn => LossesAreGraded
  BY LossGraded DEF ReaderAccepts
<1>. QED
  BY <1>2, <1>3, <1>4, <1>5, <1>6, SettlementStarts, SettlementKept, ManifestCorrect,
     TypesCorrect, EntriesCorrect, PTL DEF Spec

-----------------------------------------------------------------------------
(* One space exported twice.  What the composer's theorems say of the      *)
(* first export they say of the second, over the same snapshots.           *)

LEMMA SameShapes ==
  /\ Again!SnapshotShapes = SnapshotShapes /\ Again!Definitions = Definitions
  /\ Again!Facts = Facts /\ Again!Labelled = Labelled
  /\ \A s : Again!OwnIds(s) = OwnIds(s)
  BY Zenon
     DEF Again!SnapshotShapes, SnapshotShapes, Again!SystemSnapshots, SystemSnapshots,
         Again!RelationSnapshots, RelationSnapshots, Again!OptionSnapshots, OptionSnapshots,
         Again!SpaceSnapshots, SpaceSnapshots, Again!WidgetSnapshots, WidgetSnapshots,
         Again!DocumentSnapshots, DocumentSnapshots, Again!Widgets, Widgets,
         Again!Declarations, Declarations, Again!Definitions, Definitions, Again!Facts, Facts,
         Again!Labelled, Labelled, Again!OwnIds, OwnIds

LEMMA SameAssumptions ==
  /\ Again!SnapshotAssumption /\ Again!LabelsAssumption /\ Again!KeysAssumption
  /\ Again!FlakyAssumption /\ Again!WidthAssumption /\ Again!VocabularyAssumption
  /\ Again!IdAssumption
<1>1. Again!SnapshotAssumption /\ Again!LabelsAssumption
  BY SameShapes, SnapshotAssumption, LabelsAssumption, Zenon
<1>2. Again!VocabularyAssumption
  BY SameShapes, VocabularyAssumption, Zenon
<1>3. Again!KeysAssumption
  BY KeysAssumption, Zenon DEF Again!IsFiniteSet, IsFiniteSet
<1>4. Again!FlakyAssumption /\ Again!WidthAssumption /\ Again!IdAssumption
  BY FlakyAssumption, WidthAssumption, IdAssumption
<1>. QED
  BY <1>1, <1>2, <1>3, <1>4

LEMMA SecondTelling ==
  /\ Again!Init => Again!Telling
  /\ Again!Telling /\ [Again!Next]_vars2 => Again!Telling'
<1>1. Again!Init => Again!Telling
  BY SameAssumptions, Again!TellingStarts, Zenon
<1>2. Again!Telling /\ [Again!Next]_(Again!vars) => Again!Telling'
  BY SameAssumptions, Again!TellingKept, Zenon
<1>. QED
  BY <1>1, <1>2, Zenon DEF vars2, Again!vars

(* What an object states, and how a vocabulary is read, does not depend on *)
(* the export.                                                             *)
LEMMA SameReadings ==
  /\ Again!SettingFields = SettingFields
  /\ \A s : /\ Again!StoredDefinition(s) = StoredDefinition(s)
            /\ Again!ViewLabels(s) = ViewLabels(s) /\ Again!CarriedIds(s) = CarriedIds(s)
            /\ Again!TypeUses(s) = TypeUses(s)
            /\ \A key : Again!DeclaredFor(s, key) = DeclaredFor(s, key)
  /\ \A widgets : Again!WidgetProperties(widgets) = WidgetProperties(widgets)
  /\ \A refs, source : Again!UsesOf(refs, source) = UsesOf(refs, source)
<1>1. \A s : /\ Again!StoredDefinition(s) = StoredDefinition(s)
             /\ Again!ViewLabels(s) = ViewLabels(s) /\ Again!CarriedIds(s) = CarriedIds(s)
  <2>1. \A s : /\ Again!StoredDefinition(s) = StoredDefinition(s)
               /\ Again!CarriedIds(s) = CarriedIds(s)
    BY Zenon DEF Again!StoredDefinition, StoredDefinition, Again!IdenticalToTable,
                 IdenticalToTable, Again!CarriedIds, CarriedIds
  <2>2. \A s : Again!ViewLabels(s) = ViewLabels(s)
    BY DEF Again!ViewLabels, ViewLabels, Again!OwnIds, OwnIds
  <2>. QED
    BY <2>1, <2>2
<1>2. \A s : /\ Again!TypeUses(s) = TypeUses(s)
             /\ \A key : Again!DeclaredFor(s, key) = DeclaredFor(s, key)
  BY Zenon DEF Again!TypeUses, TypeUses, Again!DeclaredFor, DeclaredFor
<1>3. \A widgets : Again!WidgetProperties(widgets) = WidgetProperties(widgets)
  BY Zenon DEF Again!WidgetProperties, WidgetProperties
<1>4. \A refs, source : Again!UsesOf(refs, source) = UsesOf(refs, source)
  BY Zenon DEF Again!UsesOf, UsesOf
<1>5. Again!SettingFields = SettingFields
  BY DEF Again!SettingFields, SettingFields
<1>. QED
  BY <1>1, <1>2, <1>3, <1>4, <1>5

LEMMA SameVocabularies ==
  /\ \A key, stored, seen : Again!Collects(key, stored, seen) = Collects(key, stored, seen)
  /\ \A stored : Again!PickerOrder(stored) = PickerOrder(stored)
  /\ \A format, stored : Again!Lifted(format, stored) = Lifted(format, stored)
<1>1. Again!StoredOptions = StoredOptions /\ Again!Options = Options
  BY Zenon DEF Again!StoredOptions, StoredOptions, Again!OptionDefs, OptionDefs,
               Again!Options, Options, Again!Liftable, Liftable
<1>2. /\ \A t : Again!StoredOption(t) = StoredOption(t)
      /\ \A s : Again!OptionOf(s) = OptionOf(s)
      /\ \A a, b : Again!SameOption(a, b) = SameOption(a, b)
      /\ \A key, s : Again!AsOption(key, s) = AsOption(key, s)
  BY Zenon DEF Again!StoredOption, StoredOption, Again!OptionOf, OptionOf,
               Again!SameOption, SameOption, Again!AsOption, AsOption
<1>3. \A key, stored, seen : Again!Collects(key, stored, seen) = Collects(key, stored, seen)
  BY <1>1, <1>2 DEF Again!Collects, Collects
<1>4. \A stored : Again!PickerOrder(stored) = PickerOrder(stored)
  BY Zenon DEF Again!PickerOrder, PickerOrder, Again!Place, Place, Again!Earlier, Earlier,
               Again!Precedes, Precedes, Again!Before, Before, Again!Cardinality, Cardinality
<1>5. \A format, stored : Again!Lifted(format, stored) = Lifted(format, stored)
  BY Zenon DEF Again!Lifted, Lifted, Again!Carryable, Carryable, Again!FoldLeft, FoldLeft,
               Again!MapThenFoldSet, MapThenFoldSet, Again!Max, Max, Again!PickerOrder,
               PickerOrder, Again!Place, Place, Again!Earlier, Earlier, Again!Precedes,
               Precedes, Again!Before, Before, Again!Cardinality, Cardinality
<1>. QED
  BY <1>3, <1>4, <1>5

(* Both exports have returned, over the same snapshots settled alike.      *)
BothReturned ==
  out.status # "none" /\ out2.status # "none" /\ task = task2 /\ blobs = blobs2

LEMMA SameObservations ==
  ASSUME task = task2
  PROVE  Again!Reported = Reported /\ \A kind : Again!Seen(kind) = Seen(kind)
<1>1. Again!Reported = Reported
  BY DEF Again!Reported, Reported
<1>2. \A kind : Again!Seen(kind) = Seen(kind)
  BY DEF Again!Seen, Seen
<1>. QED
  BY <1>1, <1>2

LEMMA FunctionsAgree ==
  ASSUME NEW S, NEW f, NEW g, f = [x \in S |-> f[x]], g = [x \in S |-> g[x]],
         \A x \in S : f[x] = g[x]
  PROVE  f = g
  OBVIOUS

LEMMA StructFields ==
  ASSUME Telling, Again!Telling
  PROVE  /\ DOMAIN c.entries = Keys /\ DOMAIN c2.entries = Keys
         /\ DOMAIN c.declared = Keys /\ DOMAIN c2.declared = Keys
         /\ DOMAIN c.spaceSettings = SettingFields /\ DOMAIN c2.spaceSettings = SettingFields
         /\ c.entries = [key \in Keys |-> c.entries[key]]
         /\ c2.entries = [key \in Keys |-> c2.entries[key]]
         /\ c.declared = [key \in Keys |-> c.declared[key]]
         /\ c2.declared = [key \in Keys |-> c2.declared[key]]
         /\ c.spaceSettings = [field \in SettingFields |-> c.spaceSettings[field]]
         /\ c2.spaceSettings = [field \in SettingFields |-> c2.spaceSettings[field]]
         /\ c.index \in Sidebars /\ c2.index \in Sidebars
         /\ c.observedSpaceSettings \in BOOLEAN /\ c2.observedSpaceSettings \in BOOLEAN
         /\ c.metadataOnly \in BOOLEAN /\ c2.metadataOnly \in BOOLEAN
<1>1. c \in ComposerStructs /\ c2 \in Again!ComposerStructs
  BY DEF Telling, Ledger, TypeOK, Again!Telling, Again!Ledger, Again!TypeOK
<1>2. Again!Sidebars = Sidebars
  BY DEF Again!Sidebars, Sidebars, Again!Widgets, Widgets
<1>3. /\ c.entries \in [Keys -> Definitions \cup {NoDefinition}]
      /\ c.declared \in [Keys -> SUBSET Declarations] /\ c.spaceSettings \in SpaceSettings
      /\ c.index \in Sidebars /\ c.observedSpaceSettings \in BOOLEAN
      /\ c.metadataOnly \in BOOLEAN
  BY <1>1 DEF ComposerStructs
<1>4. /\ c2.entries \in [Keys -> Again!Definitions \cup {NoDefinition}]
      /\ c2.declared \in [Keys -> SUBSET Again!Declarations]
      /\ c2.spaceSettings \in Again!SpaceSettings /\ c2.index \in Sidebars
      /\ c2.observedSpaceSettings \in BOOLEAN /\ c2.metadataOnly \in BOOLEAN
  BY <1>1, <1>2 DEF Again!ComposerStructs
<1>. QED
  BY <1>3, <1>4, SameReadings DEF SpaceSettings, Again!SpaceSettings

(* The two structs say the same, but for the order in which the options of *)
(* a vocabulary arrived.                                                   *)
Alike ==
  /\ c.entries = c2.entries /\ c.declared = c2.declared /\ c.documentIds = c2.documentIds
  /\ c.filePaths = c2.filePaths /\ c.metadataOnly = c2.metadataOnly
  /\ c.widgetViewLabels = c2.widgetViewLabels /\ c.index = c2.index
  /\ c.observedSpaceSettings = c2.observedSpaceSettings
  /\ c.spaceSettings = c2.spaceSettings
  /\ c.written = 0 <=> c2.written = 0
  /\ UsedKeys = Again!UsedKeys
  /\ \A key \in Keys :
       /\ PickerOrder(c.optionsByKey[key]) = PickerOrder(c2.optionsByKey[key])
       /\ c.optionsByKey[key] = <<>> <=> c2.optionsByKey[key] = <<>>

LEMMA StructsAlike ==
  ASSUME AgreeingSpace, Telling, Again!Telling, BothReturned
  PROVE  Alike
<1>. USE DEF BothReturned
<1>1. Again!Reported = Reported /\ \A kind : Again!Seen(kind) = Seen(kind)
  BY SameObservations
<1>2. /\ c.documentIds = UNION {CarriedIds(Snapshot[t]) : t \in Reported}
      /\ \A key \in Keys :
           c.declared[key] = UNION {DeclaredFor(Snapshot[t], key) : t \in Reported}
      /\ c.filePaths = {Snapshot[t].id : t \in {u \in blobs : task[u] = "done"}}
      /\ \A field \in SettingFields :
           c.spaceSettings[field] = UNION {Snapshot[t][field] : t \in Seen("space")}
      /\ c.widgetViewLabels = UNION {ViewLabels(Snapshot[t]) : t \in Reported}
  BY DEF Telling, Ledger, AggregatesAreTheObservations, DocumentCensus, FileCensus,
         SettingsCensus, LabelsRead
<1>3. /\ c2.documentIds = UNION {CarriedIds(Snapshot[t]) : t \in Reported}
      /\ \A key \in Keys :
           c2.declared[key] = UNION {DeclaredFor(Snapshot[t], key) : t \in Reported}
      /\ c2.filePaths = {Snapshot[t].id : t \in {u \in blobs : task[u] = "done"}}
      /\ \A field \in SettingFields :
           c2.spaceSettings[field] = UNION {Snapshot[t][field] : t \in Seen("space")}
      /\ c2.widgetViewLabels = UNION {ViewLabels(Snapshot[t]) : t \in Reported}
  BY <1>1, SameReadings
     DEF Again!Telling, Again!Ledger, Again!AggregatesAreTheObservations,
         Again!DocumentCensus, Again!FileCensus, Again!SettingsCensus, Again!LabelsRead
<1>4. c.declared = c2.declared /\ c.spaceSettings = c2.spaceSettings
  <2>1. \A key \in Keys : c.declared[key] = c2.declared[key]
    BY <1>2, <1>3, Zenon
  <2>2. \A field \in SettingFields : c.spaceSettings[field] = c2.spaceSettings[field]
    BY <1>2, <1>3, Zenon
  <2>3. c.declared = c2.declared
    BY <2>1, StructFields, FunctionsAgree
  <2>4. c.spaceSettings = c2.spaceSettings
    BY <2>2, StructFields, FunctionsAgree
  <2>. QED
    BY <2>3, <2>4
<1>5. c.entries = c2.entries
  <2>1. ASSUME NEW key \in Keys PROVE c.entries[key] = c2.entries[key]
    <3>1. /\ c.entries[key] # NoDefinition <=>
               \E t \in Seen("relation") : Snapshot[t].key = key
          /\ c.entries[key] # NoDefinition =>
               \E t \in Seen("relation") : /\ Snapshot[t].key = key
                                           /\ c.entries[key] = StoredDefinition(Snapshot[t])
      BY DEF Telling, Ledger, AggregatesAreTheObservations, EntryCensus, EntriesRead
    <3>2. /\ c2.entries[key] # NoDefinition <=>
               \E t \in Seen("relation") : Snapshot[t].key = key
          /\ c2.entries[key] # NoDefinition =>
               \E t \in Seen("relation") : /\ Snapshot[t].key = key
                                           /\ c2.entries[key] = StoredDefinition(Snapshot[t])
      BY <1>1, SameReadings
         DEF Again!Telling, Again!Ledger, Again!AggregatesAreTheObservations,
             Again!EntryCensus, Again!EntriesRead
    <3>3. \A t, u \in Seen("relation") : Snapshot[t].key = key /\ Snapshot[u].key = key
            => StoredDefinition(Snapshot[t]) = StoredDefinition(Snapshot[u])
      BY SnapshotAssumption DEF AgreeingSpace, Seen
    <3>. QED
      BY <3>1, <3>2, <3>3
  <2>. QED
    BY <2>1, StructFields, FunctionsAgree
<1>6. c.index = c2.index
  <2>1. /\ c.index.widgets \in IF StatedWidgets = {} THEN {<<>>} ELSE StatedWidgets
        /\ c.index.autoTargets # {} <=> \E t \in Seen("widget") : Snapshot[t].autoTargets # {}
        /\ c.index.autoDisabled <=> \E t \in Seen("widget") : Snapshot[t].autoDisabled
        /\ c.index.autoTargets # {} =>
             \E t \in Seen("widget") : c.index.autoTargets = Snapshot[t].autoTargets
    BY DEF Telling, SidebarCensus, TargetsRead
  <2>2. Again!StatedWidgets = StatedWidgets
    BY <1>1 DEF Again!StatedWidgets, StatedWidgets
  <2>3. /\ c2.index.widgets \in IF StatedWidgets = {} THEN {<<>>} ELSE StatedWidgets
        /\ c2.index.autoTargets # {} <=> \E t \in Seen("widget") : Snapshot[t].autoTargets # {}
        /\ c2.index.autoDisabled <=> \E t \in Seen("widget") : Snapshot[t].autoDisabled
        /\ c2.index.autoTargets # {} =>
             \E t \in Seen("widget") : c2.index.autoTargets = Snapshot[t].autoTargets
    BY <1>1, <2>2 DEF Again!Telling, Again!SidebarCensus, Again!TargetsRead
  <2>4. \A t, u \in Seen("widget") :
          /\ Snapshot[t].widgets # <<>> /\ Snapshot[u].widgets # <<>>
               => Snapshot[t].widgets = Snapshot[u].widgets
          /\ Snapshot[t].autoTargets # {} /\ Snapshot[u].autoTargets # {}
               => Snapshot[t].autoTargets = Snapshot[u].autoTargets
    BY DEF AgreeingSpace, Seen
  <2>5. \A a, b \in StatedWidgets : a = b
    BY <2>4 DEF StatedWidgets
  <2>6. c.index.widgets = c2.index.widgets
    BY <2>1, <2>3, <2>5
  <2>7. c.index.autoTargets = c2.index.autoTargets
    BY <2>1, <2>3, <2>4, Zenon
  <2>8. c.index \in Sidebars /\ c2.index \in Sidebars
    BY StructFields
  <2>9. c.index.autoDisabled = c2.index.autoDisabled
    BY <2>1, <2>3, <2>8 DEF Sidebars
  <2>. QED
    BY <2>6, <2>7, <2>8, <2>9 DEF Sidebars
<1>7. /\ c.written = 0 <=> c2.written = 0
      /\ c.observedSpaceSettings = c2.observedSpaceSettings
  <2>1. /\ c.written = 0 <=> Reported = {}
        /\ c.observedSpaceSettings <=> Seen("space") # {}
    BY DEF Telling, CounterCensus
  <2>2. /\ c2.written = 0 <=> Reported = {}
        /\ c2.observedSpaceSettings <=> Seen("space") # {}
    BY <1>1 DEF Again!Telling, Again!CounterCensus
  <2>. QED
    BY <2>1, <2>2, StructFields
<1>8. UsedKeys = Again!UsedKeys /\ c.metadataOnly = c2.metadataOnly
  <2>1. /\ c.metadataOnly <=> MetadataOnly
        /\ UsedKeys = (UNION {Snapshot[t].used : t \in Reported})
                        \cup WidgetProperties(c.index.widgets)
    BY DEF Telling, Returned
  <2>2. /\ c2.metadataOnly <=> MetadataOnly
        /\ Again!UsedKeys = (UNION {Snapshot[t].used : t \in Reported})
                              \cup WidgetProperties(c2.index.widgets)
    BY <1>1, SameReadings DEF Again!Telling, Again!Returned
  <2>. QED
    BY <1>6, <2>1, <2>2, StructFields
<1>9. ASSUME NEW key \in Keys
      PROVE  /\ PickerOrder(c.optionsByKey[key]) = PickerOrder(c2.optionsByKey[key])
             /\ c.optionsByKey[key] = <<>> <=> c2.optionsByKey[key] = <<>>
  <2>1. Collects(key, c.optionsByKey[key], Seen("option"))
    BY VocabulariesCollect DEF Telling, Ledger
  <2>2. Collects(key, c2.optionsByKey[key], Seen("option"))
    <3>1. Again!TypeOK /\ Again!VocabularyCensus
      BY DEF Again!Telling, Again!Ledger
    <3>2. Again!Collects(key, c2.optionsByKey[key], Again!Seen("option"))
      BY <3>1, SameAssumptions, Again!VocabulariesCollect, Zenon
    <3>. QED
      BY <1>1, <3>2, SameVocabularies
  <2>3. PickerOrder(c.optionsByKey[key]) = PickerOrder(c2.optionsByKey[key])
    BY <2>1, <2>2, OneVocabulary
  <2>4. DOMAIN c.optionsByKey[key] = DOMAIN c2.optionsByKey[key]
    BY <2>3 DEF PickerOrder
  <2>5. c.optionsByKey[key] = <<>> <=> c2.optionsByKey[key] = <<>>
    BY <2>1, <2>2, <2>4 DEF Collects
  <2>. QED
    BY <2>3, <2>5
<1>. QED
  BY <1>2, <1>3, <1>4, <1>5, <1>6, <1>7, <1>8, <1>9, Zenon DEF Alike

(* A vocabulary is lifted as the picker shows it.                          *)
LEMMA LiftedAlike ==
  ASSUME NEW a, NEW b, PickerOrder(a) = PickerOrder(b), NEW format
  PROVE  Lifted(format, a) = Lifted(format, b)
  BY Zenon DEF Lifted

LEMMA DefinitionsAlike ==
  ASSUME Alike
  PROVE  \A key : DefinitionOf(key) = Again!DefinitionOf(key)
<1>1. c.entries = c2.entries /\ c.declared = c2.declared
  BY DEF Alike
<1>2. \A key : /\ ResolvedDefinition(key) = Again!ResolvedDefinition(key)
               /\ BundledDefinition(key) = Again!BundledDefinition(key)
  BY Zenon DEF ResolvedDefinition, Again!ResolvedDefinition, BundledDefinition,
               Again!BundledDefinition
<1>3. \A key : DeclaredDefinition(key) = Again!DeclaredDefinition(key)
  BY <1>1, Zenon DEF DeclaredDefinition, Again!DeclaredDefinition
<1>4. \A key : Undisputed(key) = Again!Undisputed(key)
  BY <1>1, Zenon DEF Undisputed, Again!Undisputed, Cardinality, Again!Cardinality
<1>. QED
  BY <1>1, <1>2, <1>3, <1>4 DEF DefinitionOf, Again!DefinitionOf

LEMMA DictionariesAlike ==
  ASSUME Alike, TypeOK
  PROVE  Orphans = Again!Orphans /\ Dictionary = Again!Dictionary
<1>1. /\ c.entries = c2.entries /\ c.declared = c2.declared /\ UsedKeys = Again!UsedKeys
      /\ \A key \in Keys :
           PickerOrder(c.optionsByKey[key]) = PickerOrder(c2.optionsByKey[key])
  BY DEF Alike
<1>2. \A key : DefinitionOf(key) = Again!DefinitionOf(key)
  BY DefinitionsAlike
<1>3. Orphans = Again!Orphans
  BY <1>1, <1>2 DEF Orphans, Again!Orphans
<1>4. \A key \in UsedKeys : LiftedOptions(key) = Again!LiftedOptions(key)
  <2>1. ASSUME NEW key \in UsedKeys, NEW format
        PROVE  Lifted(format, c.optionsByKey[key]) = Again!Lifted(format, c2.optionsByKey[key])
    BY <1>1, UsedKeysTyped, LiftedAlike, SameVocabularies
  <2>. QED
    BY <1>1, <1>2, <1>3, <2>1 DEF LiftedOptions, Again!LiftedOptions
<1>5. \A key : UndefinedEntry(key) = Again!UndefinedEntry(key)
  BY Zenon DEF UndefinedEntry, Again!UndefinedEntry
<1>6. Dictionary = Again!Dictionary
  <2>. DEFINE row(key) ==
         [definition |-> IF key \in Orphans THEN UndefinedEntry(NoName) ELSE DefinitionOf(key),
          options |-> LiftedOptions(key)]
              row2(key) ==
         [definition |-> IF key \in Again!Orphans THEN Again!UndefinedEntry(NoName)
                                                  ELSE Again!DefinitionOf(key),
          options |-> Again!LiftedOptions(key)]
  <2>1. \A key \in UsedKeys : row(key) = row2(key)
    BY <1>2, <1>3, <1>4, <1>5
  <2>2. /\ Dictionary = [key \in UsedKeys |-> row(key)]
        /\ Again!Dictionary = [key \in Again!UsedKeys |-> row2(key)]
    BY Zenon DEF Dictionary, Again!Dictionary
  <2>. HIDE DEF row, row2
  <2>. QED
    BY <1>1, <2>1, <2>2
<1>. QED
  BY <1>3, <1>6

LEMMA DrawnAlike ==
  ASSUME Alike, TypeOK
  PROVE  DrawnUses = Again!DrawnUses
<1>1. UsedKeys = Again!UsedKeys /\ Dictionary = Again!Dictionary
  BY DictionariesAlike DEF Alike
<1>2. \A refs, source : Again!UsesOf(refs, source) = UsesOf(refs, source)
  BY SameReadings
<1>. QED
  BY <1>1, <1>2, Zenon DEF DrawnUses, Again!DrawnUses, PropertiesFile, Again!PropertiesFile

(* What the index says of the settings and of the sidebar.                 *)
LEMMA LiftsAlike ==
  ASSUME Alike
  PROVE  /\ KeptIcon = Again!KeptIcon /\ PublishedWidgets = Again!PublishedWidgets
         /\ UnresolvedTargets = Again!UnresolvedTargets
         /\ ManifestFiles = Again!ManifestFiles
<1>1. /\ c.documentIds = c2.documentIds /\ c.filePaths = c2.filePaths
      /\ c.metadataOnly = c2.metadataOnly /\ c.widgetViewLabels = c2.widgetViewLabels
      /\ c.index = c2.index /\ c.spaceSettings = c2.spaceSettings
  BY DEF Alike
<1>2. KeptIcon = Again!KeptIcon
  BY <1>1, Zenon DEF KeptIcon, Again!KeptIcon, DroppedDeletedIconRef,
                     Again!DroppedDeletedIconRef
<1>3. \A homepage, widgets, icon :
        ObjectReferences(homepage, widgets, icon) = Again!ObjectReferences(homepage, widgets, icon)
  BY Zenon DEF ObjectReferences, Again!ObjectReferences
<1>4. IndexReferences = Again!IndexReferences
  BY <1>1, <1>2, <1>3, Zenon DEF IndexReferences, Again!IndexReferences
<1>5. UnresolvedTargets = Again!UnresolvedTargets
  BY <1>1, <1>4, Zenon DEF UnresolvedTargets, Again!UnresolvedTargets
<1>6. \A widget : LabelledWidget(widget) = Again!LabelledWidget(widget)
  BY <1>1, Zenon DEF LabelledWidget, Again!LabelledWidget
<1>7. PublishedWidgets = Again!PublishedWidgets
  BY <1>1, <1>6, Zenon DEF PublishedWidgets, Again!PublishedWidgets
<1>8. ManifestFiles = Again!ManifestFiles
  BY <1>1, Zenon DEF ManifestFiles, Again!ManifestFiles
<1>. QED
  BY <1>2, <1>5, <1>7, <1>8

LEMMA IndexesAlike ==
  ASSUME Alike, TypeOK, TypeRefsAtFinish = Again!TypeRefsAtFinish
  PROVE  Index = Again!Index
<1>1. /\ c.documentIds = c2.documentIds /\ c.index = c2.index
      /\ c.spaceSettings = c2.spaceSettings
  BY DEF Alike
<1>2. Orphans = Again!Orphans
  BY DictionariesAlike
<1>3. /\ KeptIcon = Again!KeptIcon /\ PublishedWidgets = Again!PublishedWidgets
      /\ UnresolvedTargets = Again!UnresolvedTargets /\ ManifestFiles = Again!ManifestFiles
  BY LiftsAlike
<1>4. UnresolvedTypes = Again!UnresolvedTypes
  BY <1>1, Zenon DEF UnresolvedTypes, Again!UnresolvedTypes
<1>5. \A id : ClassifyUnresolvedTarget(id) = Again!ClassifyUnresolvedTarget(id)
  BY Zenon DEF ClassifyUnresolvedTarget, Again!ClassifyUnresolvedTarget
<1>6. Unresolved = Again!Unresolved
  BY <1>2, <1>3, <1>4, <1>5, Zenon DEF Unresolved, Again!Unresolved
<1>7. \A S, none : TheOne(S, none) = Again!TheOne(S, none)
  BY Zenon DEF TheOne, Again!TheOne
<1>. QED
  BY <1>1, <1>3, <1>6, <1>7, Zenon DEF Index, Again!Index

LEMMA StatusesAlike ==
  ASSUME Alike, TypeOK
  PROVE  ReturnedStatus = Again!ReturnedStatus
<1>1. /\ c.filePaths = c2.filePaths /\ c.metadataOnly = c2.metadataOnly
      /\ c.index = c2.index /\ c.spaceSettings = c2.spaceSettings
      /\ c.entries = c2.entries /\ c.observedSpaceSettings = c2.observedSpaceSettings
      /\ UsedKeys = Again!UsedKeys /\ (c.written = 0 <=> c2.written = 0)
      /\ \A key \in Keys : c.optionsByKey[key] = <<>> <=> c2.optionsByKey[key] = <<>>
  BY DEF Alike
<1>2. ConflictingSettings = Again!ConflictingSettings
  BY <1>1, Zenon DEF ConflictingSettings, Again!ConflictingSettings, SettingFields,
                     Again!SettingFields, Cardinality, Again!Cardinality
<1>3. HasSemanticState <=> Again!HasSemanticState
  <2>1. NewComposer.index = Again!NewComposer.index
    BY Zenon DEF NewComposer, Again!NewComposer, SettingFields, Again!SettingFields
  <2>. QED
    BY <1>1, <2>1, SameReadings DEF HasSemanticState, Again!HasSemanticState
<1>4. (ContradictsMetadataOnly <=> Again!ContradictsMetadataOnly)
      /\ (UnreadableIndex <=> Again!UnreadableIndex)
  BY <1>1, Zenon DEF ContradictsMetadataOnly, Again!ContradictsMetadataOnly,
                     UnreadableIndex, Again!UnreadableIndex
<1>5. UnwritableDictionary <=> Again!UnwritableDictionary
  <2>1. Orphans = Again!Orphans /\ \A key : DefinitionOf(key) = Again!DefinitionOf(key)
    BY DictionariesAlike, DefinitionsAlike
  <2>2. \A def : Unstatable(def) <=> Again!Unstatable(def)
    BY Zenon DEF Unstatable, Again!Unstatable
  <2>. QED
    BY <1>1, <2>1, <2>2, Zenon DEF UnwritableDictionary, Again!UnwritableDictionary
<1>. QED
  BY <1>2, <1>3, <1>4, <1>5, Zenon DEF ReturnedStatus, Again!ReturnedStatus

LEMMA TellingsAgree ==
  ASSUME AgreeingSpace, Telling, Again!Telling
  PROVE  SameSpaceSameBytes
<1>. SUFFICES ASSUME BothReturned
              PROVE  /\ out.status = out2.status
                     /\ out.status = "bundle" => /\ out.dictionary = out2.dictionary
                                                 /\ out.index = out2.index
  BY DEF SameSpaceSameBytes, BothReturned
<1>1. Alike /\ TypeOK
  BY StructsAlike DEF Telling, Ledger
<1>2. out.status # "none" /\ out2.status # "none" /\ task = task2
  BY DEF BothReturned
<1>3. /\ out.status = ReturnedStatus
      /\ out.status = "bundle" =>
           /\ out.dictionary = Dictionary /\ out.index = Index
           /\ TypeRefsAtFinish = (UNION {TypeUses(Snapshot[t]) : t \in Reported}) \cup DrawnUses
  BY <1>2, Zenon DEF Telling, Returned
<1>4. /\ out2.status = Again!ReturnedStatus
      /\ out2.status = "bundle" =>
           /\ out2.dictionary = Again!Dictionary /\ out2.index = Again!Index
           /\ Again!TypeRefsAtFinish =
                (UNION {Again!TypeUses(Snapshot[t]) : t \in Again!Reported})
                  \cup Again!DrawnUses
  BY <1>2, Zenon DEF Again!Telling, Again!Returned
<1>5. out.status = out2.status
  BY <1>1, <1>3, <1>4, StatusesAlike
<1>6. ASSUME out.status = "bundle"
      PROVE  out.dictionary = out2.dictionary /\ out.index = out2.index
  <2>1. Again!Reported = Reported /\ \A s : Again!TypeUses(s) = TypeUses(s)
    BY <1>2, SameObservations, SameReadings
  <2>2. Dictionary = Again!Dictionary /\ DrawnUses = Again!DrawnUses
    BY <1>1, DictionariesAlike, DrawnAlike
  <2>3. TypeRefsAtFinish = Again!TypeRefsAtFinish
    BY <1>3, <1>4, <1>5, <1>6, <2>1, <2>2, Zenon
  <2>4. Index = Again!Index
    BY <1>1, <2>3, IndexesAlike
  <2>. QED
    BY <1>3, <1>4, <1>5, <1>6, <2>2, <2>4
<1>. QED
  BY <1>5, <1>6

(***************************************************************************)
(* The same space state gives the same verdict and the same bytes, of      *)
(* every space whose snapshots agree where they repeat one another: two    *)
(* exports whose tasks came to the same ends returned the same from        *)
(* Finish, under any two schedules (compose_test.go "observation ORDER     *)
(* must never reach the bytes").                                           *)
(***************************************************************************)
THEOREM TwinsAgree ==
  ASSUME AgreeingSpace
  PROVE  TwinSpec => []SameSpaceSameBytes
<1>1. TwinInit => Telling /\ Again!Telling
  BY TellingStarts, SecondTelling DEF TwinInit
<1>2. Telling /\ Again!Telling /\ [TwinNext]_<<vars, vars2>>
        => Telling' /\ Again!Telling'
  <2>. SUFFICES ASSUME Telling, Again!Telling, [TwinNext]_<<vars, vars2>>
                PROVE  Telling' /\ Again!Telling'
    OBVIOUS
  <2>1. [Next]_vars /\ [Again!Next]_vars2
    BY Zenon DEF TwinNext
  <2>. QED
    BY <2>1, TellingKept, SecondTelling
<1>3. Telling /\ Again!Telling => SameSpaceSameBytes
  BY TellingsAgree
<1>. QED
  BY <1>1, <1>2, <1>3, PTL DEF TwinSpec
=============================================================================
