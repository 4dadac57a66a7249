-------------------------- MODULE CompositionProofs --------------------------
(***************************************************************************)
(* Theorems about what Finish composes, from the ledger of ComposerProofs: *)
(* the refusal of settings that disagree, the census of types, the entries *)
(* that disputed declarations leave undefined, the flags of copies, the    *)
(* definitions nothing uses, the sources of missing references, that the   *)
(* struct only accumulates, the labels of views, the counts of the         *)
(* options, and the order of a vocabulary.  The last section states all    *)
(* that a struct and a return say of the objects observed (Telling).       *)
(***************************************************************************)
EXTENDS ComposerProofs

-----------------------------------------------------------------------------
(* What Finish returned, member by member.                                 *)

LEMMA StatsMembers ==
  /\ Stats.orphans = Orphans
  /\ Stats.unused = UnusedPropertyKeys
  /\ Stats.references = UnresolvedReferences
  BY Zenon DEF Stats

LEMMA UnresolvedMembers ==
  /\ Unresolved.targets = UnresolvedTargets
  /\ Unresolved.types = UnresolvedTypes
  BY Zenon DEF Unresolved

(* The uses of some types by one source name these types.                  *)
UsesOf(refs, source) == {[ref |-> ref, source |-> source] : ref \in refs}

LEMMA UsesNameTheirTypes ==
  \A refs, source, x : (\E use \in UsesOf(refs, source) : use.ref = x) <=> x \in refs
<1>. SUFFICES ASSUME NEW refs, NEW source, NEW x
              PROVE  (\E use \in UsesOf(refs, source) : use.ref = x) <=> x \in refs
  OBVIOUS
<1>. DEFINE use(ref) == [ref |-> ref, source |-> source]
<1>1. \A ref : use(ref).ref = ref
  OBVIOUS
<1>. HIDE DEF use
<1>2. (\E u \in {use(ref) : ref \in refs} : u.ref = x) <=> x \in refs
  BY <1>1
<1>. QED
  BY <1>2 DEF use, UsesOf

LEMMA TypeUsesAsUses ==
  \A s : TypeUses(s) = IF s.envelope = NoId THEN {} ELSE UsesOf(s.typeRefs, s.envelope)
  BY DEF TypeUses, UsesOf

LEMMA FinalUsesAsUses ==
  TypeRefsAtFinish =
    c.typeRefs
      \cup UNION {UsesOf(Dictionary[key].definition.targets, PropertiesFile) : key \in UsedKeys}
  BY Zenon DEF TypeRefsAtFinish, UsesOf

(* What a run that just published returned, and the censuses it read.      *)
LEMMA PublishedFrom ==
  ASSUME Ledger, [Next]_vars, ~Published, Published'
  PROVE  /\ out'.index.unresolved.types = UnresolvedTypes
         /\ out'.index.unresolved.targets = UnresolvedTargets
         /\ out'.stats.orphans = Orphans /\ out'.stats.unused = UnusedPropertyKeys
         /\ out'.stats.references = UnresolvedReferences
         /\ out'.dictionary = Dictionary
         /\ c.used = UNION {Snapshot[t].used : t \in docs}
         /\ c.typeRefs = UNION {TypeUses(Snapshot[t]) : t \in docs}
         /\ c.documentIds = UNION {CarriedIds(Snapshot[t]) : t \in docs}
         /\ \A key \in Keys :
              c.declared[key] = UNION {DeclaredFor(Snapshot[t], key) : t \in docs}
         /\ docs' = docs /\ task' = task
<1>1. FinishBundle /\ out'.index = Index /\ out'.dictionary = Dictionary
      /\ docs = Reported /\ docs' = docs /\ task' = task
  BY JustPublished
<1>2. out'.stats = Stats
  BY <1>1, Zenon DEF FinishBundle, Finishes
<1>3. out.status = "none"
  BY NothingFollowsFinish DEF Published, vars
<1>4. DocumentCensus
  BY DEF Ledger, AggregatesAreTheObservations
<1>. QED
  BY <1>1, <1>2, <1>3, <1>4, StatsMembers, IndexMembers, UnresolvedMembers
     DEF DocumentCensus

-----------------------------------------------------------------------------
(***************************************************************************)
(* Space settings that disagree are refused, and only those are refused    *)
(* for that, for every space, order and number of observations.            *)
(***************************************************************************)
THEOREM ConflictsCorrect == Spec => []ConflictsAreRefused
<1>1. Init => ConflictsAreRefused
  BY DEF Init, NoOutput, ConflictsAreRefused
<1>2. Ledger /\ ConflictsAreRefused /\ [Next]_vars => ConflictsAreRefused'
  <2>. SUFFICES ASSUME Ledger, ConflictsAreRefused, [Next]_vars, out'.status # "none"
                PROVE  ConflictsAreRefused'
    BY DEF ConflictsAreRefused
  <2>1. CASE out.status # "none"
    <3>1. out' = out /\ task' = task
      BY <2>1, NothingFollowsFinish DEF vars
    <3>. QED
      BY <3>1 DEF ConflictsAreRefused, Seen
  <2>2. CASE out.status = "none"
    <3>1. Finish
      BY <2>2, OnlyFinishReturns
    <3>2. Seen("space")' = Seen("space")
      BY <3>1, FinishShape DEF Ledger, Seen
    <3>3. \A field \in SettingFields :
            c.spaceSettings[field] = UNION {Snapshot[t][field] : t \in Seen("space")}
      BY DEF Ledger, AggregatesAreTheObservations, SettingsCensus
    <3>4. (out'.status = "refused" /\ out'.why = "space settings")
             <=> ConflictingSettings # {}
      <4>1. CASE FinishConflicting
        BY <4>1, Zenon DEF FinishConflicting, Finishes
      <4>2. CASE FinishEmpty
        BY <4>2, Zenon DEF FinishEmpty, Finishes
      <4>3. CASE FinishRefused
        <5>1. ConflictingSettings = {}
          BY <4>3 DEF FinishRefused
        <5>2. out'.why \in {"dictionary", "metadata only", "index"}
          <6>1. CASE Finishes([status |-> "refused", why |-> "metadata only"])
            BY <6>1, Zenon DEF Finishes
          <6>2. CASE Finishes([status |-> "refused", why |-> "index"])
            BY <6>2, Zenon DEF Finishes
          <6>3. CASE Finishes([status |-> "refused", why |-> "dictionary"])
            BY <6>3, Zenon DEF Finishes
          <6>. QED
            BY <4>3, <6>1, <6>2, <6>3 DEF FinishRefused
        <5>. QED
          BY <5>1, <5>2
      <4>4. CASE FinishBundle
        <5>1. out'.status = "bundle" /\ ConflictingSettings = {}
          BY <4>4, Zenon DEF FinishBundle, Finishes
        <5>. QED
          BY <5>1
      <4>. QED
        BY <3>1, <4>1, <4>2, <4>3, <4>4 DEF Finish
    <3>5. ConflictingSettings # {}
            <=> \E field \in SettingFields :
                  Cardinality(UNION {Snapshot[t][field] : t \in Seen("space")}) > 1
      BY <3>3 DEF ConflictingSettings
    <3>. QED
      BY <3>2, <3>4, <3>5 DEF ConflictsAreRefused
  <2>. QED
    BY <2>1, <2>2
<1>. QED
  BY <1>1, <1>2, LedgerStarts, LedgerKept, PTL DEF Spec

(***************************************************************************)
(* A type a written document or an entry names is carried or declared      *)
(* missing, never both, for every schedule.                                *)
(***************************************************************************)
THEOREM TypesCorrect == Spec => []TypesAnswered
<1>1. Init => TypesAnswered
  BY NothingPublishedAtFirst DEF TypesAnswered
<1>2. Ledger /\ TypesAnswered /\ [Next]_vars => TypesAnswered'
  <2>. SUFFICES ASSUME Ledger, TypesAnswered, [Next]_vars, Published'
                PROVE  TypesAnswered'
    BY DEF TypesAnswered
  <2>1. CASE Published
    <3>1. UNCHANGED vars
      BY <2>1, NothingFollowsFinish DEF Published
    <3>. QED
      BY <3>1 DEF vars, TypesAnswered, Published, Carried
  <2>2. CASE ~Published
    <3>. DEFINE stated == UNION {Snapshot[t].typeRefs :
                                   t \in {u \in docs : Snapshot[u].envelope # NoId}}
                drawn == UNION {out'.dictionary[key].definition.targets :
                                  key \in DOMAIN out'.dictionary}
    <3>1. out'.index.unresolved.types = UnresolvedTypes /\ docs' = docs
          /\ out'.dictionary = Dictionary
          /\ c.typeRefs = UNION {TypeUses(Snapshot[t]) : t \in docs}
          /\ c.documentIds = UNION {CarriedIds(Snapshot[t]) : t \in docs}
      BY <2>2, PublishedFrom
    <3>2. c.documentIds = Carried
      BY <3>1 DEF Carried, CarriedIds
    <3>3. \A x : (\E use \in c.typeRefs : use.ref = x) <=> x \in stated
      <4>1. \A t, x : (\E use \in TypeUses(Snapshot[t]) : use.ref = x)
                        <=> Snapshot[t].envelope # NoId /\ x \in Snapshot[t].typeRefs
        BY UsesNameTheirTypes, TypeUsesAsUses
      <4>. QED
        BY <3>1, <4>1
    <3>4. DOMAIN Dictionary = UsedKeys
      BY DEF Dictionary
    <3>5. \A x : (\E use \in TypeRefsAtFinish : use.ref = x) <=> x \in stated \cup drawn
      <4>. HIDE DEF stated
      <4>. QED
        BY <3>1, <3>3, <3>4, UsesNameTheirTypes, FinalUsesAsUses
    <3>. HIDE DEF stated, drawn
    <3>6. out'.index.unresolved.types = (stated \cup drawn) \ Carried
      BY <3>1, <3>2, <3>5 DEF UnresolvedTypes
    <3>. QED
      BY <3>1, <3>6 DEF TypesAnswered, Carried, stated, drawn
  <2>. QED
    BY <2>1, <2>2
<1>. QED
  BY <1>1, <1>2, LedgerStarts, LedgerKept, PTL DEF Spec

-----------------------------------------------------------------------------
(* What the sources of a definition leave.                                 *)

(* A key that nothing but a declaration could define has an entry of its   *)
(* own exactly when one is undisputed.                                     *)
LEMMA DeclarationsDecide ==
  ASSUME TypeOK, NEW key \in Keys, c.entries[key] = NoDefinition,
         key \notin DOMAIN Resolver \cup DOMAIN Table
  PROVE  DefinitionOf(key) = NoDefinition <=> Cardinality(c.declared[key]) # 1
<1>1. CASE Undisputed(key)
  <2>1. DefinitionOf(key) = DeclaredDefinition(key)
    BY <1>1 DEF DefinitionOf
  <2>2. DeclaredDefinition(key) # NoDefinition
    <3>1. c.declared[key] \in SUBSET Declarations /\ c.declared[key] # {}
      <4>1. c.declared[key] \in SUBSET Declarations
        BY DEF TypeOK, ComposerStructs
      <4>2. c.declared[key] # {}
        <5>. SUFFICES ASSUME c.declared[key] = {} PROVE FALSE
          OBVIOUS
        <5>. QED
          BY <1>1, FS_EmptySet DEF Undisputed
      <4>. QED
        BY <4>1, <4>2
    <3>2. (CHOOSE d \in c.declared[key] : TRUE) \in Declarations
      BY <3>1
    <3>3. DeclaredDefinition(key) \in Definitions
      BY <3>2 DEF DeclaredDefinition, Declarations, Definitions
    <3>. QED
      BY <3>3, SnapshotAssumption
  <2>. QED
    BY <1>1, <2>1, <2>2 DEF Undisputed
<1>2. CASE ~Undisputed(key)
  BY <1>2 DEF DefinitionOf, Undisputed
<1>. QED
  BY <1>1, <1>2

(***************************************************************************)
(* Declarations that dispute each other define nothing, and a single one   *)
(* defines the key, for every set of documents and order of their reports. *)
(***************************************************************************)
THEOREM DisputesCorrect == Spec => []DisputedDeclarationsDefineNothing
<1>1. Init => DisputedDeclarationsDefineNothing
  BY NothingPublishedAtFirst DEF DisputedDeclarationsDefineNothing
<1>2. Ledger /\ DisputedDeclarationsDefineNothing /\ [Next]_vars
        => DisputedDeclarationsDefineNothing'
  <2>. SUFFICES ASSUME Ledger, DisputedDeclarationsDefineNothing, [Next]_vars, Published'
                PROVE  DisputedDeclarationsDefineNothing'
    BY DEF DisputedDeclarationsDefineNothing
  <2>1. CASE Published
    <3>1. UNCHANGED vars
      BY <2>1, NothingFollowsFinish DEF Published
    <3>. QED
      BY <3>1 DEF vars, DisputedDeclarationsDefineNothing, Published, Seen
  <2>2. CASE ~Published
    <3>1. /\ out'.dictionary = Dictionary /\ out'.stats.orphans = Orphans
          /\ docs' = docs /\ task' = task
          /\ \A key \in Keys :
               c.declared[key] = UNION {DeclaredFor(Snapshot[t], key) : t \in docs}
      BY <2>2, PublishedFrom
    <3>2. DOMAIN Dictionary = UsedKeys /\ UsedKeys \subseteq Keys
      BY UsedKeysTyped DEF Dictionary, Ledger
    <3>3. ASSUME NEW key \in UsedKeys,
                 key \notin {Snapshot[t].key : t \in Seen("relation")}
                            \cup DOMAIN Resolver \cup DOMAIN Table
          PROVE  key \in Orphans
                   <=> Cardinality(UNION {DeclaredFor(Snapshot[t], key) : t \in docs}) # 1
      <4>1. key \in Keys /\ c.entries[key] = NoDefinition
        BY <3>2, <3>3 DEF Ledger, AggregatesAreTheObservations, EntryCensus
      <4>2. DefinitionOf(key) = NoDefinition <=> Cardinality(c.declared[key]) # 1
        BY <3>3, <4>1, DeclarationsDecide DEF Ledger
      <4>. QED
        BY <3>1, <3>3, <4>1, <4>2 DEF Orphans
    <3>4. Seen("relation")' = Seen("relation")
      BY <3>1 DEF Seen
    <3>. QED
      BY <3>1, <3>2, <3>3, <3>4 DEF DisputedDeclarationsDefineNothing
  <2>. QED
    BY <2>1, <2>2
<1>. QED
  BY <1>1, <1>2, LedgerStarts, LedgerKept, PTL DEF Spec

-----------------------------------------------------------------------------
(* The flag of a bundled key's entry.                                      *)

Facets(def) == [name |-> def.name, format |-> def.format, targets |-> def.targets]

(* Every stored entry of a bundled key that says something else than the   *)
(* table is flagged.                                                       *)
CopiesFlagged ==
  \A key \in DOMAIN Table :
    c.entries[key] # NoDefinition /\ Facets(c.entries[key]) # Table[key]
      => c.entries[key].diverged

LEMMA CopiesFlaggedKept ==
  ASSUME TypeOK, TasksFollowTheirKind, CopiesFlagged, [Next]_vars
  PROVE  CopiesFlagged'
<1>1. ASSUME NEW t \in Tasks, ObserveRelation(t)
      PROVE  CopiesFlagged'
  <2>1. c'.entries = [c.entries EXCEPT ![Snapshot[t].key] = StoredDefinition(Snapshot[t])]
    BY <1>1, Zenon DEF ObserveRelation, Omits, TypeOK, ComposerStructs
  <2>2. DOMAIN c.entries = Keys /\ DOMAIN Table \subseteq Keys
    BY VocabularyAssumption DEF TypeOK, ComposerStructs
  <2>3. Snapshot[t].key \in DOMAIN Table
          /\ Facets(StoredDefinition(Snapshot[t])) # Table[Snapshot[t].key]
        => StoredDefinition(Snapshot[t]).diverged
    BY DEF StoredDefinition, Facets, IdenticalToTable
  <2>. QED
    BY <2>1, <2>2, <2>3 DEF CopiesFlagged
<1>2. ASSUME NEW t \in Tasks, Observe(t), ~ObserveDocument(t), ~ObserveRelation(t)
      PROVE  CopiesFlagged'
  BY <1>2, LiftedFields DEF CopiesFlagged
<1>3. ASSUME NEW t \in Tasks, ObserveDocument(t) \/ Emit(t)
      PROVE  CopiesFlagged'
  BY <1>3, EmittedFields DEF CopiesFlagged
<1>4. ASSUME DeclareMetadataOnly \/ Finish \/ Cancel \/ Stop \/ UNCHANGED vars
      PROVE  CopiesFlagged'
  BY <1>4, RunFields DEF CopiesFlagged
<1>5. ASSUME NEW t \in Tasks, FailObject(t)
      PROVE  CopiesFlagged'
  BY <1>5, FailedObject DEF CopiesFlagged
<1>. QED
  BY <1>1, <1>2, <1>3, <1>4, <1>5 DEF Next, Observe

(* Whichever source defines a bundled key, the entry is flagged when it    *)
(* differs from the table.                                                 *)
LEMMA DefinitionsFlagged ==
  ASSUME TypeOK, CopiesFlagged, NEW key \in DOMAIN Table
  PROVE  /\ DefinitionOf(key) # NoDefinition
         /\ Facets(DefinitionOf(key)) # Table[key] => DefinitionOf(key).diverged
<1>1. key \in Keys /\ Table[key] \in Facts
  BY VocabularyAssumption
<1>2. CASE c.entries[key] # NoDefinition
  BY <1>2 DEF DefinitionOf, CopiesFlagged
<1>3. CASE c.entries[key] = NoDefinition /\ key \in DOMAIN Resolver
  <2>1. DefinitionOf(key) = ResolvedDefinition(key)
    BY <1>3 DEF DefinitionOf
  <2>2. ResolvedDefinition(key) \in Definitions
    BY <1>3, VocabularyAssumption DEF ResolvedDefinition, Definitions, Facts
  <2>3. Facets(ResolvedDefinition(key)) # Table[key] => ResolvedDefinition(key).diverged
    BY DEF ResolvedDefinition, Facets
  <2>. QED
    BY <2>1, <2>2, <2>3, SnapshotAssumption
<1>4. CASE c.entries[key] = NoDefinition /\ key \notin DOMAIN Resolver
  <2>1. DefinitionOf(key) = BundledDefinition(key)
    BY <1>4 DEF DefinitionOf
  <2>2. BundledDefinition(key) \in Definitions
    BY VocabularyAssumption DEF BundledDefinition, Definitions, Facts
  <2>3. Facets(BundledDefinition(key)) = Table[key]
    BY <1>1 DEF BundledDefinition, Facets, Facts
  <2>. QED
    BY <2>1, <2>2, <2>3, SnapshotAssumption
<1>. QED
  BY <1>2, <1>3, <1>4

(***************************************************************************)
(* An entry of a bundled key that says something else than the shipped     *)
(* table is flagged, whichever source it comes from.                       *)
(***************************************************************************)
THEOREM FlagsCorrect == Spec => []DivergenceIsFlagged
<1>1. Init => DivergenceIsFlagged /\ CopiesFlagged
  <2>. SUFFICES ASSUME Init PROVE DivergenceIsFlagged /\ CopiesFlagged
    OBVIOUS
  <2>1. c.entries = [key \in Keys |-> NoDefinition]
    BY Zenon DEF Init, NewComposer
  <2>. QED
    BY <2>1, NothingPublishedAtFirst, VocabularyAssumption
       DEF DivergenceIsFlagged, CopiesFlagged
<1>2. Ledger /\ CopiesFlagged /\ [Next]_vars => CopiesFlagged'
  BY CopiesFlaggedKept DEF Ledger
<1>3. Ledger /\ CopiesFlagged /\ DivergenceIsFlagged /\ [Next]_vars => DivergenceIsFlagged'
  <2>. SUFFICES ASSUME Ledger, CopiesFlagged, DivergenceIsFlagged, [Next]_vars, Published'
                PROVE  DivergenceIsFlagged'
    BY DEF DivergenceIsFlagged
  <2>1. CASE Published
    <3>1. UNCHANGED vars
      BY <2>1, NothingFollowsFinish DEF Published
    <3>. QED
      BY <3>1 DEF vars, DivergenceIsFlagged, Published
  <2>2. CASE ~Published
    <3>1. out'.dictionary = Dictionary
      BY <2>2, PublishedFrom
    <3>2. ASSUME NEW key \in UsedKeys \cap DOMAIN Table
          PROVE  Facets(Dictionary[key].definition) # Table[key]
                   => Dictionary[key].definition.diverged
      <4>1. key \notin Orphans
        BY DefinitionsFlagged DEF Orphans, Ledger
      <4>2. Dictionary[key].definition = DefinitionOf(key)
        BY <4>1 DEF Dictionary
      <4>. QED
        BY <4>2, DefinitionsFlagged DEF Ledger
    <3>3. DOMAIN Dictionary = UsedKeys
      BY DEF Dictionary
    <3>. QED
      BY <3>1, <3>2, <3>3 DEF DivergenceIsFlagged, Facets
  <2>. QED
    BY <2>1, <2>2
<1>. QED
  BY <1>1, <1>2, <1>3, LedgerStarts, LedgerKept, PTL DEF Spec

-----------------------------------------------------------------------------
(* The vocabularies.                                                       *)

(* A property has options exactly when one of its options was lifted; an   *)
(* option that was seen is in the vocabulary of its owner.                 *)
OptionCensus ==
  /\ \A key \in Keys :
       c.optionsByKey[key] # <<>>
         <=> \E t \in Seen("option") : Liftable(t) /\ Snapshot[t].owner = key
  /\ \A o \in c.seenOptions : c.optionsByKey[o.owner] # <<>>

(* Which lifts a step adds, by kind.                                       *)
LEMMA SeenMoves ==
  ASSUME TypeOK, TasksFollowTheirKind, [Next]_vars, NEW kind, kind # "document"
  PROVE  \/ Seen(kind)' = Seen(kind)
         \/ \E t \in Tasks : /\ Observe(t) /\ ~ObserveDocument(t)
                             /\ Snapshot[t].kind = kind
                             /\ Seen(kind)' = Seen(kind) \cup {t}
<1>1. ASSUME NEW t \in Tasks, Observe(t), ~ObserveDocument(t)
      PROVE  Seen(kind)' = Seen(kind) \cup (IF Snapshot[t].kind = kind THEN {t} ELSE {})
  BY <1>1, LiftedTask DEF Seen, TypeOK
<1>2. ASSUME NEW t \in Tasks, ObserveDocument(t) \/ Emit(t)
      PROVE  Seen(kind)' = Seen(kind)
  BY <1>2 DEF ObserveDocument, Starts, Emit, WriteDocument, FailDocument, ObserveWritten,
              RefuseWritten, StreamBlob, FailStream, ObserveFileBlob, Seen, TypeOK,
              TasksFollowTheirKind
<1>3. ASSUME DeclareMetadataOnly \/ Finish \/ Cancel \/ Stop \/ UNCHANGED vars
      PROVE  Seen(kind)' = Seen(kind)
  BY <1>3, RunFields DEF Seen
<1>4. ASSUME NEW t \in Tasks, FailObject(t)
      PROVE  Seen(kind)' = Seen(kind)
  BY <1>4, FailedObject DEF Seen, TypeOK
<1>. QED
  BY <1>1, <1>2, <1>3, <1>4 DEF Next

LEMMA SeenOptionsMove ==
  ASSUME TypeOK, NEW t \in Tasks, Observe(t), ~ObserveDocument(t)
  PROVE  Seen("option")' =
           Seen("option") \cup (IF Snapshot[t].kind = "option" THEN {t} ELSE {})
  BY LiftedTask DEF Seen, TypeOK

LEMMA OnlyNewOptionsJoin ==
  ASSUME TypeOK, [Next]_vars, \A t \in Tasks : ~ObserveNewOption(t)
  PROVE  c'.optionsByKey = c.optionsByKey /\ c'.seenOptions = c.seenOptions
<1>. c \in ComposerStructs
  BY DEF TypeOK
<1>1. ASSUME NEW t \in Tasks, Observe(t)
      PROVE  c'.optionsByKey = c.optionsByKey /\ c'.seenOptions = c.seenOptions
  <2>1. CASE ObserveSystem(t) \/ ObserveKeylessRelation(t)
    BY <2>1, Zenon DEF ObserveSystem, ObserveKeylessRelation, Omits, ComposerStructs
  <2>2. CASE ObserveSpaceSettings(t)
    BY <2>2, Zenon DEF ObserveSpaceSettings, Omits, ComposerStructs
  <2>3. CASE ObserveUnliftableOption(t) \/ ObserveRepeatedOption(t)
    BY <2>3, Zenon DEF ObserveUnliftableOption, ObserveRepeatedOption, Omits, ComposerStructs
  <2>4. CASE ObserveWidgets(t)
    BY <2>4, Zenon DEF ObserveWidgets, Omits, ComposerStructs
  <2>5. CASE ObserveRelation(t)
    BY <2>5, Zenon DEF ObserveRelation, Omits, ComposerStructs
  <2>6. CASE ObserveDocument(t)
    BY <2>6, Zenon DEF ObserveDocument
  <2>. QED
    BY <1>1, <2>1, <2>2, <2>3, <2>4, <2>5, <2>6 DEF Observe
<1>2. ASSUME NEW t \in Tasks, Emit(t)
      PROVE  c'.optionsByKey = c.optionsByKey /\ c'.seenOptions = c.seenOptions
  <2>1. CASE ObserveWritten(t)
    BY <2>1, Zenon DEF ObserveWritten, RecordWritten, ComposerStructs
  <2>2. CASE ObserveFileBlob(t)
    BY <2>2, Zenon DEF ObserveFileBlob, ComposerStructs
  <2>3. WriteDocument(t) \/ FailDocument(t) \/ RefuseWritten(t) \/ StreamBlob(t)
          \/ FailStream(t) => UNCHANGED c
    BY Zenon DEF WriteDocument, FailDocument, RefuseWritten, StreamBlob, FailStream
  <2>. QED
    BY <1>2, <2>1, <2>2, <2>3 DEF Emit
<1>3. CASE Finish
  <2>1. c' \in {c, [c EXCEPT !.used = UsedKeys],
                [c EXCEPT !.used = UsedKeys, !.typeRefs = TypeRefsAtFinish]}
    BY <1>3 DEF Finish, FinishConflicting, FinishEmpty, FinishRefused, FinishBundle
  <2>. QED
    BY <2>1, Zenon DEF ComposerStructs
<1>4. CASE DeclareMetadataOnly
  BY <1>4, Zenon DEF DeclareMetadataOnly, ComposerStructs
<1>5. CASE Cancel \/ Stop \/ UNCHANGED vars
  BY <1>5, Zenon DEF Cancel, Stop, vars
<1>6. ASSUME NEW t \in Tasks, FailObject(t)
      PROVE  c'.optionsByKey = c.optionsByKey /\ c'.seenOptions = c.seenOptions
  BY <1>6, FailedObject
<1>. QED
  BY <1>1, <1>2, <1>3, <1>4, <1>5, <1>6 DEF Next

(* The stored form of a liftable option.                                   *)
LEMMA StoredForm ==
  ASSUME NEW t \in Options
  PROVE  /\ t \in Tasks /\ Snapshot[t].kind = "option"
         /\ Snapshot[t].owner \in Keys /\ Snapshot[t].id \in Nat
         /\ StoredOption(t) \in StoredOptions
         /\ OptionOf(Snapshot[t]).def \in OptionDefs
<1>1. Snapshot[t] \in OptionSnapshots /\ Liftable(t)
  BY ShapeOfOption DEF Options
<1>2. Snapshot[t].owner \in Keys /\ Snapshot[t].name \in Names
  BY <1>1, SnapshotAssumption DEF OptionSnapshots, Liftable
<1>3. OptionOf(Snapshot[t]).def \in OptionDefs
  BY <1>1, <1>2 DEF OptionSnapshots, OptionOf, OptionDefs
<1>. QED
  BY <1>1, <1>2, <1>3 DEF OptionSnapshots, StoredOption, StoredOptions, Options

LEMMA NewOptionJoins ==
  ASSUME TypeOK, NEW t \in Tasks, ObserveNewOption(t)
  PROVE  LET owner == Snapshot[t].owner
         IN  /\ t \in Options /\ owner \in Keys /\ StoredOption(t) \in StoredOptions
             /\ \A seen \in c.seenOptions : ~SameOption(seen, OptionOf(Snapshot[t]))
             /\ c'.seenOptions = c.seenOptions \cup {OptionOf(Snapshot[t])}
             /\ c'.optionsByKey =
                  [c.optionsByKey EXCEPT
                     ![owner] = Append(c.optionsByKey[owner], StoredOption(t))]
<1>. DEFINE s == Snapshot[t]
            stored == [order |-> s.order, created |-> s.created, id |-> s.id,
                       def |-> OptionOf(s).def]
<1>1. t \in Options /\ \A seen \in c.seenOptions : ~SameOption(seen, OptionOf(s))
  BY DEF ObserveNewOption, Starts, Options, Liftable
<1>2. stored = StoredOption(t)
  BY DEF StoredOption
<1>3. /\ c'.seenOptions = c.seenOptions \cup {OptionOf(s)}
      /\ c'.optionsByKey =
           [c.optionsByKey EXCEPT ![s.owner] = Append(c.optionsByKey[s.owner], stored)]
  BY Zenon DEF ObserveNewOption, Omits, TypeOK, ComposerStructs
<1>. QED
  BY <1>1, <1>2, <1>3, StoredForm

(* Any other option is without an owner or a name, or was seen before.     *)
LEMMA OtherOptionsSeen ==
  ASSUME TypeOK, TasksFollowTheirKind, [Next]_vars, \A t \in Tasks : ~ObserveNewOption(t)
  PROVE  \/ Seen("option")' = Seen("option")
         \/ \E t \in Tasks :
              /\ Seen("option")' = Seen("option") \cup {t}
              /\ Liftable(t) => \E o \in c.seenOptions : SameOption(o, OptionOf(Snapshot[t]))
<1>1. ASSUME NEW t \in Tasks, Observe(t), ~ObserveDocument(t), Snapshot[t].kind # "option"
      PROVE  Seen("option")' = Seen("option")
  BY <1>1, SeenOptionsMove
<1>2. ASSUME NEW t \in Tasks, Observe(t), Snapshot[t].kind = "option"
      PROVE  /\ Seen("option")' = Seen("option") \cup {t}
             /\ Liftable(t) => \E o \in c.seenOptions : SameOption(o, OptionOf(Snapshot[t]))
  <2>1. ~ObserveDocument(t)
    BY <1>2 DEF ObserveDocument, Starts
  <2>2. ObserveUnliftableOption(t) \/ ObserveRepeatedOption(t)
    BY <1>2
       DEF Observe, ObserveSystem, ObserveSpaceSettings, ObserveWidgets,
           ObserveKeylessRelation, ObserveRelation, ObserveDocument, Starts
  <2>3. ObserveUnliftableOption(t) => ~Liftable(t)
    BY DEF ObserveUnliftableOption, Liftable
  <2>4. ObserveRepeatedOption(t) =>
          \E o \in c.seenOptions : SameOption(o, OptionOf(Snapshot[t]))
    BY DEF ObserveRepeatedOption
  <2>. QED
    BY <1>2, <2>1, <2>2, <2>3, <2>4, SeenOptionsMove
<1>3. ASSUME NEW t \in Tasks, ObserveDocument(t) \/ Emit(t)
      PROVE  Seen("option")' = Seen("option")
  BY <1>3 DEF ObserveDocument, Starts, Emit, WriteDocument, FailDocument, ObserveWritten,
              RefuseWritten, StreamBlob, FailStream, ObserveFileBlob, Seen, TypeOK,
              TasksFollowTheirKind
<1>4. ASSUME DeclareMetadataOnly \/ Finish \/ Cancel \/ Stop \/ UNCHANGED vars
      PROVE  Seen("option")' = Seen("option")
  BY <1>4, RunFields DEF Seen
<1>5. ASSUME NEW t \in Tasks, FailObject(t)
      PROVE  Seen("option")' = Seen("option")
  BY <1>5, FailedObject DEF Seen, TypeOK
<1>. QED
  BY <1>1, <1>2, <1>3, <1>4, <1>5 DEF Next

LEMMA OptionCensusKept ==
  ASSUME TypeOK, TasksFollowTheirKind, OptionCensus, [Next]_vars
  PROVE  OptionCensus'
<1>1. ASSUME NEW t \in Tasks, ObserveNewOption(t)
      PROVE  OptionCensus'
  <2>. DEFINE stored == StoredOption(t)
  <2>1. LET owner == Snapshot[t].owner
        IN  /\ owner \in Keys /\ Liftable(t) /\ stored \in StoredOptions
            /\ c'.seenOptions = c.seenOptions \cup {OptionOf(Snapshot[t])}
            /\ c'.optionsByKey =
                 [c.optionsByKey EXCEPT ![owner] = Append(c.optionsByKey[owner], stored)]
    BY <1>1, NewOptionJoins DEF Options
  <2>2. Seen("option")' = Seen("option") \cup {t}
    BY <1>1, SeenOptionsMove DEF Observe, ObserveNewOption, ObserveDocument, Starts
  <2>3. c.optionsByKey \in [Keys -> Seq(StoredOptions)] /\ c.seenOptions \subseteq SeenOptions
    BY DEF TypeOK, ComposerStructs
  <2>. HIDE DEF stored
  <2>4. Append(c.optionsByKey[Snapshot[t].owner], stored) # <<>>
    BY <2>1, <2>3
  <2>5. OptionOf(Snapshot[t]).owner = Snapshot[t].owner
    BY DEF OptionOf
  <2>6. \A key \in Keys :
          c'.optionsByKey[key] # <<>>
            <=> c.optionsByKey[key] # <<>> \/ key = Snapshot[t].owner
    BY <2>1, <2>3, <2>4
  <2>7. \A o \in c.seenOptions : o.owner \in Keys
    BY <2>3 DEF SeenOptions
  <2>. QED
    BY <2>1, <2>2, <2>5, <2>6, <2>7 DEF OptionCensus, Liftable
<1>2. CASE \A t \in Tasks : ~ObserveNewOption(t)
  <2>1. c'.optionsByKey = c.optionsByKey /\ c'.seenOptions = c.seenOptions
    BY <1>2, OnlyNewOptionsJoin
  <2>2. \/ Seen("option")' = Seen("option")
        \/ \E t \in Tasks :
             /\ Seen("option")' = Seen("option") \cup {t}
             /\ Liftable(t) => \E o \in c.seenOptions : o.owner = Snapshot[t].owner
    BY <1>2, OtherOptionsSeen DEF SameOption, OptionOf
  <2>3. \A o \in c.seenOptions : o.owner \in Keys
    BY DEF TypeOK, ComposerStructs, SeenOptions
  <2>. QED
    BY <2>1, <2>2, <2>3 DEF OptionCensus, Liftable
<1>. QED
  BY <1>1, <1>2

(***************************************************************************)
(* What the composer observed of a property is published or named as       *)
(* unused, and an entry published as undefined had no stored definition.   *)
(***************************************************************************)
THEOREM NothingVanishes == Spec => []NoDefinitionVanishes
<1>1. Init => NoDefinitionVanishes /\ OptionCensus
  <2>. SUFFICES ASSUME Init PROVE NoDefinitionVanishes /\ OptionCensus
    OBVIOUS
  <2>1. c.optionsByKey = [key \in Keys |-> <<>>] /\ c.seenOptions = {}
    BY Zenon DEF Init, NewComposer
  <2>2. Seen("option") = {}
    BY DEF Init, Seen
  <2>. QED
    BY <2>1, <2>2, NothingPublishedAtFirst DEF NoDefinitionVanishes, OptionCensus
<1>2. Ledger /\ OptionCensus /\ [Next]_vars => OptionCensus'
  BY OptionCensusKept DEF Ledger
<1>3. Ledger /\ OptionCensus /\ NoDefinitionVanishes /\ [Next]_vars => NoDefinitionVanishes'
  <2>. SUFFICES ASSUME Ledger, OptionCensus, NoDefinitionVanishes, [Next]_vars, Published'
                PROVE  NoDefinitionVanishes'
    BY DEF NoDefinitionVanishes
  <2>1. CASE Published
    <3>1. UNCHANGED vars
      BY <2>1, NothingFollowsFinish DEF Published
    <3>. QED
      BY <3>1 DEF vars, NoDefinitionVanishes, Published, Seen
  <2>2. CASE ~Published
    <3>. DEFINE related == {Snapshot[t].key : t \in Seen("relation")}
                owners == {Snapshot[t].owner : t \in {u \in Seen("option") : Liftable(u)}}
                observed == (related \cup owners) \ {NoKey}
    <3>1. /\ out'.dictionary = Dictionary /\ out'.stats.orphans = Orphans
          /\ out'.stats.unused = UnusedPropertyKeys /\ task' = task
      BY <2>2, PublishedFrom
    <3>2. DOMAIN Dictionary = UsedKeys
      BY DEF Dictionary
    <3>3. related \subseteq Keys \cup {NoKey} /\ owners \subseteq Keys
      BY ShapeOfRelation, ShapeOfOption DEF Seen, RelationSnapshots, OptionSnapshots, Liftable
    <3>4. \A key \in Keys : c.entries[key] # NoDefinition <=> key \in related
      BY DEF Ledger, AggregatesAreTheObservations, EntryCensus
    <3>5. \A key \in Keys : c.optionsByKey[key] # <<>> <=> key \in owners
      BY DEF OptionCensus
    <3>6. NoKey \notin Keys
      BY SnapshotAssumption
    <3>7. \A key \in Orphans : key \in Keys => key \notin related
      BY <3>4 DEF Orphans, DefinitionOf
    <3>. HIDE DEF related, owners
    <3>8. UnusedPropertyKeys = observed \ UsedKeys
      BY <3>3, <3>4, <3>5, <3>6 DEF UnusedPropertyKeys
    <3>9. \A key \in Orphans \cap observed : key \notin related
      BY <3>3, <3>7
    <3>10. Seen("relation")' = Seen("relation") /\ Seen("option")' = Seen("option")
      BY <3>1 DEF Seen
    <3>. QED
      BY <3>1, <3>2, <3>8, <3>9, <3>10 DEF NoDefinitionVanishes, Liftable, related, owners
  <2>. QED
    BY <2>1, <2>2
<1>. QED
  BY <1>1, <1>2, <1>3, LedgerStarts, LedgerKept, PTL DEF Spec

-----------------------------------------------------------------------------
(* The sources of the index's references.                                  *)

NamedIn(ref, slot, ids) ==
  \E id \in ids : /\ id \notin Platform
                  /\ ref = [path |-> <<slot, 0>>, target |-> Fold[id]]

NamedBy(ref, homepage, widgets, icon) ==
  \/ NamedIn(ref, "homepage", homepage)
  \/ \E n \in DOMAIN widgets :
       /\ widgets[n].target \notin Platform
       /\ ref = [path |-> <<"widgets", n>>, target |-> Fold[widgets[n].target]]
  \/ NamedIn(ref, "icon", icon)

LEMMA ReferencesNamed ==
  ASSUME NEW homepage, NEW widgets, NEW icon, NEW ref
  PROVE  ref \in ObjectReferences(homepage, widgets, icon)
           <=> NamedBy(ref, homepage, widgets, icon)
<1>. DEFINE reference(path, id) == [path |-> path, target |-> id]
            named == {reference(<<"homepage", 0>>, id) : id \in homepage}
                       \cup {reference(<<"widgets", n>>, widgets[n].target) :
                               n \in DOMAIN widgets}
                       \cup {reference(<<"icon", 0>>, id) : id \in icon}
            folded(r) == [r EXCEPT !.target = Fold[@]]
<1>1. \A path, id : /\ folded(reference(path, id)) = reference(path, Fold[id])
                   /\ reference(path, id).target = id
  OBVIOUS
<1>2. ObjectReferences(homepage, widgets, icon)
        = {folded(r) : r \in {r \in named : r.target \notin Platform}}
  BY Zenon DEF ObjectReferences
<1>3. NamedBy(ref, homepage, widgets, icon)
        <=> \/ \E id \in homepage : /\ id \notin Platform
                                    /\ ref = reference(<<"homepage", 0>>, Fold[id])
            \/ \E n \in DOMAIN widgets :
                 /\ widgets[n].target \notin Platform
                 /\ ref = reference(<<"widgets", n>>, Fold[widgets[n].target])
            \/ \E id \in icon : /\ id \notin Platform
                                /\ ref = reference(<<"icon", 0>>, Fold[id])
  BY DEF NamedBy, NamedIn
<1>4. ref \in {folded(r) : r \in {r \in named : r.target \notin Platform}}
        <=> \E r \in named : r.target \notin Platform /\ ref = folded(r)
  OBVIOUS
<1>. HIDE DEF reference, folded
<1>5. \A r : r \in named <=> \/ \E id \in homepage : r = reference(<<"homepage", 0>>, id)
                             \/ \E n \in DOMAIN widgets :
                                  r = reference(<<"widgets", n>>, widgets[n].target)
                             \/ \E id \in icon : r = reference(<<"icon", 0>>, id)
  OBVIOUS
<1>. HIDE DEF named
<1>6. ASSUME NEW r \in named, r.target \notin Platform, ref = folded(r)
      PROVE  NamedBy(ref, homepage, widgets, icon)
  <2>1. CASE \E id \in homepage : r = reference(<<"homepage", 0>>, id)
    BY <1>1, <1>3, <1>6, <2>1
  <2>2. CASE \E n \in DOMAIN widgets : r = reference(<<"widgets", n>>, widgets[n].target)
    BY <1>1, <1>3, <1>6, <2>2
  <2>3. CASE \E id \in icon : r = reference(<<"icon", 0>>, id)
    BY <1>1, <1>3, <1>6, <2>3
  <2>. QED
    BY <1>5, <1>6, <2>1, <2>2, <2>3
<1>7. ASSUME NamedBy(ref, homepage, widgets, icon)
      PROVE  \E r \in named : r.target \notin Platform /\ ref = folded(r)
  <2>1. CASE \E id \in homepage : /\ id \notin Platform
                                  /\ ref = reference(<<"homepage", 0>>, Fold[id])
    BY <1>1, <1>5, <2>1
  <2>2. CASE \E n \in DOMAIN widgets :
               /\ widgets[n].target \notin Platform
               /\ ref = reference(<<"widgets", n>>, Fold[widgets[n].target])
    <3>1. PICK n \in DOMAIN widgets :
                 /\ widgets[n].target \notin Platform
                 /\ ref = reference(<<"widgets", n>>, Fold[widgets[n].target])
      BY <2>2
    <3>2. reference(<<"widgets", n>>, widgets[n].target) \in named
      BY <1>5
    <3>. QED
      BY <1>1, <3>1, <3>2
  <2>3. CASE \E id \in icon : /\ id \notin Platform
                              /\ ref = reference(<<"icon", 0>>, Fold[id])
    BY <1>1, <1>5, <2>3
  <2>. QED
    BY <1>3, <1>7, <2>1, <2>2, <2>3
<1>. QED
  BY <1>2, <1>4, <1>6, <1>7

LEMMA SourcesOf ==
  ASSUME NEW refs, NEW object
  PROVE  /\ \A ref \in refs : \E source \in Sourced(refs, object) :
              source.path = ref.path /\ source.target = ref.target
         /\ \A source \in Sourced(refs, object) : source.object = object
<1>. DEFINE sourced(ref) == [path |-> ref.path, target |-> ref.target, object |-> object]
<1>1. \A ref : /\ sourced(ref).path = ref.path /\ sourced(ref).target = ref.target
              /\ sourced(ref).object = object
  OBVIOUS
<1>2. Sourced(refs, object) = {sourced(ref) : ref \in refs}
  BY DEF Sourced
<1>. HIDE DEF sourced
<1>. QED
  BY <1>1, <1>2

(* Every object the settings and the sidebar name was named by an object   *)
(* that was lifted.                                                        *)
SourcesCover ==
  /\ \A ref \in ObjectReferences(c.spaceSettings["homepage"], c.index.widgets,
                                 c.spaceSettings["icon"]) :
       \E source \in c.indexReferenceSources :
         source.path = ref.path /\ source.target = ref.target
  /\ \A source \in c.indexReferenceSources :
       source.object \in {Snapshot[t].id : t \in Seen("space") \cup Seen("widget")}

LEMMA OtherSourcesStay ==
  ASSUME TypeOK, [Next]_vars,
         \A t \in Tasks : ~ObserveSpaceSettings(t) /\ ~ObserveWidgets(t)
  PROVE  /\ c'.spaceSettings = c.spaceSettings
         /\ c'.index = c.index /\ c'.indexReferenceSources = c.indexReferenceSources
<1>. c \in ComposerStructs
  BY DEF TypeOK
<1>. DEFINE Stays == /\ c'.spaceSettings = c.spaceSettings
                     /\ c'.index = c.index
                     /\ c'.indexReferenceSources = c.indexReferenceSources
<1>1. ASSUME NEW t \in Tasks, Observe(t)
      PROVE  Stays
  <2>1. CASE ObserveSystem(t) \/ ObserveKeylessRelation(t)
    BY <2>1, Zenon DEF ObserveSystem, ObserveKeylessRelation, Omits, ComposerStructs
  <2>2. CASE ObserveNewOption(t)
    BY <2>2, Zenon DEF ObserveNewOption, Omits, ComposerStructs
  <2>3. CASE ObserveUnliftableOption(t) \/ ObserveRepeatedOption(t)
    BY <2>3, Zenon DEF ObserveUnliftableOption, ObserveRepeatedOption, Omits, ComposerStructs
  <2>4. CASE ObserveRelation(t)
    BY <2>4, Zenon DEF ObserveRelation, Omits, ComposerStructs
  <2>5. CASE ObserveDocument(t)
    BY <2>5, Zenon DEF ObserveDocument
  <2>. HIDE DEF Stays
  <2>. QED
    BY <1>1, <2>1, <2>2, <2>3, <2>4, <2>5 DEF Observe
<1>2. ASSUME NEW t \in Tasks, Emit(t)
      PROVE  Stays
  <2>1. CASE ObserveWritten(t)
    BY <2>1, Zenon DEF ObserveWritten, RecordWritten, ComposerStructs
  <2>2. CASE ObserveFileBlob(t)
    BY <2>2, Zenon DEF ObserveFileBlob, ComposerStructs
  <2>3. WriteDocument(t) \/ FailDocument(t) \/ RefuseWritten(t) \/ StreamBlob(t)
          \/ FailStream(t) => UNCHANGED c
    BY Zenon DEF WriteDocument, FailDocument, RefuseWritten, StreamBlob, FailStream
  <2>. QED
    BY <1>2, <2>1, <2>2, <2>3 DEF Emit
<1>3. CASE Finish
  <2>1. c' \in {c, [c EXCEPT !.used = UsedKeys],
                [c EXCEPT !.used = UsedKeys, !.typeRefs = TypeRefsAtFinish]}
    BY <1>3 DEF Finish, FinishConflicting, FinishEmpty, FinishRefused, FinishBundle
  <2>. QED
    BY <2>1, Zenon DEF ComposerStructs
<1>4. CASE DeclareMetadataOnly
  BY <1>4, Zenon DEF DeclareMetadataOnly, ComposerStructs
<1>5. CASE Cancel \/ Stop \/ UNCHANGED vars
  BY <1>5, Zenon DEF Cancel, Stop, vars
<1>6. ASSUME NEW t \in Tasks, FailObject(t)
      PROVE  Stays
  BY <1>6, FailedObject
<1>. HIDE DEF Stays
<1>7. Stays
  BY <1>1, <1>2, <1>3, <1>4, <1>5, <1>6 DEF Next, Stays
<1>. QED
  BY <1>7 DEF Stays

(* What was lifted stays lifted.                                           *)
LEMMA LiftedStay ==
  ASSUME TypeOK, [Next]_vars, NEW u \in Tasks, task[u] = "omitted"
  PROVE  task'[u] = "omitted"
<1>1. ASSUME NEW t \in Tasks, Observe(t), ~ObserveDocument(t)
      PROVE  task'[u] = "omitted"
  BY <1>1, LiftedTask DEF TypeOK
<1>2. ASSUME NEW t \in Tasks, ObserveDocument(t) \/ Emit(t)
      PROVE  task'[u] = "omitted"
  BY <1>2 DEF ObserveDocument, Starts, Emit, WriteDocument, FailDocument, ObserveWritten,
              RefuseWritten, StreamBlob, FailStream, ObserveFileBlob, TypeOK
<1>3. ASSUME DeclareMetadataOnly \/ Finish \/ Cancel \/ Stop \/ UNCHANGED vars
      PROVE  task'[u] = "omitted"
  BY <1>3, RunFields
<1>4. ASSUME NEW t \in Tasks, FailObject(t)
      PROVE  task'[u] = "omitted"
  BY <1>4, FailedObject DEF TypeOK
<1>. QED
  BY <1>1, <1>2, <1>3, <1>4 DEF Next

LEMMA SourcesCoverKept ==
  ASSUME TypeOK, TasksFollowTheirKind, SourcesCover, [Next]_vars
  PROVE  SourcesCover'
<1>1. Seen("space") \cup Seen("widget") \subseteq (Seen("space") \cup Seen("widget"))'
  BY LiftedStay DEF Seen
<1>2. ASSUME NEW t \in Tasks, ObserveSpaceSettings(t)
      PROVE  SourcesCover'
  <2>. DEFINE s == Snapshot[t]
              refs == ObjectReferences(s.homepage, <<>>, s.icon)
  <2>1. /\ c'.indexReferenceSources = c.indexReferenceSources \cup Sourced(refs, s.id)
        /\ c'.spaceSettings = [field \in SettingFields |-> c.spaceSettings[field] \cup s[field]]
        /\ c'.index = c.index
    BY <1>2, Zenon DEF ObserveSpaceSettings, Omits, TypeOK, ComposerStructs
  <2>2. t \in Seen("space")'
    BY <1>2 DEF ObserveSpaceSettings, Starts, Omits, Seen, TypeOK
  <2>3. /\ c'.spaceSettings["homepage"] = c.spaceSettings["homepage"] \cup s.homepage
        /\ c'.spaceSettings["icon"] = c.spaceSettings["icon"] \cup s.icon
    BY <2>1 DEF SettingFields
  <2>4. ASSUME NEW ref \in ObjectReferences(c'.spaceSettings["homepage"], c'.index.widgets,
                                           c'.spaceSettings["icon"])
        PROVE  \/ ref \in refs
               \/ ref \in ObjectReferences(c.spaceSettings["homepage"], c.index.widgets,
                                          c.spaceSettings["icon"])
    <3>1. NamedBy(ref, c'.spaceSettings["homepage"], c.index.widgets, c'.spaceSettings["icon"])
      BY <2>1, <2>4, ReferencesNamed
    <3>2. \/ NamedBy(ref, s.homepage, <<>>, s.icon)
          \/ NamedBy(ref, c.spaceSettings["homepage"], c.index.widgets, c.spaceSettings["icon"])
      <4>1. \A slot, ids, more : NamedIn(ref, slot, ids \cup more)
                                => NamedIn(ref, slot, ids) \/ NamedIn(ref, slot, more)
        BY DEF NamedIn
      <4>. HIDE DEF s
      <4>. QED
        BY <2>3, <3>1, <4>1 DEF NamedBy
    <3>. QED
      BY <3>2, ReferencesNamed
  <2>5. s.id \in {Snapshot[u].id : u \in Seen("space") \cup Seen("widget")}'
    BY <2>2
  <2>. HIDE DEF refs, s
  <2>6. \A ref \in ObjectReferences(c'.spaceSettings["homepage"], c'.index.widgets,
                                    c'.spaceSettings["icon"]) :
          \E source \in c'.indexReferenceSources :
            source.path = ref.path /\ source.target = ref.target
    BY <2>1, <2>4, SourcesOf DEF SourcesCover
  <2>7. \A source \in c'.indexReferenceSources :
          source.object \in {Snapshot[u].id : u \in Seen("space") \cup Seen("widget")}'
    BY <1>1, <2>1, <2>5, SourcesOf DEF SourcesCover
  <2>. QED
    BY <2>6, <2>7 DEF SourcesCover
<1>3. ASSUME NEW t \in Tasks, ObserveWidgets(t)
      PROVE  SourcesCover'
  <2>. DEFINE s == Snapshot[t]
              refs == ObjectReferences({}, s.widgets, {})
  <2>1. /\ c'.indexReferenceSources = c.indexReferenceSources \cup Sourced(refs, s.id)
        /\ c'.index = LiftWidgets(c.index, s)
        /\ c'.spaceSettings = c.spaceSettings
    BY <1>3, Zenon DEF ObserveWidgets, Omits, TypeOK, ComposerStructs
  <2>2. t \in Seen("widget")'
    BY <1>3 DEF ObserveWidgets, Starts, Omits, Seen, TypeOK
  <2>3. c'.index.widgets \in {s.widgets, c.index.widgets}
    BY <2>1 DEF LiftWidgets
  <2>4. ASSUME NEW ref \in ObjectReferences(c'.spaceSettings["homepage"], c'.index.widgets,
                                           c'.spaceSettings["icon"])
        PROVE  \/ ref \in refs
               \/ ref \in ObjectReferences(c.spaceSettings["homepage"], c.index.widgets,
                                          c.spaceSettings["icon"])
    <3>1. NamedBy(ref, c.spaceSettings["homepage"], c'.index.widgets, c.spaceSettings["icon"])
      BY <2>1, <2>4, ReferencesNamed
    <3>2. \/ NamedBy(ref, {}, s.widgets, {})
          \/ NamedBy(ref, c.spaceSettings["homepage"], c.index.widgets, c.spaceSettings["icon"])
      BY <2>3, <3>1 DEF NamedBy
    <3>. QED
      BY <3>2, ReferencesNamed
  <2>5. s.id \in {Snapshot[u].id : u \in Seen("space") \cup Seen("widget")}'
    BY <2>2
  <2>. HIDE DEF refs, s
  <2>6. \A ref \in ObjectReferences(c'.spaceSettings["homepage"], c'.index.widgets,
                                    c'.spaceSettings["icon"]) :
          \E source \in c'.indexReferenceSources :
            source.path = ref.path /\ source.target = ref.target
    BY <2>1, <2>4, SourcesOf DEF SourcesCover
  <2>7. \A source \in c'.indexReferenceSources :
          source.object \in {Snapshot[u].id : u \in Seen("space") \cup Seen("widget")}'
    BY <1>1, <2>1, <2>5, SourcesOf DEF SourcesCover
  <2>. QED
    BY <2>6, <2>7 DEF SourcesCover
<1>4. CASE \A t \in Tasks : ~ObserveSpaceSettings(t) /\ ~ObserveWidgets(t)
  BY <1>1, <1>4, OtherSourcesStay DEF SourcesCover
<1>. QED
  BY <1>2, <1>3, <1>4

(***************************************************************************)
(* Every missing object of a published index is reported with objects the  *)
(* space or the sidebar named it in, whatever was observed first.          *)
(***************************************************************************)
THEOREM SourcesCorrect == Spec => []MissingReferencesAreSourced
<1>1. Init => MissingReferencesAreSourced /\ SourcesCover
  <2>. SUFFICES ASSUME Init PROVE MissingReferencesAreSourced /\ SourcesCover
    OBVIOUS
  <2>1. /\ c.spaceSettings["homepage"] = {} /\ c.spaceSettings["icon"] = {}
        /\ c.index.widgets = <<>> /\ c.indexReferenceSources = {}
    <3>1. c.spaceSettings = [field \in SettingFields |-> {}] /\ c.indexReferenceSources = {}
          /\ c.index = [widgets |-> <<>>, autoTargets |-> {}, autoDisabled |-> FALSE]
      BY Zenon DEF Init, NewComposer
    <3>. QED
      BY <3>1 DEF SettingFields
  <2>2. \A ref : ~NamedBy(ref, {}, <<>>, {})
    BY DEF NamedBy, NamedIn
  <2>3. ObjectReferences({}, <<>>, {}) = {}
    BY <2>2, ReferencesNamed
  <2>. QED
    BY <2>1, <2>3, NothingPublishedAtFirst DEF MissingReferencesAreSourced, SourcesCover
<1>2. Ledger /\ SourcesCover /\ [Next]_vars => SourcesCover'
  BY SourcesCoverKept DEF Ledger
<1>3. Ledger /\ SourcesCover /\ MissingReferencesAreSourced /\ [Next]_vars
        => MissingReferencesAreSourced'
  <2>. SUFFICES ASSUME Ledger, SourcesCover, MissingReferencesAreSourced, [Next]_vars,
                       Published'
                PROVE  MissingReferencesAreSourced'
    BY DEF MissingReferencesAreSourced
  <2>1. CASE Published
    <3>1. UNCHANGED vars
      BY <2>1, NothingFollowsFinish DEF Published
    <3>. QED
      BY <3>1 DEF vars, MissingReferencesAreSourced, Published, Seen
  <2>2. CASE ~Published
    <3>. DEFINE missing == {r \in IndexReferences : r.target \notin c.documentIds}
                sources(ref) == {source \in c.indexReferenceSources :
                                   source.path = ref.path /\ source.target = ref.target}
    <3>1. /\ out'.stats.references = UnresolvedReferences /\ task' = task
          /\ out'.index.unresolved.targets = UnresolvedTargets
      BY <2>2, PublishedFrom
    <3>2. ASSUME NEW ref \in IndexReferences PROVE sources(ref) # {}
      <4>1. NamedBy(ref, c.spaceSettings["homepage"], c.index.widgets, KeptIcon)
        BY <3>2, ReferencesNamed DEF IndexReferences
      <4>2. NamedBy(ref, c.spaceSettings["homepage"], c.index.widgets, c.spaceSettings["icon"])
        BY <4>1 DEF NamedBy, NamedIn, KeptIcon
      <4>3. ref \in ObjectReferences(c.spaceSettings["homepage"], c.index.widgets,
                                    c.spaceSettings["icon"])
        BY <4>2, ReferencesNamed
      <4>. QED
        BY <4>3 DEF SourcesCover
    <3>3. UnresolvedReferences
            = UNION {IF sources(ref) = {} THEN Sourced({ref}, NoId) ELSE sources(ref) :
                       ref \in missing}
      BY Zenon DEF UnresolvedReferences
    <3>4. \A ref : \A source \in sources(ref) :
            source \in c.indexReferenceSources /\ source.target = ref.target
      OBVIOUS
    <3>5. UnresolvedTargets = {ref.target : ref \in missing}
      BY DEF UnresolvedTargets
    <3>6. \A ref \in missing : ref \in IndexReferences
      OBVIOUS
    <3>. HIDE DEF sources, missing
    <3>7. UnresolvedReferences = UNION {sources(ref) : ref \in missing}
      BY <3>2, <3>3, <3>6
    <3>8. {ref.target : ref \in UnresolvedReferences} = UnresolvedTargets
      BY <3>2, <3>4, <3>5, <3>6, <3>7
    <3>9. \A ref \in UnresolvedReferences :
            ref.object \in {Snapshot[t].id : t \in Seen("space") \cup Seen("widget")}
      BY <3>4, <3>7 DEF SourcesCover
    <3>10. Seen("space")' = Seen("space") /\ Seen("widget")' = Seen("widget")
      BY <3>1 DEF Seen
    <3>. QED
      BY <3>1, <3>8, <3>9, <3>10 DEF MissingReferencesAreSourced
  <2>. QED
    BY <2>1, <2>2
<1>. QED
  BY <1>1, <1>2, <1>3, LedgerStarts, LedgerKept, PTL DEF Spec

-----------------------------------------------------------------------------
(* The struct only accumulates.                                            *)

(* The sets a document's report, a blob and Finish add to.                 *)
CensusGrows ==
  /\ c.used \subseteq c'.used
  /\ c.documentIds \subseteq c'.documentIds
  /\ c.typeRefs \subseteq c'.typeRefs
  /\ c.filePaths \subseteq c'.filePaths
  /\ \A key \in Keys : c.declared[key] \subseteq c'.declared[key]

LEMMA CensusOnlyGrows ==
  ASSUME TypeOK, [Next]_vars
  PROVE  CensusGrows
<1>. c \in ComposerStructs
  BY DEF TypeOK
<1>1. ASSUME NEW t \in Tasks, Observe(t), ~ObserveDocument(t)
      PROVE  CensusGrows
  BY <1>1, LiftedFields DEF CensusGrows
<1>2. ASSUME NEW t \in Tasks, ObserveWritten(t)
      PROVE  CensusGrows
  <2>. DEFINE s == Snapshot[t]
  <2>1. /\ c'.documentIds = c.documentIds \cup CarriedIds(s)
        /\ c'.declared = [key \in Keys |-> c.declared[key] \cup DeclaredFor(s, key)]
        /\ c'.used = c.used \cup s.used
        /\ c'.typeRefs = c.typeRefs \cup TypeUses(s)
        /\ c'.filePaths = c.filePaths
    BY <1>2, Zenon DEF ObserveWritten, RecordWritten, ComposerStructs
  <2>. QED
    BY <2>1 DEF CensusGrows
<1>3. ASSUME NEW t \in Tasks, ObserveFileBlob(t)
      PROVE  CensusGrows
  <2>1. ~ObserveWritten(t) /\ Emit(t)
    BY <1>3 DEF ObserveFileBlob, ObserveWritten, Emit
  <2>2. c'.filePaths = c.filePaths \cup {Snapshot[t].id}
    BY <1>3, Zenon DEF ObserveFileBlob, ComposerStructs
  <2>. QED
    BY <2>1, <2>2, EmittedFields DEF CensusGrows
<1>4. ASSUME NEW t \in Tasks, ObserveDocument(t) \/ Emit(t),
             ~ObserveWritten(t), ~ObserveFileBlob(t)
      PROVE  CensusGrows
  BY <1>4, EmittedFields DEF CensusGrows
<1>5. CASE Finish
  <2>1. c' \in {c, [c EXCEPT !.used = UsedKeys],
                [c EXCEPT !.used = UsedKeys, !.typeRefs = TypeRefsAtFinish]}
    BY <1>5 DEF Finish, FinishConflicting, FinishEmpty, FinishRefused, FinishBundle
  <2>2. /\ c'.used \in {c.used, UsedKeys}
        /\ c'.typeRefs \in {c.typeRefs, TypeRefsAtFinish}
    <3>1. CASE c' = c
      BY <3>1
    <3>2. CASE c' = [c EXCEPT !.used = UsedKeys]
      <4>1. c'.used = UsedKeys /\ c'.typeRefs = c.typeRefs
        BY <3>2, Zenon DEF ComposerStructs
      <4>. QED
        BY <4>1
    <3>3. CASE c' = [c EXCEPT !.used = UsedKeys, !.typeRefs = TypeRefsAtFinish]
      <4>1. c'.used = UsedKeys /\ c'.typeRefs = TypeRefsAtFinish
        BY <3>3, Zenon DEF ComposerStructs
      <4>. QED
        BY <4>1
    <3>. QED
      BY <2>1, <3>1, <3>2, <3>3
  <2>3. c.used \subseteq UsedKeys /\ c.typeRefs \subseteq TypeRefsAtFinish
    BY DEF UsedKeys, TypeRefsAtFinish
  <2>. QED
    BY <1>5, <2>2, <2>3, RunFields DEF CensusGrows
<1>6. ASSUME DeclareMetadataOnly \/ Cancel \/ Stop \/ UNCHANGED vars, ~Finish
      PROVE  CensusGrows
  BY <1>6, RunFields DEF CensusGrows
<1>7. ASSUME NEW t \in Tasks, FailObject(t)
      PROVE  CensusGrows
  BY <1>7, FailedObject DEF CensusGrows
<1>. QED
  BY <1>1, <1>2, <1>3, <1>4, <1>5, <1>6, <1>7 DEF Next

(* A definition once lifted, and a setting once stated, stay.              *)
LEMMA LiftsOnlyGrow ==
  ASSUME Ledger, [Next]_vars
  PROVE  /\ \A key \in Keys :
              c.entries[key] # NoDefinition => c'.entries[key] # NoDefinition
         /\ \A field \in SettingFields :
              c.spaceSettings[field] \subseteq c'.spaceSettings[field]
<1>1. TypeOK /\ TasksFollowTheirKind /\ EntryCensus /\ SettingsCensus
  BY DEF Ledger, AggregatesAreTheObservations
<1>2. EntryCensus' /\ SettingsCensus'
  BY <1>1, EntryCensusKept, SettingsCensusKept
<1>3. Seen("relation") \subseteq Seen("relation")' /\ Seen("space") \subseteq Seen("space")'
  BY <1>1, LiftedStay DEF Seen
<1>4. ASSUME NEW key \in Keys, c.entries[key] # NoDefinition
      PROVE  c'.entries[key] # NoDefinition
  BY <1>1, <1>2, <1>3, <1>4 DEF EntryCensus
<1>5. ASSUME NEW field \in SettingFields
      PROVE  c.spaceSettings[field] \subseteq c'.spaceSettings[field]
  BY <1>1, <1>2, <1>3 DEF SettingsCensus
<1>. QED
  BY <1>4, <1>5

LEMMA PrefixOfItself ==
  ASSUME NEW S, NEW seq \in Seq(S)
  PROVE  IsPrefix(seq, seq)
  BY DEF IsPrefix

LEMMA PrefixOfAppend ==
  ASSUME NEW S, NEW seq \in Seq(S), NEW e \in S
  PROVE  IsPrefix(seq, Append(seq, e))
<1>1. /\ Append(seq, e) \in Seq(S) /\ Len(Append(seq, e)) = Len(seq) + 1
      /\ \A n \in 1..Len(seq) : Append(seq, e)[n] = seq[n]
  OBVIOUS
<1>2. SubSeq(seq, 1, Len(seq)) = SubSeq(Append(seq, e), 1, Len(seq))
  BY <1>1
<1>. QED
  BY <1>1, <1>2 DEF IsPrefix

(* An option joins the vocabulary of its owner behind those before it.     *)
LEMMA VocabulariesOnlyGrow ==
  ASSUME TypeOK, [Next]_vars
  PROVE  /\ c.seenOptions \subseteq c'.seenOptions
         /\ \A key \in Keys : IsPrefix(c.optionsByKey[key], c'.optionsByKey[key])
<1>1. c.optionsByKey \in [Keys -> Seq(StoredOptions)]
  BY Zenon DEF TypeOK, ComposerStructs
<1>2. \A key \in Keys : IsPrefix(c.optionsByKey[key], c.optionsByKey[key])
  BY <1>1, PrefixOfItself
<1>3. ASSUME NEW t \in Tasks, ObserveNewOption(t)
      PROVE  /\ c.seenOptions \subseteq c'.seenOptions
             /\ \A key \in Keys : IsPrefix(c.optionsByKey[key], c'.optionsByKey[key])
  <2>. DEFINE owner == Snapshot[t].owner
  <2>1. PICK stored \in StoredOptions :
          /\ owner \in Keys
          /\ c'.seenOptions = c.seenOptions \cup {OptionOf(Snapshot[t])}
          /\ c'.optionsByKey =
               [c.optionsByKey EXCEPT ![owner] = Append(c.optionsByKey[owner], stored)]
    BY <1>3, NewOptionJoins
  <2>2. IsPrefix(c.optionsByKey[owner], Append(c.optionsByKey[owner], stored))
    BY <1>1, <2>1, PrefixOfAppend
  <2>3. \A key \in Keys :
          c'.optionsByKey[key] = IF key = owner THEN Append(c.optionsByKey[owner], stored)
                                               ELSE c.optionsByKey[key]
    BY <1>1, <2>1
  <2>. QED
    BY <1>2, <2>1, <2>2, <2>3
<1>. QED
  BY <1>2, <1>3, OnlyNewOptionsJoin

(***************************************************************************)
(* No step, Finish's own additions included, takes back a key, an id, a    *)
(* definition, an option or a setting that an earlier one recorded.        *)
(***************************************************************************)
THEOREM Accumulation == Spec => OnlyAccumulates
<1>1. Ledger /\ [Next]_vars => [Accumulates]_vars
  BY CensusOnlyGrows, LiftsOnlyGrow, VocabulariesOnlyGrow
     DEF Ledger, CensusGrows, Accumulates
<1>. QED
  BY <1>1, LedgerStarts, LedgerKept, PTL DEF Spec, OnlyAccumulates

-----------------------------------------------------------------------------
(* The labels of views.                                                    *)

LabelsOf(ids, pairs) ==
  {[id |-> id, view |-> pair[1], label |-> pair[2]] : id \in ids, pair \in pairs}

(* Under the ids of a document that was reported stand its labels, however *)
(* often it was observed.                                                  *)
LabelCensus ==
  CompactBlockLabels =>
    \A t \in Reported \cap Labelled :
      {l \in c.widgetViewLabels : l.id \in OwnIds(Snapshot[t])}
        = LabelsOf(OwnIds(Snapshot[t]), Snapshot[t].labels)

LEMMA LabelsStandUnderTheirIds ==
  \A ids, pairs : \A l \in LabelsOf(ids, pairs) : l.id \in ids
  BY DEF LabelsOf

LEMMA LabelCensusKept ==
  ASSUME TypeOK, TasksFollowTheirKind, LabelCensus, [Next]_vars
  PROVE  LabelCensus'
<1>1. ASSUME NEW t \in Tasks, Observe(t), ~ObserveDocument(t)
      PROVE  LabelCensus'
  BY <1>1, LiftedFields, LiftedSets DEF LabelCensus
<1>2. ASSUME NEW t \in Tasks, ObserveWritten(t), CompactBlockLabels
      PROVE  LabelCensus'
  <2>. DEFINE s == Snapshot[t]
              old == c.widgetViewLabels
              new == c'.widgetViewLabels
  <2>1. c' = RecordWritten(c, s)
    BY <1>2 DEF ObserveWritten
  <2>2. new = IF ViewLabels(s) = {} THEN old
              ELSE {l \in old : l.id \notin OwnIds(s)} \cup ViewLabels(s)
    BY <2>1, Zenon DEF RecordWritten, TypeOK, ComposerStructs
  <2>3. ViewLabels(s) = LabelsOf(OwnIds(s), s.labels)
    BY <1>2 DEF ViewLabels, LabelsOf
  <2>4. Reported' = Reported \cup {t}
    BY <1>2, EmittedSets DEF Emit
  <2>5. s.kind = "document" /\ s.id \in OwnIds(s)
    <3>1. s.kind = "document"
      BY <1>2 DEF ObserveWritten, TasksFollowTheirKind
    <3>. QED
      BY <3>1, SnapshotAssumption, ShapeOfDocument DEF DocumentSnapshots, OwnIds
  <2>6. CASE s.labels = {}
    <3>1. ViewLabels(s) = {} /\ t \notin Labelled
      BY <2>3, <2>6 DEF LabelsOf, Labelled
    <3>. QED
      BY <2>2, <2>4, <3>1 DEF LabelCensus
  <2>7. CASE s.labels # {}
    <3>1. t \in Labelled
      BY <2>5, <2>7 DEF Labelled
    <3>2. new = {l \in old : l.id \notin OwnIds(s)} \cup LabelsOf(OwnIds(s), s.labels)
      <4>1. PICK pair \in s.labels : TRUE
        BY <2>7
      <4>2. [id |-> s.id, view |-> pair[1], label |-> pair[2]] \in LabelsOf(OwnIds(s), s.labels)
        BY <2>5, <4>1 DEF LabelsOf
      <4>. QED
        BY <2>2, <2>3, <4>2
    <3>3. ASSUME NEW u \in Reported' \cap Labelled
          PROVE  {l \in new : l.id \in OwnIds(Snapshot[u])}
                   = LabelsOf(OwnIds(Snapshot[u]), Snapshot[u].labels)
      <4>1. CASE OwnIds(s) \cap OwnIds(Snapshot[u]) # {}
        <5>1. OwnIds(Snapshot[u]) = OwnIds(s) /\ Snapshot[u].labels = s.labels
          BY <3>1, <4>1, LabelsAssumption
        <5>2. {l \in new : l.id \in OwnIds(s)} = LabelsOf(OwnIds(s), s.labels)
          BY <3>2, LabelsStandUnderTheirIds
        <5>. QED
          BY <5>1, <5>2
      <4>2. CASE OwnIds(s) \cap OwnIds(Snapshot[u]) = {}
        <5>1. u \in Reported
          BY <2>4, <2>5, <4>2
        <5>2. {l \in old : l.id \in OwnIds(Snapshot[u])}
                = LabelsOf(OwnIds(Snapshot[u]), Snapshot[u].labels)
          BY <1>2, <5>1 DEF LabelCensus
        <5>3. {l \in new : l.id \in OwnIds(Snapshot[u])}
                = {l \in old : l.id \in OwnIds(Snapshot[u])}
          BY <3>2, <4>2, LabelsStandUnderTheirIds
        <5>. QED
          BY <5>2, <5>3
      <4>. QED
        BY <4>1, <4>2
    <3>. QED
      BY <3>3, Zenon DEF LabelCensus
  <2>. QED
    BY <2>6, <2>7
<1>3. ASSUME NEW t \in Tasks, ObserveDocument(t) \/ Emit(t), ~ObserveWritten(t)
      PROVE  LabelCensus'
  BY <1>3, EmittedFields, EmittedSets DEF LabelCensus
<1>4. ASSUME DeclareMetadataOnly \/ Finish \/ Cancel \/ Stop \/ UNCHANGED vars
      PROVE  LabelCensus'
  BY <1>4, RunFields DEF LabelCensus, Reported
<1>5. ASSUME NEW t \in Tasks, FailObject(t)
      PROVE  LabelCensus'
  BY <1>5, FailedObject DEF LabelCensus
<1>6. ~CompactBlockLabels => LabelCensus'
  BY DEF LabelCensus
<1>. QED
  BY <1>1, <1>2, <1>3, <1>4, <1>5, <1>6 DEF Next, Observe, Emit

(***************************************************************************)
(* A published widget shows its view under the label that the document     *)
(* gives the view, whichever of the two was observed first.                *)
(***************************************************************************)
THEOREM LabelsCorrect == Spec => []WidgetsUseTheDocumentsLabels
<1>1. Init => WidgetsUseTheDocumentsLabels /\ LabelCensus
  <2>1. Init => Reported = {}
    BY DEF Init, Reported
  <2>. QED
    BY <2>1, NothingPublishedAtFirst DEF WidgetsUseTheDocumentsLabels, LabelCensus
<1>2. Ledger /\ LabelCensus /\ [Next]_vars => LabelCensus'
  BY LabelCensusKept DEF Ledger
<1>3. Ledger /\ LabelCensus /\ WidgetsUseTheDocumentsLabels /\ [Next]_vars
        => WidgetsUseTheDocumentsLabels'
  <2>. SUFFICES ASSUME Ledger, LabelCensus, WidgetsUseTheDocumentsLabels, [Next]_vars, Published'
                PROVE  WidgetsUseTheDocumentsLabels'
    BY DEF WidgetsUseTheDocumentsLabels
  <2>1. CASE Published
    <3>1. UNCHANGED vars
      BY <2>1, NothingFollowsFinish DEF Published
    <3>. QED
      BY <3>1 DEF vars, WidgetsUseTheDocumentsLabels, Published
  <2>2. CASE ~Published
    <3>1. /\ out'.index.widgets = PublishedWidgets /\ c'.index = c.index
          /\ docs = Reported /\ docs' = docs
      BY <2>2, JustPublished, IndexMembers
    <3>2. ASSUME NEW n \in DOMAIN c.index.widgets, NEW t \in docs,
                 CompactBlockLabels,
                 Snapshot[t].envelope = Fold[c.index.widgets[n].target],
                 NEW pair \in Snapshot[t].labels, pair[1] = c.index.widgets[n].view
          PROVE  PublishedWidgets[n].view = pair[2]
      <4>. DEFINE widget == c.index.widgets[n]
                  l == [id |-> widget.target, view |-> pair[1], label |-> pair[2]]
                  labels == {m \in c.widgetViewLabels :
                               m.id = widget.target /\ m.view = widget.view}
      <4>1. t \in Reported \cap Labelled
        BY <3>1, <3>2 DEF Reported, Labelled
      <4>2. widget.target \in Ids
        <5>1. c.index.widgets \in Seq(Widgets)
          BY DEF Ledger, TypeOK, ComposerStructs, Sidebars
        <5>2. widget \in Widgets
          BY <5>1
        <5>. QED
          BY <5>2 DEF Widgets
      <4>3. widget.target \in OwnIds(Snapshot[t])
        BY <3>2, <4>1, <4>2, LabelsAssumption
      <4>4. \A m : m \in LabelsOf(OwnIds(Snapshot[t]), Snapshot[t].labels)
                    /\ m.id = widget.target /\ m.view = widget.view <=> m = l
        <5>1. l \in LabelsOf(OwnIds(Snapshot[t]), Snapshot[t].labels)
          BY <4>3, <3>2 DEF LabelsOf
        <5>2. \A other \in Snapshot[t].labels : other[1] = pair[1] => other = pair
          BY <3>2, <4>1, LabelsAssumption
        <5>3. ASSUME NEW m \in LabelsOf(OwnIds(Snapshot[t]), Snapshot[t].labels),
                     m.id = widget.target, m.view = widget.view
              PROVE  m = l
          <6>1. PICK id \in OwnIds(Snapshot[t]), other \in Snapshot[t].labels :
                  m = [id |-> id, view |-> other[1], label |-> other[2]]
            BY <5>3 DEF LabelsOf
          <6>2. id = widget.target /\ other[1] = pair[1]
            BY <3>2, <5>3, <6>1
          <6>3. other = pair
            BY <5>2, <6>2
          <6>. QED
            BY <6>1, <6>2, <6>3
        <5>4. l.id = widget.target /\ l.view = widget.view
          BY <3>2
        <5>. QED
          BY <5>1, <5>3, <5>4
      <4>5. labels = {l}
        BY <3>2, <4>1, <4>3, <4>4 DEF LabelCensus
      <4>6. (CHOOSE m \in labels : TRUE).label = pair[2]
        <5>1. (CHOOSE m \in {l} : TRUE) = l
          BY Zenon
        <5>2. l.label = pair[2]
          OBVIOUS
        <5>. HIDE DEF l, labels
        <5>. QED
          BY <4>5, <5>1, <5>2
      <4>7. labels # {}
        BY <4>5
      <4>8. LabelledWidget(widget).view = pair[2]
        BY <4>6, <4>7 DEF LabelledWidget
      <4>. QED
        BY <4>8 DEF PublishedWidgets
    <3>3. DOMAIN PublishedWidgets = DOMAIN c.index.widgets
      BY DEF PublishedWidgets
    <3>4. ASSUME NEW n \in DOMAIN out'.index.widgets, NEW t \in docs',
                 CompactBlockLabels,
                 Snapshot[t].envelope = Fold[c'.index.widgets[n].target],
                 NEW pair \in Snapshot[t].labels, pair[1] = c'.index.widgets[n].view
          PROVE  out'.index.widgets[n].view = pair[2]
      <4>1. n \in DOMAIN c.index.widgets /\ t \in docs
        BY <3>1, <3>3, <3>4
      <4>2. PublishedWidgets[n].view = pair[2]
        BY <3>1, <3>2, <3>4, <4>1
      <4>. QED
        BY <3>1, <4>2
    <3>. QED
      BY <3>4 DEF WidgetsUseTheDocumentsLabels
  <2>. QED
    BY <2>1, <2>2
<1>. QED
  BY <1>1, <1>2, <1>3, LedgerStarts, LedgerKept, PTL DEF Spec

-----------------------------------------------------------------------------
(* The counts of options.                                                  *)

(***************************************************************************)
(* What stands between the numbers lo[key] and hi[key] of each key of S,   *)
(* one cell a number: as many cells as the sum over S of the differences.  *)
(***************************************************************************)
Cells(lo, hi, S) == UNION {{<<key, n>> : n \in (lo[key] + 1)..hi[key]} : key \in S}

Bounds(lo, hi) ==
  /\ lo \in [Keys -> Nat] /\ hi \in [Keys -> Nat]
  /\ \A key \in Keys : lo[key] <= hi[key]

LEMMA CellsOfAKey ==
  ASSUME NEW key, NEW m \in Nat, NEW n \in Nat, m <= n
  PROVE  LET row == {<<key, k>> : k \in (m + 1)..n}
         IN  IsFiniteSet(row) /\ Cardinality(row) = n - m
<1>. DEFINE row == {<<key, k>> : k \in (m + 1)..n}
            f == [k \in (m + 1)..n |-> <<key, k>>]
<1>1. IsFiniteSet((m + 1)..n) /\ Cardinality((m + 1)..n) = n - m
  <2>1. m + 1 \in Int /\ n \in Int
    OBVIOUS
  <2>2. /\ IsFiniteSet((m + 1)..n)
        /\ Cardinality((m + 1)..n) = IF m + 1 > n THEN 0 ELSE n - (m + 1) + 1
    BY <2>1, FS_Interval
  <2>. QED
    BY <2>2
<1>2. f \in Bijection((m + 1)..n, row)
  <2>1. f \in [(m + 1)..n -> row]
    OBVIOUS
  <2>2. \A a, b \in (m + 1)..n : f[a] = f[b] => a = b
    OBVIOUS
  <2>3. \A x \in row : \E k \in (m + 1)..n : f[k] = x
    OBVIOUS
  <2>. HIDE DEF f, row
  <2>. QED
    BY <2>1, <2>2, <2>3, Zenon DEF Bijection, Injection, Surjection, IsInjective
<1>3. IsFiniteSet(row) /\ Cardinality(row) = Cardinality((m + 1)..n)
  <2>1. ExistsBijection((m + 1)..n, row)
    BY <1>2, Zenon DEF ExistsBijection
  <2>. QED
    BY <1>1, <2>1, FS_Bijection
<1>. QED
  BY <1>1, <1>3

(* One more key adds its own cells.                                        *)
LEMMA CellsGrow ==
  ASSUME NEW lo, NEW hi, Bounds(lo, hi), NEW S \in SUBSET Keys, NEW key \in S,
         IsFiniteSet(Cells(lo, hi, S \ {key}))
  PROVE  /\ IsFiniteSet(Cells(lo, hi, S))
         /\ Cardinality(Cells(lo, hi, S)) =
              (hi[key] - lo[key]) + Cardinality(Cells(lo, hi, S \ {key}))
<1>. DEFINE row == {<<key, n>> : n \in (lo[key] + 1)..hi[key]}
            rest == Cells(lo, hi, S \ {key})
<1>1. lo[key] \in Nat /\ hi[key] \in Nat /\ lo[key] <= hi[key]
  BY DEF Bounds
<1>2. IsFiniteSet(row) /\ Cardinality(row) = hi[key] - lo[key]
  BY <1>1, CellsOfAKey
<1>3. Cells(lo, hi, S) = row \cup rest
  BY DEF Cells
<1>4. row \cap rest = {}
  BY DEF Cells
<1>5. Cardinality(rest) \in Nat
  BY FS_CardinalityType
<1>. HIDE DEF row, rest
<1>6. IsFiniteSet(row \cup rest) /\ Cardinality(row \cup rest) = Cardinality(row) + Cardinality(rest)
  <2>1. IsFiniteSet(rest)
    BY DEF rest
  <2>2. /\ IsFiniteSet(row \cup rest)
        /\ Cardinality(row \cup rest) =
             Cardinality(row) + Cardinality(rest) - Cardinality(row \cap rest)
    BY <1>2, <2>1, FS_Union
  <2>3. Cardinality(row \cap rest) = 0
    BY <1>4, FS_EmptySet
  <2>. QED
    BY <1>1, <1>2, <1>5, <2>2, <2>3
<1>. QED
  BY <1>2, <1>3, <1>6 DEF rest

(* The sums of Stats, and the sum of what the dictionary shows.            *)
Some(p, s) == CHOOSE x \in s : TRUE

Counted(p, s, r) ==
  /\ IsFiniteSet(Cells(p.lo, p.hi, s)) /\ Cardinality(Cells(p.lo, p.hi, s)) = r

LiftNext(p, key, r) == Len(LiftedOptions(key)) + r
OfLifted == INSTANCE FoldInduction
              WITH Choice <- Some, Step <- LiftNext, Holds <- Counted

DropNext(p, key, r) == (Len(c.optionsByKey[key]) - Len(LiftedOptions(key))) + r
OfDropped == INSTANCE FoldInduction
               WITH Choice <- Some, Step <- DropNext, Holds <- Counted

ShowNext(p, key, r) == Len(p.dictionary[key].options) + r
OfShown == INSTANCE FoldInduction
             WITH Choice <- Some, Step <- ShowNext, Holds <- Counted
(* A vocabulary keeps at most the options it was given.                    *)
Latest(p, s) == Max(s)

KeepNext(p, n, r) ==
  IF Carryable(p.format, p.listed[n].def) THEN Append(r, p.listed[n].def) ELSE r

KeptSoFar(p, s, r) ==
  /\ r \in Seq({p.listed[n].def : n \in DOMAIN p.listed})
  /\ Len(r) <= Cardinality(s)

OfKept == INSTANCE FoldInduction
            WITH Choice <- Latest, Step <- KeepNext, Holds <- KeptSoFar

LEMMA LatestIsIn ==
  ASSUME NEW n \in Nat, NEW p, NEW s \in SUBSET (1..n), s # {}
  PROVE  Latest(p, s) \in s
  BY OfKept!LargestIsIn DEF Latest, Max

LEMMA LiftedFits ==
  ASSUME NEW format, NEW stored \in Seq(StoredOptions)
  PROVE  Len(Lifted(format, stored)) \in Nat /\ Len(Lifted(format, stored)) <= Len(stored)
<1>. DEFINE listed == PickerOrder(stored)
            p == [format |-> format, listed |-> listed]
            defs == {listed[n].def : n \in DOMAIN listed}
<1>1. Len(stored) \in Nat /\ DOMAIN stored = 1..Len(stored)
  OBVIOUS
<1>2. DOMAIN listed = 1..Len(stored)
  BY <1>1 DEF PickerOrder
<1>3. IsFiniteSet(DOMAIN listed) /\ Cardinality(DOMAIN listed) = Len(stored)
  <2>1. 1 \in Int /\ Len(stored) \in Int
    BY <1>1
  <2>2. /\ IsFiniteSet(1..Len(stored))
        /\ Cardinality(1..Len(stored)) = IF 1 > Len(stored) THEN 0 ELSE Len(stored) - 1 + 1
    BY <2>1, FS_Interval
  <2>. QED
    BY <1>1, <1>2, <2>2
<1>. HIDE DEF listed
<1>4. KeptSoFar(p, {}, <<>>)
  BY FS_EmptySet DEF KeptSoFar
<1>5. ASSUME NEW s \in SUBSET DOMAIN listed, s # {}, NEW r, KeptSoFar(p, s \ {Latest(p, s)}, r)
      PROVE  KeptSoFar(p, s, KeepNext(p, Latest(p, s), r))
  <2>. DEFINE n == Latest(p, s)
  <2>1. n \in s
    BY <1>1, <1>2, <1>5, LatestIsIn
  <2>2. IsFiniteSet(s)
    BY <1>3, FS_Subset
  <2>. HIDE DEF n
  <2>3. Cardinality(s \ {n}) = Cardinality(s) - 1 /\ Cardinality(s) \in Nat
    BY <2>1, <2>2, FS_RemoveElement, FS_CardinalityType
  <2>4. r \in Seq(defs) /\ Len(r) <= Cardinality(s \ {n})
    BY <1>5 DEF KeptSoFar, n
  <2>5. listed[n].def \in defs
    BY <2>1
  <2>. HIDE DEF defs
  <2>6. KeepNext(p, n, r) \in Seq(defs) /\ Len(KeepNext(p, n, r)) <= Cardinality(s)
    <3>1. KeepNext(p, n, r) = r \/ KeepNext(p, n, r) = Append(r, listed[n].def)
      BY DEF KeepNext
    <3>2. /\ Append(r, listed[n].def) \in Seq(defs)
          /\ Len(Append(r, listed[n].def)) = Len(r) + 1 /\ Len(r) \in Nat
      BY <2>4, <2>5
    <3>. DEFINE q == KeepNext(p, n, r)
    <3>3. q \in Seq(defs)
      BY <2>4, <3>1, <3>2, Zenon
    <3>4. Len(q) = Len(r) \/ Len(q) = Len(r) + 1
      BY <3>1, <3>2, Zenon
    <3>. HIDE DEF q
    <3>5. Len(q) <= Cardinality(s)
      BY <2>3, <2>4, <3>2, <3>4
    <3>. QED
      BY <3>3, <3>5 DEF q
  <2>. QED
    BY <2>6 DEF KeptSoFar, defs, n
<1>6. \A s \in SUBSET DOMAIN listed : s # {} => Latest(p, s) \in s
  BY <1>1, <1>2, LatestIsIn
<1>7. KeptSoFar(p, DOMAIN listed, OfKept!FoldOf(p, DOMAIN listed, <<>>))
  <2>. HIDE DEF p
  <2>. QED
    BY <1>3, <1>4, <1>5, <1>6, OfKept!FoldKeeps DEF OfKept!IsFiniteSet, IsFiniteSet
<1>8. Lifted(format, stored) = OfKept!FoldOf(p, DOMAIN listed, <<>>)
  BY DEF Lifted, FoldLeft, MapThenFoldSet, Latest, KeepNext, OfKept!FoldOf, listed
<1>9. Lifted(format, stored) \in Seq(defs) /\ Len(Lifted(format, stored)) <= Len(stored)
  BY <1>3, <1>7, <1>8 DEF KeptSoFar
<1>. QED
  BY <1>9
(* How many options a key has in the struct, and how many its entry states. *)
NoneOf == [key \in Keys |-> 0]
LiftedOf == [key \in Keys |-> Len(LiftedOptions(key))]
StoredOf == [key \in Keys |-> Len(c.optionsByKey[key])]

LEMMA OptionBounds ==
  ASSUME TypeOK
  PROVE  Bounds(NoneOf, LiftedOf) /\ Bounds(LiftedOf, StoredOf) /\ Bounds(NoneOf, StoredOf)
<1>1. ASSUME NEW key \in Keys
      PROVE  /\ Len(LiftedOptions(key)) \in Nat /\ Len(c.optionsByKey[key]) \in Nat
             /\ Len(LiftedOptions(key)) <= Len(c.optionsByKey[key])
  <2>1. c.optionsByKey[key] \in Seq(StoredOptions)
    BY DEF TypeOK, ComposerStructs
  <2>2. Len(c.optionsByKey[key]) \in Nat
    BY <2>1
  <2>3. CASE key \in UsedKeys \ Orphans
    BY <2>1, <2>2, <2>3, LiftedFits DEF LiftedOptions
  <2>4. CASE key \notin UsedKeys \ Orphans
    <3>1. LiftedOptions(key) = <<>>
      BY <2>4 DEF LiftedOptions
    <3>. QED
      BY <2>2, <3>1
  <2>. QED
    BY <2>3, <2>4
<1>. QED
  BY <1>1 DEF Bounds, NoneOf, LiftedOf, StoredOf

LEMMA SomeIsIn == \A p, s : s # {} => Some(p, s) \in s
  BY DEF Some

LEMMA NoCells ==
  \A lo, hi : IsFiniteSet(Cells(lo, hi, {})) /\ Cardinality(Cells(lo, hi, {})) = 0
<1>1. \A lo, hi : Cells(lo, hi, {}) = {}
  BY DEF Cells
<1>. QED
  BY <1>1, FS_EmptySet

LEMMA OptionsLiftedCounts ==
  ASSUME TypeOK
  PROVE  /\ IsFiniteSet(Cells(NoneOf, LiftedOf, Keys))
         /\ Cardinality(Cells(NoneOf, LiftedOf, Keys)) = OptionsLifted
<1>. DEFINE p == [lo |-> NoneOf, hi |-> LiftedOf]
<1>1. Counted(p, {}, 0)
  BY NoCells DEF Counted
<1>2. ASSUME NEW s \in SUBSET Keys, s # {}, NEW r, Counted(p, s \ {Some(p, s)}, r)
      PROVE  Counted(p, s, LiftNext(p, Some(p, s), r))
  <2>. DEFINE key == Some(p, s)
  <2>1. key \in s
    BY <1>2, SomeIsIn
  <2>. HIDE DEF key
  <2>2. IsFiniteSet(Cells(NoneOf, LiftedOf, s \ {key}))
        /\ Cardinality(Cells(NoneOf, LiftedOf, s \ {key})) = r
    BY <1>2 DEF Counted, key
  <2>3. IsFiniteSet(Cells(NoneOf, LiftedOf, s))
        /\ Cardinality(Cells(NoneOf, LiftedOf, s)) = (LiftedOf[key] - NoneOf[key]) + r
    BY <2>1, <2>2, OptionBounds, CellsGrow
  <2>4. LiftedOf[key] = Len(LiftedOptions(key)) /\ NoneOf[key] = 0 /\ LiftedOf[key] \in Nat
    BY <2>1, OptionBounds DEF LiftedOf, NoneOf, Bounds
  <2>. QED
    BY <2>3, <2>4 DEF Counted, LiftNext, key
<1>3. Counted(p, Keys, OfLifted!FoldOf(p, Keys, 0))
  <2>. HIDE DEF p
  <2>. QED
    BY <1>1, <1>2, SomeIsIn, KeysAssumption, OfLifted!FoldKeeps
       DEF OfLifted!IsFiniteSet, IsFiniteSet
<1>4. OptionsLifted = OfLifted!FoldOf(p, Keys, 0)
  BY DEF OptionsLifted, MapThenSumSet, MapThenFoldSet, Some, LiftNext, OfLifted!FoldOf
<1>. QED
  BY <1>3, <1>4 DEF Counted
LEMMA OptionsDroppedCounts ==
  ASSUME TypeOK
  PROVE  /\ IsFiniteSet(Cells(LiftedOf, StoredOf, Keys))
         /\ Cardinality(Cells(LiftedOf, StoredOf, Keys)) = OptionsDropped
<1>. DEFINE p == [lo |-> LiftedOf, hi |-> StoredOf]
<1>1. Counted(p, {}, 0)
  BY NoCells DEF Counted
<1>2. ASSUME NEW s \in SUBSET Keys, s # {}, NEW r, Counted(p, s \ {Some(p, s)}, r)
      PROVE  Counted(p, s, DropNext(p, Some(p, s), r))
  <2>. DEFINE key == Some(p, s)
  <2>1. key \in s
    BY <1>2, SomeIsIn
  <2>. HIDE DEF key
  <2>2. IsFiniteSet(Cells(LiftedOf, StoredOf, s \ {key}))
        /\ Cardinality(Cells(LiftedOf, StoredOf, s \ {key})) = r
    BY <1>2 DEF Counted, key
  <2>3. IsFiniteSet(Cells(LiftedOf, StoredOf, s))
        /\ Cardinality(Cells(LiftedOf, StoredOf, s)) = (StoredOf[key] - LiftedOf[key]) + r
    BY <2>1, <2>2, OptionBounds, CellsGrow
  <2>4. LiftedOf[key] = Len(LiftedOptions(key)) /\ StoredOf[key] = Len(c.optionsByKey[key])
    BY <2>1 DEF LiftedOf, StoredOf
  <2>. QED
    BY <2>3, <2>4 DEF Counted, DropNext, key
<1>3. Counted(p, Keys, OfDropped!FoldOf(p, Keys, 0))
  <2>. HIDE DEF p
  <2>. QED
    BY <1>1, <1>2, SomeIsIn, KeysAssumption, OfDropped!FoldKeeps
       DEF OfDropped!IsFiniteSet, IsFiniteSet
<1>4. OptionsDropped = OfDropped!FoldOf(p, Keys, 0)
  BY DEF OptionsDropped, MapThenSumSet, MapThenFoldSet, Some, DropNext, OfDropped!FoldOf
<1>. QED
  BY <1>3, <1>4 DEF Counted

(* The dictionary Finish composes shows the options it lifted.              *)
LEMMA OptionsShownCount ==
  ASSUME TypeOK, UsedKeys \subseteq Keys
  PROVE  OptionsShown(Dictionary) = OptionsLifted
<1>. DEFINE p == [lo |-> NoneOf, hi |-> LiftedOf, dictionary |-> Dictionary]
<1>1. Counted(p, {}, 0)
  BY NoCells DEF Counted
<1>2. ASSUME NEW s \in SUBSET UsedKeys, s # {}, NEW r, Counted(p, s \ {Some(p, s)}, r)
      PROVE  Counted(p, s, ShowNext(p, Some(p, s), r))
  <2>. DEFINE key == Some(p, s)
  <2>1. key \in s /\ key \in Keys /\ s \in SUBSET Keys
    BY <1>2, SomeIsIn
  <2>. HIDE DEF key
  <2>2. IsFiniteSet(Cells(NoneOf, LiftedOf, s \ {key}))
        /\ Cardinality(Cells(NoneOf, LiftedOf, s \ {key})) = r
    BY <1>2 DEF Counted, key
  <2>3. IsFiniteSet(Cells(NoneOf, LiftedOf, s))
        /\ Cardinality(Cells(NoneOf, LiftedOf, s)) = (LiftedOf[key] - NoneOf[key]) + r
    BY <2>1, <2>2, OptionBounds, CellsGrow
  <2>4. LiftedOf[key] = Len(LiftedOptions(key)) /\ NoneOf[key] = 0 /\ LiftedOf[key] \in Nat
    BY <2>1, OptionBounds DEF LiftedOf, NoneOf, Bounds
  <2>5. Dictionary[key].options = LiftedOptions(key)
    BY <1>2, <2>1 DEF Dictionary
  <2>. QED
    BY <2>3, <2>4, <2>5 DEF Counted, ShowNext, key
<1>3. IsFiniteSet(UsedKeys)
  BY KeysAssumption, FS_Subset
<1>4. Counted(p, UsedKeys, OfShown!FoldOf(p, UsedKeys, 0))
  <2>. HIDE DEF p
  <2>. QED
    BY <1>1, <1>2, <1>3, SomeIsIn, OfShown!FoldKeeps DEF OfShown!IsFiniteSet, IsFiniteSet
<1>5. DOMAIN Dictionary = UsedKeys
  BY DEF Dictionary
<1>6. OptionsShown(Dictionary) = OfShown!FoldOf(p, UsedKeys, 0)
  <2>. DEFINE dictionary == Dictionary
  <2>. HIDE DEF dictionary
  <2>1. OptionsShown(dictionary) = OfShown!FoldOf([lo |-> NoneOf, hi |-> LiftedOf, dictionary |-> dictionary],
                                           DOMAIN dictionary, 0)
    BY DEF OptionsShown, MapThenSumSet, MapThenFoldSet, Some, ShowNext, OfShown!FoldOf
  <2>. QED
    BY <1>5, <2>1 DEF dictionary
<1>7. Cells(NoneOf, LiftedOf, Keys) = Cells(NoneOf, LiftedOf, UsedKeys)
  <2>1. ASSUME NEW key \in Keys \ UsedKeys
        PROVE  LiftedOf[key] = 0 /\ NoneOf[key] = 0
    BY <2>1 DEF LiftedOf, NoneOf, LiftedOptions
  <2>. QED
    BY <2>1 DEF Cells
<1>. QED
  BY <1>4, <1>6, <1>7, OptionsLiftedCounts DEF Counted

(* What was lifted and what was dropped is what was stored.                *)
LEMMA LiftedAndDropped ==
  ASSUME TypeOK
  PROVE  /\ IsFiniteSet(Cells(NoneOf, StoredOf, Keys))
         /\ OptionsLifted \in Nat /\ OptionsDropped \in Nat
         /\ Cardinality(Cells(NoneOf, StoredOf, Keys)) = OptionsLifted + OptionsDropped
<1>. DEFINE lifted == Cells(NoneOf, LiftedOf, Keys)
            dropped == Cells(LiftedOf, StoredOf, Keys)
<1>1. IsFiniteSet(lifted) /\ Cardinality(lifted) = OptionsLifted
  BY OptionsLiftedCounts
<1>2. IsFiniteSet(dropped) /\ Cardinality(dropped) = OptionsDropped
  BY OptionsDroppedCounts
<1>3. Cells(NoneOf, StoredOf, Keys) = lifted \cup dropped
  <2>1. ASSUME NEW key \in Keys
        PROVE  /\ NoneOf[key] = 0 /\ LiftedOf[key] \in Nat /\ StoredOf[key] \in Nat
               /\ LiftedOf[key] <= StoredOf[key]
    BY OptionBounds DEF Bounds, NoneOf
  <2>2. ASSUME NEW key \in Keys
        PROVE  (NoneOf[key] + 1)..StoredOf[key] =
                 ((NoneOf[key] + 1)..LiftedOf[key]) \cup ((LiftedOf[key] + 1)..StoredOf[key])
    BY <2>1
  <2>. QED
    BY <2>2 DEF Cells
<1>4. lifted \cap dropped = {}
  <2>1. ASSUME NEW key \in Keys, NEW n \in (NoneOf[key] + 1)..LiftedOf[key]
        PROVE  n \notin (LiftedOf[key] + 1)..StoredOf[key]
    BY OptionBounds DEF Bounds
  <2>. QED
    BY <2>1 DEF Cells
<1>5. Cardinality(lifted) \in Nat /\ Cardinality(dropped) \in Nat
  BY <1>1, <1>2, FS_CardinalityType
<1>. HIDE DEF lifted, dropped
<1>6. /\ IsFiniteSet(lifted \cup dropped)
      /\ Cardinality(lifted \cup dropped) =
           Cardinality(lifted) + Cardinality(dropped) - Cardinality(lifted \cap dropped)
  BY <1>1, <1>2, FS_Union
<1>7. Cardinality(lifted \cap dropped) = 0
  BY <1>4, FS_EmptySet
<1>. QED
  BY <1>1, <1>2, <1>3, <1>5, <1>6, <1>7
(* Only an observed option moves the counts.                               *)
ObservesAnOption(t) ==
  ObserveNewOption(t) \/ ObserveUnliftableOption(t) \/ ObserveRepeatedOption(t)

LEMMA OptionCountersMove ==
  ASSUME TypeOK, [Next]_vars
  PROVE  /\ (\A t \in Tasks : ~ObserveUnliftableOption(t))
              => c'.optionsUnliftable = c.optionsUnliftable
         /\ (\A t \in Tasks : ~ObserveRepeatedOption(t))
              => c'.optionsRepeated = c.optionsRepeated
<1>. c \in ComposerStructs
  BY DEF TypeOK
<1>. DEFINE Stay == /\ c'.optionsUnliftable = c.optionsUnliftable
                    /\ c'.optionsRepeated = c.optionsRepeated
<1>1. ASSUME NEW t \in Tasks, Observe(t)
      PROVE  /\ ~ObserveUnliftableOption(t) => c'.optionsUnliftable = c.optionsUnliftable
             /\ ~ObserveRepeatedOption(t) => c'.optionsRepeated = c.optionsRepeated
  <2>1. CASE ObserveSystem(t) \/ ObserveKeylessRelation(t)
    BY <2>1, Zenon DEF ObserveSystem, ObserveKeylessRelation, Omits, ComposerStructs
  <2>2. CASE ObserveSpaceSettings(t)
    BY <2>2, Zenon DEF ObserveSpaceSettings, Omits, ComposerStructs
  <2>3. CASE ObserveUnliftableOption(t)
    BY <2>3, Zenon DEF ObserveUnliftableOption, Omits, ComposerStructs
  <2>4. CASE ObserveRepeatedOption(t)
    BY <2>4, Zenon DEF ObserveRepeatedOption, Omits, ComposerStructs
  <2>5. CASE ObserveNewOption(t)
    BY <2>5, Zenon DEF ObserveNewOption, Omits, ComposerStructs
  <2>6. CASE ObserveWidgets(t)
    BY <2>6, Zenon DEF ObserveWidgets, Omits, ComposerStructs
  <2>7. CASE ObserveRelation(t)
    BY <2>7, Zenon DEF ObserveRelation, Omits, ComposerStructs
  <2>8. CASE ObserveDocument(t)
    BY <2>8, Zenon DEF ObserveDocument
  <2>. QED
    BY <1>1, <2>1, <2>2, <2>3, <2>4, <2>5, <2>6, <2>7, <2>8 DEF Observe
<1>2. ASSUME NEW t \in Tasks, Emit(t)
      PROVE  Stay
  <2>1. CASE ObserveWritten(t)
    BY <2>1, Zenon DEF ObserveWritten, RecordWritten, ComposerStructs
  <2>2. CASE ObserveFileBlob(t)
    BY <2>2, Zenon DEF ObserveFileBlob, ComposerStructs
  <2>3. WriteDocument(t) \/ FailDocument(t) \/ RefuseWritten(t) \/ StreamBlob(t)
          \/ FailStream(t) => UNCHANGED c
    BY Zenon DEF WriteDocument, FailDocument, RefuseWritten, StreamBlob, FailStream
  <2>. QED
    BY <1>2, <2>1, <2>2, <2>3 DEF Emit
<1>3. CASE Finish
  <2>1. c' \in {c, [c EXCEPT !.used = UsedKeys],
                [c EXCEPT !.used = UsedKeys, !.typeRefs = TypeRefsAtFinish]}
    BY <1>3 DEF Finish, FinishConflicting, FinishEmpty, FinishRefused, FinishBundle
  <2>2. Stay
    BY <2>1, Zenon DEF ComposerStructs
  <2>. QED
    BY <2>2
<1>4. CASE DeclareMetadataOnly
  BY <1>4, Zenon DEF DeclareMetadataOnly, ComposerStructs
<1>5. CASE Cancel \/ Stop \/ UNCHANGED vars
  <2>1. c' = c
    BY <1>5, Zenon DEF Cancel, Stop, vars
  <2>. QED
    BY <2>1
<1>6. ASSUME NEW t \in Tasks, FailObject(t)
      PROVE  c' = c
  BY <1>6, FailedObject
<1>. QED
  BY <1>1, <1>2, <1>3, <1>4, <1>5, <1>6 DEF Next

LEMMA SeenOptionsStay ==
  ASSUME TypeOK, TasksFollowTheirKind, [Next]_vars, \A t \in Tasks : ~ObservesAnOption(t)
  PROVE  Seen("option")' = Seen("option")
<1>1. ASSUME NEW t \in Tasks, Observe(t), ~ObserveDocument(t)
      PROVE  Snapshot[t].kind # "option"
  BY <1>1
     DEF Observe, ObservesAnOption, ObserveSystem, ObserveSpaceSettings, ObserveWidgets,
         ObserveKeylessRelation, ObserveRelation, Starts
<1>. QED
  BY <1>1, SeenMoves

(* An observed option is seen once.                                        *)
LEMMA OneMoreOption ==
  ASSUME TypeOK, IsFiniteSet(Seen("option")), NEW t \in Tasks, ObservesAnOption(t)
  PROVE  /\ IsFiniteSet(Seen("option")')
         /\ Cardinality(Seen("option")') = Cardinality(Seen("option")) + 1
         /\ Cardinality(Seen("option")) \in Nat
<1>1. Observe(t) /\ ~ObserveDocument(t) /\ Snapshot[t].kind = "option" /\ task[t] = "queued"
  BY DEF ObservesAnOption, Observe, ObserveNewOption, ObserveUnliftableOption,
         ObserveRepeatedOption, ObserveDocument, Starts
<1>2. Seen("option")' = Seen("option") \cup {t} /\ t \notin Seen("option")
  BY <1>1, SeenOptionsMove DEF Seen
<1>. QED
  BY <1>2, FS_AddElement, FS_CardinalityType

(***************************************************************************)
(* Every option seen so far is stored, counted as unliftable or counted as *)
(* repeated: one of the three, once.                                       *)
(***************************************************************************)
OptionCount ==
  /\ IsFiniteSet(Seen("option"))
  /\ Cardinality(Seen("option")) =
       Cardinality(Cells(NoneOf, StoredOf, Keys))
         + c.optionsUnliftable + c.optionsRepeated

LEMMA OptionCountStarts == Init => OptionCount
<1>. SUFFICES ASSUME Init PROVE OptionCount
  OBVIOUS
<1>1. Seen("option") = {}
  BY DEF Init, Seen
<1>2. /\ c.optionsByKey = [key \in Keys |-> <<>>]
      /\ c.optionsUnliftable = 0 /\ c.optionsRepeated = 0
  BY Zenon DEF Init, NewComposer
<1>3. \A key \in Keys : NoneOf[key] = 0 /\ StoredOf[key] = 0
  BY <1>2 DEF NoneOf, StoredOf
<1>4. Cells(NoneOf, StoredOf, Keys) = {}
  BY <1>3 DEF Cells
<1>. QED
  BY <1>1, <1>2, <1>4, FS_EmptySet DEF OptionCount

(* A vocabulary that grows by one has one cell more.                       *)
LEMMA OneMoreCell ==
  ASSUME TypeOK, TypeOK', NEW owner \in Keys, NEW stored \in StoredOptions,
         c'.optionsByKey = [c.optionsByKey EXCEPT ![owner] = Append(c.optionsByKey[owner], stored)]
  PROVE  Cardinality(Cells(NoneOf, StoredOf, Keys))' =
           Cardinality(Cells(NoneOf, StoredOf, Keys)) + 1
<1>. DEFINE len == Len(c.optionsByKey[owner])
            cell == <<owner, len + 1>>
            cells == Cells(NoneOf, StoredOf, Keys)
<1>1. c.optionsByKey \in [Keys -> Seq(StoredOptions)]
  BY DEF TypeOK, ComposerStructs
<1>2. len \in Nat /\ \A key \in Keys : StoredOf[key] \in Nat /\ NoneOf[key] = 0
  BY <1>1 DEF StoredOf, NoneOf
<1>3. \A key \in Keys : StoredOf'[key] = IF key = owner THEN len + 1 ELSE StoredOf[key]
  BY <1>1 DEF StoredOf
<1>4. StoredOf[owner] = len
  BY DEF StoredOf
<1>5. Cells(NoneOf, StoredOf, Keys)' = cells \cup {cell}
  <2>. HIDE DEF len
  <2>1. Cells(NoneOf, StoredOf, Keys)' = UNION {{<<key, n>> : n \in 1..StoredOf'[key]} : key \in Keys}
    BY DEF Cells, NoneOf
  <2>2. cells = UNION {{<<key, n>> : n \in 1..StoredOf[key]} : key \in Keys}
    BY DEF Cells, NoneOf
  <2>3. 1..(len + 1) = (1..len) \cup {len + 1}
    BY <1>2
  <2>. HIDE DEF cells
  <2>. QED
    BY <1>3, <1>4, <2>1, <2>2, <2>3
<1>6. cell \notin cells
  <2>1. len + 1 \notin 1..len
    BY <1>2
  <2>. QED
    BY <1>2, <1>4, <2>1 DEF Cells
<1>7. IsFiniteSet(cells)
  BY LiftedAndDropped
<1>. HIDE DEF cells, cell
<1>. QED
  BY <1>5, <1>6, <1>7, FS_AddElement DEF cells

LEMMA OptionCountKept ==
  ASSUME Ledger, OptionCount, [Next]_vars
  PROVE  OptionCount'
<1>. DEFINE cells == Cells(NoneOf, StoredOf, Keys)
<1>1. TypeOK /\ TypeOK' /\ TasksFollowTheirKind
  BY LedgerKept DEF Ledger
<1>2. IsFiniteSet(cells) /\ Cardinality(cells) \in Nat
  BY <1>1, LiftedAndDropped, FS_CardinalityType
<1>3. c.optionsUnliftable \in Nat /\ c.optionsRepeated \in Nat
  BY <1>1 DEF TypeOK, ComposerStructs
<1>. HIDE DEF cells
<1>4. ASSUME NEW t \in Tasks, ObserveNewOption(t)
      PROVE  OptionCount'
  <2>2. Cardinality(cells)' = Cardinality(cells) + 1
    BY <1>1, <1>4, NewOptionJoins, OneMoreCell DEF cells
  <2>3. /\ c'.optionsUnliftable = c.optionsUnliftable
        /\ c'.optionsRepeated = c.optionsRepeated
    BY <1>1, <1>4, Zenon DEF ObserveNewOption, Omits, TypeOK, ComposerStructs
  <2>4. /\ IsFiniteSet(Seen("option")')
        /\ Cardinality(Seen("option")') = Cardinality(Seen("option")) + 1
    BY <1>1, <1>4, OneMoreOption DEF ObservesAnOption, OptionCount
  <2>. QED
    BY <1>2, <1>3, <2>2, <2>3, <2>4 DEF OptionCount, cells
<1>5. ASSUME \A t \in Tasks : ~ObserveNewOption(t)
      PROVE  cells' = cells
  BY <1>1, <1>5, OnlyNewOptionsJoin DEF cells, Cells, StoredOf, NoneOf
<1>6. ASSUME NEW t \in Tasks, ObserveUnliftableOption(t) \/ ObserveRepeatedOption(t)
      PROVE  OptionCount'
  <2>1. /\ c'.optionsByKey = c.optionsByKey
        /\ c'.optionsUnliftable + c'.optionsRepeated = c.optionsUnliftable + c.optionsRepeated + 1
    <3>1. CASE ObserveUnliftableOption(t)
      <4>1. /\ c'.optionsByKey = c.optionsByKey /\ c'.optionsRepeated = c.optionsRepeated
            /\ c'.optionsUnliftable = c.optionsUnliftable + 1
        BY <1>1, <3>1, Zenon DEF ObserveUnliftableOption, Omits, TypeOK, ComposerStructs
      <4>. QED
        BY <1>3, <4>1
    <3>2. CASE ObserveRepeatedOption(t)
      <4>1. /\ c'.optionsByKey = c.optionsByKey /\ c'.optionsUnliftable = c.optionsUnliftable
            /\ c'.optionsRepeated = c.optionsRepeated + 1
        BY <1>1, <3>2, Zenon DEF ObserveRepeatedOption, Omits, TypeOK, ComposerStructs
      <4>. QED
        BY <1>3, <4>1
    <3>. QED
      BY <1>6, <3>1, <3>2
  <2>2. cells' = cells
    BY <2>1 DEF cells, Cells, StoredOf, NoneOf
  <2>3. /\ IsFiniteSet(Seen("option")')
        /\ Cardinality(Seen("option")') = Cardinality(Seen("option")) + 1
    BY <1>1, <1>6, OneMoreOption DEF ObservesAnOption, OptionCount
  <2>4. c'.optionsUnliftable \in Nat /\ c'.optionsRepeated \in Nat
    BY <1>1 DEF TypeOK, ComposerStructs
  <2>. QED
    BY <1>2, <1>3, <2>1, <2>2, <2>3, <2>4 DEF OptionCount, cells
<1>7. CASE \A t \in Tasks : ~ObservesAnOption(t)
  <2>1. Seen("option")' = Seen("option")
    BY <1>1, <1>7, SeenOptionsStay
  <2>2. c'.optionsUnliftable = c.optionsUnliftable /\ c'.optionsRepeated = c.optionsRepeated
    BY <1>1, <1>7, OptionCountersMove DEF ObservesAnOption
  <2>3. cells' = cells
    BY <1>5, <1>7 DEF ObservesAnOption
  <2>. QED
    BY <2>1, <2>2, <2>3 DEF OptionCount, cells
<1>. QED
  BY <1>4, <1>6, <1>7 DEF ObservesAnOption

(***************************************************************************)
(* Every option snapshot is counted once, and the lifted ones are those    *)
(* the dictionary shows, for any number of options, of keys and of tasks.  *)
(***************************************************************************)
THEOREM OptionsCorrect == Spec => []OptionsAccounted
<1>1. Init => OptionsAccounted
  BY NothingPublishedAtFirst DEF OptionsAccounted
<1>2. Ledger /\ OptionCount /\ OptionsAccounted /\ [Next]_vars => OptionsAccounted'
  <2>. SUFFICES ASSUME Ledger, OptionCount, OptionsAccounted, [Next]_vars, Published'
                PROVE  OptionsAccounted'
    BY DEF OptionsAccounted
  <2>1. CASE Published
    <3>1. UNCHANGED vars
      BY <2>1, NothingFollowsFinish DEF Published
    <3>. QED
      BY <2>1, <3>1 DEF vars, OptionsAccounted, Published, Seen
  <2>2. CASE ~Published
    <3>1. FinishBundle /\ out'.dictionary = Dictionary /\ task' = task
      BY <2>2, JustPublished
    <3>8. out'.stats = Stats
      BY <3>1, Zenon DEF FinishBundle, Finishes
    <3>2. /\ Stats.optionsLifted = OptionsLifted /\ Stats.optionsDropped = OptionsDropped
          /\ Stats.optionsUnliftable = c.optionsUnliftable
          /\ Stats.optionsRepeated = c.optionsRepeated
      BY Zenon DEF Stats
    <3>3. TypeOK
      BY DEF Ledger
    <3>4. UsedKeys \subseteq Keys
      BY <3>3, UsedKeysTyped
    <3>5. Cardinality(Seen("option")) =
            OptionsLifted + OptionsDropped + c.optionsUnliftable + c.optionsRepeated
      BY <3>3, LiftedAndDropped DEF OptionCount
    <3>6. OptionsShown(Dictionary) = OptionsLifted
      BY <3>3, <3>4, OptionsShownCount
    <3>7. Seen("option")' = Seen("option")
      BY <3>1 DEF Seen
    <3>. QED
      BY <3>1, <3>2, <3>5, <3>6, <3>7, <3>8 DEF OptionsAccounted
  <2>. QED
    BY <2>1, <2>2
<1>. QED
  BY <1>1, <1>2, OptionCountStarts, OptionCountKept, LedgerStarts, LedgerKept, PTL DEF Spec

-----------------------------------------------------------------------------
(* The picker's order.                                                     *)

(* The comparator is a strict order, and what it does not tell apart it    *)
(* ranks alike against everything else.                                    *)
LEMMA BeforeOrders ==
  \A a, b, d \in StoredOptions :
    /\ ~Before(a, a)
    /\ Before(a, b) => ~Before(b, a)
    /\ Before(a, b) /\ Before(b, d) => Before(a, d)
    /\ Before(a, d) => Before(a, b) \/ Before(b, d)
  BY DEF Before, StoredOptions

(* With the order of arrival as the last resort it is total.               *)
LEMMA PrecedesOrders ==
  ASSUME NEW stored \in Seq(StoredOptions),
         NEW i \in DOMAIN stored, NEW j \in DOMAIN stored, NEW k \in DOMAIN stored
  PROVE  /\ ~Precedes(stored, i, i)
         /\ i # j => Precedes(stored, i, j) \/ Precedes(stored, j, i)
         /\ Precedes(stored, i, j) /\ Precedes(stored, j, k) => Precedes(stored, i, k)
<1>1. i \in Nat /\ j \in Nat /\ k \in Nat
  OBVIOUS
<1>2. stored[i] \in StoredOptions /\ stored[j] \in StoredOptions /\ stored[k] \in StoredOptions
  OBVIOUS
<1>. DEFINE a == stored[i]  b == stored[j]  d == stored[k]
<1>3. /\ ~Before(a, a)
      /\ Before(a, b) => ~Before(b, a)
      /\ Before(a, b) /\ Before(b, d) => Before(a, d)
      /\ Before(d, a) => Before(d, b) \/ Before(b, a)
      /\ Before(a, b) => Before(a, d) \/ Before(d, b)
      /\ Before(b, d) => Before(b, a) \/ Before(a, d)
      /\ Before(a, d) => ~Before(d, a)
      /\ Before(b, d) => ~Before(d, b)
  BY <1>2, BeforeOrders
<1>. QED
  BY <1>1, <1>3 DEF Precedes

(* The more options an option precedes, the fewer precede it.              *)
LEMMA EarlierCounts ==
  ASSUME NEW stored \in Seq(StoredOptions), NEW i \in DOMAIN stored
  PROVE  /\ IsFiniteSet(Earlier(stored, i))
         /\ Cardinality(Earlier(stored, i)) \in 0..(Len(stored) - 1)
         /\ \A j \in DOMAIN stored :
              Precedes(stored, i, j)
                => Cardinality(Earlier(stored, i)) < Cardinality(Earlier(stored, j))
<1>1. Len(stored) \in Nat /\ DOMAIN stored = 1..Len(stored)
  OBVIOUS
<1>2. IsFiniteSet(DOMAIN stored) /\ Cardinality(DOMAIN stored) = Len(stored)
  <2>1. /\ IsFiniteSet(1..Len(stored))
        /\ Cardinality(1..Len(stored)) = IF 1 > Len(stored) THEN 0 ELSE Len(stored) - 1 + 1
    BY <1>1, FS_Interval
  <2>. QED
    BY <1>1, <2>1
<1>3. \A j \in DOMAIN stored :
        /\ Earlier(stored, j) \in SUBSET DOMAIN stored /\ j \notin Earlier(stored, j)
        /\ IsFiniteSet(Earlier(stored, j)) /\ Cardinality(Earlier(stored, j)) \in Nat
  <2>1. \A j \in DOMAIN stored :
          Earlier(stored, j) \in SUBSET DOMAIN stored /\ j \notin Earlier(stored, j)
    BY PrecedesOrders DEF Earlier
  <2>. QED
    BY <1>2, <2>1, FS_Subset, FS_CardinalityType
<1>4. Cardinality(Earlier(stored, i)) \in 0..(Len(stored) - 1)
  <2>. DEFINE all == Earlier(stored, i) \cup {i}
  <2>1. all \in SUBSET DOMAIN stored
    BY <1>3
  <2>2. Cardinality(all) = Cardinality(Earlier(stored, i)) + 1
    BY <1>3, FS_AddElement
  <2>3. Cardinality(all) <= Len(stored)
    BY <1>2, <2>1, FS_Subset
  <2>. QED
    BY <1>1, <1>3, <2>2, <2>3
<1>5. ASSUME NEW j \in DOMAIN stored, Precedes(stored, i, j)
      PROVE  Cardinality(Earlier(stored, i)) < Cardinality(Earlier(stored, j))
  <2>. DEFINE more == Earlier(stored, i) \cup {i}
  <2>1. more \in SUBSET Earlier(stored, j)
    BY <1>5, PrecedesOrders DEF Earlier
  <2>2. Cardinality(more) = Cardinality(Earlier(stored, i)) + 1
    BY <1>3, FS_AddElement
  <2>3. Cardinality(more) <= Cardinality(Earlier(stored, j))
    BY <1>3, <2>1, FS_Subset
  <2>. QED
    BY <1>3, <2>2, <2>3
<1>. QED
  BY <1>3, <1>4, <1>5

(* Every place is taken by one option, and every option has one.           *)
LEMMA PlacesAreTaken ==
  ASSUME NEW stored \in Seq(StoredOptions)
  PROVE  /\ \A n \in DOMAIN stored :
              /\ Place(stored, n) \in DOMAIN stored
              /\ Cardinality(Earlier(stored, Place(stored, n))) = n - 1
         /\ \A i \in DOMAIN stored : \E n \in DOMAIN stored :
              n - 1 = Cardinality(Earlier(stored, i)) /\ Place(stored, n) = i
<1>. DEFINE count(i) == Cardinality(Earlier(stored, i))
            D == DOMAIN stored
            f == [i \in D |-> count(i) + 1]
<1>1. Len(stored) \in Nat /\ D = 1..Len(stored)
  OBVIOUS
<1>2. \A i \in D : count(i) \in 0..(Len(stored) - 1)
  BY EarlierCounts
<1>3. \A i, j \in D : i # j => count(i) # count(j)
  <2>. SUFFICES ASSUME NEW i \in D, NEW j \in D, i # j
                PROVE  count(i) # count(j)
    OBVIOUS
  <2>1. Precedes(stored, i, j) \/ Precedes(stored, j, i)
    BY PrecedesOrders
  <2>2. count(i) < count(j) \/ count(j) < count(i)
    BY <2>1, EarlierCounts
  <2>. QED
    BY <1>2, <2>2
<1>. HIDE DEF count
<1>4. f \in Injection(D, D)
  <2>1. \A i \in D : count(i) + 1 \in D /\ count(i) \in Nat
    BY <1>1, <1>2
  <2>. QED
    BY <1>3, <2>1 DEF Injection, IsInjective
<1>5. IsFiniteSet(D)
  BY <1>1, FS_Interval
<1>6. f \in Surjection(D, D)
  <2>. HIDE DEF f, D
  <2>. QED
    BY <1>4, <1>5, FS_Injection
<1>7. \A n \in D : \E i \in D : count(i) = n - 1
  <2>. SUFFICES ASSUME NEW n \in D PROVE \E i \in D : count(i) = n - 1
    OBVIOUS
  <2>1. PICK i \in D : f[i] = n
    BY <1>6 DEF Surjection
  <2>2. count(i) \in Nat /\ f[i] = count(i) + 1
    BY <1>1, <1>2
  <2>. QED
    BY <2>1, <2>2
<1>8. \A n \in D : Place(stored, n) \in D /\ count(Place(stored, n)) = n - 1
  BY <1>7 DEF Place, count
<1>9. ASSUME NEW i \in D
      PROVE  \E n \in D : n - 1 = count(i) /\ Place(stored, n) = i
  <2>. DEFINE n == count(i) + 1
  <2>1. n \in D /\ n - 1 = count(i)
    BY <1>1, <1>2
  <2>2. Place(stored, n) \in D /\ count(Place(stored, n)) = count(i)
    BY <1>8, <2>1
  <2>. QED
    BY <1>3, <2>1, <2>2
<1>. QED
  BY <1>8, <1>9 DEF count

(* Of two places, the option in the first precedes that in the second.     *)
LEMMA PlacesAreOrdered ==
  ASSUME NEW stored \in Seq(StoredOptions),
         NEW m \in DOMAIN stored, NEW n \in DOMAIN stored, m < n
  PROVE  Precedes(stored, Place(stored, m), Place(stored, n))
<1>. DEFINE i == Place(stored, m)
            j == Place(stored, n)
<1>1. /\ i \in DOMAIN stored /\ j \in DOMAIN stored
      /\ Cardinality(Earlier(stored, i)) = m - 1 /\ Cardinality(Earlier(stored, j)) = n - 1
  BY PlacesAreTaken
<1>. HIDE DEF i, j
<1>2. m \in Nat /\ n \in Nat
  OBVIOUS
<1>3. i # j
  BY <1>1, <1>2
<1>4. ~Precedes(stored, j, i)
  BY <1>1, <1>2, EarlierCounts
<1>. QED
  BY <1>1, <1>3, <1>4, PrecedesOrders DEF i, j

(* A vocabulary is a selection of the listed options, in their order: q    *)
(* says which of them stands where.                                        *)
Selects(p, s, r, q) ==
  /\ q \in [1..Len(r) -> s]
  /\ \A m, n \in 1..Len(r) : m < n => q[m] < q[n]
  /\ \A n \in 1..Len(r) : r[n] = p.listed[q[n]].def /\ Carryable(p.format, r[n])
  /\ \A i \in s : Carryable(p.format, p.listed[i].def) => \E n \in 1..Len(r) : q[n] = i

Selected(p, s, r) ==
  /\ r \in Seq({p.listed[n].def : n \in DOMAIN p.listed})
  /\ \E q : Selects(p, s, r, q)

OfSelected == INSTANCE FoldInduction
                WITH Choice <- Latest, Step <- KeepNext, Holds <- Selected

LEMMA LatestIsMax ==
  ASSUME NEW n \in Nat, NEW p, NEW s \in SUBSET (1..n), s # {}
  PROVE  Latest(p, s) \in s /\ \A k \in s : k <= Latest(p, s)
  BY OfKept!LargestIsMax DEF Latest, Max

LEMMA SelectedKept ==
  ASSUME NEW n \in Nat, NEW p, DOMAIN p.listed = 1..n,
         NEW s \in SUBSET (1..n), s # {}, NEW r, Selected(p, s \ {Latest(p, s)}, r)
  PROVE  Selected(p, s, KeepNext(p, Latest(p, s), r))
<1>. DEFINE last == Latest(p, s)
            rest == s \ {last}
            defs == {p.listed[i].def : i \in DOMAIN p.listed}
            option == p.listed[last].def
<1>1. last \in s /\ \A k \in rest : k < last
  <2>1. last \in s /\ \A k \in s : k <= last
    BY LatestIsMax
  <2>. HIDE DEF last
  <2>2. \A k \in s : k \in Int
    OBVIOUS
  <2>. QED
    BY <2>1, <2>2
<1>2. r \in Seq(defs) /\ option \in defs
  BY <1>1 DEF Selected
<1>3. PICK q : Selects(p, rest, r, q)
  BY DEF Selected
<1>. HIDE DEF last, defs
<1>4. CASE ~Carryable(p.format, option)
  <2>1. KeepNext(p, last, r) = r
    BY <1>4 DEF KeepNext
  <2>2. Selects(p, s, r, q)
    <3>1. q \in [1..Len(r) -> s]
      BY <1>3 DEF Selects
    <3>2. \A i \in s : i = last \/ i \in rest
      OBVIOUS
    <3>. QED
      BY <1>3, <1>4, <3>1, <3>2 DEF Selects
  <2>. QED
    BY <1>2, <2>1, <2>2 DEF Selected, last, defs
<1>5. CASE Carryable(p.format, option)
  <2>. DEFINE longer == Append(r, option)
              size == Len(r)
              placed == [i \in 1..(size + 1) |-> IF i = size + 1 THEN last ELSE q[i]]
  <2>1. KeepNext(p, last, r) = longer
    BY <1>5 DEF KeepNext
  <2>2. /\ size \in Nat /\ Len(longer) = size + 1 /\ longer \in Seq(defs)
        /\ longer[size + 1] = option /\ \A i \in 1..size : longer[i] = r[i]
    BY <1>2
  <2>3. /\ placed[size + 1] = last
        /\ \A i \in 1..size : placed[i] = q[i] /\ placed[i] \in rest
    BY <1>3, <2>2 DEF Selects
  <2>4. \A i \in 1..(size + 1) : i = size + 1 \/ i \in 1..size
    BY <2>2
  <2>5. 1..size \subseteq 1..(size + 1) /\ size + 1 \in 1..(size + 1)
    BY <2>2
  <2>6. placed \in [1..(size + 1) -> s]
    BY <1>1, <2>3, <2>4
  <2>. HIDE DEF longer, placed
  <2>7. \A m, k \in 1..(size + 1) : m < k => placed[m] < placed[k]
    <3>. SUFFICES ASSUME NEW m \in 1..(size + 1), NEW k \in 1..(size + 1), m < k
                  PROVE  placed[m] < placed[k]
      OBVIOUS
    <3>1. m \in 1..size
      BY <2>2
    <3>2. CASE k = size + 1
      BY <1>1, <2>3, <3>1, <3>2
    <3>3. CASE k \in 1..size
      BY <1>3, <2>3, <3>1, <3>3 DEF Selects
    <3>. QED
      BY <2>4, <3>2, <3>3
  <2>8. \A i \in 1..(size + 1) :
          longer[i] = p.listed[placed[i]].def /\ Carryable(p.format, longer[i])
    BY <1>3, <1>5, <2>2, <2>3, <2>4 DEF Selects
  <2>9. \A i \in s : Carryable(p.format, p.listed[i].def) =>
          \E m \in 1..(size + 1) : placed[m] = i
    <3>. SUFFICES ASSUME NEW i \in s, Carryable(p.format, p.listed[i].def)
                  PROVE  \E m \in 1..(size + 1) : placed[m] = i
      OBVIOUS
    <3>1. CASE i = last
      BY <2>3, <2>5, <3>1
    <3>2. CASE i \in rest
      BY <1>3, <2>3, <2>5, <3>2 DEF Selects
    <3>. QED
      BY <3>1, <3>2
  <2>10. Selects(p, s, longer, placed)
    BY <2>2, <2>6, <2>7, <2>8, <2>9 DEF Selects
  <2>. QED
    BY <2>1, <2>2, <2>10 DEF Selected, last, defs
<1>. QED
  BY <1>4, <1>5

LEMMA LiftedSelects ==
  ASSUME NEW format, NEW stored \in Seq(StoredOptions)
  PROVE  LET p == [format |-> format, listed |-> PickerOrder(stored)]
         IN  Selected(p, DOMAIN stored, Lifted(format, stored))
<1>. DEFINE listed == PickerOrder(stored)
            p == [format |-> format, listed |-> listed]
            n == Len(stored)
<1>1. n \in Nat /\ DOMAIN stored = 1..n /\ DOMAIN listed = 1..n
  BY DEF PickerOrder
<1>2. IsFiniteSet(1..n)
  BY <1>1, FS_Interval
<1>. HIDE DEF listed, n
<1>3. Selected(p, {}, <<>>)
  <2>1. Selects(p, {}, <<>>, <<>>)
    BY DEF Selects
  <2>. QED
    BY <2>1 DEF Selected
<1>4. p.listed = listed
  OBVIOUS
<1>5. \A s \in SUBSET (1..n) : s # {} => Latest(p, s) \in s
  BY <1>1, LatestIsIn
<1>6. \A s \in SUBSET (1..n) : \A r :
        s # {} /\ Selected(p, s \ {Latest(p, s)}, r)
          => Selected(p, s, KeepNext(p, Latest(p, s), r))
  <2>. HIDE DEF p
  <2>. QED
    BY <1>1, <1>4, SelectedKept
<1>7. Selected(p, 1..n, OfSelected!FoldOf(p, 1..n, <<>>))
  <2>. HIDE DEF p
  <2>. QED
    BY <1>2, <1>3, <1>5, <1>6, OfSelected!FoldKeeps DEF OfSelected!IsFiniteSet, IsFiniteSet
<1>8. Lifted(format, stored) = OfSelected!FoldOf(p, DOMAIN listed, <<>>)
  BY DEF Lifted, FoldLeft, MapThenFoldSet, Latest, KeepNext, OfSelected!FoldOf, listed
<1>. QED
  BY <1>1, <1>7, <1>8 DEF listed

(* What the composer remembers of an entry of a vocabulary.                *)
AsOption(key, stored) == [owner |-> key, id |-> stored.id, def |-> stored.def]

(* The vocabularies are the options observed: every entry is one of them,  *)
(* no two entries are one option, and every liftable option observed is    *)
(* the option of an entry.                                                 *)
VocabularyCensus ==
  /\ \A key \in Keys : \A i \in DOMAIN c.optionsByKey[key] :
       LET stored == c.optionsByKey[key]
       IN  /\ AsOption(key, stored[i]) \in c.seenOptions
           /\ \E t \in Seen("option") \cap Options :
                Snapshot[t].owner = key /\ stored[i] = StoredOption(t)
           /\ \A j \in DOMAIN stored :
                i # j => ~SameOption(AsOption(key, stored[i]), AsOption(key, stored[j]))
  /\ \A o \in c.seenOptions :
       \E i \in DOMAIN c.optionsByKey[o.owner] :
         o = AsOption(o.owner, c.optionsByKey[o.owner][i])
  /\ \A t \in Seen("option") \cap Options :
       \E o \in c.seenOptions : SameOption(o, OptionOf(Snapshot[t]))

LEMMA SameOptionIsMutual ==
  \A a, b : SameOption(a, b) => SameOption(b, a)
  BY DEF SameOption

(* An option that is already in its vocabulary changes nothing.            *)
LEMMA VocabularyCensusStays ==
  ASSUME TypeOK, TasksFollowTheirKind, VocabularyCensus, [Next]_vars,
         \A t \in Tasks : ~ObserveNewOption(t)
  PROVE  VocabularyCensus'
<1>1. c'.optionsByKey = c.optionsByKey /\ c'.seenOptions = c.seenOptions
  BY OnlyNewOptionsJoin
<1>2. /\ Seen("option") \subseteq Seen("option")'
      /\ \A t \in Seen("option")' : t \in Options =>
           t \in Seen("option") \/ \E o \in c.seenOptions : SameOption(o, OptionOf(Snapshot[t]))
  <2>1. \/ Seen("option")' = Seen("option")
        \/ \E t \in Tasks :
             /\ Seen("option")' = Seen("option") \cup {t}
             /\ Liftable(t) => \E o \in c.seenOptions : SameOption(o, OptionOf(Snapshot[t]))
    BY OtherOptionsSeen
  <2>2. \A t \in Options : Liftable(t)
    BY DEF Options
  <2>. QED
    BY <2>1, <2>2
<1>3. \A t \in Seen("option")' \cap Options :
        \E o \in c.seenOptions : SameOption(o, OptionOf(Snapshot[t]))
  BY <1>2 DEF VocabularyCensus
<1>. DEFINE new == c'.optionsByKey
<1>4. ASSUME NEW key \in Keys, NEW i \in DOMAIN new[key]
      PROVE  /\ AsOption(key, new[key][i]) \in c'.seenOptions
             /\ \E t \in Seen("option")' \cap Options :
                  Snapshot[t].owner = key /\ new[key][i] = StoredOption(t)
             /\ \A j \in DOMAIN new[key] :
                  i # j => ~SameOption(AsOption(key, new[key][i]), AsOption(key, new[key][j]))
  BY <1>1, <1>2 DEF VocabularyCensus
<1>5. ASSUME NEW o \in c'.seenOptions
      PROVE  \E i \in DOMAIN new[o.owner] : o = AsOption(o.owner, new[o.owner][i])
  BY <1>1 DEF VocabularyCensus
<1>6. \A t \in Seen("option")' \cap Options :
        \E o \in c'.seenOptions : SameOption(o, OptionOf(Snapshot[t]))
  BY <1>1, <1>3
<1>. QED
  BY <1>4, <1>5, <1>6, Zenon DEF VocabularyCensus, new

LEMMA VocabularyCensusKept ==
  ASSUME TypeOK, TasksFollowTheirKind, VocabularyCensus, [Next]_vars
  PROVE  VocabularyCensus'
<1>1. ASSUME NEW t \in Tasks, ObserveNewOption(t)
      PROVE  VocabularyCensus'
  <2>. DEFINE option == OptionOf(Snapshot[t])
              owner == Snapshot[t].owner
              stored == StoredOption(t)
              old == c.optionsByKey
              new == c'.optionsByKey
              size == Len(old[owner])
  <2>1. /\ t \in Options /\ owner \in Keys /\ stored \in StoredOptions
        /\ \A seen \in c.seenOptions : ~SameOption(seen, option)
        /\ c'.seenOptions = c.seenOptions \cup {option}
        /\ new = [old EXCEPT ![owner] = Append(old[owner], stored)]
    BY <1>1, NewOptionJoins
  <2>2. Seen("option")' = Seen("option") \cup {t}
    BY <1>1, SeenOptionsMove DEF Observe, ObserveNewOption, ObserveDocument, Starts
  <2>3. old \in [Keys -> Seq(StoredOptions)] /\ c.seenOptions \subseteq SeenOptions
    BY DEF TypeOK, ComposerStructs
  <2>4. AsOption(owner, stored) = option /\ option.owner = owner
    BY DEF AsOption, StoredOption, OptionOf
  <2>. HIDE DEF option, owner, stored, old, new, size
  <2>5. /\ size \in Nat /\ DOMAIN old[owner] = 1..size /\ DOMAIN new[owner] = 1..(size + 1)
        /\ new[owner][size + 1] = stored
        /\ \A i \in 1..size : new[owner][i] = old[owner][i]
        /\ \A key \in Keys : key # owner => new[key] = old[key]
    BY <2>1, <2>3 DEF size
  <2>6. /\ \A i \in DOMAIN new[owner] : i = size + 1 \/ i \in DOMAIN old[owner]
        /\ DOMAIN old[owner] \subseteq DOMAIN new[owner] /\ size + 1 \in DOMAIN new[owner]
    BY <2>5
  <2>7. \A o \in c.seenOptions : o.owner \in Keys
    BY <2>3 DEF SeenOptions
  <2>8. /\ \A key \in Keys : \A i \in DOMAIN old[key] :
             /\ AsOption(key, old[key][i]) \in c.seenOptions
             /\ \E u \in Seen("option") \cap Options :
                  Snapshot[u].owner = key /\ old[key][i] = StoredOption(u)
             /\ \A j \in DOMAIN old[key] :
                  i # j => ~SameOption(AsOption(key, old[key][i]), AsOption(key, old[key][j]))
        /\ \A o \in c.seenOptions :
             \E i \in DOMAIN old[o.owner] : o = AsOption(o.owner, old[o.owner][i])
        /\ \A u \in Seen("option") \cap Options :
             \E o \in c.seenOptions : SameOption(o, OptionOf(Snapshot[u]))
    BY Zenon DEF VocabularyCensus, old
  <2>9. ASSUME NEW key \in Keys, NEW i \in DOMAIN new[key]
        PROVE  /\ AsOption(key, new[key][i]) \in c'.seenOptions
               /\ \E u \in Seen("option")' \cap Options :
                    Snapshot[u].owner = key /\ new[key][i] = StoredOption(u)
               /\ \A j \in DOMAIN new[key] :
                    i # j => ~SameOption(AsOption(key, new[key][i]), AsOption(key, new[key][j]))
    <3>1. CASE key # owner
      BY <2>1, <2>2, <2>5, <2>8, <3>1
    <3>2. CASE key = owner /\ i = size + 1
      <4>1. AsOption(key, new[key][i]) = option
        BY <2>4, <2>5, <3>2
      <4>2. \E u \in Seen("option")' \cap Options :
              Snapshot[u].owner = key /\ new[key][i] = StoredOption(u)
        BY <2>1, <2>2, <2>5, <3>2 DEF owner, stored
      <4>3. ASSUME NEW j \in DOMAIN new[key], i # j
            PROVE  ~SameOption(option, AsOption(key, new[key][j]))
        <5>1. j \in DOMAIN old[owner] /\ new[key][j] = old[owner][j]
          BY <2>5, <2>6, <3>2, <4>3
        <5>. QED
          BY <2>1, <2>8, <3>2, <5>1, SameOptionIsMutual
      <4>. QED
        BY <2>1, <4>1, <4>2, <4>3
    <3>3. CASE key = owner /\ i \in DOMAIN old[owner]
      <4>1. new[key][i] = old[owner][i]
        BY <2>5, <3>3
      <4>2. ASSUME NEW j \in DOMAIN new[key], i # j
            PROVE  ~SameOption(AsOption(key, new[key][i]), AsOption(key, new[key][j]))
        <5>1. CASE j = size + 1
          BY <2>1, <2>4, <2>5, <2>8, <3>3, <4>1, <5>1
        <5>2. CASE j \in DOMAIN old[owner]
          BY <2>1, <2>5, <2>8, <3>3, <4>1, <4>2, <5>2
        <5>. QED
          BY <2>6, <3>3, <5>1, <5>2
      <4>. QED
        BY <2>1, <2>2, <2>8, <3>3, <4>1, <4>2
    <3>. QED
      BY <2>6, <3>1, <3>2, <3>3
  <2>10. ASSUME NEW o \in c'.seenOptions
         PROVE  \E i \in DOMAIN new[o.owner] : o = AsOption(o.owner, new[o.owner][i])
    <3>1. CASE o = option
      BY <2>4, <2>5, <2>6, <3>1
    <3>2. CASE o \in c.seenOptions
      <4>1. PICK i \in DOMAIN old[o.owner] : o = AsOption(o.owner, old[o.owner][i])
        BY <2>8, <3>2
      <4>2. i \in DOMAIN new[o.owner] /\ new[o.owner][i] = old[o.owner][i]
        BY <2>5, <2>6, <2>7, <3>2
      <4>. QED
        BY <4>1, <4>2
    <3>. QED
      BY <2>1, <3>1, <3>2
  <2>11. \A u \in Seen("option")' \cap Options :
           \E o \in c'.seenOptions : SameOption(o, OptionOf(Snapshot[u]))
    BY <2>1, <2>2, <2>8 DEF SameOption, option
  <2>. QED
    BY <2>9, <2>10, <2>11, Zenon DEF VocabularyCensus, new
<1>. QED
  BY <1>1, VocabularyCensusStays

(* The comparator ranks as the picker does.                                *)
LEMMA BeforeIsRankedBefore ==
  ASSUME NEW a, NEW b, NEW x \in StoredOptions, NEW y \in StoredOptions, Before(x, y),
         a.order = x.order, a.created = x.created, a.id = x.id,
         b.order = y.order, b.created = y.created, b.id = y.id
  PROVE  RankedBefore(a, b)
<1>. DEFINE ra == Rank(a)
            rb == Rank(b)
<1>1. /\ ra[1] = (IF x.order = 0 THEN 1 ELSE 0) /\ rb[1] = (IF y.order = 0 THEN 1 ELSE 0)
      /\ ra[2] = x.order /\ rb[2] = y.order
      /\ ra[3] = -x.created /\ rb[3] = -y.created
      /\ ra[4] = x.id /\ rb[4] = y.id
  BY DEF Rank
<1>2. /\ x.order \in Nat /\ y.order \in Nat /\ x.created \in Nat /\ y.created \in Nat
      /\ x.id \in Nat /\ y.id \in Nat
  BY DEF StoredOptions
<1>. HIDE DEF ra, rb
<1>3. \/ ra[1] < rb[1]
      \/ ra[1] = rb[1] /\ ra[2] < rb[2]
      \/ ra[1] = rb[1] /\ ra[2] = rb[2] /\ ra[3] < rb[3]
      \/ ra[1] = rb[1] /\ ra[2] = rb[2] /\ ra[3] = rb[3] /\ ra[4] < rb[4]
  BY <1>1, <1>2 DEF Before
<1>4. \E n \in 1..4 : ra[n] < rb[n] /\ \A m \in 1..(n - 1) : ra[m] = rb[m]
  BY <1>3
<1>. QED
  BY <1>4 DEF RankedBefore, ra, rb

(* The vocabulary of a property holds each of these options of it once.    *)
Collects(key, stored, seen) ==
  /\ stored \in Seq(StoredOptions)
  /\ \A i \in DOMAIN stored :
       \E t \in seen \cap Options : Snapshot[t].owner = key /\ stored[i] = StoredOption(t)
  /\ \A i, j \in DOMAIN stored :
       i # j => ~SameOption(AsOption(key, stored[i]), AsOption(key, stored[j]))
  /\ \A t \in seen \cap Options : Snapshot[t].owner = key =>
       \E i \in DOMAIN stored : SameOption(AsOption(key, stored[i]), OptionOf(Snapshot[t]))

LEMMA VocabulariesCollect ==
  ASSUME TypeOK, VocabularyCensus, NEW key \in Keys
  PROVE  Collects(key, c.optionsByKey[key], Seen("option"))
<1>. DEFINE stored == c.optionsByKey[key]
<1>1. stored \in Seq(StoredOptions)
  BY DEF TypeOK, ComposerStructs
<1>2. ASSUME NEW t \in Seen("option") \cap Options, Snapshot[t].owner = key
      PROVE  \E i \in DOMAIN stored : SameOption(AsOption(key, stored[i]), OptionOf(Snapshot[t]))
  <2>1. PICK o \in c.seenOptions : SameOption(o, OptionOf(Snapshot[t]))
    BY DEF VocabularyCensus
  <2>2. o.owner = key
    BY <1>2, <2>1 DEF SameOption, OptionOf
  <2>3. PICK i \in DOMAIN c.optionsByKey[o.owner] :
          o = AsOption(o.owner, c.optionsByKey[o.owner][i])
    BY DEF VocabularyCensus
  <2>. QED
    BY <2>1, <2>2, <2>3
<1>3. /\ \A i \in DOMAIN stored :
           \E t \in Seen("option") \cap Options :
             Snapshot[t].owner = key /\ stored[i] = StoredOption(t)
      /\ \A i, j \in DOMAIN stored :
           i # j => ~SameOption(AsOption(key, stored[i]), AsOption(key, stored[j]))
  BY Zenon DEF VocabularyCensus
<1>. QED
  BY <1>1, <1>2, <1>3, Zenon DEF Collects

(* No two entries are tied: wherever an entry precedes another, it is the  *)
(* comparator that says so, not the order they arrived in.                 *)
Ranked(stored) ==
  \A i, j \in DOMAIN stored : Precedes(stored, i, j) => Before(stored[i], stored[j])

LEMMA CollectedRanked ==
  ASSUME PlainOptions, NEW key, NEW stored, NEW seen, Collects(key, stored, seen)
  PROVE  Ranked(stored)
<1>. SUFFICES ASSUME NEW i \in DOMAIN stored, NEW j \in DOMAIN stored, Precedes(stored, i, j)
              PROVE  Before(stored[i], stored[j])
  BY DEF Ranked
<1>. DEFINE a == stored[i]
            b == stored[j]
<1>1. PICK t \in seen \cap Options : Snapshot[t].owner = key /\ stored[i] = StoredOption(t)
  BY DEF Collects
<1>2. PICK u \in seen \cap Options : Snapshot[u].owner = key /\ stored[j] = StoredOption(u)
  BY DEF Collects
<1>3. i # j => ~SameOption(AsOption(key, stored[i]), AsOption(key, stored[j]))
  BY DEF Collects
<1>4. /\ a \in StoredOptions /\ b \in StoredOptions /\ a = StoredOption(t) /\ b = StoredOption(u)
  BY <1>1, <1>2, StoredForm
<1>5. i \in Nat /\ j \in Nat
  BY DEF Collects
<1>. HIDE DEF a, b
<1>6. Before(a, b) \/ (~Before(b, a) /\ i < j)
  BY DEF Precedes, a, b
<1>7. ASSUME ~Before(a, b), ~Before(b, a), i # j
      PROVE  FALSE
  <2>1. a.order = b.order /\ a.created = b.created /\ a.id = b.id
    BY <1>4, <1>7 DEF Before, StoredOptions
  <2>2. a.def = b.def
    BY <1>1, <1>2, <1>4, <2>1 DEF PlainOptions
  <2>3. SameOption(AsOption(key, a), AsOption(key, b))
    BY <2>1, <2>2 DEF SameOption, AsOption
  <2>. QED
    BY <1>3, <1>7, <2>3 DEF a, b
<1>. QED
  BY <1>5, <1>6, <1>7 DEF a, b

(* What an entry states: the acceptable options observed of its property,  *)
(* in the picker's order.                                                  *)
ReadsAsThePicker(key, format, options, seen) ==
  LET mine == {Snapshot[t] : t \in {u \in seen : Liftable(u) /\ Snapshot[u].owner = key}}
      acceptable == {s \in mine : Carryable(format, OptionOf(s).def)}
  IN  /\ ToSet(options) = {OptionOf(s).def : s \in acceptable}
      /\ \A m, n \in DOMAIN options : m < n =>
           \E a, b \in acceptable : /\ OptionOf(a).def = options[m]
                                    /\ OptionOf(b).def = options[n]
                                    /\ RankedBefore(a, b)

LEMMA LiftedReads ==
  ASSUME PlainOptions, TypeOK, VocabularyCensus, NEW key \in Keys, NEW format
  PROVE  ReadsAsThePicker(key, format, Lifted(format, c.optionsByKey[key]), Seen("option"))
<1>. DEFINE stored == c.optionsByKey[key]
            listed == PickerOrder(stored)
            p == [format |-> format, listed |-> listed]
            options == Lifted(format, stored)
            own == {u \in Seen("option") : Liftable(u) /\ Snapshot[u].owner = key}
            mine == {Snapshot[t] : t \in own}
            acceptable == {s \in mine : Carryable(format, OptionOf(s).def)}
            D == DOMAIN stored
<1>1. stored \in Seq(StoredOptions)
  BY DEF TypeOK, ComposerStructs
<1>2. p.format = format /\ p.listed = listed /\ \A n \in D : listed[n] = stored[Place(stored, n)]
  BY DEF PickerOrder
<1>3. Selected(p, D, options)
  BY <1>1, LiftedSelects
<1>4. PICK q : Selects(p, D, options, q)
  BY <1>3 DEF Selected
<1>5. Len(options) \in Nat /\ DOMAIN options = 1..Len(options)
  BY <1>3 DEF Selected
<1>6. own = {t \in Seen("option") \cap Options : Snapshot[t].owner = key}
  BY DEF Options, Seen
<1>. HIDE DEF p, listed, options, own
<1>. DEFINE place(n) == Place(stored, q[n])
<1>7. ASSUME NEW n \in DOMAIN options
      PROVE  /\ q[n] \in D /\ place(n) \in D
             /\ options[n] = stored[place(n)].def /\ Carryable(format, options[n])
  <2>1. q[n] \in D /\ options[n] = listed[q[n]].def /\ Carryable(format, options[n])
    BY <1>2, <1>4, <1>5 DEF Selects
  <2>. QED
    BY <1>1, <1>2, <2>1, PlacesAreTaken
<1>8. ASSUME NEW n \in DOMAIN options
      PROVE  \E t \in own : /\ stored[place(n)] = StoredOption(t)
                            /\ Snapshot[t] \in acceptable /\ OptionOf(Snapshot[t]).def = options[n]
  <2>1. PICK t \in Seen("option") \cap Options :
          Snapshot[t].owner = key /\ stored[place(n)] = StoredOption(t)
    BY <1>7 DEF VocabularyCensus
  <2>2. OptionOf(Snapshot[t]).def = options[n]
    BY <1>7, <2>1 DEF StoredOption
  <2>. QED
    BY <1>6, <1>7, <2>1, <2>2
<1>9. ASSUME NEW s \in acceptable
      PROVE  \E n \in DOMAIN options : options[n] = OptionOf(s).def
  <2>1. PICK t \in own : s = Snapshot[t]
    OBVIOUS
  <2>2. t \in Seen("option") \cap Options /\ s.owner = key /\ Carryable(format, OptionOf(s).def)
    BY <1>6, <2>1
  <2>3. PICK o \in c.seenOptions : SameOption(o, OptionOf(s))
    BY <2>1, <2>2 DEF VocabularyCensus
  <2>4. o.owner = key /\ o.id = s.id /\ (s.id = 0 => o.def = OptionOf(s).def)
    BY <2>2, <2>3, StoredForm DEF SameOption, OptionOf
  <2>5. PICK i \in D : o = AsOption(key, stored[i])
    BY <2>3, <2>4 DEF VocabularyCensus
  <2>6. PICK u \in Seen("option") \cap Options :
          Snapshot[u].owner = key /\ stored[i] = StoredOption(u)
    BY DEF VocabularyCensus
  <2>7. stored[i].def = OptionOf(s).def
    <3>1. stored[i].id = s.id /\ (s.id = 0 => stored[i].def = OptionOf(s).def)
      BY <2>4, <2>5 DEF AsOption
    <3>2. StoredOption(t).id = s.id /\ StoredOption(t).def = OptionOf(s).def
      BY <2>1 DEF StoredOption
    <3>. QED
      BY <2>1, <2>2, <2>6, <3>1, <3>2 DEF PlainOptions
  <2>8. PICK n \in D : Place(stored, n) = i
    BY <1>1, <2>5, PlacesAreTaken
  <2>9. Carryable(p.format, p.listed[n].def)
    BY <1>2, <2>2, <2>7, <2>8
  <2>10. PICK m \in 1..Len(options) : q[m] = n
    BY <1>4, <2>9 DEF Selects
  <2>. QED
    BY <1>5, <1>7, <2>7, <2>8, <2>10
<1>10. ToSet(options) = {OptionOf(s).def : s \in acceptable}
  <2>. HIDE DEF acceptable
  <2>. QED
    BY <1>8, <1>9 DEF ToSet
<1>11. Ranked(stored)
  BY VocabulariesCollect, CollectedRanked
<1>12. ASSUME NEW m \in DOMAIN options, NEW n \in DOMAIN options, m < n
       PROVE  \E a, b \in acceptable : /\ OptionOf(a).def = options[m]
                                       /\ OptionOf(b).def = options[n]
                                       /\ RankedBefore(a, b)
  <2>1. q[m] < q[n]
    BY <1>4, <1>5, <1>12 DEF Selects
  <2>2. Precedes(stored, place(m), place(n))
    BY <1>1, <1>7, <2>1, PlacesAreOrdered
  <2>3. Before(stored[place(m)], stored[place(n)])
    BY <1>7, <1>11, <2>2 DEF Ranked
  <2>4. PICK t \in own : /\ stored[place(m)] = StoredOption(t)
                         /\ Snapshot[t] \in acceptable /\ OptionOf(Snapshot[t]).def = options[m]
    BY <1>8
  <2>5. PICK u \in own : /\ stored[place(n)] = StoredOption(u)
                         /\ Snapshot[u] \in acceptable /\ OptionOf(Snapshot[u]).def = options[n]
    BY <1>8
  <2>6. StoredOption(t) \in StoredOptions /\ StoredOption(u) \in StoredOptions
    BY <1>6, StoredForm
  <2>7. RankedBefore(Snapshot[t], Snapshot[u])
    BY <2>3, <2>4, <2>5, <2>6, BeforeIsRankedBefore DEF StoredOption
  <2>. QED
    BY <2>4, <2>5, <2>7
<1>. QED
  BY <1>10, <1>12, Zenon DEF ReadsAsThePicker, options, own

(***************************************************************************)
(* Of plain options, every published vocabulary reads as the picker shows  *)
(* it, however and whenever its options arrived.                           *)
(***************************************************************************)
THEOREM VocabularyOrdered ==
  ASSUME PlainOptions
  PROVE  Spec => []VocabularyReadsAsThePicker
<1>1. Init => VocabularyReadsAsThePicker /\ VocabularyCensus
  <2>. SUFFICES ASSUME Init PROVE VocabularyReadsAsThePicker /\ VocabularyCensus
    OBVIOUS
  <2>1. c.optionsByKey = [key \in Keys |-> <<>>] /\ c.seenOptions = {}
    BY Zenon DEF Init, NewComposer
  <2>2. Seen("option") = {}
    BY DEF Init, Seen
  <2>. QED
    BY <2>1, <2>2, NothingPublishedAtFirst DEF VocabularyReadsAsThePicker, VocabularyCensus
<1>2. Ledger /\ VocabularyCensus /\ [Next]_vars => VocabularyCensus'
  BY VocabularyCensusKept DEF Ledger
<1>3. Ledger /\ VocabularyCensus /\ VocabularyReadsAsThePicker /\ [Next]_vars
        => VocabularyReadsAsThePicker'
  <2>. SUFFICES ASSUME Ledger, VocabularyCensus, VocabularyReadsAsThePicker, [Next]_vars,
                       Published'
                PROVE  VocabularyReadsAsThePicker'
    BY DEF VocabularyReadsAsThePicker
  <2>1. CASE Published
    <3>1. UNCHANGED vars
      BY <2>1, NothingFollowsFinish DEF Published
    <3>2. out' = out /\ Seen("option")' = Seen("option")
      BY <3>1 DEF vars, Seen
    <3>3. \A key \in DOMAIN out.dictionary \ out.stats.orphans :
            ReadsAsThePicker(key, out.dictionary[key].definition.format,
                             out.dictionary[key].options, Seen("option"))
      BY <2>1, Zenon DEF VocabularyReadsAsThePicker, ReadsAsThePicker
    <3>4. \A key \in DOMAIN out'.dictionary \ out'.stats.orphans :
            ReadsAsThePicker(key, out'.dictionary[key].definition.format,
                             out'.dictionary[key].options, Seen("option")')
      BY <3>2, <3>3
    <3>. QED
      BY <3>4, Zenon DEF VocabularyReadsAsThePicker, ReadsAsThePicker, Liftable
  <2>2. CASE ~Published
    <3>1. /\ out'.dictionary = Dictionary /\ out'.stats.orphans = Orphans /\ task' = task
      BY <2>2, PublishedFrom
    <3>2. DOMAIN Dictionary = UsedKeys /\ UsedKeys \subseteq Keys /\ TypeOK
      BY UsedKeysTyped DEF Dictionary, Ledger
    <3>3. \A key \in UsedKeys \ Orphans :
            /\ Dictionary[key].definition = DefinitionOf(key)
            /\ Dictionary[key].options =
                 Lifted(DefinitionOf(key).format, c.optionsByKey[key])
      BY DEF Dictionary, LiftedOptions
    <3>4. Seen("option")' = Seen("option")
      BY <3>1 DEF Seen
    <3>5. \A key \in UsedKeys \ Orphans :
            ReadsAsThePicker(key, Dictionary[key].definition.format,
                             Dictionary[key].options, Seen("option"))
      BY <3>2, <3>3, LiftedReads
    <3>6. \A key \in DOMAIN out'.dictionary \ out'.stats.orphans :
            ReadsAsThePicker(key, out'.dictionary[key].definition.format,
                             out'.dictionary[key].options, Seen("option")')
      BY <3>1, <3>2, <3>4, <3>5
    <3>. QED
      BY <3>6, Zenon DEF VocabularyReadsAsThePicker, ReadsAsThePicker, Liftable
  <2>. QED
    BY <2>1, <2>2
<1>. QED
  BY <1>1, <1>2, <1>3, LedgerStarts, LedgerKept, PTL DEF Spec

-----------------------------------------------------------------------------
(* What the sidebar, the counters and the flags of the struct say of who   *)
(* was observed.                                                           *)

StatedWidgets == {Snapshot[t].widgets : t \in Seen("widget")} \ {<<>>}

SidebarCensus ==
  /\ c.index.widgets \in IF StatedWidgets = {} THEN {<<>>} ELSE StatedWidgets
  /\ c.index.autoTargets # {}
       <=> \E t \in Seen("widget") : Snapshot[t].autoTargets # {}
  /\ c.index.autoDisabled <=> \E t \in Seen("widget") : Snapshot[t].autoDisabled

CounterCensus ==
  /\ c.written = 0 <=> Reported = {}
  /\ c.observedSpaceSettings <=> Seen("space") # {}
  /\ c.metadataOnly => MetadataOnly

(* Only the sidebar's own object moves the sidebar.                        *)
LEMMA OtherSidebarsStay ==
  ASSUME TypeOK, [Next]_vars, \A t \in Tasks : ~ObserveWidgets(t)
  PROVE  c'.index = c.index
<1>. c \in ComposerStructs
  BY DEF TypeOK
<1>1. CASE \A t \in Tasks : ~ObserveSpaceSettings(t)
  BY <1>1, OtherSourcesStay
<1>2. ASSUME NEW t \in Tasks, ObserveSpaceSettings(t)
      PROVE  c'.index = c.index
  BY <1>2, Zenon DEF ObserveSpaceSettings, Omits, ComposerStructs
<1>. QED
  BY <1>1, <1>2

LEMMA SidebarCensusKept ==
  ASSUME TypeOK, TasksFollowTheirKind, SidebarCensus, [Next]_vars
  PROVE  SidebarCensus'
<1>1. ASSUME NEW t \in Tasks, ObserveWidgets(t)
      PROVE  SidebarCensus'
  <2>1. c'.index = LiftWidgets(c.index, Snapshot[t])
    BY <1>1, Zenon DEF ObserveWidgets, Omits, TypeOK, ComposerStructs
  <2>2. /\ c'.index.widgets = IF Snapshot[t].widgets # <<>> THEN Snapshot[t].widgets
                                                          ELSE c.index.widgets
        /\ c'.index.autoTargets = IF Snapshot[t].autoTargets # {} THEN Snapshot[t].autoTargets
                                                                ELSE c.index.autoTargets
        /\ c'.index.autoDisabled <=> (c.index.autoDisabled \/ Snapshot[t].autoDisabled)
    <3>1. c'.index.widgets = IF Snapshot[t].widgets # <<>> THEN Snapshot[t].widgets
                                                          ELSE c.index.widgets
      BY <2>1 DEF LiftWidgets
    <3>2. c'.index.autoTargets = IF Snapshot[t].autoTargets # {} THEN Snapshot[t].autoTargets
                                                                ELSE c.index.autoTargets
      BY <2>1 DEF LiftWidgets
    <3>3. c'.index.autoDisabled = (c.index.autoDisabled \/ Snapshot[t].autoDisabled)
      BY <2>1 DEF LiftWidgets
    <3>. QED
      BY <3>1, <3>2, <3>3
  <2>3. Seen("widget")' = Seen("widget") \cup {t}
    BY <1>1 DEF ObserveWidgets, Starts, Omits, Seen, TypeOK
  <2>4. StatedWidgets' = (StatedWidgets \cup {Snapshot[t].widgets}) \ {<<>>}
    <3>1. {Snapshot[u].widgets : u \in Seen("widget")'}
            = {Snapshot[u].widgets : u \in Seen("widget")} \cup {Snapshot[t].widgets}
      BY <2>3
    <3>. QED
      BY <3>1 DEF StatedWidgets
  <2>5. c'.index.widgets \in IF StatedWidgets' = {} THEN {<<>>} ELSE StatedWidgets'
    <3>1. CASE Snapshot[t].widgets = <<>>
      <4>1. StatedWidgets' = StatedWidgets
        BY <2>4, <3>1 DEF StatedWidgets
      <4>. QED
        BY <2>2, <3>1, <4>1 DEF SidebarCensus
    <3>2. CASE Snapshot[t].widgets # <<>>
      BY <2>2, <2>4, <3>2
    <3>. QED
      BY <3>1, <3>2
  <2>6. c'.index.autoTargets # {}
          <=> \E u \in Seen("widget")' : Snapshot[u].autoTargets # {}
    BY <2>2, <2>3 DEF SidebarCensus
  <2>7. c'.index.autoDisabled <=> \E u \in Seen("widget")' : Snapshot[u].autoDisabled
    BY <2>2, <2>3 DEF SidebarCensus
  <2>. QED
    BY <2>5, <2>6, <2>7 DEF SidebarCensus
<1>2. CASE \A t \in Tasks : ~ObserveWidgets(t)
  <2>1. c'.index = c.index
    BY <1>2, OtherSidebarsStay
  <2>2. Seen("widget")' = Seen("widget")
    <3>1. ASSUME NEW t \in Tasks, Observe(t), ~ObserveDocument(t)
          PROVE  Snapshot[t].kind # "widget"
      BY <1>2, <3>1
         DEF Observe, ObserveSystem, ObserveSpaceSettings, ObserveUnliftableOption,
             ObserveRepeatedOption, ObserveNewOption, ObserveKeylessRelation,
             ObserveRelation, Starts
    <3>. QED
      BY <3>1, SeenMoves
  <2>. QED
    BY <2>1, <2>2 DEF SidebarCensus, StatedWidgets
<1>. QED
  BY <1>1, <1>2

(* The counters and the flags each move with one kind of step.             *)
LEMMA CountersMove ==
  ASSUME TypeOK, [Next]_vars
  PROVE  /\ (\A t \in Tasks : ~ObserveWritten(t)) => c'.written = c.written
         /\ (\A t \in Tasks : ~ObserveSpaceSettings(t))
              => c'.observedSpaceSettings = c.observedSpaceSettings
         /\ ~DeclareMetadataOnly => c'.metadataOnly = c.metadataOnly
<1>. c \in ComposerStructs
  BY DEF TypeOK
<1>1. ASSUME NEW t \in Tasks, Observe(t)
      PROVE  /\ c'.written = c.written /\ c'.metadataOnly = c.metadataOnly
             /\ ~ObserveSpaceSettings(t)
                  => c'.observedSpaceSettings = c.observedSpaceSettings
  <2>1. CASE ObserveSystem(t) \/ ObserveKeylessRelation(t)
    BY <2>1, Zenon DEF ObserveSystem, ObserveKeylessRelation, Omits, ComposerStructs
  <2>2. CASE ObserveSpaceSettings(t)
    BY <2>2, Zenon DEF ObserveSpaceSettings, Omits, ComposerStructs
  <2>3. CASE ObserveUnliftableOption(t) \/ ObserveRepeatedOption(t)
    BY <2>3, Zenon DEF ObserveUnliftableOption, ObserveRepeatedOption, Omits, ComposerStructs
  <2>4. CASE ObserveNewOption(t)
    BY <2>4, Zenon DEF ObserveNewOption, Omits, ComposerStructs
  <2>5. CASE ObserveWidgets(t)
    BY <2>5, Zenon DEF ObserveWidgets, Omits, ComposerStructs
  <2>6. CASE ObserveRelation(t)
    BY <2>6, Zenon DEF ObserveRelation, Omits, ComposerStructs
  <2>7. CASE ObserveDocument(t)
    BY <2>7, Zenon DEF ObserveDocument
  <2>. QED
    BY <1>1, <2>1, <2>2, <2>3, <2>4, <2>5, <2>6, <2>7 DEF Observe
<1>2. ASSUME NEW t \in Tasks, Emit(t)
      PROVE  /\ ~ObserveWritten(t) => c'.written = c.written
             /\ c'.metadataOnly = c.metadataOnly
             /\ c'.observedSpaceSettings = c.observedSpaceSettings
  <2>1. CASE ObserveWritten(t)
    BY <2>1, Zenon DEF ObserveWritten, RecordWritten, ComposerStructs
  <2>2. CASE ObserveFileBlob(t)
    BY <2>2, Zenon DEF ObserveFileBlob, ComposerStructs
  <2>3. WriteDocument(t) \/ FailDocument(t) \/ RefuseWritten(t) \/ StreamBlob(t)
          \/ FailStream(t) => UNCHANGED c
    BY Zenon DEF WriteDocument, FailDocument, RefuseWritten, StreamBlob, FailStream
  <2>. QED
    BY <1>2, <2>1, <2>2, <2>3 DEF Emit
<1>. DEFINE Stay == /\ c'.written = c.written
                    /\ c'.observedSpaceSettings = c.observedSpaceSettings
<1>3. CASE Finish
  <2>1. c' \in {c, [c EXCEPT !.used = UsedKeys],
                [c EXCEPT !.used = UsedKeys, !.typeRefs = TypeRefsAtFinish]}
    BY <1>3 DEF Finish, FinishConflicting, FinishEmpty, FinishRefused, FinishBundle
  <2>2. Stay /\ c'.metadataOnly = c.metadataOnly
    BY <2>1, Zenon DEF ComposerStructs
  <2>. QED
    BY <2>2
<1>4. CASE DeclareMetadataOnly
  <2>1. Stay
    BY <1>4, Zenon DEF DeclareMetadataOnly, ComposerStructs
  <2>. QED
    BY <1>4, <2>1
<1>5. CASE Cancel \/ Stop \/ UNCHANGED vars
  <2>1. c' = c
    BY <1>5, Zenon DEF Cancel, Stop, vars
  <2>. QED
    BY <2>1
<1>6. ASSUME NEW t \in Tasks, FailObject(t)
      PROVE  c' = c
  BY <1>6, FailedObject
<1>. QED
  BY <1>1, <1>2, <1>3, <1>4, <1>5, <1>6 DEF Next

LEMMA CounterCensusKept ==
  ASSUME TypeOK, TasksFollowTheirKind, CounterCensus, [Next]_vars
  PROVE  CounterCensus'
<1>1. c'.written = 0 <=> Reported' = {}
  <2>1. ASSUME NEW t \in Tasks, ObserveWritten(t)
        PROVE  c'.written # 0 /\ Reported' # {}
    <3>1. Emit(t)
      BY <2>1 DEF Emit
    <3>2. Reported' = Reported \cup {t}
      BY <2>1, <3>1, EmittedSets
    <3>3. c'.written = c.written + 1
      BY <2>1, Zenon DEF ObserveWritten, RecordWritten, TypeOK, ComposerStructs
    <3>4. c.written \in Nat
      BY DEF TypeOK, ComposerStructs
    <3>. QED
      BY <3>2, <3>3, <3>4
  <2>2. CASE \A t \in Tasks : ~ObserveWritten(t)
    <3>1. c'.written = c.written
      BY <2>2, CountersMove
    <3>2. Reported' = Reported
      <4>1. ASSUME NEW t \in Tasks, Observe(t), ~ObserveDocument(t)
            PROVE  Reported' = Reported
        BY <4>1, LiftedSets
      <4>2. ASSUME NEW t \in Tasks, ObserveDocument(t) \/ Emit(t)
            PROVE  Reported' = Reported
        BY <2>2, <4>2, EmittedSets
      <4>3. ASSUME DeclareMetadataOnly \/ Finish \/ Cancel \/ Stop \/ UNCHANGED vars
            PROVE  Reported' = Reported
        BY <4>3, RunFields DEF Reported
      <4>4. ASSUME NEW t \in Tasks, FailObject(t)
            PROVE  Reported' = Reported
        BY <4>4, FailedObject
      <4>. QED
        BY <4>1, <4>2, <4>3, <4>4 DEF Next
    <3>. QED
      BY <3>1, <3>2 DEF CounterCensus
  <2>. QED
    BY <2>1, <2>2
<1>2. c'.observedSpaceSettings <=> Seen("space")' # {}
  <2>1. ASSUME NEW t \in Tasks, ObserveSpaceSettings(t)
        PROVE  c'.observedSpaceSettings /\ Seen("space")' # {}
    <3>1. c'.observedSpaceSettings
      BY <2>1, Zenon DEF ObserveSpaceSettings, Omits, TypeOK, ComposerStructs
    <3>2. t \in Seen("space")'
      BY <2>1 DEF ObserveSpaceSettings, Starts, Omits, Seen, TypeOK
    <3>. QED
      BY <3>1, <3>2
  <2>2. CASE \A t \in Tasks : ~ObserveSpaceSettings(t)
    <3>1. c'.observedSpaceSettings = c.observedSpaceSettings
      BY <2>2, CountersMove
    <3>2. Seen("space")' = Seen("space")
      <4>1. ASSUME NEW t \in Tasks, Observe(t), ~ObserveDocument(t)
            PROVE  Snapshot[t].kind # "space"
        BY <2>2, <4>1
           DEF Observe, ObserveSystem, ObserveWidgets, ObserveUnliftableOption,
               ObserveRepeatedOption, ObserveNewOption, ObserveKeylessRelation,
               ObserveRelation, Starts
      <4>. QED
        BY <4>1, SeenMoves
    <3>. QED
      BY <3>1, <3>2 DEF CounterCensus
  <2>. QED
    BY <2>1, <2>2
<1>3. c'.metadataOnly => MetadataOnly
  BY CountersMove DEF CounterCensus, DeclareMetadataOnly
<1>. QED
  BY <1>1, <1>2, <1>3 DEF CounterCensus

-----------------------------------------------------------------------------
(* What is left to the value: the entries, the sidebar's targets and the   *)
(* labels are those of objects observed.                                   *)

EntriesRead ==
  \A key \in Keys : c.entries[key] # NoDefinition =>
    \E t \in Seen("relation") : /\ Snapshot[t].key = key
                                /\ c.entries[key] = StoredDefinition(Snapshot[t])

TargetsRead ==
  c.index.autoTargets # {} =>
    \E t \in Seen("widget") : c.index.autoTargets = Snapshot[t].autoTargets

LabelsRead == c.widgetViewLabels = UNION {ViewLabels(Snapshot[t]) : t \in Reported}

LEMMA EntriesReadKept ==
  ASSUME TypeOK, TasksFollowTheirKind, EntriesRead, [Next]_vars
  PROVE  EntriesRead'
<1>1. ASSUME NEW t \in Tasks, ObserveRelation(t)
      PROVE  EntriesRead'
  <2>1. c'.entries = [c.entries EXCEPT ![Snapshot[t].key] = StoredDefinition(Snapshot[t])]
    BY <1>1, Zenon DEF ObserveRelation, Omits, TypeOK, ComposerStructs
  <2>2. DOMAIN c.entries = Keys
    BY DEF TypeOK, ComposerStructs
  <2>3. Seen("relation")' = Seen("relation") \cup {t}
    BY <1>1, LiftedSets DEF Observe, ObserveRelation, ObserveDocument, Starts
  <2>. QED
    BY <2>1, <2>2, <2>3 DEF EntriesRead
<1>2. ASSUME NEW t \in Tasks, Observe(t), ~ObserveDocument(t), ~ObserveRelation(t)
      PROVE  EntriesRead'
  BY <1>2, LiftedFields, LiftedSets DEF EntriesRead
<1>3. ASSUME NEW t \in Tasks, ObserveDocument(t) \/ Emit(t)
      PROVE  EntriesRead'
  BY <1>3, EmittedFields, EmittedSets DEF EntriesRead
<1>4. ASSUME DeclareMetadataOnly \/ Finish \/ Cancel \/ Stop \/ UNCHANGED vars
      PROVE  EntriesRead'
  BY <1>4, RunFields DEF EntriesRead, Seen
<1>5. ASSUME NEW t \in Tasks, FailObject(t)
      PROVE  EntriesRead'
  BY <1>5, FailedObject DEF EntriesRead
<1>. QED
  BY <1>1, <1>2, <1>3, <1>4, <1>5 DEF Next

LEMMA TargetsReadKept ==
  ASSUME TypeOK, TasksFollowTheirKind, TargetsRead, [Next]_vars
  PROVE  TargetsRead'
<1>1. Seen("widget") \subseteq Seen("widget")'
  BY SeenMoves
<1>2. ASSUME NEW t \in Tasks, ObserveWidgets(t)
      PROVE  TargetsRead'
  <2>1. c'.index = LiftWidgets(c.index, Snapshot[t])
    BY <1>2, Zenon DEF ObserveWidgets, Omits, TypeOK, ComposerStructs
  <2>2. c'.index.autoTargets = IF Snapshot[t].autoTargets # {} THEN Snapshot[t].autoTargets
                                                               ELSE c.index.autoTargets
    BY <2>1 DEF LiftWidgets
  <2>3. t \in Seen("widget")'
    BY <1>2 DEF ObserveWidgets, Starts, Omits, Seen, TypeOK
  <2>. QED
    BY <1>1, <2>2, <2>3 DEF TargetsRead
<1>3. CASE \A t \in Tasks : ~ObserveWidgets(t)
  BY <1>1, <1>3, OtherSidebarsStay DEF TargetsRead
<1>. QED
  BY <1>2, <1>3

LEMMA LabelsReadKept ==
  ASSUME TypeOK, TasksFollowTheirKind, LabelsRead, [Next]_vars
  PROVE  LabelsRead'
<1>1. ASSUME NEW t \in Tasks, Observe(t), ~ObserveDocument(t)
      PROVE  LabelsRead'
  BY <1>1, LiftedFields, LiftedSets DEF LabelsRead
<1>2. ASSUME NEW t \in Tasks, ObserveWritten(t)
      PROVE  LabelsRead'
  <2>. DEFINE s == Snapshot[t]
              own == ViewLabels(s)
              old == c.widgetViewLabels
  <2>1. c'.widgetViewLabels = IF own = {} THEN old
                              ELSE {l \in old : l.id \notin OwnIds(s)} \cup own
    BY <1>2, Zenon DEF ObserveWritten, RecordWritten, TypeOK, ComposerStructs
  <2>2. Reported' = Reported \cup {t}
    BY <1>2, EmittedSets DEF Emit
  <2>3. ASSUME own # {}, NEW u \in Reported, NEW l \in ViewLabels(Snapshot[u]), l.id \in OwnIds(s)
        PROVE  l \in own
    <3>1. CompactBlockLabels
      BY <2>3 DEF ViewLabels
    <3>2. /\ own = LabelsOf(OwnIds(s), s.labels)
          /\ ViewLabels(Snapshot[u]) = LabelsOf(OwnIds(Snapshot[u]), Snapshot[u].labels)
      BY <3>1 DEF ViewLabels, LabelsOf
    <3>3. s.labels # {} /\ Snapshot[u].labels # {} /\ l.id \in OwnIds(Snapshot[u])
      BY <2>3, <3>2, LabelsStandUnderTheirIds DEF LabelsOf
    <3>4. t \in Labelled /\ u \in Labelled
      BY <1>2, <3>3 DEF ObserveWritten, TasksFollowTheirKind, Reported, Labelled
    <3>5. OwnIds(Snapshot[u]) = OwnIds(s) /\ Snapshot[u].labels = s.labels
      BY <2>3, <3>3, <3>4, LabelsAssumption
    <3>. QED
      BY <2>3, <3>2, <3>5
  <2>4. old = UNION {ViewLabels(Snapshot[u]) : u \in Reported}
    BY DEF LabelsRead
  <2>5. c'.widgetViewLabels = old \cup own
    <3>. HIDE DEF own, old
    <3>1. \A l \in old : own # {} /\ l.id \in OwnIds(s) => l \in own
      BY <2>3, <2>4
    <3>. QED
      BY <2>1, <3>1
  <2>. QED
    BY <2>2, <2>4, <2>5 DEF LabelsRead
<1>3. ASSUME NEW t \in Tasks, ObserveDocument(t) \/ Emit(t), ~ObserveWritten(t)
      PROVE  LabelsRead'
  BY <1>3, EmittedFields, EmittedSets DEF LabelsRead
<1>4. ASSUME DeclareMetadataOnly \/ Finish \/ Cancel \/ Stop \/ UNCHANGED vars
      PROVE  LabelsRead'
  BY <1>4, RunFields DEF LabelsRead, Reported
<1>5. ASSUME NEW t \in Tasks, FailObject(t)
      PROVE  LabelsRead'
  BY <1>5, FailedObject DEF LabelsRead
<1>. QED
  BY <1>1, <1>2, <1>3, <1>4, <1>5 DEF Next, Observe, Emit

-----------------------------------------------------------------------------
(* A vocabulary without ties reads in one order, however it arrived.       *)

LEMMA RankedApart ==
  ASSUME NEW stored \in Seq(StoredOptions), Ranked(stored)
  PROVE  /\ \A i, j \in DOMAIN stored : stored[i] = stored[j] => i = j
         /\ \A i, j \in DOMAIN stored :
              Precedes(stored, i, j) <=> Before(stored[i], stored[j])
<1>1. \A i, j \in DOMAIN stored :
        i # j => Before(stored[i], stored[j]) \/ Before(stored[j], stored[i])
  BY PrecedesOrders DEF Ranked
<1>2. \A i \in DOMAIN stored : stored[i] \in StoredOptions
  OBVIOUS
<1>3. \A i, j \in DOMAIN stored : stored[i] = stored[j] => i = j
  BY <1>1, <1>2, BeforeOrders
<1>4. \A i, j \in DOMAIN stored : Precedes(stored, i, j) <=> Before(stored[i], stored[j])
  BY DEF Ranked, Precedes
<1>. QED
  BY <1>3, <1>4

LEMMA OneOrder ==
  ASSUME NEW a \in Seq(StoredOptions), NEW b \in Seq(StoredOptions), Ranked(a), Ranked(b),
         \A i \in DOMAIN a : \E j \in DOMAIN b : a[i] = b[j],
         \A j \in DOMAIN b : \E i \in DOMAIN a : a[i] = b[j]
  PROVE  PickerOrder(a) = PickerOrder(b)
<1>. DEFINE A == DOMAIN a
            B == DOMAIN b
            h == [i \in A |-> CHOOSE j \in B : a[i] = b[j]]
<1>1. /\ \A i, j \in A : a[i] = a[j] => i = j
      /\ \A i, j \in A : Precedes(a, i, j) <=> Before(a[i], a[j])
      /\ \A i, j \in B : b[i] = b[j] => i = j
      /\ \A i, j \in B : Precedes(b, i, j) <=> Before(b[i], b[j])
  BY RankedApart
<1>2. \A i \in A : h[i] \in B /\ a[i] = b[h[i]]
  OBVIOUS
<1>3. \A j \in B : \E i \in A : h[i] = j
  BY <1>1, <1>2
<1>4. A = 1..Len(a) /\ B = 1..Len(b) /\ Len(a) \in Nat /\ Len(b) \in Nat
  OBVIOUS
<1>5. DOMAIN h = A
  OBVIOUS
<1>. HIDE DEF h
<1>6. ASSUME NEW S \in SUBSET A, NEW T, T = {h[i] : i \in S}
      PROVE  Cardinality(T) = Cardinality(S)
  <2>. DEFINE g == [i \in S |-> h[i]]
  <2>1. g \in Bijection(S, T)
    <3>1. \A i \in S : i \in A
      OBVIOUS
    <3>2. g \in [S -> T] /\ \A i, j \in S : g[i] = g[j] => i = j
      BY <1>1, <1>2, <1>6, <3>1
    <3>3. \A t \in T : \E i \in S : g[i] = t
      BY <1>6
    <3>. HIDE DEF g
    <3>. QED
      BY <3>2, <3>3 DEF Bijection, Injection, Surjection, IsInjective
  <2>2. IsFiniteSet(S)
    <3>1. IsFiniteSet(1..Len(a))
      BY <1>4, FS_Interval
    <3>. QED
      BY <1>4, <3>1, FS_Subset
  <2>. HIDE DEF g
  <2>. QED
    BY <2>1, <2>2, FS_Bijection DEF ExistsBijection
<1>7. Len(a) = Len(b)
  <2>1. B = {h[i] : i \in A}
    BY <1>2, <1>3
  <2>2. Cardinality(B) = Cardinality(A)
    BY <1>6, <2>1
  <2>3. ASSUME NEW n \in Nat PROVE Cardinality(1..n) = n
    <3>1. Cardinality(1..n) = IF 1 > n THEN 0 ELSE n - 1 + 1
      BY FS_Interval
    <3>. QED
      BY <3>1
  <2>. QED
    BY <1>4, <2>2, <2>3
<1>8. ASSUME NEW i \in A
      PROVE  Cardinality(Earlier(b, h[i])) = Cardinality(Earlier(a, i))
  <2>1. Earlier(a, i) \in SUBSET A
    BY DEF Earlier
  <2>2. ASSUME NEW k \in A
        PROVE  k \in Earlier(a, i) <=> h[k] \in Earlier(b, h[i])
    <3>1. a[k] = b[h[k]] /\ a[i] = b[h[i]] /\ h[k] \in B /\ h[i] \in B
      BY <1>2
    <3>2. Precedes(a, k, i) <=> Precedes(b, h[k], h[i])
      BY <1>1, <3>1
    <3>. QED
      BY <3>1, <3>2 DEF Earlier
  <2>3. \A j \in Earlier(b, h[i]) : \E k \in A : h[k] = j
    BY <1>3 DEF Earlier
  <2>4. Earlier(b, h[i]) = {h[k] : k \in Earlier(a, i)}
    BY <2>1, <2>2, <2>3
  <2>. QED
    BY <1>6, <2>1, <2>4
<1>9. ASSUME NEW n \in A
      PROVE  n \in B /\ b[Place(b, n)] = a[Place(a, n)]
  <2>1. n \in B
    BY <1>4, <1>7
  <2>2. Place(a, n) \in A /\ Cardinality(Earlier(a, Place(a, n))) = n - 1
    BY PlacesAreTaken
  <2>3. PICK m \in B : /\ m - 1 = Cardinality(Earlier(b, h[Place(a, n)]))
                       /\ Place(b, m) = h[Place(a, n)]
    BY <1>2, <2>2, PlacesAreTaken
  <2>4. m = n
    BY <1>4, <1>8, <2>1, <2>2, <2>3
  <2>. QED
    BY <1>2, <2>1, <2>2, <2>3, <2>4
<1>. QED
  BY <1>4, <1>7, <1>9 DEF PickerOrder

(* The options of an agreeing space come to one vocabulary, whichever      *)
(* observation of each option was the first.                               *)
LEMMA OneVocabulary ==
  ASSUME AgreeingSpace, NEW key, NEW seen, NEW a, NEW b,
         Collects(key, a, seen), Collects(key, b, seen)
  PROVE  PickerOrder(a) = PickerOrder(b)
<1>1. ASSUME NEW x, NEW y, Collects(key, x, seen), Collects(key, y, seen), NEW i \in DOMAIN x
      PROVE  \E j \in DOMAIN y : x[i] = y[j]
  <2>1. PICK t \in seen \cap Options : Snapshot[t].owner = key /\ x[i] = StoredOption(t)
    BY <1>1 DEF Collects
  <2>2. PICK j \in DOMAIN y : SameOption(AsOption(key, y[j]), OptionOf(Snapshot[t]))
    BY <1>1, <2>1 DEF Collects
  <2>3. PICK u \in seen \cap Options : Snapshot[u].owner = key /\ y[j] = StoredOption(u)
    BY <1>1 DEF Collects
  <2>4. SameOption(OptionOf(Snapshot[u]), OptionOf(Snapshot[t]))
    <3>1. AsOption(key, StoredOption(u)) = OptionOf(Snapshot[u])
      BY <2>3 DEF AsOption, StoredOption, OptionOf
    <3>. QED
      BY <2>2, <2>3, <3>1
  <2>5. StoredOption(u) = StoredOption(t)
    BY <2>4 DEF AgreeingSpace
  <2>. QED
    BY <2>1, <2>3, <2>5
<1>2. Ranked(a) /\ Ranked(b)
  BY CollectedRanked DEF AgreeingSpace
<1>3. a \in Seq(StoredOptions) /\ b \in Seq(StoredOptions)
  BY DEF Collects
<1>4. /\ \A i \in DOMAIN a : \E j \in DOMAIN b : a[i] = b[j]
      /\ \A j \in DOMAIN b : \E i \in DOMAIN a : a[i] = b[j]
  BY <1>1
<1>. QED
  BY <1>2, <1>3, <1>4, OneOrder

-----------------------------------------------------------------------------
(* What Finish returned is what the struct it leaves behind says: reading  *)
(* the struct again, with the census Finish completed, changes nothing.    *)

DrawnUses ==
  UNION {UsesOf(Dictionary[key].definition.targets, PropertiesFile) : key \in UsedKeys}

ReturnedStatus ==
  IF ConflictingSettings # {} THEN "refused"
  ELSE IF ~HasSemanticState THEN "empty"
  ELSE IF UnwritableDictionary \/ ContradictsMetadataOnly \/ UnreadableIndex
       THEN "refused"
  ELSE "bundle"

Returned ==
  out.status # "none" =>
    /\ c.metadataOnly <=> MetadataOnly
    /\ UsedKeys = (UNION {Snapshot[t].used : t \in Reported})
                    \cup WidgetProperties(c.index.widgets)
    /\ out.status = ReturnedStatus
    /\ out.status = "bundle" =>
         /\ out.dictionary = Dictionary /\ out.index = Index
         /\ TypeRefsAtFinish = (UNION {TypeUses(Snapshot[t]) : t \in Reported}) \cup DrawnUses

(* The census completed, and nothing else moved.                           *)
Completed ==
  /\ c'.used \in {c.used, UsedKeys} /\ c'.typeRefs \in {c.typeRefs, TypeRefsAtFinish}
  /\ c'.entries = c.entries /\ c'.optionsByKey = c.optionsByKey
  /\ c'.declared = c.declared /\ c'.documentIds = c.documentIds
  /\ c'.widgetViewLabels = c.widgetViewLabels /\ c'.written = c.written
  /\ c'.observedSpaceSettings = c.observedSpaceSettings
  /\ c'.spaceSettings = c.spaceSettings /\ c'.index = c.index
  /\ c'.filePaths = c.filePaths /\ c'.metadataOnly = c.metadataOnly

LEMMA FinishCompletes ==
  ASSUME TypeOK, Finish \/ UNCHANGED vars
  PROVE  Completed
<1>1. \/ c' = c \/ c' = [c EXCEPT !.used = UsedKeys]
      \/ c' = [c EXCEPT !.used = UsedKeys, !.typeRefs = TypeRefsAtFinish]
  BY DEF Finish, FinishConflicting, FinishEmpty, FinishRefused, FinishBundle, vars
<1>2. c \in ComposerStructs
  BY DEF TypeOK
<1>3. CASE c' = c
  BY <1>3 DEF Completed
<1>4. CASE c' = [c EXCEPT !.used = UsedKeys]
  BY <1>2, <1>4, Zenon DEF ComposerStructs, Completed
<1>5. CASE c' = [c EXCEPT !.used = UsedKeys, !.typeRefs = TypeRefsAtFinish]
  BY <1>2, <1>5, Zenon DEF ComposerStructs, Completed
<1>. QED
  BY <1>1, <1>3, <1>4, <1>5

LEMMA ReadAgain ==
  ASSUME Completed
  PROVE  /\ UsedKeys' = UsedKeys /\ Dictionary' = Dictionary /\ Index' = Index
         /\ DrawnUses' = DrawnUses /\ TypeRefsAtFinish' = TypeRefsAtFinish
         /\ ReturnedStatus' = ReturnedStatus
<1>1. /\ c'.used \in {c.used, UsedKeys} /\ c'.typeRefs \in {c.typeRefs, TypeRefsAtFinish}
      /\ c'.entries = c.entries /\ c'.optionsByKey = c.optionsByKey
      /\ c'.declared = c.declared /\ c'.documentIds = c.documentIds
      /\ c'.widgetViewLabels = c.widgetViewLabels /\ c'.written = c.written
      /\ c'.observedSpaceSettings = c.observedSpaceSettings
      /\ c'.spaceSettings = c.spaceSettings /\ c'.index = c.index
      /\ c'.filePaths = c.filePaths /\ c'.metadataOnly = c.metadataOnly
  BY DEF Completed
<1>2. UsedKeys' = UsedKeys
  BY <1>1 DEF UsedKeys
<1>3. \A key : DefinitionOf(key)' = DefinitionOf(key)
  BY <1>1 DEF DefinitionOf, ResolvedDefinition, BundledDefinition, DeclaredDefinition, Undisputed
<1>4. Orphans' = Orphans
  BY <1>2, <1>3 DEF Orphans
<1>5. \A key : LiftedOptions(key)' = LiftedOptions(key)
  BY <1>1, <1>2, <1>3, <1>4 DEF LiftedOptions
<1>6. Dictionary' = Dictionary
  BY <1>2, <1>3, <1>4, <1>5, Zenon DEF Dictionary
<1>7. DrawnUses' = DrawnUses
  BY <1>2, <1>6, Zenon DEF DrawnUses
<1>8. TypeRefsAtFinish' = TypeRefsAtFinish
  <2>1. TypeRefsAtFinish = c.typeRefs \cup DrawnUses
    BY FinalUsesAsUses DEF DrawnUses
  <2>2. TypeRefsAtFinish' = c'.typeRefs \cup DrawnUses'
    BY Zenon DEF TypeRefsAtFinish, DrawnUses, UsesOf
  <2>. QED
    BY <1>1, <1>7, <2>1, <2>2
<1>9. KeptIcon' = KeptIcon
  BY <1>1 DEF KeptIcon, DroppedDeletedIconRef
<1>10. UnresolvedTargets' = UnresolvedTargets
  BY <1>1, <1>9, Zenon DEF UnresolvedTargets, IndexReferences, ObjectReferences
<1>11. UnresolvedTypes' = UnresolvedTypes
  BY <1>1, <1>8, Zenon DEF UnresolvedTypes
<1>12. Unresolved' = Unresolved
  BY <1>4, <1>10, <1>11, Zenon DEF Unresolved, ClassifyUnresolvedTarget
<1>13. PublishedWidgets' = PublishedWidgets
  <2>1. \A widget : LabelledWidget(widget)' = LabelledWidget(widget)
    BY <1>1 DEF LabelledWidget
  <2>. QED
    BY <1>1, <2>1 DEF PublishedWidgets
<1>14. ManifestFiles' = ManifestFiles
  BY <1>1, Zenon DEF ManifestFiles
<1>15. Index' = Index
  BY <1>1, <1>9, <1>12, <1>13, <1>14, Zenon DEF Index, TheOne
<1>16. ReturnedStatus' = ReturnedStatus
  <2>1. ConflictingSettings' = ConflictingSettings /\ HasSemanticState' = HasSemanticState
    BY <1>1, <1>2, Zenon DEF ConflictingSettings, HasSemanticState, NewComposer
  <2>2. /\ ContradictsMetadataOnly' = ContradictsMetadataOnly
        /\ UnreadableIndex' = UnreadableIndex
    BY <1>1, Zenon DEF ContradictsMetadataOnly, UnreadableIndex
  <2>3. UnwritableDictionary' = UnwritableDictionary
    BY <1>2, <1>3, <1>4, Zenon DEF UnwritableDictionary, Unstatable
  <2>. QED
    BY <2>1, <2>2, <2>3, Zenon DEF ReturnedStatus
<1>. QED
  BY <1>2, <1>6, <1>7, <1>8, <1>15, <1>16

LEMMA ReturnedKept ==
  ASSUME Ledger, CounterCensus, Returned, [Next]_vars
  PROVE  Returned'
<1>. SUFFICES ASSUME out'.status # "none"
              PROVE  Returned'
  BY DEF Returned
<1>1. Finish \/ UNCHANGED vars
  BY OnlyFinishReturns, NothingFollowsFinish
<1>2. /\ Completed /\ UsedKeys' = UsedKeys /\ Dictionary' = Dictionary /\ Index' = Index
      /\ DrawnUses' = DrawnUses /\ TypeRefsAtFinish' = TypeRefsAtFinish
      /\ ReturnedStatus' = ReturnedStatus
  BY <1>1, FinishCompletes, ReadAgain DEF Ledger
<1>3. task' = task
  BY <1>1, FinishShape DEF Ledger, vars
<1>4. Reported' = Reported
  BY <1>3 DEF Reported
<1>. DEFINE uses == UNION {TypeUses(Snapshot[t]) : t \in Reported}
            used == UNION {Snapshot[t].used : t \in Reported}
<1>5. /\ uses' = uses /\ used' = used
      /\ WidgetProperties(c.index.widgets)' = WidgetProperties(c.index.widgets)
  BY <1>2, <1>4 DEF Completed
<1>. HIDE DEF uses, used
<1>6. /\ c.metadataOnly <=> MetadataOnly
      /\ UsedKeys = used \cup WidgetProperties(c.index.widgets)
      /\ out'.status = ReturnedStatus
      /\ out'.status = "bundle" =>
           /\ out'.dictionary = Dictionary /\ out'.index = Index
           /\ TypeRefsAtFinish = uses \cup DrawnUses
  <2>1. CASE UNCHANGED vars
    <3>1. out' = out
      BY <2>1 DEF vars
    <3>. QED
      BY <3>1, Zenon DEF Returned, used, uses
  <2>2. CASE Finish /\ out.status = "none"
    <3>1. c.metadataOnly <=> MetadataOnly
      BY <2>2 DEF Finish, FinishConflicting, FinishEmpty, FinishRefused, FinishBundle,
                  Finishes, CounterCensus
    <3>2. c.used = used /\ c.typeRefs = uses
      BY <2>2 DEF Ledger, AggregatesAreTheObservations, DocumentCensus, used, uses
    <3>3. UsedKeys = used \cup WidgetProperties(c.index.widgets)
      BY <3>2 DEF UsedKeys
    <3>4. TypeRefsAtFinish = uses \cup DrawnUses
      BY <3>2, FinalUsesAsUses DEF DrawnUses
    <3>5. CASE FinishConflicting
      BY <3>1, <3>3, <3>5, Zenon DEF FinishConflicting, Finishes, ReturnedStatus
    <3>6. CASE FinishEmpty
      BY <3>1, <3>3, <3>6, Zenon DEF FinishEmpty, Finishes, ReturnedStatus
    <3>7. CASE FinishRefused
      <4>1. /\ ConflictingSettings = {} /\ HasSemanticState
            /\ UnwritableDictionary \/ ContradictsMetadataOnly \/ UnreadableIndex
            /\ \/ Finishes([status |-> "refused", why |-> "dictionary"])
               \/ Finishes([status |-> "refused", why |-> "metadata only"])
               \/ Finishes([status |-> "refused", why |-> "index"])
        BY <3>7 DEF FinishRefused
      <4>2. \E why : out' = [status |-> "refused", why |-> why]
        BY <4>1, Zenon DEF Finishes
      <4>3. out'.status = "refused"
        BY <4>2
      <4>. QED
        BY <3>1, <3>3, <4>1, <4>3 DEF ReturnedStatus
    <3>8. CASE FinishBundle
      BY <3>1, <3>3, <3>4, <3>8, Zenon DEF FinishBundle, Finishes, ReturnedStatus
    <3>. QED
      BY <2>2, <3>5, <3>6, <3>7, <3>8 DEF Finish
  <2>. QED
    BY <1>1, <2>1, <2>2, NothingFollowsFinish
<1>7. /\ (c'.metadataOnly <=> MetadataOnly)
      /\ UsedKeys' = used' \cup WidgetProperties(c.index.widgets)'
      /\ out'.status = ReturnedStatus'
      /\ out'.status = "bundle" =>
           /\ out'.dictionary = Dictionary' /\ out'.index = Index'
           /\ TypeRefsAtFinish' = uses' \cup DrawnUses'
  <2>1. c'.metadataOnly = c.metadataOnly
    BY <1>2 DEF Completed
  <2>. QED
    BY <1>2, <1>5, <1>6, <2>1
<1>. QED
  BY <1>7, Zenon DEF Returned, used, uses

(* Everything the struct and the return say of the objects observed.       *)
Telling ==
  /\ Ledger /\ VocabularyCensus /\ SidebarCensus /\ CounterCensus
  /\ EntriesRead /\ TargetsRead /\ LabelsRead /\ Returned

LEMMA TellingStarts == Init => Telling
<1>. SUFFICES ASSUME Init PROVE Telling
  OBVIOUS
<1>1. Ledger
  BY LedgerStarts
<1>2. /\ c.written = 0 /\ c.observedSpaceSettings = FALSE /\ c.metadataOnly = FALSE
      /\ c.index = [widgets |-> <<>>, autoTargets |-> {}, autoDisabled |-> FALSE]
      /\ c.optionsByKey = [key \in Keys |-> <<>>] /\ c.seenOptions = {}
      /\ c.entries = [key \in Keys |-> NoDefinition] /\ c.widgetViewLabels = {}
  BY Zenon DEF Init, NewComposer
<1>3. task = [t \in Tasks |-> "queued"] /\ out.status = "none"
  BY DEF Init, NoOutput
<1>4. Reported = {} /\ \A kind : Seen(kind) = {}
  BY <1>3 DEF Reported, Seen
<1>5. VocabularyCensus
  BY <1>2, <1>4 DEF VocabularyCensus
<1>6. c.index.widgets = <<>> /\ c.index.autoTargets = {} /\ c.index.autoDisabled = FALSE
  BY <1>2
<1>7. SidebarCensus
  BY <1>4, <1>6 DEF SidebarCensus, StatedWidgets
<1>8. CounterCensus
  BY <1>2, <1>4 DEF CounterCensus
<1>9. EntriesRead /\ TargetsRead /\ LabelsRead
  BY <1>2, <1>4, <1>6 DEF EntriesRead, TargetsRead, LabelsRead
<1>10. Returned
  BY <1>3 DEF Returned
<1>. QED
  BY <1>1, <1>5, <1>7, <1>8, <1>9, <1>10 DEF Telling

LEMMA TellingKept == Telling /\ [Next]_vars => Telling'
<1>. SUFFICES ASSUME Telling, [Next]_vars PROVE Telling'
  OBVIOUS
<1>1. TypeOK /\ TasksFollowTheirKind /\ Ledger'
  BY LedgerKept DEF Telling, Ledger
<1>2. VocabularyCensus' /\ SidebarCensus' /\ CounterCensus'
  BY <1>1, VocabularyCensusKept, SidebarCensusKept, CounterCensusKept DEF Telling
<1>3. EntriesRead' /\ TargetsRead' /\ LabelsRead'
  BY <1>1, EntriesReadKept, TargetsReadKept, LabelsReadKept DEF Telling
<1>4. Returned'
  BY ReturnedKept DEF Telling
<1>. QED
  BY <1>1, <1>2, <1>3, <1>4 DEF Telling
=============================================================================
