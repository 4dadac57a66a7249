--------------------------- MODULE ComposerSafety ---------------------------
(***************************************************************************)
(* What a composed bundle owes its reader, stated on what the emit tasks   *)
(* did and on what is in the bundle, never on the struct Finish read.      *)
(***************************************************************************)
EXTENDS Composer

Published == out.status = "bundle"

(* The tasks whose object was lifted, by kind, and whose document was      *)
(* reported.                                                               *)
Seen(kind) == {t \in Tasks : Snapshot[t].kind = kind /\ task[t] = "omitted"}

Reported ==
  {t \in Tasks : /\ Snapshot[t].kind = "document"
                 /\ task[t] \in {"streaming", "streamed", "done"}}

(* The ids a reader finds documents under.                                 *)
Carried == {Snapshot[t].envelope : t \in docs} \ {NoId}

Liftable(t) == Snapshot[t].owner # NoKey /\ Snapshot[t].name # NoName

-----------------------------------------------------------------------------
(* Every property a written document or a published widget names has an    *)
(* entry, whatever order the document, its relation and the sidebar were   *)
(* observed in, and no entry is for a property nothing names (SPEC 2f,     *)
(* used-only; compose.go Finish).                                          *)
EntriesAreTheReferencedKeys ==
  Published =>
    DOMAIN out.dictionary =
      (UNION {Snapshot[t].used : t \in docs})
        \cup WidgetProperties(out.index.widgets)

(* A definition or a vocabulary the composer observed is either in the     *)
(* dictionary or named as unused: the used-only rule drops nothing in      *)
(* silence (compose.go Stats.UnusedPropertyKeys).                          *)
NoDefinitionVanishes ==
  Published =>
    LET observed == ({Snapshot[t].key : t \in Seen("relation")}
                      \cup {Snapshot[t].owner :
                              t \in {u \in Seen("option") : Liftable(u)}})
                        \ {NoKey}
    IN  /\ out.stats.unused = observed \ DOMAIN out.dictionary
        /\ \A key \in out.stats.orphans \cap observed :
              key \notin {Snapshot[t].key : t \in Seen("relation")}

OptionsShown(dictionary) ==
  LET Shown(key) == Len(dictionary[key].options)
  IN  MapThenSumSet(Shown, DOMAIN dictionary)

(* Every option snapshot is counted once: Observed = Lifted + Dropped +    *)
(* Unliftable + Repeated (compose.go Stats.OptionsRepeated), and the       *)
(* lifted ones are the options the dictionary shows.                       *)
OptionsAccounted ==
  Published =>
    /\ Cardinality(Seen("option")) =
         out.stats.optionsLifted + out.stats.optionsDropped
           + out.stats.optionsUnliftable + out.stats.optionsRepeated
    /\ out.stats.optionsLifted = OptionsShown(out.dictionary)

(* What the picker ranks an option by: ordered ones first, by lexid, the   *)
(* newest first among equals, the id last.                                 *)
Rank(o) == <<IF o.order = 0 THEN 1 ELSE 0, o.order, -o.created, o.id>>

RankedBefore(a, b) ==
  \E n \in 1..4 : /\ Rank(a)[n] < Rank(b)[n]
                  /\ \A m \in 1..(n - 1) : Rank(a)[m] = Rank(b)[m]

(* What the composer keeps of a liftable option, beside its owner.         *)
StoredOption(t) ==
  LET s == Snapshot[t]
  IN  [order |-> s.order, created |-> s.created, id |-> s.id,
       def |-> OptionOf(s).def]

Options == {t \in Tasks : Snapshot[t].kind = "option" /\ Liftable(t)}

(* The spaces whose options a picker can order: two observations of one id *)
(* state one content, and so do two options without ids that nothing else  *)
(* ranks.                                                                  *)
PlainOptions ==
  \A t, u \in Options :
    LET a == StoredOption(t)
        b == StoredOption(u)
        alike == /\ Snapshot[t].owner = Snapshot[u].owner
                 /\ a.id = b.id
                 /\ a.id # 0 \/ (a.order = b.order /\ a.created = b.created)
    IN  alike => a.def = b.def

(* The spaces whose repeated observations agree: of one property, of one   *)
(* option, and of the members of the sidebar that are stated.              *)
AgreeingSpace ==
  /\ PlainOptions
  /\ \A t, u \in Options :
       SameOption(OptionOf(Snapshot[t]), OptionOf(Snapshot[u]))
         => StoredOption(t) = StoredOption(u)
  /\ \A t, u \in {v \in Tasks : Snapshot[v].kind = "relation"} :
       (Snapshot[t].key = Snapshot[u].key /\ Snapshot[t].key # NoKey)
         => StoredDefinition(Snapshot[t]) = StoredDefinition(Snapshot[u])
  /\ \A t, u \in {v \in Tasks : Snapshot[v].kind = "widget"} :
       LET a == Snapshot[t]
           b == Snapshot[u]
       IN  /\ a.widgets # <<>> /\ b.widgets # <<>> => a.widgets = b.widgets
           /\ a.autoTargets # {} /\ b.autoTargets # {} => a.autoTargets = b.autoTargets

(* A published vocabulary reads in the order the picker shows it, however  *)
(* its options arrived, and holds every acceptable option once.  (Of plain *)
(* options: any others keep the order they arrived in.)                    *)
VocabularyReadsAsThePicker ==
  Published =>
    \A key \in DOMAIN out.dictionary \ out.stats.orphans :
      LET options == out.dictionary[key].options
          format == out.dictionary[key].definition.format
          mine == {Snapshot[t] : t \in {u \in Seen("option") :
                                          Liftable(u) /\ Snapshot[u].owner = key}}
          acceptable == {s \in mine : Carryable(format, OptionOf(s).def)}
      IN  /\ ToSet(options) = {OptionOf(s).def : s \in acceptable}
          /\ \A m, n \in DOMAIN options : m < n =>
               \E a, b \in acceptable : /\ OptionOf(a).def = options[m]
                                        /\ OptionOf(b).def = options[n]
                                        /\ RankedBefore(a, b)

(* An entry two written types declare differently, and nothing else        *)
(* defines, is published as undefined: no schedule picks a winner          *)
(* (compose.go declaredDefinition).                                        *)
DisputedDeclarationsDefineNothing ==
  Published =>
    \A key \in DOMAIN out.dictionary :
      LET stated == UNION {DeclaredFor(Snapshot[t], key) : t \in docs}
          sourced == key \in {Snapshot[t].key : t \in Seen("relation")}
                               \cup DOMAIN Resolver \cup DOMAIN Table
      IN  ~sourced => (key \in out.stats.orphans <=> Cardinality(stated) # 1)

(* A reader takes a bundled key's entry over its own table exactly when    *)
(* the entry is flagged, so an entry that says something else than the     *)
(* table is always flagged (compose.go observeRelation, resolvedDiverged). *)
DivergenceIsFlagged ==
  Published =>
    \A key \in DOMAIN out.dictionary \cap DOMAIN Table :
      LET def == out.dictionary[key].definition
      IN  [name |-> def.name, format |-> def.format, targets |-> def.targets]
            # Table[key] => def.diverged

-----------------------------------------------------------------------------
(* Every object reference index.json states, as its bytes spell it.        *)
NamedByIndex(index) ==
  (index.homepage \ ReservedHome) \cup index.icon
    \cup ({index.widgets[n].target : n \in DOMAIN index.widgets} \ Platform)

(* An object the index names is in the bundle or declared missing, never   *)
(* both and never neither, and the reasons given for the missing ones are  *)
(* disjoint (index.go ObjectReferences, Unresolved.check).                 *)
TargetsAnswered ==
  Published =>
    LET unresolved == out.index.unresolved
    IN  /\ unresolved.targets = NamedByIndex(out.index) \ Carried
        /\ unresolved.deleted \cup unresolved.omitted \subseteq unresolved.targets
        /\ unresolved.deleted \cap unresolved.omitted = {}

(* A type a written document or a dictionary entry names is carried or     *)
(* declared missing, and a carried type is never declared missing: a       *)
(* reader would retype its objects (bundle/validate.go unresolved.types).  *)
TypesAnswered ==
  Published =>
    LET stated == UNION {Snapshot[t].typeRefs :
                           t \in {u \in docs : Snapshot[u].envelope # NoId}}
        drawn  == UNION {out.dictionary[key].definition.targets :
                           key \in DOMAIN out.dictionary}
    IN  out.index.unresolved.types = (stated \cup drawn) \ Carried

(* The manifest locates exactly the bytes that are in the bundle, and an   *)
(* index that says no bytes travelled says so of a bundle without any      *)
(* (compose.go ObserveFileBlob, DeclareMetadataOnly).                      *)
ManifestMatchesBlobs ==
  Published => /\ out.index.files.ids = {Snapshot[t].id : t \in blobs}
               /\ c.metadataOnly => blobs = {}
               /\ blobs # {} => out.index.files.stated

(* Space settings that disagree are refused whatever order, and however    *)
(* often, they were observed in; settings that agree are never refused     *)
(* (compose.go spaceSettingsCandidates).                                   *)
ConflictsAreRefused ==
  out.status # "none" =>
    LET Stated(field) == UNION {Snapshot[t][field] : t \in Seen("space")}
    IN  (out.status = "refused" /\ out.why = "space settings")
          <=> \E field \in SettingFields : Cardinality(Stated(field)) > 1

(* A widget names a view the way the bytes of its target document do,      *)
(* whether the sidebar or the document was observed first (compose.go      *)
(* widgetViewLabels).                                                      *)
WidgetsUseTheDocumentsLabels ==
  Published =>
    \A n \in DOMAIN out.index.widgets : \A t \in docs :
      LET widget == c.index.widgets[n]
          labels == {pair \in Snapshot[t].labels : pair[1] = widget.view}
      IN  (CompactBlockLabels /\ Snapshot[t].envelope = Fold[widget.target]) =>
            \A pair \in labels : out.index.widgets[n].view = pair[2]

(* A reference reported as missing is reported with the object it was      *)
(* lifted from, so a summary can name the source (compose.go               *)
(* unresolvedIndexReferences).                                             *)
MissingReferencesAreSourced ==
  Published =>
    /\ {ref.target : ref \in out.stats.references} = out.index.unresolved.targets
    /\ \A ref \in out.stats.references :
         ref.object \in {Snapshot[t].id : t \in Seen("space") \cup Seen("widget")}

(* No index is published over a document the composer refused to account   *)
(* for: when Finish returns, every document in the bundle was reported     *)
(* (compose.go ObserveWritten's errors).                                   *)
StrayDocumentsPublishNothing == out.status # "none" => docs = Reported

-----------------------------------------------------------------------------
(* What the struct holds between the steps.                                *)

(* Only a document travels, and no other object is ever reported.          *)
TasksFollowTheirKind ==
  \A t \in Tasks :
    /\ task[t] = "omitted" => Snapshot[t].kind # "document"
    /\ task[t] \notin {"queued", "omitted", "failed"} => Snapshot[t].kind = "document"

(* The bundle is the sum of its reported documents and their bytes, except *)
(* for what is between its write and its report, or was refused a report.  *)
Arrived == Reported \cup {t \in Tasks : task[t] = "written"}

BundleFollowsTheTasks ==
  /\ Arrived \subseteq docs
  /\ run # "failed" => docs = Arrived
  /\ \A t \in blobs : task[t] \in {"streamed", "done"}
  /\ \A t \in Tasks : task[t] = "streamed" => t \in blobs

(* Finish has returned exactly when the run is finished, and no task is    *)
(* left by then.                                                           *)
FinishIsLast ==
  /\ out.status # "none" <=> run = "finished"
  /\ run = "finished" => \A t \in Tasks : task[t] \in {"omitted", "done", "failed"}

(* What the reported documents, the blobs in place, the lifted relations   *)
(* and the space's observations left in the struct.                        *)
DocumentCensus ==
  /\ c.documentIds = UNION {CarriedIds(Snapshot[t]) : t \in Reported}
  /\ \A key \in Keys :
       c.declared[key] = UNION {DeclaredFor(Snapshot[t], key) : t \in Reported}
  /\ out.status = "none" =>
       /\ c.used = UNION {Snapshot[t].used : t \in Reported}
       /\ c.typeRefs = UNION {TypeUses(Snapshot[t]) : t \in Reported}

FileCensus ==
  c.filePaths = {Snapshot[t].id : t \in {u \in blobs : task[u] = "done"}}

EntryCensus ==
  \A key \in Keys :
    c.entries[key] # NoDefinition <=>
      \E t \in Seen("relation") : Snapshot[t].key = key

SettingsCensus ==
  \A field \in SettingFields :
    c.spaceSettings[field] = UNION {Snapshot[t][field] : t \in Seen("space")}

(* Each commutative aggregate is a function of the set of observations     *)
(* made so far, and of nothing else: neither their order nor their number  *)
(* nor what was in flight with them (compose.go Composer).                 *)
AggregatesAreTheObservations ==
  DocumentCensus /\ FileCensus /\ EntryCensus /\ SettingsCensus

-----------------------------------------------------------------------------
(* The struct only accumulates: no later observation takes back a key, an  *)
(* id, a candidate or an option (the "commutative aggregates" of           *)
(* compose.go's package comment).                                          *)
Accumulates ==
  /\ c.used \subseteq c'.used
  /\ c.documentIds \subseteq c'.documentIds
  /\ c.typeRefs \subseteq c'.typeRefs
  /\ c.filePaths \subseteq c'.filePaths
  /\ c.seenOptions \subseteq c'.seenOptions
  /\ \A key \in Keys : /\ c.declared[key] \subseteq c'.declared[key]
                       /\ c.entries[key] # NoDefinition =>
                            c'.entries[key] # NoDefinition
                       /\ IsPrefix(c.optionsByKey[key], c'.optionsByKey[key])
  /\ \A field \in SettingFields :
       c.spaceSettings[field] \subseteq c'.spaceSettings[field]

OnlyAccumulates == [][Accumulates]_vars

(* Every run ends, and every object taken up is let go of, in a cancelled  *)
(* run too: no worker of the pool is held for ever (DESIGN.md 1.5).        *)
RunsEnd ==
  /\ <>(run # "emitting")
  /\ \A t \in Tasks : t \in InFlight ~> t \notin InFlight

-----------------------------------------------------------------------------
(* The export seen from outside: an object is carried once it is reported, *)
(* its bytes once they are, and what was published is read off the index   *)
(* and the dictionary.                                                     *)
Lifts == {t \in Tasks : task[t] = "omitted"}

Blobbed == {t \in blobs : task[t] = "done"}

PublishedVerdict ==
  IF Published
  THEN [status |-> "bundle",
        keys |-> DOMAIN out.dictionary,
        undefined |-> out.index.unresolved.properties,
        missing |-> out.index.unresolved.targets,
        files |-> out.index.files.ids]
  ELSE out

Promise == INSTANCE ComposerPromise WITH
             carried <- Reported, stored <- Blobbed, lifted <- Lifts,
             verdict <- PublishedVerdict

(* The composer under its pool is that export: it publishes at most once,  *)
(* over a directory in which every document and every blob is accounted    *)
(* for, and what it publishes follows from which objects were settled and  *)
(* from one of the sidebars they stated, not from the schedule             *)
(* (compose.go:16-21 and the comment on Finish).                           *)
PromiseKept == Promise!Spec
=============================================================================
