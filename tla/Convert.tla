------------------------------ MODULE Convert ------------------------------
(***************************************************************************)
(* The conversion of a bundle to a native archive (bundle/convert): one    *)
(* run of convertBundle, in the order of its code.  The bundle is          *)
(* inspected, the resolver is built from its type documents and its        *)
(* dictionary, the index is read, and then every document, property,       *)
(* option, the sidebar and the space itself become one entry each.  A      *)
(* lookup that fails does not stop the run: it arms the resolver's error,  *)
(* which is read at the end, unless the index declares the type missing.   *)
(*                                                                         *)
(* A bundle is a record                                                    *)
(*   documents    records [path, id, kind, key, types, typeSlots, refs,    *)
(*                values, targeted, remote]: key is a type's internal key, *)
(*                types the keys of ObjectTypes, typeSlots the type keys   *)
(*                of query sources and property targets, refs the ids in   *)
(*                reference slots, values the <<property, option name>>    *)
(*                pairs in the order of the document, targeted whether a   *)
(*                template's properties state the one type it is for,      *)
(*                remote whether a file states where its bytes are         *)
(*   index        as BundleInspect has it, its lists of ids sets           *)
(*   definitions  the dictionary, a sequence of [key, internal, unknown,   *)
(*                options, targets], an option being [name, internalKey]   *)
(*   blobs, odd   the ids whose bytes are in place; what is odd about its  *)
(*                tree                                                     *)
(***************************************************************************)
EXTENDS References, BundleInspect, SequencesExt

CONSTANTS
  Bundles, Requests,       \* the inputs of a run
  Listings,                \* the reserved listings a widget may show
  ShippedTypes, UrlOf,     \* the keys of the shipped types, and their ids
  ContentIds,              \* the type keys that decode as content ids
  NativeKey,               \* a type key, as the native id syntax admits it
  PageKey, Sentinel,       \* the key of Page; the missing-object sentinel
  MintKey,                 \* the fresh key of a property that has none
  NoOptionKey, MintOption, \* no key; the key made of property and name
  KeyedName,               \* a key, as an option's identity spells it
  RelationId, OptionId,    \* the archive ids of properties and options
  WidgetsId, WorkspaceId,  \* the archive ids of the sidebar and the space
  UnsafeOutputs,           \* the ids that cannot name an entry
  LowerCase                \* an id, as a case-insensitive filesystem has it

VARIABLES
  input,    \* [bundle, request], which no step changes
  phase,    \* what the run does next
  todo,     \* the paths of the documents not converted yet
  index,    \* the index as it was decoded for the destination
  resolver, \* [options, missing, armed] of bundleResolver
  lostMember, \* conversionErr: a member named, and no space to put it in
  entries,  \* <<directory, id>> -> what is stored there
  files,    \* the ids of the attachments to stream
  told      \* the losses warned of

convertVars ==
  <<input, phase, todo, index, resolver, lostMember, entries, files, told>>

(* Paths are unique, so a document is known by its path.                   *)
ASSUME PathsAssumption ==
  \A b \in Bundles : \A d, e \in b.documents : d.path = e.path => d = e

IsList(s) == s \in Seq(Range(s))

(***************************************************************************)
(* What decoding a bundle's files has refused already: an id worn by a     *)
(* document that is not entitled to it (derivedIdSlotIssue), and losses    *)
(* declared twice over or of no target (Unresolved.check).                 *)
(***************************************************************************)
ASSUME DecodedAssumption ==
  \A b \in Bundles :
    /\ IsFiniteSet(b.documents) /\ IsList(b.definitions)
    /\ \A d \in b.documents : EntitledId(d.kind, d.id, d.key) /\ IsList(d.values)
    /\ \A def \in Range(b.definitions) : IsList(def.options)
    /\ LET u == b.index.unresolved
       IN  /\ IsFiniteSet(u.targets) /\ u.deleted \cap u.omitted = {}
           /\ u.deleted \cup u.omitted \subseteq u.targets

(***************************************************************************)
(* Page is shipped, the empty key does not fold, a listing is reserved,    *)
(* the archive's own two ids differ, and a property's id has its key in it *)
(* (PropertyId).                                                           *)
(***************************************************************************)
ASSUME ArchiveAssumption ==
  /\ PageKey \in ShippedTypes /\ NoTypeKey \notin Foldable
  /\ Listings \subseteq Reserved
  /\ WidgetsId # WorkspaceId
  /\ IsInjective(RelationId)

bundle == input.bundle
request == input.request

Refused == phase = "refused"
Converted == phase = "converted"

(* Two maps, the first of which answers where it can.                      *)
Over(f, g) ==
  [x \in DOMAIN f \cup DOMAIN g |-> IF x \in DOMAIN f THEN f[x] ELSE g[x]]

-----------------------------------------------------------------------------
(* What the walk learns of the types.                                      *)

TypeDocuments == {d \in bundle.documents : d.kind = "type"}
TypeKeys == {d.key : d \in TypeDocuments}

CarriedTypeIds ==
  [key \in TypeKeys |-> (CHOOSE d \in TypeDocuments : d.key = key).id]

ShippedTypeIds == [key \in ShippedTypes |-> UrlOf[key]]

KeptContentIds ==
  [key \in IF request.authoring THEN {} ELSE ContentIds |-> Plain(key)]

(* The shipped table answers first (a mutant of TypeIds).                  *)
ShippedTypesFirst == Over(ShippedTypeIds, Over(CarriedTypeIds, KeptContentIds))

(***************************************************************************)
(* TypeIdByKey, where it finds something: the bundle's own documents, then *)
(* the shipped table, then a key that is itself an object id.              *)
(***************************************************************************)
TypeIds == Over(CarriedTypeIds, Over(ShippedTypeIds, KeptContentIds))

(* A declared type arms the error too (a mutant of Arms).                  *)
ArmsOnDeclared(missing, keys) == ~ keys \subseteq DOMAIN TypeIds

(***************************************************************************)
(* TypeIdByKey, where it finds nothing: only a type the index declares     *)
(* missing is a soft miss.                                                 *)
(***************************************************************************)
Arms(missing, keys) == ~ keys \subseteq (DOMAIN TypeIds \cup missing)

(***************************************************************************)
(* The Options of the run: the destination's space, and a resolver that    *)
(* answers for the types above.                                            *)
(***************************************************************************)
ReaderOptions ==
  [space |-> request.space, wired |-> TRUE, noDerivedTypeIds |-> FALSE,
   keyById |-> <<>>, idByKey |-> TypeIds]

TypeKeysNamed(ids) == {id.name : id \in {i \in ids : NamesType(i)}}

-----------------------------------------------------------------------------
(* The resolver.                                                           *)

PropertyKey(def) ==
  IF def.internal \/ def.key \in Bundled THEN def.key ELSE MintKey[def.key]

ASSUME PropertyKeysAssumption ==
  \A b \in Bundles : \A def \in Range(b.definitions) :
    PropertyKey(def) \in DOMAIN RelationId

(* mappedKey: the spelling of a key whose property was given a fresh one.  *)
MappedKey(key) ==
  LET mapped == {n \in DOMAIN bundle.definitions :
                   bundle.definitions[n].key = key}
  IN  IF mapped = {} THEN key
                     ELSE PropertyKey(bundle.definitions[CHOOSE n \in mapped : TRUE])

OptionKey(key, def) ==
  IF def.internalKey = NoOptionKey THEN MintOption[<<key, def.name>>]
                                   ELSE def.internalKey

(***************************************************************************)
(* One string: the key's form of it may be the very name of an option that *)
(* has no key.                                                             *)
(***************************************************************************)
OptionIdentity(key, def) ==
  <<key, IF def.internalKey = NoOptionKey THEN def.name ELSE KeyedName[def.internalKey]>>

(***************************************************************************)
(* Two keys have two spellings, and no option is named by the spelling of  *)
(* its own key.                                                            *)
(***************************************************************************)
NamedApart(def) ==
  def.internalKey # NoOptionKey =>
    def.internalKey \in DOMAIN KeyedName /\ def.name # KeyedName[def.internalKey]

ASSUME OptionsAssumption ==
  /\ IsInjective(KeyedName)
  /\ \A b \in Bundles : \A def \in Range(b.definitions) : \A o \in Range(def.options) :
       NamedApart(o)

(***************************************************************************)
(* addOption: one option per identity, ranked after those its property has *)
(* already.                                                                *)
(***************************************************************************)
AddOption(r, key, def) ==
  LET identity == OptionIdentity(key, def)
      known == {o \in r.options : o.identity = identity}
      id == OptionId[OptionKey(key, def)]
  IN  IF known # {}
      THEN [r EXCEPT !.armed = @ \/ \E o \in known : o.name # def.name]
      ELSE [r EXCEPT
              !.armed = @ \/ \E o \in r.options : o.id = id /\ o.key # key,
              !.options = @ \cup
                {[identity |-> identity, key |-> key, id |-> id,
                  name |-> def.name,
                  order |-> 1 + Cardinality({o \in r.options : o.key = key})]}]

OptionsNamed(r, key, name) == {o \in r.options : o.key = key /\ o.name = name}

(***************************************************************************)
(* OptionId: a value's option is the first one of that name its property   *)
(* has, and is added when there is none; one of its identity may be there  *)
(* already under another name.                                             *)
(***************************************************************************)
UseOption(r, value) ==
  LET key == MappedKey(value[1])
  IN  IF OptionsNamed(r, key, value[2]) # {} THEN r
      ELSE AddOption(r, key, [name |-> value[2], internalKey |-> NoOptionKey])

ValueId(r, value) ==
  LET key == MappedKey(value[1])
      named == OptionsNamed(r, key, value[2])
      served == IF named # {} THEN named
                ELSE {o \in r.options : o.identity = <<key, value[2]>>}
  IN  (CHOOSE o \in served : \A other \in served : o.order <= other.order).id

UseOptions(r, values) == FoldLeft(UseOption, r, values)

(***************************************************************************)
(* newBundleResolverMode: the options of each property of the dictionary,  *)
(* in its order.                                                           *)
(***************************************************************************)
AddOptions(r, def) ==
  FoldLeft(LAMBDA q, o : AddOption(q, PropertyKey(def), o), r, def.options)

NewResolver ==
  FoldLeft(AddOptions, [options |-> {}, missing |-> {}, armed |-> FALSE],
           bundle.definitions)

(***************************************************************************)
(* planNativeTypeKeys: two keys may not come to one native key, and none   *)
(* to a shipped type's, which a full bundle may carry under its own key.   *)
(***************************************************************************)
PlannedTypeKeys ==
  IF request.authoring THEN TypeKeys ELSE TypeKeys \ ShippedTypes

NativeClash ==
  \/ \E k1, k2 \in PlannedTypeKeys : k1 # k2 /\ NativeKey[k1] = NativeKey[k2]
  \/ \E k \in PlannedTypeKeys : NativeKey[k] \in ShippedTypes

DuplicateProperty ==
  \E n, m \in DOMAIN bundle.definitions :
    /\ n # m
    /\ PropertyKey(bundle.definitions[n]) = PropertyKey(bundle.definitions[m])

Native(key) == IF key \in PlannedTypeKeys THEN NativeKey[key] ELSE key

-----------------------------------------------------------------------------
(* The bundle as its validator sees it.                                    *)

DerivedTypeIds(keys) == {TypeId(key) : key \in (keys \cap Foldable) \ ShippedTypes}

InspectedDocument(d) ==
  [path |-> d.path, id |-> d.id,
   kind |-> IF d.kind = "file" THEN "file_object" ELSE d.kind,
   typeKey |-> d.key, used |-> {v[1] : v \in Range(d.values)},
   typeRefs |-> DerivedTypeIds(Range(d.types) \cup d.typeSlots)]

DefinedKeys == {def.key : def \in Range(bundle.definitions)}

InspectedBundle ==
  [documents |-> {InspectedDocument(d) : d \in bundle.documents},
   index |-> bundle.index,
   properties |->
     [key \in DefinedKeys |->
        DerivedTypeIds(UNION {def.targets : def \in
                         {e \in Range(bundle.definitions) : e.key = key}})],
   blobs |-> bundle.blobs]

Report == Inspect(InspectedBundle, request.authoring)

(***************************************************************************)
(* ValidateAuthoring and ValidateAuthoringIndex: an author states where    *)
(* the reader enters, and nothing that only an export says.                *)
(***************************************************************************)
OutsideTheSubset ==
  /\ request.authoring
  /\ \/ \E d \in bundle.documents : d.kind \notin {"page", "type", "template"}
     \/ bundle.index.entrypoint = {}
     \/ bundle.index.autoTargets # {} \/ bundle.index.autoDisabled
     \/ bundle.index.icon \cup bundle.index.files.ids # {}
     \/ bundle.index.unresolved.targets \cup bundle.index.unresolved.types # {}

Inspected == Refusals(Report) = {} /\ ~OutsideTheSubset

-----------------------------------------------------------------------------
(* The run.                                                                *)

StartConvert ==
  /\ input \in [bundle : Bundles, request : Requests]
  /\ phase = "called" /\ todo = {d.path : d \in input.bundle.documents}
  /\ index = input.bundle.index
  /\ resolver = [options |-> {}, missing |-> {}, armed |-> FALSE]
  /\ lostMember = FALSE
  /\ entries = <<>> /\ files = {} /\ told = {}

Refuse(at) ==
  /\ phase = at /\ phase' = "refused"
  /\ UNCHANGED <<input, todo, index, resolver, lostMember, entries, files, told>>

(* The encoding and the space id are checked before anything is read.      *)
RefuseRequest == Refuse("called") /\ ~request.valid

RefuseInspected ==
  /\ Refuse("called") /\ request.valid /\ ~Inspected

(* A link, or a document the validator took for a second dictionary.       *)
RefuseTree ==
  /\ Refuse("called") /\ request.valid /\ Inspected /\ bundle.odd

RefuseResolver ==
  /\ Refuse("called") /\ request.valid /\ Inspected /\ ~bundle.odd
  /\ NativeClash \/ DuplicateProperty

BuildResolver ==
  /\ phase = "called" /\ phase' = "index"
  /\ request.valid /\ Inspected /\ ~bundle.odd
  /\ ~NativeClash /\ ~DuplicateProperty
  /\ resolver' = NewResolver
  /\ told' = {<<"inspected", issue.subject>> : issue \in Report}
  /\ UNCHANGED <<input, todo, index, lostMember, entries, files>>

Unfold(ids) == {UnfoldRef(ReaderOptions, id) : id \in ids}

(* The ledger is skipped (a mutant of IndexSlots).                         *)
ValidatedSlots(idx) ==
  idx.entrypoint \cup idx.homepage \cup WidgetTargets([index |-> idx]) \cup idx.icon
    \cup idx.unresolved.targets

(***************************************************************************)
(* Every slot UnmarshalIndex unfolds, those its validator does not require *)
(* included.                                                               *)
(***************************************************************************)
IndexSlots(idx) ==
  idx.entrypoint \cup idx.homepage \cup WidgetTargets([index |-> idx]) \cup idx.icon
    \cup idx.autoTargets \cup idx.unresolved.targets

(***************************************************************************)
(* UnmarshalIndex with the resolver of the run.  Two spellings of one id   *)
(* become one, and may now be declared both deleted and omitted.           *)
(***************************************************************************)
DecodedIndex ==
  LET idx == bundle.index
      Target(id) == UnfoldRef(ReaderOptions, id)
  IN  [entrypoint |-> Unfold(idx.entrypoint),
       homepage |-> Unfold(idx.homepage), icon |-> Unfold(idx.icon),
       autoTargets |-> Unfold(idx.autoTargets), autoDisabled |-> idx.autoDisabled,
       widgets |-> [n \in DOMAIN idx.widgets |->
                      [target |-> Target(idx.widgets[n].target),
                       properties |-> idx.widgets[n].properties]],
       files |-> idx.files,
       unresolved |-> [targets |-> Unfold(idx.unresolved.targets),
                       deleted |-> Unfold(idx.unresolved.deleted),
                       omitted |-> Unfold(idx.unresolved.omitted),
                       types |-> idx.unresolved.types]]

DeclarationsMerge ==
  DecodedIndex.unresolved.deleted \cap DecodedIndex.unresolved.omitted # {}

RefuseIndex == Refuse("index") /\ DeclarationsMerge

(***************************************************************************)
(* The resolver does not know yet what the index declares; then that is    *)
(* read from it, a carried type excepted.  No member is reported lost here.*)
(***************************************************************************)
ReadIndex ==
  /\ phase = "index" /\ phase' = "documents" /\ ~DeclarationsMerge
  /\ index' = DecodedIndex
  /\ resolver' =
       [resolver EXCEPT
          !.armed = @ \/ Arms({}, TypeKeysNamed(IndexSlots(bundle.index))),
          !.missing = {id.name : id \in bundle.index.unresolved.types} \ TypeKeys]
  /\ UNCHANGED <<input, todo, lostMember, entries, files, told>>

(* The path is compared as it is spelled (a mutant of Collides).           *)
CollidesAsSpelled(place, present) == place \in DOMAIN present

(***************************************************************************)
(* addSnapshot: an entry needs a safe id, one no entry has, and a path no  *)
(* filesystem takes for another entry's.                                   *)
(***************************************************************************)
Collides(place, present) ==
  \/ place[2] \in {other[2] : other \in DOMAIN present}
  \/ \E other \in DOMAIN present :
       other[1] = place[1] /\ LowerCase[other[2]] = LowerCase[place[2]]

CanAdd(place, present) ==
  place[2] \notin UnsafeOutputs /\ ~Collides(place, present)

CanAddAll(places) ==
  \A place \in places :
    /\ CanAdd(place, entries)
    /\ \A other \in places \ {place} : LowerCase[other[2]] # LowerCase[place[2]]

Directory(kind) ==
  CASE kind = "type" -> "types"
    [] kind = "template" -> "templates"
    [] OTHER -> "objects"

(***************************************************************************)
(* normalizeMissingTypes: an object of a type the space never held becomes *)
(* a Page, a template for one a template for Page; a type's own document   *)
(* is not touched.                                                         *)
(***************************************************************************)
Retyped(d) == IF d.kind = "type" THEN {} ELSE Range(d.types) \cap resolver.missing

NormalTypes(d) ==
  [n \in DOMAIN d.types |-> IF d.types[n] \in Retyped(d) THEN PageKey ELSE d.types[n]]

(* Memberships keep the stored key (a mutant of Memberships).              *)
MembershipsAsStored(types) == types

(* completeBundleSnapshot: memberships follow their type's native key.     *)
Memberships(types) == [n \in DOMAIN types |-> Native(types[n])]

OutputId(d) == ImportEnvelope(ReaderOptions, d.kind, d.id)
Place(d) == <<Directory(d.kind), OutputId(d)>>

(* Documents are converted in the order of their paths.                    *)
Current(d) == d.path \in todo /\ \A path \in todo : d.path <= path

DocumentResolver(d) ==
  LET used == UseOptions(resolver, d.values)
      named == TypeKeysNamed(d.refs \cup (IF d.kind = "type" THEN {d.id} ELSE {}))
  IN  [used EXCEPT !.armed = @ \/ Arms(resolver.missing, named \cup d.typeSlots)]

(***************************************************************************)
(* What stops a document at once: a membership in a type nobody knows, a   *)
(* template for nothing, an entry that cannot be added.                    *)
(***************************************************************************)
Unconvertible(d) ==
  \/ ~ Range(NormalTypes(d)) \subseteq DOMAIN TypeIds
  \/ d.kind = "template" /\ ~d.targeted /\ Len(d.types) < 2
  \/ ~CanAdd(Place(d), entries)

RefuseDocument ==
  /\ Refuse("documents")
  /\ \E d \in bundle.documents : Current(d) /\ Unconvertible(d)

HasBytes(d) == d.kind = "file" /\ OutputId(d) \in index.files.ids

ConvertedDocument(d) ==
  [key |-> IF d.kind = "type" THEN Native(d.key) ELSE NoTypeKey,
   types |-> Memberships(NormalTypes(d)),
   refs |-> [ref \in d.refs |-> UnfoldRef(ReaderOptions, ref)],
   values |-> [n \in DOMAIN d.values |-> ValueId(DocumentResolver(d), d.values[n])]]

ConvertDocument ==
  /\ phase = "documents"
  /\ \E d \in bundle.documents :
       /\ Current(d) /\ ~Unconvertible(d)
       /\ todo' = todo \ {d.path}
       /\ resolver' = DocumentResolver(d)
       /\ lostMember' = (lostMember \/
            /\ request.space = NoSpace
            /\ \E id \in d.refs \cup (IF d.kind = "participant" THEN {d.id} ELSE {}) :
                 NamesMember(id))
       /\ files' = IF HasBytes(d) THEN files \cup {OutputId(d)} ELSE files
       /\ told' = told \cup {<<"retyped", d.id, key>> : key \in Retyped(d)}
            \cup (IF d.kind = "file" /\ ~HasBytes(d)
                  THEN {<<"no bytes", d.id, d.remote>>} ELSE {})
       /\ entries' = Over([place \in {Place(d)} |-> ConvertedDocument(d)], entries)
  /\ UNCHANGED <<input, phase, index>>

-----------------------------------------------------------------------------
(* The entries made of the dictionary and of the index.                    *)

Generated(key, types, refs) ==
  [key |-> key, types |-> types, refs |-> refs, values |-> <<>>]

DefinedProperties ==
  {n \in DOMAIN bundle.definitions : ~bundle.definitions[n].unknown}

RelationPlace(n) == <<"relations", RelationId[PropertyKey(bundle.definitions[n])]>>

PropertyTargets(n) ==
  bundle.definitions[n].targets \ ({Sentinel} \cup (resolver.missing \ DOMAIN TypeIds))

(***************************************************************************)
(* propertySnapshots: a property's target is a type the resolver knows, or *)
(* is the sentinel or declared missing and is dropped.                     *)
(***************************************************************************)
PropertiesFit ==
  /\ \A n \in DefinedProperties : PropertyTargets(n) \subseteq DOMAIN TypeIds
  /\ CanAddAll({RelationPlace(n) : n \in DefinedProperties})

RefuseProperties == todo = {} /\ Refuse("documents") /\ ~PropertiesFit

AddProperties ==
  /\ phase = "documents" /\ todo = {} /\ phase' = "options"
  /\ PropertiesFit
  /\ entries' = Over(
       [place \in {RelationPlace(n) : n \in DefinedProperties} |->
          LET n == CHOOSE m \in DefinedProperties : RelationPlace(m) = place
          IN  Generated(PropertyKey(bundle.definitions[n]), <<>>,
                        [key \in PropertyTargets(n) |-> TypeIds[key]])], entries)
  /\ told' = told \cup
       {<<"target dropped", bundle.definitions[n].key>> :
          n \in {m \in DefinedProperties :
                   PropertyTargets(m) # bundle.definitions[m].targets}}
  /\ UNCHANGED <<input, todo, index, resolver, lostMember, files>>

OptionPlace(o) == <<"relationsOptions", o.id>>

OptionPlaces == {OptionPlace(o) : o \in resolver.options}

RefuseOptions == Refuse("options") /\ ~CanAddAll(OptionPlaces)

(***************************************************************************)
(* optionSnapshots: a map by id, filled in no order; of two options of one *)
(* id either may stay.                                                     *)
(***************************************************************************)
AddOptionEntries ==
  /\ phase = "options" /\ phase' = "index entries"
  /\ CanAddAll(OptionPlaces)
  /\ \E kept \in SUBSET resolver.options :
       /\ \A o \in resolver.options : \E k \in kept : k.id = o.id
       /\ \A k1, k2 \in kept : k1.id = k2.id => k1 = k2
       /\ entries' = Over(
            [place \in {OptionPlace(k) : k \in kept} |->
               LET k == CHOOSE o \in kept : OptionPlace(o) = place
               IN  Generated(<<k.key, k.name>>, <<>>, <<>>)], entries)
  /\ UNCHANGED <<input, todo, index, resolver, lostMember, files, told>>

(***************************************************************************)
(* SpaceHomepage: the stated one, else the entry point, else the first     *)
(* widget that shows no listing.                                           *)
(***************************************************************************)
SpaceHomepage ==
  LET shown == SelectSeq(index.widgets, LAMBDA w : w.target \notin Listings)
  IN  CASE index.homepage # {} -> index.homepage
        [] index.homepage = {} /\ index.entrypoint # {} -> index.entrypoint
        [] OTHER -> IF shown = <<>> THEN {} ELSE {Head(shown).target}

(* WidgetsSnapshot: the ledger and its switch are the sidebar's too.       *)
WidgetIds == WidgetTargets([index |-> index]) \cup index.autoTargets

HasSidebar ==
  index.widgets # <<>> \/ index.autoTargets # {} \/ index.autoDisabled

IndexEntries ==
  (IF HasSidebar THEN {<<"objects", WidgetsId>>} ELSE {})
    \cup (IF request.authoring THEN {} ELSE {<<"objects", WorkspaceId>>})

(* The space's icon is unfolded once more, as an object's would be.        *)
IconLosesAMember ==
  /\ ~request.authoring /\ request.space = NoSpace
  /\ \E id \in bundle.index.icon : NamesMember(id)

Final(armed) ==
  armed \/ lostMember \/ IconLosesAMember \/ ~CanAddAll(IndexEntries)

(* The armed error is read nowhere (a mutant of Doomed).                   *)
NeverDoomed == Final(FALSE)

(***************************************************************************)
(* The two errors the run carried along are read last.                     *)
(***************************************************************************)
Doomed == Final(resolver.armed)

RefuseAtTheEnd == Refuse("index entries") /\ Doomed

Return ==
  /\ phase = "index entries" /\ phase' = "converted" /\ ~Doomed
  /\ entries' = Over(
       [place \in IndexEntries |->
          LET refs == IF place[2] = WidgetsId THEN WidgetIds ELSE SpaceHomepage
          IN  Generated(NoTypeKey, <<>>, [ref \in refs |-> ref])], entries)
  /\ UNCHANGED <<input, todo, index, resolver, lostMember, files, told>>

(* Absent is what is not deleted (a mutant of UnresolvedTargets).          *)
EveryTargetUnresolved ==
  LET u == index.unresolved
  IN  [deleted |-> u.deleted, omitted |-> u.omitted,
       absent |-> u.targets \ u.deleted, types |-> u.types]

(***************************************************************************)
(* Result.Unresolved: the declared losses by class.                        *)
(***************************************************************************)
UnresolvedTargets ==
  LET u == index.unresolved
  IN  [deleted |-> u.deleted, omitted |-> u.omitted,
       absent |-> u.targets \ (u.deleted \cup u.omitted), types |-> u.types]

ConvertStep ==
  \/ RefuseRequest \/ RefuseInspected \/ RefuseTree \/ RefuseResolver
  \/ BuildResolver \/ RefuseIndex \/ ReadIndex
  \/ RefuseDocument \/ ConvertDocument
  \/ RefuseProperties \/ AddProperties
  \/ RefuseOptions \/ AddOptionEntries
  \/ RefuseAtTheEnd \/ Return
=============================================================================
