------------------------------ MODULE Deliver ------------------------------
(***************************************************************************)
(* The to-v1 command on a bundle (cmd/anyblock/bundle.go, bundle_full.go): *)
(* it checks that its output does not exist, converts, creates the output  *)
(* and writes one file after the other.  Another process may create the    *)
(* output meanwhile, and any write may fail.                               *)
(***************************************************************************)
EXTENDS Convert

VARIABLES
  command, \* what the command does
  output   \* whose the output is, and how many of our files it holds

vars == <<convertVars, command, output>>

NoOutput == [owner |-> "nobody", written |-> 0]

Init == StartConvert /\ command = "checking" /\ output = NoOutput

(* checkBundleOutput: an output that exists or lies in the input is left.  *)
CheckOutput ==
  /\ command = "checking"
  /\ command' \in IF output.owner = "nobody" THEN {"converting", "failed"}
                                              ELSE {"failed"}
  /\ UNCHANGED <<convertVars, output>>

ConvertBundle ==
  command = "converting" /\ ConvertStep /\ UNCHANGED <<command, output>>

ReportRefusal ==
  /\ command = "converting" /\ Refused /\ command' = "failed"
  /\ UNCHANGED <<convertVars, output>>

(* What could not be created is cleaned up (a mutant of CreateOutput).     *)
CreateOrCleanUp ==
  /\ command = "converting" /\ Converted
  /\ IF output.owner = "nobody"
     THEN command' = "writing" /\ output' = [owner |-> "command", written |-> 0]
     ELSE command' = "failed" /\ output' = NoOutput
  /\ UNCHANGED convertVars

(***************************************************************************)
(* The output is created exclusively; an output that has appeared since    *)
(* the check fails the command before the cleaning up is armed.            *)
(***************************************************************************)
CreateOutput ==
  /\ command = "converting" /\ Converted
  /\ IF output.owner = "nobody"
     THEN command' = "writing" /\ output' = [owner |-> "command", written |-> 0]
     ELSE command' = "failed" /\ UNCHANGED output
  /\ UNCHANGED convertVars

(* The output, or a directory above it, cannot be made.                    *)
FailCreate ==
  /\ command = "converting" /\ Converted /\ command' = "failed"
  /\ UNCHANGED <<convertVars, output>>

(***************************************************************************)
(* The entries and the profile, then the attachments of a full bundle,     *)
(* which are streamed from the input.                                      *)
(***************************************************************************)
Outputs ==
  Cardinality(DOMAIN entries) + 1
    + IF request.authoring THEN 0 ELSE Cardinality(files)

WriteFile ==
  /\ command = "writing" /\ output.written < Outputs
  /\ output' = [output EXCEPT !.written = @ + 1]
  /\ UNCHANGED <<convertVars, command>>

(* A failed command leaves what it wrote (a mutant of FailWrite).          *)
FailAndLeave ==
  command = "writing" /\ command' = "failed" /\ UNCHANGED <<convertVars, output>>

(***************************************************************************)
(* A write, or the closing of a ZIP, fails: the output is removed.         *)
(***************************************************************************)
FailWrite ==
  /\ command = "writing" /\ command' = "failed" /\ output' = NoOutput
  /\ UNCHANGED convertVars

FinishWriting ==
  /\ command = "writing" /\ output.written = Outputs /\ command' = "done"
  /\ UNCHANGED <<convertVars, output>>

Ended == command \in {"done", "failed"}

(* Another process takes the path.                                         *)
Intrude ==
  /\ ~Ended /\ output.owner = "nobody"
  /\ output' = [owner |-> "another", written |-> 0]
  /\ UNCHANGED <<convertVars, command>>

Rest == Ended /\ UNCHANGED vars

Next ==
  \/ CheckOutput \/ ConvertBundle \/ ReportRefusal
  \/ CreateOutput \/ FailCreate
  \/ WriteFile \/ FailWrite \/ FinishWriting \/ Intrude \/ Rest

Spec == Init /\ [][Next]_vars

-----------------------------------------------------------------------------
(* What a converted archive owes the bundle.                               *)

(***************************************************************************)
(* Every document, and every property the dictionary defines, is one entry *)
(* of the archive, and no two entries are one file, even where case makes  *)
(* no difference (addSnapshot).                                            *)
(***************************************************************************)
NothingIsLost ==
  Converted =>
    /\ \A d \in bundle.documents : Place(d) \in DOMAIN entries
    /\ \A n \in DefinedProperties : RelationPlace(n) \in DOMAIN entries
    /\ Cardinality({<<place[1], LowerCase[place[2]]>> : place \in DOMAIN entries})
         = Cardinality(bundle.documents) + Cardinality(DefinedProperties)
             + Cardinality(OptionPlaces) + Cardinality(IndexEntries)

(***************************************************************************)
(* An archive has its own answer for every membership of its objects: the  *)
(* key a type's entry states, a shipped type, or a content id; never a     *)
(* type declared missing (completeBundleSnapshot, normalizeMissingTypes).  *)
(***************************************************************************)
ServedKeys ==
  {entries[place].key : place \in {p \in DOMAIN entries : p[1] = "types"}}
    \cup ShippedTypes \cup DOMAIN KeptContentIds

MembershipsAreServed ==
  Converted =>
    \A place \in DOMAIN entries : Range(entries[place].types) \subseteq ServedKeys

(***************************************************************************)
(* A reference that named a document of the bundle names that document's   *)
(* entry, and a type is reached by its key too: the id a reference or a    *)
(* property's target is rebuilt to and the id an envelope is rebuilt to    *)
(* agree (refs.go, TypeIdByKey, propertySnapshots), in documents as in the *)
(* slots of the index that the sidebar and the homepage are made of.       *)
(***************************************************************************)
Opening ==
  IF bundle.index.homepage # {} THEN bundle.index.homepage ELSE bundle.index.entrypoint

ReferencesLand ==
  Converted =>
    \A d, e \in bundle.documents :
      /\ e.id \in d.refs => entries[Place(d)].refs[e.id] = OutputId(e)
      /\ e.kind = "type" /\ e.key # NoTypeKey =>
           /\ TypeId(e.key) \in d.refs /\ e.key \in Foldable =>
                entries[Place(d)].refs[TypeId(e.key)] = OutputId(e)
           /\ \A n \in {m \in DefinedProperties : e.key \in PropertyTargets(m)} :
                entries[RelationPlace(n)].refs[e.key] = OutputId(e)
      /\ e.id \in WidgetTargets(bundle) \cup bundle.index.autoTargets =>
           OutputId(e) \in DOMAIN entries[<<"objects", WidgetsId>>].refs
      /\ e.id \in Opening /\ ~request.authoring =>
           OutputId(e) \in DOMAIN entries[<<"objects", WorkspaceId>>].refs

(***************************************************************************)
(* The reasons a bundle has to be refused, read off the bundle: those of   *)
(* its validator, a type named that is neither carried, shipped nor        *)
(* declared, or that a type's own membership or the index names whatever   *)
(* is declared, its ledger of deleted widgets included, a member and no    *)
(* space for it, options or archive ids that cannot be told apart.         *)
(***************************************************************************)
DeclaredMissing == {id.name : id \in bundle.index.unresolved.types}

TypesNamed ==
  (UNION {Range(d.types) \cup d.typeSlots \cup TypeKeysNamed(d.refs) :
            d \in bundle.documents})
    \cup (UNION {bundle.definitions[n].targets \ {Sentinel} : n \in DefinedProperties})

(* Every id the index names, whether a reader requires a document of it.   *)
NamedByTheIndex ==
  LET idx == bundle.index
  IN  idx.entrypoint \cup idx.homepage \cup idx.icon \cup WidgetTargets(bundle)
        \cup idx.autoTargets \cup idx.unresolved.targets

TypesNamedForGood ==
  (UNION {Range(d.types) : d \in TypeDocuments}) \cup TypeKeysNamed(NamedByTheIndex)

UnknownTypes ==
  ((TypesNamed \ DeclaredMissing) \cup TypesNamedForGood) \ DOMAIN TypeIds

MembersWithoutASpace ==
  \/ /\ request.space = NoSpace
     /\ \E d \in bundle.documents :
          \/ d.kind = "participant" /\ NamesMember(d.id)
          \/ \E ref \in d.refs : NamesMember(ref)
  \/ IconLosesAMember

(***************************************************************************)
(* The options of the archive: the dictionary's, and one for each value    *)
(* that names none of them.                                                *)
(***************************************************************************)
DictionaryOptions ==
  UNION {{[key |-> PropertyKey(def), def |-> o] : o \in Range(def.options)} :
           def \in Range(bundle.definitions)}

ValueOption(value) ==
  [key |-> MappedKey(value[1]), def |-> [name |-> value[2], internalKey |-> NoOptionKey]]

InDictionary(value) ==
  \E o \in DictionaryOptions :
    o.key = MappedKey(value[1]) /\ o.def.name = value[2]

OptionsOf(values) == {ValueOption(v) : v \in {w \in values : ~InDictionary(w)}}

OptionsOwed ==
  DictionaryOptions
    \cup (UNION {OptionsOf(Range(d.values)) : d \in bundle.documents})

(***************************************************************************)
(* One identity has two names, or two properties have options of one id.   *)
(***************************************************************************)
Disagree(a, b) ==
  \/ /\ a.def.name # b.def.name
     /\ OptionIdentity(a.key, a.def) = OptionIdentity(b.key, b.def)
  \/ /\ a.key # b.key
     /\ OptionId[OptionKey(a.key, a.def)] = OptionId[OptionKey(b.key, b.def)]

OptionsDisagree == \E a, b \in OptionsOwed : Disagree(a, b)

(***************************************************************************)
(* Two entries need one id, or one path where case makes no difference; an *)
(* entry is owed to each document, property and option.                    *)
(***************************************************************************)
EntriesOwed ==
  {[from |-> {d}, place |-> Place(d)] : d \in bundle.documents}
    \cup {[from |-> {}, place |-> place] :
            place \in {RelationPlace(n) : n \in DefinedProperties}
                       \cup OptionPlaces \cup IndexEntries}

Clash(p, q) ==
  \/ p[2] = q[2]
  \/ p[1] = q[1] /\ LowerCase[p[2]] = LowerCase[q[2]]

IdsClash ==
  \/ \E o \in EntriesOwed : o.place[2] \in UnsafeOutputs
  \/ \E o1, o2 \in EntriesOwed : o1 # o2 /\ Clash(o1.place, o2.place)

CauseForRefusal ==
  \/ ~request.valid \/ ~Inspected \/ bundle.odd
  \/ NativeClash \/ DuplicateProperty
  \/ UnknownTypes # {} \/ MembersWithoutASpace
  \/ DeclarationsMerge \/ OptionsDisagree \/ IdsClash
  \/ \E d \in bundle.documents :
       d.kind = "template" /\ ~d.targeted /\ Len(d.types) < 2

(***************************************************************************)
(* A bundle is refused for a reason and never otherwise, and a reason met  *)
(* half way is not forgotten at the end (the resolver's err, conversionErr).*)
(***************************************************************************)
RefusedForCause ==
  /\ Refused => CauseForRefusal
  /\ Converted => ~CauseForRefusal

(***************************************************************************)
(* The result says what the archive does not hold: its three lists are     *)
(* disjoint and are the declared targets (UnresolvedTargets), every object *)
(* that changed its type and every file without its bytes is warned of.    *)
(***************************************************************************)
LossesAreTold ==
  Converted =>
    /\ LET u == UnresolvedTargets
       IN  /\ u.deleted \cup u.omitted \cup u.absent = index.unresolved.targets
           /\ Cardinality(u.deleted) + Cardinality(u.omitted) + Cardinality(u.absent)
                = Cardinality(index.unresolved.targets)
    /\ \A d \in bundle.documents :
         /\ \A key \in (Range(d.types) \cap DeclaredMissing) \ TypeKeys :
              d.kind # "type" => <<"retyped", d.id, key>> \in told
         /\ (d.kind = "file" /\ OutputId(d) \notin files) =>
              <<"no bytes", d.id, d.remote>> \in told

(***************************************************************************)
(* The id a value stores is the entry of the option it names.              *)
(***************************************************************************)
ValuesNameTheirOption ==
  Converted =>
    \A d \in bundle.documents : \A n \in DOMAIN d.values :
      entries[<<"relationsOptions", entries[Place(d)].values[n]>>].key
        = <<MappedKey(d.values[n][1]), d.values[n][2]>>

(***************************************************************************)
(* A bundle the validator admits, of which no two outputs need one id and  *)
(* whose members have a space, converts (bundle/convert/README.md).        *)
(***************************************************************************)
AdmittedBundlesConvert ==
  Refused =>
    \/ ~request.valid \/ ~Inspected \/ bundle.odd
    \/ NativeClash \/ DuplicateProperty
    \/ MembersWithoutASpace \/ DeclarationsMerge \/ OptionsDisagree \/ IdsClash

(***************************************************************************)
(* A command ends with its output whole, or with none of its own.          *)
(***************************************************************************)
OutputIsWhole ==
  /\ command = "done" => output.owner = "command" /\ output.written = Outputs
  /\ command = "failed" => output.owner # "command"

(***************************************************************************)
(* What another process put at the output's path is not touched.           *)
(***************************************************************************)
OthersOutputStays ==
  [][output.owner = "another" => output' = output]_vars
=============================================================================
