---------------------------- MODULE KeySpelling ----------------------------
(***************************************************************************)
(* The term ledger of an export (export.go): the spelling each property    *)
(* key takes in one document, and the legend entry the document owes its   *)
(* readers for it.  A census of every key the document may name settles    *)
(* which spellings are contested; each slot then claims the term of its    *)
(* key.  The document is read back in the writer's space and exported      *)
(* again.  Readers of other kinds are asked in KeySpellingSafety.          *)
(***************************************************************************)
EXTENDS KeyVocabulary

CONSTANTS
  DroppedDetails,  \* keys whose detail the export leaves out (droppedPropertyKey)
  Space,           \* what the host program tells of each space
  Documents        \* the objects each may export

\* A space: the names of its live custom keys, the names of the removed ones
\* (a dictionary still declares them), whether its export asks it at all, and
\* the two freedoms its vocabulary has (see Store).
\* A document: the keys of the object's details; those a slot of a block or of
\* a type names; and those that only the census meets, because the export
\* drops the block that names them or writes a filter group without its key.

Known(s) == Over(Space[s].names, Space[s].gone)

\* A custom key never wears the bytes of a bundled key or name.
ASSUME SpaceAssumption ==
  \A s \in DOMAIN Space :
    /\ Known(s) \in [DOMAIN Known(s) -> Terms]
    /\ DOMAIN Known(s) \subseteq Terms
    /\ \A k \in Bundled : {k, BundledName[k]} \cap DOMAIN Known(s) = {}
    /\ \A d \in Documents[s] :
         d.details \cup d.slots \cup d.unwritten \subseteq Bundled \cup DOMAIN Known(s)

VARIABLES
  space, doc,
  phase,         \* "opened", "claiming", "written"
  namedKeys,     \* the census
  termPlan,      \* its verdict: key to term
  termByKey,     \* the claims made: key to term
  propertyKeys,  \* the legend: term to key
  first          \* the export this one repeats, when it does, and the keys it
                 \* censused and left out

vars == <<space, doc, phase, namedKeys, termPlan, termByKey, propertyKeys, first>>

NoExport == [terms |-> <<>>, legend |-> <<>>, unwritten |-> {}]

----------------------------------------------------------------------------
(* The census and the plan                                                 *)

VocabularyOf ==
  [s \in DOMAIN Space |->
     IF Space[s].asked THEN Store(Space[s].names, Space[s].first, Space[s].lists)
     ELSE BundledVocabulary]

\* the members of `properties`: an attribution key is written as a reference
Members(d) ==
  {k \in d.details : \/ k \in Attribution
                     \/ k \in Writable \ (Denied \cup DroppedDetails)}

Written(d) == Members(d) \cup (d.slots \cap Writable)

\* a mutant of Census: the details the export drops are counted
CensusOfEveryDetail(d) ==
  ((d.details \cap Writable) \ Denied) \cup d.slots \cup d.unwritten

Census(d) == Members(d) \cup d.slots \cup d.unwritten

BundledBinds(term, key) == BundledBound(term) = {key}
TermInverts(v, term, key) == KeyOf(v, term) = key

VetSlug(v, key) ==
  LET slug == Slug(v, key)
      allowed == /\ slug \in Writable /\ key \in Writable
                 /\ slug \notin Envelope
                 /\ \/ key \notin Denied
                   \/ /\ BundledBinds(slug, key)
                      /\ TermInverts(v, slug, key)
  IN IF allowed THEN slug ELSE key

\* The plan is made from what each censused key would be spelled as.
Spellings(v, named) == [k \in named |-> VetSlug(v, k)]

Spelled(spell) == {k \in DOMAIN spell : spell[k] # k}

\* an attribution key contests nobody: it takes a name that nobody asks for
Claims(spell, t) == {k \in Spelled(spell) \ Attribution : spell[k] = t}

Contested(spell, t) ==
  t \in DOMAIN spell \/ \E j, k \in Claims(spell, t) : j # k

Plain(spell) == {k \in Spelled(spell) \ Attribution : ~Contested(spell, spell[k])}

Degraded(spell) == Spelled(spell) \ (Attribution \cup Plain(spell))

\* of the attribution keys that would be spelled t, the one that comes first:
\* it is granted t before the others are asked (which comes first is not said)
FirstAsking(spell, t) == CHOOSE k \in Spelled(spell) \cap Attribution : spell[k] = t

Unyielding(spell) ==
  {k \in Spelled(spell) \cap Attribution :
     /\ Claims(spell, spell[k]) = {} /\ spell[k] \notin DOMAIN spell
     /\ k = FirstAsking(spell, spell[k])}

\* the suffixed spellings that nothing else answers to
Suffixes(spell, k) ==
  {s \in Disambiguated(spell[k], k) :
     /\ \A other \in Degraded(spell) \ {k} : s \notin Disambiguated(spell[other], other)
     /\ s \notin DOMAIN spell
     /\ \A other \in Plain(spell) \cup Unyielding(spell) : s # spell[other]
     /\ Claims(spell, s) = {}
     /\ ExactBundled(s) = {}}

PlanKeyTerms(spell) ==
  [k \in Spelled(spell) |->
     IF k \in Plain(spell) \cup Unyielding(spell) THEN spell[k]
     ELSE IF k \in Degraded(spell) /\ Suffixes(spell, k) # {}
          THEN CHOOSE s \in Suffixes(spell, k) : TRUE
     ELSE k]

----------------------------------------------------------------------------
(* A claim                                                                 *)

\* one key, one spelling: the plan's, or the vocabulary's for a key the plan
\* passes over, unless another key holds it
TermFor(v, key) ==
  LET term == IF key \in DOMAIN termPlan THEN termPlan[key] ELSE VetSlug(v, key)
      owned == {termByKey[k] : k \in DOMAIN termByKey}
  IN IF term # key /\ term \in owned \cup namedKeys THEN key ELSE term

ContestedPropertySpelling(v, term, key) ==
  v.scoped /\ Candidates(v, term) \ {key} # {}

\* mutants of OwesNothing: a table that does not know the term is trusted, and
\* the space's other claimants are not asked
OwesNothingIfInverted(v, term, key) ==
  /\ TermInverts(BundledVocabulary, term, key)
  /\ TermInverts(v, term, key)
  /\ ~ContestedPropertySpelling(v, term, key)

OwesNothingIfBound(v, term, key) ==
  BundledBinds(term, key) /\ TermInverts(v, term, key)

OwesNothing(v, term, key) ==
  /\ BundledBinds(term, key)
  /\ TermInverts(v, term, key)
  /\ ~ContestedPropertySpelling(v, term, key)

LegendEntryRefusal(term, key) ==
  term \notin Writable \/ key \notin Writable \/ key \in Denied

RecordPropertyKey(v, legend, term, key) ==
  IF OwesNothing(v, term, key) \/ LegendEntryRefusal(term, key) THEN legend
  ELSE Over([t \in {term} |-> key], legend)

----------------------------------------------------------------------------
Init ==
  /\ space \in DOMAIN Space /\ doc \in Documents[space]
  /\ phase = "opened"
  /\ namedKeys = {} /\ termPlan = <<>> /\ termByKey = <<>> /\ propertyKeys = <<>>
  /\ first = NoExport

SeedTermLedger ==
  /\ phase = "opened"
  /\ phase' = "claiming"
  /\ namedKeys' = Census(doc)
  /\ termPlan' = PlanKeyTerms(Spellings(VocabularyOf[space], namedKeys'))
  /\ UNCHANGED <<space, doc, termByKey, propertyKeys, first>>

PropertySlug(key) ==
  LET term == TermFor(VocabularyOf[space], key)
  IN /\ phase = "claiming"
     /\ key \in Written(doc) \ DOMAIN termByKey
     /\ termByKey' = Over([k \in {key} |-> term], termByKey)
     /\ propertyKeys' = RecordPropertyKey(VocabularyOf[space], propertyKeys, term, key)
     /\ UNCHANGED <<space, doc, phase, namedKeys, termPlan, first>>

Finish ==
  /\ phase = "claiming"
  /\ Written(doc) \subseteq DOMAIN termByKey
  /\ phase' = "written"
  /\ UNCHANGED <<space, doc, namedKeys, termPlan, termByKey, propertyKeys, first>>

\* import.go: what the document says, without the members an import drops
Imported(d) ==
  [details |-> Members(d) \ Attribution, slots |-> d.slots \cap Writable,
   unwritten |-> {}]

\* The document is imported where it was written, by a reader that finds each
\* key again, and the object it makes is exported.
ImportAndExport ==
  /\ phase = "written" /\ first = NoExport
  /\ \A k \in Written(doc) :
       ReadTerm(VocabularyOf[space], propertyKeys, {}, termByKey[k]) = {k}
  /\ first' = [terms |-> termByKey, legend |-> propertyKeys,
               unwritten |-> doc.unwritten]
  /\ phase' = "opened"
  /\ doc' = Imported(doc)
  /\ UNCHANGED space
  /\ namedKeys' = {} /\ termPlan' = <<>> /\ termByKey' = <<>> /\ propertyKeys' = <<>>

Done == phase = "written" /\ UNCHANGED vars

Next ==
  \/ SeedTermLedger
  \/ \E key \in Written(doc) : PropertySlug(key)
  \/ Finish
  \/ ImportAndExport
  \/ Done

Spec == Init /\ [][Next]_vars
============================================================================
