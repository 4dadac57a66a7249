------------------------- MODULE KeySpellingProofs -------------------------
(***************************************************************************)
(* A document's terms are read back as the keys they were written for, for *)
(* every space, document, shipped table and order of the claims.  A term   *)
(* either has its legend entry or is the shipped spelling of a bundled     *)
(* key; the second kind is followed through each reader's chain.           *)
(* And a second export of a space repeats the first.                       *)
(***************************************************************************)
EXTENDS KeySpellingSafety, TLAPS

V == VocabularyOf[space]

\* the export has the space's keys only, and the ledger is the census's
Ledger ==
  /\ space \in DOMAIN Space
  /\ doc.details \cup doc.slots \cup doc.unwritten \subseteq Bundled \cup DOMAIN Known(space)
  /\ phase = "opened" => termByKey = <<>> /\ propertyKeys = <<>>
  /\ phase # "opened" => namedKeys = Census(doc) /\ termPlan = PlanKeyTerms(Spellings(V, namedKeys))
  /\ DOMAIN termByKey \subseteq Written(doc)
  /\ phase = "written" => Written(doc) \subseteq DOMAIN termByKey

\* a term that is not its key avoids every key of the document
TermsAvoidKeys ==
  \A k \in DOMAIN termByKey :
    /\ termByKey[k] \in Writable
    /\ termByKey[k] # k => termByKey[k] \notin namedKeys
    /\ k \in Bundled => termByKey[k] \in {k, BundledSlug(k)}

TermsAreApart ==
  \A j, k \in DOMAIN termByKey : termByKey[j] = termByKey[k] => j = k

\* no entry only where none is owed
EntriesArePaid ==
  \A k \in DOMAIN termByKey \ Denied :
    termByKey[k] \in DOMAIN propertyKeys \/ OwesNothing(V, termByKey[k], k)

EntriesAreTrue ==
  \A t \in DOMAIN propertyKeys :
    \E k \in DOMAIN termByKey : termByKey[k] = t /\ propertyKeys[t] = k

SpellingInv ==
  Ledger /\ TermsAvoidKeys /\ TermsAreApart /\ EntriesArePaid /\ EntriesAreTrue

----------------------------------------------------------------------------
(* The shipped table                                                       *)

(***************************************************************************)
(* The shipped spelling of a bundled key is the key or its display name,   *)
(* in its only normal form, and a display name that is used is nobody's    *)
(* key and no other bundled key's name (bundledname.go, buildNameTables).  *)
(***************************************************************************)
LEMMA ShippedSpelling ==
  ASSUME NEW k \in Bundled
  PROVE  /\ BundledSlug(k) \in {k, BundledName[k]}
         /\ BundledSlug(k) # k =>
              /\ BundledSlug(k) \in NameOf[k] /\ BundledSlug(k) \notin Bundled
              /\ \A j \in Bundled : BundledSlug(k) \in NameOf[j] => j = k
<1>1. CASE NameOf[k] = {}
  BY <1>1 DEF BundledSlug
<1>2. CASE NameOf[k] # {}
  <2>1. BundledSlug(k) \in NameOf[k]
    BY <1>2 DEF BundledSlug
  <2>2. NameOf[k] \subseteq {BundledName[k]} \ Bundled
    BY NormalAssumption DEF NameOf, Claimed
  <2>3. \A j \in Bundled : \A t \in NameOf[k] : t \in NameOf[j] => j = k
    BY Zenon DEF NameOf
  <2> QED BY <2>1, <2>2, <2>3
<1> QED BY <1>1, <1>2

(***************************************************************************)
(* A legend answers as it states, and for a canonical form that is not in  *)
(* it only if that is the form of an entry that is not canonical           *)
(* (keyvocab.go, nfcExpandLegend).                                         *)
(***************************************************************************)
LEMMA LegendAnswers ==
  ASSUME NEW legend
  PROVE  /\ \A t \in DOMAIN legend :
              t \in DOMAIN Expanded(legend) /\ Expanded(legend)[t] = legend[t]
         /\ \A n \in DOMAIN Expanded(legend) \ DOMAIN legend :
              \E t \in DOMAIN legend : Nfc[t] = n /\ Nfc[t] # t
<1> DEFINE other == {t \in DOMAIN legend : Nfc[t] # t}
           lone == {t \in other : /\ Nfc[t] \notin DOMAIN legend
                                  /\ \A u \in other : Nfc[u] = Nfc[t] => u = t}
           shadow == [n \in {Nfc[t] : t \in lone} |->
                        legend[CHOOSE t \in lone : Nfc[t] = n]]
<1>1. Expanded(legend) = Over(legend, shadow)
  BY DEF Expanded
<1>2. DOMAIN shadow = {Nfc[t] : t \in lone}
  OBVIOUS
<1>3. Expanded(legend) = [t \in DOMAIN legend \cup DOMAIN shadow |->
                            IF t \in DOMAIN legend THEN legend[t] ELSE shadow[t]]
  BY <1>1 DEF Over
<1> HIDE DEF shadow
<1> QED BY <1>2, <1>3

(***************************************************************************)
(* The strings of the shipped table are in their normal form, and no other *)
(* entry of a legend answers for one of them.                              *)
(***************************************************************************)
LEMMA ShippedTermsArePlain ==
  ASSUME NEW k \in Bundled, NEW t \in {k, BundledSlug(k)}, NEW legend,
         DOMAIN legend \subseteq Terms, t \notin DOMAIN legend
  PROVE  t \in Terms /\ Nfc[t] = t /\ t \notin DOMAIN Expanded(legend)
<1>1. t \in {k, BundledName[k]}
  BY ShippedSpelling
<1>2. t \in Terms /\ Nfc[t] = t
  BY <1>1, NormalAssumption, TermsAssumption
<1>3. \A u \in Terms : Nfc[u] = t => Nfc[u] = u
  BY <1>1, NormalAssumption
<1> QED BY <1>2, <1>3, LegendAnswers

----------------------------------------------------------------------------
(* The spelling of a key                                                   *)

(***************************************************************************)
(* The vocabulary of an export spells a bundled key as the shipped table   *)
(* does, or verbatim, and a custom key is none of the bundled ones.        *)
(***************************************************************************)
LEMMA BundledSlugs ==
  ASSUME NEW s \in DOMAIN Space, NEW k \in Bundled
  PROVE  Slug(VocabularyOf[s], k) \in {k, BundledSlug(k)}
<1>1. DOMAIN Space[s].names \subseteq DOMAIN Known(s)
  BY DEF Known, Over
<1>2. k \notin DOMAIN Space[s].names
  BY <1>1, SpaceAssumption
<1>3. CASE ~Space[s].asked
  BY <1>3 DEF VocabularyOf, BundledVocabulary, Slug
<1>4. CASE Space[s].asked
  <2>1. VocabularyOf[s] = Store(Space[s].names, Space[s].first, Space[s].lists)
    BY <1>4 DEF VocabularyOf
  <2>2. DOMAIN Store(Space[s].names, Space[s].first, Space[s].lists).slug
          = Bundled \cup DOMAIN Space[s].names
    BY DEF Store
  <2>3. Store(Space[s].names, Space[s].first, Space[s].lists).slug[k] \in {k, BundledSlug(k)}
    BY <1>2 DEF Store
  <2> QED BY <2>1, <2>2, <2>3 DEF Slug
<1> QED BY <1>3, <1>4

(***************************************************************************)
(* Vetting and planning give a key a spelling that can be written, and a   *)
(* bundled key no spelling but the shipped one (vetSlug, planKeyTerms).    *)
(***************************************************************************)
LEMMA VettedSlugs ==
  ASSUME NEW s \in DOMAIN Space, NEW k \in Writable
  PROVE  /\ VetSlug(VocabularyOf[s], k) \in Writable
         /\ k \in Bundled => VetSlug(VocabularyOf[s], k) \in {k, BundledSlug(k)}
BY BundledSlugs DEF VetSlug

LEMMA PlannedTerms ==
  ASSUME NEW s \in DOMAIN Space, NEW named, NEW k \in Writable,
         k \in DOMAIN PlanKeyTerms(Spellings(VocabularyOf[s], named))
  PROVE  LET term == PlanKeyTerms(Spellings(VocabularyOf[s], named))[k]
         IN term \in Writable /\ (k \in Bundled => term \in {k, BundledSlug(k)})
<1> DEFINE spell == Spellings(VocabularyOf[s], named)
           vetted == VetSlug(VocabularyOf[s], k)
<1>1. k \in Spelled(spell)
  BY DEF PlanKeyTerms
<1>2. k \in named /\ spell[k] = vetted
  BY <1>1 DEF Spelled, Spellings
<1> HIDE DEF spell
<1>3. PlanKeyTerms(spell)[k] \in {k, spell[k]} \cup Disambiguated(spell[k], k)
  BY <1>1 DEF PlanKeyTerms, Suffixes
<1>4. Disambiguated(vetted, k) \subseteq Writable
  BY DEF Disambiguated
<1>5. k \in Bundled => Disambiguated(vetted, k) = {}
  BY TermsAssumption DEF Disambiguated
<1>6. /\ PlanKeyTerms(spell)[k] \in Writable
      /\ k \in Bundled => PlanKeyTerms(spell)[k] \in {k, BundledSlug(k)}
  BY <1>2, <1>3, <1>4, <1>5, VettedSlugs
<1> QED BY <1>6 DEF spell

(***************************************************************************)
(* The term of a claim: it can be written, it is the key or is nobody's,   *)
(* and a bundled key has the shipped spelling (propertySlug).              *)
(***************************************************************************)
LEMMA ClaimedTerm ==
  ASSUME SpellingInv, phase = "claiming", NEW key \in Written(doc)
  PROVE  /\ key \in Writable /\ TermFor(V, key) \in Writable
         /\ TermFor(V, key) # key =>
              /\ TermFor(V, key) \notin namedKeys
              /\ \A k \in DOMAIN termByKey : termByKey[k] # TermFor(V, key)
         /\ key \in Bundled => TermFor(V, key) \in {key, BundledSlug(key)}
<1>1. key \in Writable
  BY TermsAssumption DEF Written, Members
<1>2. space \in DOMAIN Space /\ termPlan = PlanKeyTerms(Spellings(VocabularyOf[space], namedKeys))
  BY DEF SpellingInv, Ledger, V
<1>3. CASE key \in DOMAIN termPlan
  BY <1>1, <1>2, <1>3, PlannedTerms DEF TermFor, V
<1>4. CASE key \notin DOMAIN termPlan
  BY <1>1, <1>2, <1>4, VettedSlugs DEF TermFor, V
<1> QED BY <1>1, <1>3, <1>4


----------------------------------------------------------------------------
(* The invariant                                                           *)

(***************************************************************************)
(* A claim keeps the terms apart: a term that is the key's own is nobody   *)
(* else's because others avoid the document's keys, any other is new.      *)
(***************************************************************************)
LEMMA ClaimKeepsTerms ==
  ASSUME SpellingInv, NEW key, PropertySlug(key)
  PROVE  TermsAvoidKeys' /\ TermsAreApart'
<1> DEFINE term == TermFor(V, key)
<1>1. /\ phase = "claiming" /\ key \in Written(doc) \ DOMAIN termByKey
      /\ termByKey' = Over([k \in {key} |-> term], termByKey)
      /\ namedKeys' = namedKeys
  BY DEF PropertySlug, V
<1>2. /\ DOMAIN termByKey' = {key} \cup DOMAIN termByKey
      /\ termByKey'[key] = term
      /\ \A k \in DOMAIN termByKey : k # key /\ termByKey'[k] = termByKey[k]
  BY <1>1 DEF Over
<1>3. /\ term \in Writable
      /\ term # key => term \notin namedKeys /\ \A k \in DOMAIN termByKey : termByKey[k] # term
      /\ key \in Bundled => term \in {key, BundledSlug(key)}
  BY <1>1, ClaimedTerm
<1>4. key \in namedKeys
  BY <1>1 DEF SpellingInv, Ledger, Written, Census
<1>5. \A k \in DOMAIN termByKey : termByKey[k] # term
  BY <1>2, <1>3, <1>4 DEF SpellingInv, TermsAvoidKeys
<1>6. TermsAvoidKeys'
  BY <1>1, <1>2, <1>3 DEF SpellingInv, TermsAvoidKeys
<1>7. TermsAreApart'
  BY <1>2, <1>5 DEF SpellingInv, TermsAreApart
<1> QED BY <1>6, <1>7

(***************************************************************************)
(* A claim pays its entry, and an entry names the key it was paid for      *)
(* (recordPropertyKey).                                                    *)
(***************************************************************************)
LEMMA ClaimKeepsEntries ==
  ASSUME SpellingInv, NEW key, PropertySlug(key)
  PROVE  EntriesArePaid' /\ EntriesAreTrue'
<1> DEFINE term == TermFor(V, key)
<1>1. /\ phase = "claiming" /\ key \in Written(doc) \ DOMAIN termByKey
      /\ termByKey' = Over([k \in {key} |-> term], termByKey)
      /\ propertyKeys' = RecordPropertyKey(V, propertyKeys, term, key)
      /\ V' = V
  BY DEF PropertySlug, V
<1>2. /\ DOMAIN termByKey' = {key} \cup DOMAIN termByKey
      /\ termByKey'[key] = term
      /\ \A k \in DOMAIN termByKey : k # key /\ termByKey'[k] = termByKey[k]
  BY <1>1 DEF Over
<1>3. key \in Writable /\ term \in Writable
  BY <1>1, ClaimedTerm
<1> HIDE DEF term
<1>4. CASE propertyKeys' = propertyKeys /\ (key \in Denied \/ OwesNothing(V, term, key))
  <2>1. EntriesAreTrue'
    BY <1>2, <1>4 DEF SpellingInv, EntriesAreTrue
  <2>2. \A k \in DOMAIN termByKey' \ Denied :
          termByKey'[k] \in DOMAIN propertyKeys \/ OwesNothing(V, termByKey'[k], k)
    BY <1>2, <1>4 DEF SpellingInv, EntriesArePaid
  <2> QED BY <1>1, <1>4, <2>1, <2>2 DEF EntriesArePaid, OwesNothing
<1>5. CASE propertyKeys' = Over([t \in {term} |-> key], propertyKeys)
  <2>1. /\ DOMAIN propertyKeys' = {term} \cup DOMAIN propertyKeys
        /\ propertyKeys'[term] = key
        /\ \A t \in DOMAIN propertyKeys \ {term} : propertyKeys'[t] = propertyKeys[t]
    BY <1>5 DEF Over
  <2>2. EntriesAreTrue'
    BY <1>2, <2>1 DEF SpellingInv, EntriesAreTrue
  <2>3. \A k \in DOMAIN termByKey' \ Denied :
          termByKey'[k] \in DOMAIN propertyKeys' \/ OwesNothing(V, termByKey'[k], k)
    BY <1>2, <2>1 DEF SpellingInv, EntriesArePaid
  <2> QED BY <1>1, <2>2, <2>3 DEF EntriesArePaid, OwesNothing
<1>6. \/ propertyKeys' = propertyKeys /\ (key \in Denied \/ OwesNothing(V, term, key))
      \/ propertyKeys' = Over([t \in {term} |-> key], propertyKeys)
  BY <1>1, <1>3 DEF RecordPropertyKey, LegendEntryRefusal
<1> QED BY <1>4, <1>5, <1>6

(***************************************************************************)
(* The invariant holds from the first claim to the end of the second       *)
(* export.                                                                 *)
(***************************************************************************)
LEMMA SpellingInvariant == Spec => []SpellingInv
<1>1. Init => SpellingInv
  <2> SUFFICES ASSUME Init PROVE SpellingInv
    OBVIOUS
  <2>1. DOMAIN termByKey = {} /\ DOMAIN propertyKeys = {}
    BY DEF Init
  <2>2. Ledger
    BY <2>1, SpaceAssumption DEF Init, Ledger
  <2> QED
    BY <2>1, <2>2
    DEF SpellingInv, TermsAvoidKeys, TermsAreApart, EntriesArePaid, EntriesAreTrue
<1>2. SpellingInv /\ [Next]_vars => SpellingInv'
  <2> SUFFICES ASSUME SpellingInv, [Next]_vars PROVE SpellingInv'
    OBVIOUS
  <2>1. CASE SeedTermLedger
    <3>1. /\ phase = "opened" /\ phase' = "claiming" /\ namedKeys' = Census(doc)
          /\ termPlan' = PlanKeyTerms(Spellings(V, namedKeys'))
          /\ space' = space /\ doc' = doc /\ V' = V
          /\ termByKey' = termByKey /\ propertyKeys' = propertyKeys
      BY <2>1 DEF SeedTermLedger, V
    <3>2. DOMAIN termByKey = {} /\ DOMAIN propertyKeys = {}
      BY <3>1 DEF SpellingInv, Ledger
    <3>3. Ledger'
      BY <3>1 DEF SpellingInv, Ledger, Census, Written, Members, Known
    <3> QED
      BY <3>1, <3>2, <3>3
      DEF SpellingInv, TermsAvoidKeys, TermsAreApart, EntriesArePaid, EntriesAreTrue
  <2>2. ASSUME NEW key, PropertySlug(key) PROVE SpellingInv'
    <3>1. /\ phase = "claiming" /\ phase' = phase /\ key \in Written(doc) \ DOMAIN termByKey
          /\ space' = space /\ doc' = doc /\ V' = V
          /\ namedKeys' = namedKeys /\ termPlan' = termPlan
          /\ DOMAIN termByKey' = {key} \cup DOMAIN termByKey
      BY <2>2 DEF PropertySlug, V, Over
    <3>2. Ledger'
      BY <3>1 DEF SpellingInv, Ledger, Census, Written, Members, Known
    <3> QED BY <2>2, <3>2, ClaimKeepsTerms, ClaimKeepsEntries DEF SpellingInv
  <2>3. CASE Finish
    <3>1. /\ phase = "claiming" /\ phase' = "written" /\ Written(doc) \subseteq DOMAIN termByKey
          /\ space' = space /\ doc' = doc /\ V' = V
          /\ namedKeys' = namedKeys /\ termPlan' = termPlan
          /\ termByKey' = termByKey /\ propertyKeys' = propertyKeys
      BY <2>3 DEF Finish, V
    <3>2. Ledger'
      BY <3>1 DEF SpellingInv, Ledger, Census, Written, Members, Known
    <3> QED
      BY <3>1, <3>2
      DEF SpellingInv, TermsAvoidKeys, TermsAreApart, EntriesArePaid, EntriesAreTrue, OwesNothing
  <2>4. CASE ImportAndExport
    <3>1. /\ phase' = "opened" /\ space' = space /\ doc' = Imported(doc)
          /\ termByKey' = <<>> /\ propertyKeys' = <<>>
      BY <2>4 DEF ImportAndExport
    <3>2. DOMAIN termByKey' = {} /\ DOMAIN propertyKeys' = {}
      BY <3>1
    <3>3. doc'.details \cup doc'.slots \cup doc'.unwritten \subseteq Bundled \cup DOMAIN Known(space)
      BY <3>1 DEF SpellingInv, Ledger, Imported, Members
    <3>4. Ledger'
      BY <3>1, <3>2, <3>3 DEF SpellingInv, Ledger, Known
    <3> QED
      BY <3>2, <3>4
      DEF SpellingInv, TermsAvoidKeys, TermsAreApart, EntriesArePaid, EntriesAreTrue
  <2>5. CASE UNCHANGED vars
    BY <2>5
    DEF vars, SpellingInv, Ledger, TermsAvoidKeys, TermsAreApart, EntriesArePaid, EntriesAreTrue,
        OwesNothing, V, Census, Written, Members, Known
  <2>6. CASE Done
    BY <2>5, <2>6 DEF Done
  <2> QED BY <2>1, <2>2, <2>3, <2>4, <2>5, <2>6 DEF Next
<1> QED BY <1>1, <1>2, PTL DEF Spec

----------------------------------------------------------------------------
(* The readers                                                             *)

\* what is left of a reader's chain for a canonical term no legend answers
Chain(v, scope, t) ==
  LET named == Candidates(v, t)
      placed == named \cap scope
  IN IF ~v.scoped THEN {KeyOf(v, t)}
     ELSE IF t \in v.live THEN {t}
     ELSE IF named = {} THEN {KeyOf(v, t)}
     ELSE IF \E k \in named : named = {k} THEN named
     ELSE {k \in placed : placed = {k}}

\* a term of a bundled key that no entry settles
Shipped(t, k) ==
  /\ k \in Bundled /\ t \in {k, BundledSlug(k)}
  /\ BundledBound(t) = {k}

(***************************************************************************)
(* A term with an entry is read by it, whoever reads.                      *)
(***************************************************************************)
LEMMA StatedTerm ==
  ASSUME SpellingInv, phase = "written", NEW k \in Written(doc),
         termByKey[k] \in DOMAIN propertyKeys, NEW v, NEW scope
  PROVE  ReadTerm(v, propertyKeys, scope, termByKey[k]) = {k}
<1>1. k \in DOMAIN termByKey
  BY DEF SpellingInv, Ledger
<1>2. propertyKeys[termByKey[k]] = k
  BY <1>1 DEF SpellingInv, EntriesAreTrue, TermsAreApart
<1> QED BY <1>2, LegendAnswers DEF ReadTerm

(***************************************************************************)
(* A term without one is a bundled key's shipped spelling that the export  *)
(* found uncontested, and a reader takes it down the rest of its chain.    *)
(***************************************************************************)
LEMMA UnstatedTerm ==
  ASSUME SpellingInv, phase = "written", NEW k \in Written(doc) \ Denied,
         termByKey[k] \notin DOMAIN propertyKeys
  PROVE  /\ Shipped(termByKey[k], k) /\ OwesNothing(V, termByKey[k], k)
         /\ Nfc[termByKey[k]] = termByKey[k]
         /\ \A v, scope : ReadTerm(v, propertyKeys, scope, termByKey[k])
                             = Chain(v, scope, termByKey[k])
<1> DEFINE t == termByKey[k]
<1>1. k \in DOMAIN termByKey /\ OwesNothing(V, t, k)
  BY DEF SpellingInv, Ledger, EntriesArePaid
<1>2. BundledBound(t) = {k}
  BY <1>1 DEF OwesNothing, BundledBinds
<1>3. k \in Bundled
  BY <1>2, TermsAssumption DEF BundledBound, ExactBundled, FoldClass
<1>4. t \in {k, BundledSlug(k)}
  BY <1>1, <1>3 DEF SpellingInv, TermsAvoidKeys
<1>5. DOMAIN propertyKeys \subseteq Terms
  BY TermsAssumption DEF SpellingInv, EntriesAreTrue, TermsAvoidKeys
<1>6. Nfc[t] = t /\ t \notin DOMAIN Expanded(propertyKeys)
  BY <1>3, <1>4, <1>5, ShippedTermsArePlain
<1> HIDE DEF t
<1>7. \A v, scope : ReadTerm(v, propertyKeys, scope, t) = Chain(v, scope, t)
  BY <1>6 DEF ReadTerm, Chain
<1> QED BY <1>1, <1>2, <1>3, <1>4, <1>6, <1>7 DEF Shipped, t

(***************************************************************************)
(* A reader that knows the shipped table only (keyvocab.go).               *)
(***************************************************************************)
LEMMA TableReads ==
  ASSUME NEW t \in Terms, NEW k, Shipped(t, k), NEW scope
  PROVE  Chain(BundledVocabulary, scope, t) = {k} /\ Candidates(BundledVocabulary, t) = {}
<1>1. Candidates(BundledVocabulary, t) = {}
  BY DEF Candidates, BundledVocabulary
<1>2. Answer(BundledVocabulary, t) = {k}
  BY <1>1 DEF Answer, Shipped, BundledVocabulary
<1>3. KeyOf(BundledVocabulary, t) = k
  BY <1>2 DEF KeyOf
<1>4. ~BundledVocabulary.scoped
  BY DEF BundledVocabulary
<1> QED BY <1>1, <1>3, <1>4 DEF Chain

(***************************************************************************)
(* The space that wrote the document: its vocabulary inverts the term and  *)
(* lists no other key for it.                                              *)
(***************************************************************************)
LEMMA OwnSpaceReads ==
  ASSUME NEW s \in DOMAIN Space, NEW t \in Terms, NEW k, Shipped(t, k),
         OwesNothing(VocabularyOf[s], t, k), NEW scope
  PROVE  Chain(VocabularyOf[s], scope, t) = {k}
<1>1. CASE ~Space[s].asked
  BY <1>1, TableReads DEF VocabularyOf
<1>2. CASE Space[s].asked
  <2> DEFINE v == VocabularyOf[s]
  <2>1. v = Store(Space[s].names, Space[s].first, Space[s].lists)
    BY <1>2 DEF VocabularyOf
  <2>2. v.scoped /\ v.stored = v.live
    BY <2>1 DEF Store
  <2>3. KeyOf(v, t) = k /\ Candidates(v, t) \subseteq {k}
    BY <2>2 DEF OwesNothing, TermInverts, ContestedPropertySpelling
  <2> HIDE DEF v
  <2>4. ASSUME t \in v.live PROVE Chain(v, scope, t) = {k}
    <3>1. t = k
      BY <2>2, <2>3, <2>4 DEF KeyOf, Answer
    <3> QED BY <2>2, <2>4, <3>1 DEF Chain
  <2>5. ASSUME t \notin v.live PROVE Chain(v, scope, t) = {k}
    <3>1. Candidates(v, t) = {} \/ Candidates(v, t) = {k}
      BY <2>3
    <3>2. CASE Candidates(v, t) = {}
      BY <2>2, <2>3, <2>5, <3>2 DEF Chain
    <3>3. CASE Candidates(v, t) = {k}
      BY <2>2, <2>5, <3>3 DEF Chain
    <3> QED BY <3>1, <3>2, <3>3
  <2> QED BY <2>4, <2>5 DEF v
<1> QED BY <1>1, <1>2

(***************************************************************************)
(* A reader that plans from a dictionary that has the key: the dictionary  *)
(* spells a bundled key as the shipped table does (authoringtypes.go).     *)
(***************************************************************************)
LEMMA PlanReads ==
  ASSUME NEW entries, NEW t \in Terms, NEW k, Shipped(t, k), k \in DOMAIN entries,
         t \in Bundled \/ t \notin DOMAIN entries, NEW scope
  PROVE  Chain(Planned(entries), scope, t) = {k}
<1> DEFINE v == Planned(entries)
           spelled == {j \in DOMAIN entries \cap Bundled : BundledSlug(j) # j}
<1>1. /\ v.scoped /\ v.live = Bundled \cup (DOMAIN entries \ Bundled)
      /\ v.said = [u \in {BundledSlug(j) : j \in spelled} |->
                     CHOOSE j \in spelled : BundledSlug(j) = u]
  BY DEF Planned
<1>2. CASE t \in Bundled
  <2>1. t = k
    BY <1>2, ShippedSpelling DEF Shipped
  <2> QED BY <1>1, <1>2, <2>1 DEF Chain
<1>3. CASE t \notin Bundled
  <2>1. t = BundledSlug(k) /\ t # k /\ k \in spelled /\ t \in NameOf[k]
    BY <1>3, ShippedSpelling DEF Shipped
  <2>2. \A j \in spelled : BundledSlug(j) = t => j = k
    BY <2>1, ShippedSpelling DEF Shipped
  <2>3. t \in DOMAIN v.said /\ v.said[t] = k
    BY <1>1, <2>1, <2>2
  <2>4. Candidates(v, t) = {k} /\ t \notin v.live
    BY <1>1, <1>3, <2>3 DEF Candidates
  <2> HIDE DEF v
  <2>5. Chain(v, scope, t) = {k}
    BY <1>1, <2>4 DEF Chain
  <2> QED BY <2>5 DEF v
<1> QED BY <1>2, <1>3

(***************************************************************************)
(* Another space, which lists the shipped table's binding among its own    *)
(* claimants: it finds the key, or two claimants and refuses.              *)
(***************************************************************************)
LEMMA OtherSpaceReads ==
  ASSUME NEW s \in DOMAIN Space, Space[s].lists, NEW t \in Terms, NEW k, Shipped(t, k)
  PROVE  Chain(VocabularyOf[s], {}, t) \subseteq {k}
<1>1. CASE ~Space[s].asked
  BY <1>1, TableReads DEF VocabularyOf
<1>2. CASE Space[s].asked
  <2> DEFINE v == VocabularyOf[s]
  <2>1. v = Store(Space[s].names, Space[s].first, Space[s].lists)
    BY <1>2 DEF VocabularyOf
  <2>2. /\ v.scoped /\ v.live = Bundled \cup DOMAIN Space[s].names
        /\ DOMAIN v.said = {} /\ v.lists
    BY <2>1 DEF Store
  <2>3. t \in {k, BundledName[k]} /\ k \in Bundled
    BY ShippedSpelling DEF Shipped
  <2>4. t \notin DOMAIN Space[s].names
    BY <2>3, SpaceAssumption DEF Known, Over
  <2>5. CASE t \in Bundled
    <3>1. t = k
      BY <2>5, ShippedSpelling DEF Shipped
    <3> HIDE DEF v
    <3> QED BY <2>2, <2>5, <3>1 DEF Chain, v
  <2>6. CASE t \notin Bundled
    <3>1. k \in ExactBundled(t)
      BY <2>6, ShippedSpelling DEF Shipped, ExactBundled
    <3>2. k \in Candidates(v, t) /\ t \notin v.live
      BY <2>2, <2>4, <2>6, <3>1 DEF Candidates
    <3> HIDE DEF v
    <3> QED BY <2>2, <3>2 DEF Chain, v
  <2> QED BY <2>5, <2>6
<1> QED BY <1>1, <1>2

----------------------------------------------------------------------------
(* What the readers make of a term                                         *)

(***************************************************************************)
(* The dictionaries a document travels in have its keys, and no key of     *)
(* theirs is a bundled key's display name.                                 *)
(***************************************************************************)
LEMMA DictionariesHaveTheKeys ==
  ASSUME SpellingInv, NEW e \in Dictionaries(space, Written(doc)),
         NEW k \in Written(doc), NEW t, Shipped(t, k)
  PROVE  k \in e /\ (t \in Bundled \/ t \notin e)
<1>1. e \subseteq Written(doc) \cup DOMAIN Known(space) \cup Bundled /\ k \in e
  BY DEF Dictionaries
<1>2. Written(doc) \subseteq Bundled \cup DOMAIN Known(space)
  BY TermsAssumption DEF SpellingInv, Ledger, Written, Members
<1>3. t \in Bundled \/ t = BundledName[k]
  BY ShippedSpelling DEF Shipped
<1>4. BundledName[k] \notin DOMAIN Known(space)
  BY SpaceAssumption DEF Shipped, SpellingInv, Ledger
<1> QED BY <1>1, <1>2, <1>3, <1>4

(***************************************************************************)
(* Every reader the document was written for finds the key.                *)
(***************************************************************************)
LEMMA OwnReadersFindTheKey ==
  ASSUME SpellingInv, phase = "written", NEW k \in Written(doc) \ Denied,
         NEW answer \in OwnAnswers(k)
  PROVE  answer = {k}
<1> DEFINE t == termByKey[k]
           read(v, scope) == ReadTerm(v, propertyKeys, scope, t)
           plans == {PlanOf(space, e) : e \in Dictionaries(space, Written(doc))}
<1>1. \E v \in {BundledVocabulary, V} \cup plans : \E scope : answer = read(v, scope)
  BY Zenon DEF OwnAnswers, Answers, Unscoped, V
<1>2. CASE t \in DOMAIN propertyKeys
  BY <1>1, <1>2, StatedTerm
<1>3. CASE t \notin DOMAIN propertyKeys
  <2>1. /\ Shipped(t, k) /\ OwesNothing(V, t, k)
        /\ \A v, scope : read(v, scope) = Chain(v, scope, t)
    BY <1>3, UnstatedTerm
  <2>2. space \in DOMAIN Space /\ t \in Terms
    BY TermsAssumption DEF SpellingInv, Ledger, TermsAvoidKeys
  <2> HIDE DEF t, read
  <2>3. \A scope : Chain(BundledVocabulary, scope, t) = {k}
    BY <2>1, <2>2, TableReads
  <2>4. \A scope : Chain(V, scope, t) = {k}
    BY <2>1, <2>2, OwnSpaceReads DEF V
  <2>5. \A plan \in plans : \A scope : Chain(plan, scope, t) = {k}
    <3> SUFFICES ASSUME NEW e \in Dictionaries(space, Written(doc)), NEW scope
                 PROVE  Chain(PlanOf(space, e), scope, t) = {k}
      OBVIOUS
    <3>1. k \in e /\ (t \in Bundled \/ t \notin e)
      BY <2>1, DictionariesHaveTheKeys
    <3> DEFINE entries == [j \in e |-> Over(Known(space), BundledName)[j]]
    <3>2. DOMAIN entries = e
      OBVIOUS
    <3> HIDE DEF entries
    <3>3. Chain(Planned(entries), scope, t) = {k}
      BY <2>1, <2>2, <3>1, <3>2, PlanReads
    <3> QED BY <3>3 DEF PlanOf, entries
  <2> QED BY <1>1, <2>1, <2>3, <2>4, <2>5
<1> QED BY <1>2, <1>3

(***************************************************************************)
(* Another space finds the key or refuses the document.                    *)
(***************************************************************************)
LEMMA OtherSpacesFindNoOtherKey ==
  ASSUME SpellingInv, phase = "written", NEW k \in Written(doc) \ Denied,
         NEW answer \in ForeignAnswers(k)
  PROVE  answer \subseteq {k}
<1> DEFINE t == termByKey[k]
<1>1. PICK s \in DOMAIN Space :
        Space[s].lists /\ answer = ReadTerm(VocabularyOf[s], propertyKeys, {}, t)
  BY DEF ForeignAnswers, Elsewhere, Unscoped
<1>2. CASE t \in DOMAIN propertyKeys
  BY <1>1, <1>2, StatedTerm
<1>3. CASE t \notin DOMAIN propertyKeys
  <2>1. Shipped(t, k) /\ answer = Chain(VocabularyOf[s], {}, t)
    BY <1>1, <1>3, UnstatedTerm
  <2>2. t \in Terms
    BY TermsAssumption DEF SpellingInv, Ledger, TermsAvoidKeys
  <2> QED BY <1>1, <2>1, <2>2, OtherSpaceReads
<1> QED BY <1>2, <1>3

(***************************************************************************)
(* A term a reader understands names the key it was written for, for every *)
(* shipped table, space, document, dictionary and order of the claims      *)
(* (export.go, recordPropertyKey; import.go, propertyKeyIn).               *)
(***************************************************************************)
THEOREM TermsReturn == Spec => []TermsComeBack
<1>1. SpellingInv => TermsComeBack
  BY OwnReadersFindTheKey, OtherSpacesFindNoOtherKey DEF TermsComeBack
<1> QED BY <1>1, SpellingInvariant, PTL

(***************************************************************************)
(* The shipped table's reader, the writer's space and every plan of the    *)
(* document's bundle understand each of its terms (export.go,              *)
(* contestedPropertySpelling).                                             *)
(***************************************************************************)
THEOREM OwnDocumentsRead == Spec => []OwnDocumentsAreRead
<1>1. SpellingInv => OwnDocumentsAreRead
  BY OwnReadersFindTheKey DEF OwnDocumentsAreRead
<1> QED BY <1>1, SpellingInvariant, PTL

-----------------------------------------------------------------------------
(***************************************************************************)
(* An export repeats itself.  The plan of a census gives each key a term   *)
(* of its own, so that a claim never has to fall back and the order of the *)
(* claims does not matter; and the keys that the second census no longer   *)
(* holds have no part in the plan of the others.                           *)
(***************************************************************************)
\* what the plan makes of a censused key
PlannedTerm(spell, k) ==
  IF k \in Spelled(spell) THEN PlanKeyTerms(spell)[k] ELSE k

----------------------------------------------------------------------------
(* The plan of a census                                                    *)

(***************************************************************************)
(* No planned term is a censused key, and none is planned twice            *)
(* (planKeyTerms).                                                         *)
(***************************************************************************)
LEMMA PlanKeepsTermsApart ==
  ASSUME NEW spell,
         NEW k \in DOMAIN spell, PlannedTerm(spell, k) # k
  PROVE  /\ PlannedTerm(spell, k) \notin DOMAIN spell
         /\ \A j \in DOMAIN spell :
              PlannedTerm(spell, j) = PlannedTerm(spell, k) => j = k
<1> DEFINE direct == Plain(spell) \cup Unyielding(spell)
           term(i) == PlannedTerm(spell, i)
           Suffixing(i) == i \in Degraded(spell) /\ term(i) \in Suffixes(spell, i)
<1>1. \A i \in DOMAIN spell :
        term(i) # i => \/ i \in direct /\ term(i) = spell[i] /\ i \in Spelled(spell)
                       \/ Suffixing(i)
  BY DEF PlannedTerm, PlanKeyTerms
<1>2. \A i \in direct : spell[i] \notin DOMAIN spell
  BY DEF Plain, Unyielding, Contested
<1>3. \A i \in DOMAIN spell : Suffixing(i) => term(i) \notin DOMAIN spell
  BY DEF Suffixes
<1>4. \A i \in DOMAIN spell : term(i) # i => term(i) \notin DOMAIN spell
  BY <1>1, <1>2, <1>3
<1>5. ASSUME NEW j \in DOMAIN spell, term(j) = term(k) PROVE j = k
  <2>1. term(j) # j
    BY <1>4, <1>5
  <2>2. CASE j \in direct /\ k \in direct /\ term(j) = spell[j] /\ term(k) = spell[k]
    <3>1. CASE j \in Plain(spell) /\ k \in Plain(spell)
      BY <1>5, <2>2, <3>1 DEF Plain, Contested, Claims
    <3>2. CASE j \in Unyielding(spell) /\ k \in Unyielding(spell)
      BY <1>5, <2>2, <3>2 DEF Unyielding
    <3>3. CASE j \in Plain(spell) /\ k \in Unyielding(spell)
      BY <1>5, <2>2, <3>3 DEF Plain, Unyielding, Claims
    <3>4. CASE k \in Plain(spell) /\ j \in Unyielding(spell)
      BY <1>5, <2>2, <3>4 DEF Plain, Unyielding, Claims
    <3> QED BY <2>2, <3>1, <3>2, <3>3, <3>4
  <2>3. CASE Suffixing(j) /\ k \in direct /\ term(k) = spell[k]
    BY <1>5, <2>3 DEF Suffixes
  <2>4. CASE Suffixing(k) /\ j \in direct /\ term(j) = spell[j]
    BY <1>5, <2>4 DEF Suffixes
  <2>5. CASE Suffixing(j) /\ Suffixing(k)
    BY <1>5, <2>5 DEF Suffixes
  <2> QED BY <1>1, <2>1, <2>2, <2>3, <2>4, <2>5
<1> QED BY <1>4, <1>5

(***************************************************************************)
(* Keys that are spelled verbatim or yield, and that no other key's        *)
(* spelling could be, may leave the census: the others keep their terms.   *)
(***************************************************************************)
LEMMA PlanIgnoresTheDeparted ==
  ASSUME NEW spell, NEW fewer, DOMAIN fewer \subseteq DOMAIN spell,
         \A k \in DOMAIN fewer : fewer[k] = spell[k],
         NEW departed, departed = DOMAIN spell \ DOMAIN fewer,
         \A k \in departed : k \in Attribution \/ spell[k] = k,
         \A j, k \in Spelled(spell) \cap Attribution : spell[j] = spell[k] => j = k,
         \A k \in departed : spell[k] # k => ExactBundled(spell[k]) # {},
         \A k \in Spelled(fewer) :
           {spell[k]} \cup Disambiguated(spell[k], k) \subseteq Terms \ departed,
         NEW k \in DOMAIN fewer
  PROVE  PlannedTerm(fewer, k) = PlannedTerm(spell, k)
<1>1. /\ Spelled(fewer) = Spelled(spell) \ departed
      /\ Spelled(fewer) \ Attribution = Spelled(spell) \ Attribution
  BY DEF Spelled
<1>2. \A t : Claims(fewer, t) = Claims(spell, t)
  BY <1>1 DEF Claims, Spelled
<1>3. \A j \in Spelled(fewer) : Contested(fewer, fewer[j]) <=> Contested(spell, spell[j])
  BY <1>2 DEF Contested, Spelled
<1>4. Plain(fewer) = Plain(spell)
  BY <1>1, <1>3 DEF Plain
<1>5. Unyielding(fewer) = Unyielding(spell) \ departed
  <2>1. /\ \A j \in Spelled(spell) \cap Attribution : j = FirstAsking(spell, spell[j])
        /\ \A j \in Spelled(fewer) \cap Attribution : j = FirstAsking(fewer, fewer[j])
    BY <1>1 DEF FirstAsking, Spelled
  <2> QED BY <1>1, <1>2, <2>1 DEF Unyielding, Spelled
<1>6. Degraded(fewer) = Degraded(spell)
  BY <1>1, <1>4 DEF Degraded
<1>7. \A j \in Degraded(fewer) : j \in DOMAIN fewer /\ fewer[j] = spell[j]
  BY DEF Degraded, Spelled
<1>8. \A j \in Unyielding(spell) \cap departed : ExactBundled(spell[j]) # {}
  BY DEF Unyielding, Spelled
<1>9. ASSUME k \in Degraded(fewer) PROVE Suffixes(fewer, k) = Suffixes(spell, k)
  <2>1. k \in Spelled(fewer) /\ fewer[k] = spell[k]
    BY <1>9 DEF Degraded
  <2> SUFFICES ASSUME NEW s \in Disambiguated(spell[k], k)
               PROVE  s \in Suffixes(fewer, k) <=> s \in Suffixes(spell, k)
    BY <2>1 DEF Suffixes
  <2>2. s \in DOMAIN fewer <=> s \in DOMAIN spell
    BY <2>1
  <2>3. (\E j \in Degraded(fewer) \ {k} : s \in Disambiguated(fewer[j], j))
          <=> (\E j \in Degraded(spell) \ {k} : s \in Disambiguated(spell[j], j))
    BY <1>6, <1>7
  <2>4. (\E j \in Plain(fewer) \cup Unyielding(fewer) : s = fewer[j])
          => \E j \in Plain(spell) \cup Unyielding(spell) : s = spell[j]
    BY <1>4, <1>5 DEF Plain, Unyielding, Spelled
  <2>5. ExactBundled(s) = {} /\ (\E j \in Plain(spell) \cup Unyielding(spell) : s = spell[j])
          => \E j \in Plain(fewer) \cup Unyielding(fewer) : s = fewer[j]
    BY <1>4, <1>5, <1>8 DEF Plain, Unyielding, Spelled
  <2> QED BY <1>2, <2>1, <2>2, <2>3, <2>4, <2>5 DEF Suffixes
<1>10. CASE k \in Plain(fewer) \cup Unyielding(fewer)
  BY <1>1, <1>4, <1>5, <1>10 DEF PlannedTerm, PlanKeyTerms, Plain, Unyielding
<1>11. CASE k \notin Plain(fewer) \cup Unyielding(fewer) /\ k \in Degraded(fewer)
  BY <1>1, <1>4, <1>5, <1>6, <1>9, <1>11 DEF PlannedTerm, PlanKeyTerms
<1>12. CASE k \notin Plain(fewer) \cup Unyielding(fewer) /\ k \notin Degraded(fewer)
  BY <1>1, <1>4, <1>5, <1>6, <1>12 DEF PlannedTerm, PlanKeyTerms
<1> QED BY <1>10, <1>11, <1>12

----------------------------------------------------------------------------
(* The spellings of a census                                               *)

(***************************************************************************)
(* A space grants a custom key no live stored key as its name, so that no  *)
(* spelling of another key is a bundled key (rawnames_test.go, nameVocab). *)
(***************************************************************************)
LEMMA GrantedNamesAreFree ==
  ASSUME NEW names, NEW k
  PROVE  Granted(names, k) \cap (Bundled \cup DOMAIN names) = {}
<1> DEFINE live == Bundled \cup DOMAIN names
           label == {n \in {Nfc[names[k]]} : n \in Writable /\ n # k /\ n \notin Envelope}
           suffixed == UNION {Disambiguated(n, k) : n \in label}
<1>0. Granted(names, k) = IF label \subseteq live THEN suffixed \ live ELSE label
  BY Zenon DEF Granted
<1> HIDE DEF suffixed
<1>1. CASE label \subseteq live
  BY <1>0, <1>1
<1>2. CASE ~(label \subseteq live)
  <2>1. Granted(names, k) = label
    BY <1>0, <1>2
  <2>2. PICK n \in label : n \notin live
    BY <1>2
  <2>3. label = {n}
    BY <2>2
  <2> QED BY <2>1, <2>2, <2>3
<1> QED BY <1>1, <1>2

LEMMA SpellingsAvoidTheBundled ==
  ASSUME NEW s \in DOMAIN Space, NEW k \in Bundled \cup DOMAIN Known(s),
         VetSlug(VocabularyOf[s], k) # k
  PROVE  /\ k \in Writable /\ VetSlug(VocabularyOf[s], k) \in Writable \ Bundled
         /\ k \in Bundled => VetSlug(VocabularyOf[s], k) = BundledSlug(k)
<1> DEFINE slug == Slug(VocabularyOf[s], k)
<1>1. VetSlug(VocabularyOf[s], k) = slug /\ slug \in Writable /\ k \in Writable
  BY DEF VetSlug
<1>2. CASE k \in Bundled
  BY <1>1, <1>2, BundledSlugs, ShippedSpelling
<1>3. CASE k \notin Bundled
  <2>1. BundledSlug(k) = k
    BY <1>3 DEF BundledSlug
  <2>2. CASE ~Space[s].asked
    BY <1>1, <2>1, <2>2 DEF VocabularyOf, BundledVocabulary, Slug
  <2>3. CASE Space[s].asked
    <3> DEFINE names == Space[s].names
               store == Store(names, Space[s].first, Space[s].lists)
    <3>1. VocabularyOf[s] = store
      BY <2>3 DEF VocabularyOf
    <3>2. DOMAIN store.slug = Bundled \cup DOMAIN names
      BY DEF Store
    <3>3. CASE k \notin DOMAIN names
      BY <1>1, <1>3, <2>1, <3>1, <3>2, <3>3 DEF Slug
    <3>4. CASE k \in DOMAIN names
      <4>1. store.slug[k] \in Granted(names, k) \cup {k}
        BY <1>3, <3>4 DEF Store
      <4>2. slug = store.slug[k]
        BY <3>1, <3>2, <3>4 DEF Slug
      <4> QED BY <1>1, <1>3, <4>1, <4>2, GrantedNamesAreFree
    <3> QED BY <3>3, <3>4
  <2> QED BY <2>2, <2>3
<1> QED BY <1>2, <1>3

(***************************************************************************)
(* The attribution keys have names of their own, as bundled keys have.     *)
(***************************************************************************)
LEMMA AttributionSpellingsAreApart ==
  ASSUME NEW s \in DOMAIN Space, NEW named \in SUBSET (Bundled \cup DOMAIN Known(s))
  PROVE  LET spell == Spellings(VocabularyOf[s], named)
         IN \A j, k \in Spelled(spell) \cap Attribution : spell[j] = spell[k] => j = k
<1> DEFINE v == VocabularyOf[s]
           spell == Spellings(v, named)
<1> SUFFICES ASSUME NEW j \in Spelled(spell) \cap Attribution,
                    NEW k \in Spelled(spell) \cap Attribution, spell[j] = spell[k]
             PROVE  j = k
  OBVIOUS
<1>1. j \in named /\ k \in named /\ VetSlug(v, j) # j /\ VetSlug(v, k) # k
      /\ VetSlug(v, j) = VetSlug(v, k)
  BY DEF Spelled, Spellings
<1>2. j \in Bundled /\ k \in Bundled
  BY TermsAssumption
<1>3. VetSlug(v, j) = BundledSlug(j) /\ VetSlug(v, k) = BundledSlug(k)
  BY <1>1, <1>2, SpellingsAvoidTheBundled
<1> QED BY <1>1, <1>2, <1>3, ShippedSpelling

----------------------------------------------------------------------------
(* The census of the second export                                         *)

SpaceKeys(d) == d.details \cup d.slots \cup d.unwritten \subseteq Bundled \cup DOMAIN Known(space)

TermIn(d, k) == PlannedTerm(Spellings(V, Census(d)), k)

(***************************************************************************)
(* The second census lacks only keys that yield or cannot be written, and  *)
(* gives every key it has the term of the first (seedTermLedger).          *)
(***************************************************************************)
LEMMA SecondPlanIsTheFirst ==
  ASSUME space \in DOMAIN Space, NEW d, SpaceKeys(d), d.unwritten = {},
         NEW k \in Written(Imported(d))
  PROVE  TermIn(Imported(d), k) = TermIn(d, k)
<1> DEFINE spell == Spellings(V, Census(d))
           fewer == Spellings(V, Census(Imported(d)))
           departed == DOMAIN spell \ DOMAIN fewer
<1>1. Members(Imported(d)) = Members(d) \ Attribution
  BY DEF Members, Imported
<1>2. /\ Census(Imported(d)) = Written(Imported(d))
      /\ Census(Imported(d)) = (Members(d) \ Attribution) \cup (d.slots \cap Writable)
  BY <1>1 DEF Census, Written, Imported
<1>3. Census(d) = Members(d) \cup d.slots
  BY DEF Census
<1>4. /\ DOMAIN spell = Census(d) /\ DOMAIN fewer = Census(Imported(d))
      /\ \A i \in Census(d) : spell[i] = VetSlug(V, i)
      /\ \A i \in Census(Imported(d)) : fewer[i] = VetSlug(V, i)
  BY DEF Spellings
<1>5. Census(d) \subseteq Bundled \cup DOMAIN Known(space)
  BY <1>3 DEF SpaceKeys, Members
<1>6. departed \subseteq Attribution \cup (DOMAIN spell \ Writable)
  BY <1>2, <1>3, <1>4
<1>7. \A i \in departed \ Writable : spell[i] = i
  BY <1>4, <1>5, SpellingsAvoidTheBundled DEF V
<1>8. \A i \in departed : spell[i] # i => ExactBundled(spell[i]) # {}
  <2> SUFFICES ASSUME NEW i \in departed, spell[i] # i PROVE i \in ExactBundled(spell[i])
    OBVIOUS
  <2>1. i \in Bundled
    BY <1>6, <1>7, TermsAssumption
  <2>2. spell[i] = BundledSlug(i)
    BY <1>4, <1>5, <2>1, SpellingsAvoidTheBundled DEF V
  <2> QED BY <2>1, <2>2, ShippedSpelling DEF ExactBundled
<1>9. ASSUME NEW i \in Spelled(fewer)
      PROVE  {spell[i]} \cup Disambiguated(spell[i], i) \subseteq Terms \ departed
  <2>1. i \in Census(d) /\ VetSlug(V, i) # i /\ spell[i] = VetSlug(V, i)
    BY <1>2, <1>3, <1>4 DEF Spelled
  <2>2. spell[i] \in Writable \ Bundled
    BY <1>5, <2>1, SpellingsAvoidTheBundled DEF V
  <2>3. Disambiguated(spell[i], i) \subseteq Writable \ Bundled
    BY TermsAssumption DEF Disambiguated
  <2>4. departed \cap (Writable \ Bundled) = {}
    BY <1>6, TermsAssumption
  <2> QED BY <2>2, <2>3, <2>4, TermsAssumption
<1>10. k \in DOMAIN fewer /\ DOMAIN fewer \subseteq DOMAIN spell
       /\ \A i \in DOMAIN fewer : fewer[i] = spell[i]
  BY <1>2, <1>3, <1>4
<1>11. \A i \in departed : i \in Attribution \/ spell[i] = i
  BY <1>6, <1>7
<1>12. \A i, j \in Spelled(spell) \cap Attribution : spell[i] = spell[j] => i = j
  BY <1>5, AttributionSpellingsAreApart DEF V
<1> HIDE DEF spell, fewer
<1>13. PlannedTerm(fewer, k) = PlannedTerm(spell, k)
  BY <1>8, <1>9, <1>10, <1>11, <1>12, PlanIgnoresTheDeparted
<1> QED BY <1>13 DEF TermIn, spell, fewer

----------------------------------------------------------------------------
(* The invariant                                                           *)

\* an entry the code writes: it is owed and can be held
Owed(term, key) == ~OwesNothing(V, term, key) /\ ~LegendEntryRefusal(term, key)

\* terms and legend are what the plan of the document's census makes them
IsExportOf(d, keys, terms, legend) ==
  /\ DOMAIN terms = keys
  /\ \A k \in keys : terms[k] = TermIn(d, k)
  /\ \A k \in keys : Owed(terms[k], k) => terms[k] \in DOMAIN legend
  /\ \A t \in DOMAIN legend :
       \E k \in keys : terms[k] = t /\ legend[t] = k /\ Owed(t, k)

ThisExport == IsExportOf(doc, DOMAIN termByKey, termByKey, propertyKeys)

FirstExport ==
  first # NoExport =>
    \E d : /\ SpaceKeys(d) /\ doc = Imported(d) /\ first.unwritten = d.unwritten
          /\ IsExportOf(d, Written(d), first.terms, first.legend)

RepeatInv == SpellingInv /\ ThisExport /\ FirstExport

(***************************************************************************)
(* A claim takes the planned term: no other key has it, so the claim does  *)
(* not fall back, whatever was claimed before (propertySlug).              *)
(***************************************************************************)
LEMMA ClaimsFollowThePlan ==
  ASSUME RepeatInv, phase = "claiming", NEW key \in Written(doc) \ DOMAIN termByKey
  PROVE  TermFor(V, key) = TermIn(doc, key)
<1> DEFINE spell == Spellings(V, Census(doc))
           term == PlannedTerm(spell, key)
<1>1. /\ namedKeys = Census(doc) /\ termPlan = PlanKeyTerms(spell) /\ space \in DOMAIN Space
      /\ Census(doc) \subseteq Bundled \cup DOMAIN Known(space)
  BY DEF RepeatInv, SpellingInv, Ledger, Census, Members
<1>2. DOMAIN spell = Census(doc) /\ DOMAIN termByKey \cup {key} \subseteq Census(doc)
  BY DEF Spellings, RepeatInv, SpellingInv, Ledger, Census, Written
<1>3. \A i \in Census(doc) : spell[i] = VetSlug(V, i)
  BY DEF Spellings
<1> HIDE DEF spell
<1>4. (IF key \in DOMAIN termPlan THEN termPlan[key] ELSE VetSlug(V, key)) = term
  BY <1>1, <1>2, <1>3 DEF PlannedTerm, PlanKeyTerms, Spelled
<1>5. \A j \in DOMAIN termByKey : termByKey[j] = PlannedTerm(spell, j)
  BY DEF RepeatInv, ThisExport, IsExportOf, TermIn, spell
<1>6. ASSUME term # key PROVE term \notin {termByKey[k] : k \in DOMAIN termByKey} \cup namedKeys
  BY <1>1, <1>2, <1>5, <1>6, PlanKeepsTermsApart
<1>7. TermFor(V, key) = term
  BY <1>4, <1>6 DEF TermFor
<1> QED BY <1>7 DEF TermIn, spell

(***************************************************************************)
(* The step of a claim.                                                    *)
(***************************************************************************)
LEMMA ClaimKeepsTheExport ==
  ASSUME RepeatInv, NEW key, PropertySlug(key)
  PROVE  IsExportOf(doc, DOMAIN termByKey', termByKey', propertyKeys')
<1> DEFINE term == TermFor(V, key)
<1>1. /\ phase = "claiming" /\ key \in Written(doc) \ DOMAIN termByKey
      /\ termByKey' = Over([k \in {key} |-> term], termByKey)
      /\ propertyKeys' = RecordPropertyKey(V, propertyKeys, term, key)
  BY DEF PropertySlug, V
<1>2. /\ DOMAIN termByKey' = {key} \cup DOMAIN termByKey
      /\ termByKey'[key] = term
      /\ \A k \in DOMAIN termByKey : k # key /\ termByKey'[k] = termByKey[k]
  BY <1>1 DEF Over
<1>3. term = TermIn(doc, key)
  BY <1>1, ClaimsFollowThePlan
<1>4. IsExportOf(doc, DOMAIN termByKey, termByKey, propertyKeys)
  BY DEF RepeatInv, ThisExport
<1> HIDE DEF term
<1>5. \A k \in DOMAIN termByKey' : termByKey'[k] = TermIn(doc, k)
  BY <1>2, <1>3, <1>4 DEF IsExportOf
<1>6. CASE propertyKeys' = propertyKeys /\ ~Owed(term, key)
  BY <1>2, <1>4, <1>5, <1>6 DEF IsExportOf
<1>7. CASE propertyKeys' = Over([t \in {term} |-> key], propertyKeys) /\ Owed(term, key)
  <2>1. /\ DOMAIN propertyKeys' = {term} \cup DOMAIN propertyKeys
        /\ propertyKeys'[term] = key
        /\ \A t \in DOMAIN propertyKeys \ {term} : propertyKeys'[t] = propertyKeys[t]
    BY <1>7 DEF Over
  <2> QED BY <1>2, <1>4, <1>5, <1>7, <2>1 DEF IsExportOf
<1>8. \/ propertyKeys' = propertyKeys /\ ~Owed(term, key)
      \/ propertyKeys' = Over([t \in {term} |-> key], propertyKeys) /\ Owed(term, key)
  BY <1>1 DEF RecordPropertyKey, Owed
<1> QED BY <1>6, <1>7, <1>8

(***************************************************************************)
(* The invariant holds in every run.                                       *)
(***************************************************************************)
LEMMA RepeatInvariant == Spec => []RepeatInv
<1>1. Init => ThisExport /\ FirstExport
  <2> SUFFICES ASSUME Init PROVE ThisExport /\ FirstExport
    OBVIOUS
  <2>1. DOMAIN termByKey = {} /\ DOMAIN propertyKeys = {} /\ first = NoExport
    BY DEF Init
  <2> QED BY <2>1 DEF ThisExport, IsExportOf, FirstExport
<1>2. SpellingInv /\ SpellingInv' /\ ThisExport /\ FirstExport /\ [Next]_vars
        => ThisExport' /\ FirstExport'
  <2> SUFFICES ASSUME SpellingInv, SpellingInv', ThisExport, FirstExport, [Next]_vars
               PROVE  ThisExport' /\ FirstExport'
    OBVIOUS
  <2>1. ASSUME space' = space, doc' = doc, first' = first PROVE FirstExport'
    BY <2>1
    DEF FirstExport, IsExportOf, SpaceKeys, Owed, OwesNothing, TermIn, V, Imported, Written,
        Census, Members, Known
  <2>2. ASSUME space' = space, doc' = doc, termByKey' = termByKey, propertyKeys' = propertyKeys
        PROVE  ThisExport'
    BY <2>2 DEF ThisExport, IsExportOf, Owed, OwesNothing, TermIn, V, Census, Members
  <2>3. ASSUME NEW key, PropertySlug(key) PROVE ThisExport' /\ FirstExport'
    <3>1. space' = space /\ doc' = doc /\ first' = first
      BY <2>3 DEF PropertySlug
    <3>2. IsExportOf(doc, DOMAIN termByKey', termByKey', propertyKeys')
      BY <2>3, ClaimKeepsTheExport DEF RepeatInv
    <3>3. ThisExport'
      BY <3>1, <3>2 DEF ThisExport, IsExportOf, Owed, OwesNothing, TermIn, V, Census, Members
    <3> QED BY <2>1, <3>1, <3>3
  <2>4. CASE ImportAndExport
    <3>1. /\ phase = "written" /\ space' = space /\ doc' = Imported(doc)
          /\ termByKey' = <<>> /\ propertyKeys' = <<>>
          /\ first' = [terms |-> termByKey, legend |-> propertyKeys, unwritten |-> doc.unwritten]
      BY <2>4 DEF ImportAndExport
    <3>2. DOMAIN termByKey' = {} /\ DOMAIN propertyKeys' = {}
      BY <3>1
    <3>3. ThisExport'
      BY <3>2 DEF ThisExport, IsExportOf
    <3>4. DOMAIN termByKey = Written(doc) /\ SpaceKeys(doc)
      BY <3>1 DEF SpellingInv, Ledger, SpaceKeys
    <3>5. IsExportOf(doc, Written(doc), first'.terms, first'.legend)
      BY <3>1, <3>4 DEF ThisExport
    <3>6. /\ SpaceKeys(doc) /\ doc' = Imported(doc) /\ first'.unwritten = doc.unwritten
          /\ IsExportOf(doc, Written(doc), first'.terms, first'.legend)
      BY <3>1, <3>4, <3>5
    <3> QED BY <3>1, <3>3, <3>6
        DEF FirstExport, IsExportOf, SpaceKeys, Owed, OwesNothing, TermIn, V, Known
  <2>5. CASE SeedTermLedger
    BY <2>1, <2>2, <2>5 DEF SeedTermLedger
  <2>6. CASE Finish
    BY <2>1, <2>2, <2>6 DEF Finish
  <2>7. CASE UNCHANGED vars
    BY <2>1, <2>2, <2>7 DEF vars
  <2> QED BY <2>3, <2>4, <2>5, <2>6, <2>7 DEF Next, Done
<1> QED BY <1>1, <1>2, SpellingInvariant, PTL DEF Spec, RepeatInv

(***************************************************************************)
(* The second export of an object repeats the terms and the legend of the  *)
(* first, for every space, table and document, and every order of the      *)
(* claims in either (export.go, seedTermLedger).                           *)
(***************************************************************************)
THEOREM SecondExportRepeats == Spec => []SecondExportIsTheFirst
<1>1. RepeatInv => SecondExportIsTheFirst
  <2> SUFFICES ASSUME RepeatInv, phase = "written", first # NoExport, first.unwritten = {}
               PROVE  /\ \A k \in Written(doc) : termByKey[k] = first.terms[k]
                      /\ \A t \in DOMAIN propertyKeys : t \in DOMAIN first.legend
                      /\ \A t \in DOMAIN first.legend :
                           IF first.legend[t] \in Written(doc)
                           THEN t \in DOMAIN propertyKeys /\ propertyKeys[t] = first.legend[t]
                           ELSE first.legend[t] \in Attribution
    BY DEF SecondExportIsTheFirst
  <2>1. PICK d : /\ SpaceKeys(d) /\ doc = Imported(d) /\ d.unwritten = {}
                 /\ IsExportOf(d, Written(d), first.terms, first.legend)
    BY DEF RepeatInv, FirstExport
  <2>2. /\ space \in DOMAIN Space /\ DOMAIN termByKey = Written(doc)
        /\ IsExportOf(doc, Written(doc), termByKey, propertyKeys)
    BY DEF RepeatInv, SpellingInv, Ledger, ThisExport
  <2>3. /\ Written(doc) \subseteq Written(d)
        /\ Written(d) \subseteq Written(doc) \cup Attribution
    BY <2>1 DEF Written, Imported, Members
  <2>4. \A k \in Written(doc) : termByKey[k] = first.terms[k]
    BY <2>1, <2>2, <2>3, SecondPlanIsTheFirst DEF IsExportOf
  <2>5. \A t \in DOMAIN propertyKeys : t \in DOMAIN first.legend
    BY <2>1, <2>2, <2>3, <2>4 DEF IsExportOf
  <2>6. ASSUME NEW t \in DOMAIN first.legend
        PROVE  IF first.legend[t] \in Written(doc)
               THEN t \in DOMAIN propertyKeys /\ propertyKeys[t] = first.legend[t]
               ELSE first.legend[t] \in Attribution
    <3>1. PICK k \in Written(d) : first.terms[k] = t /\ first.legend[t] = k /\ Owed(t, k)
      BY <2>1, <2>6 DEF IsExportOf
    <3>2. CASE k \in Written(doc)
      <4>1. t \in DOMAIN propertyKeys
        BY <2>2, <2>4, <3>1, <3>2 DEF IsExportOf
      <4>2. PICK j \in Written(doc) : termByKey[j] = t /\ propertyKeys[t] = j
        BY <2>2, <4>1 DEF IsExportOf
      <4>3. j = k
        BY <2>2, <2>4, <3>1, <3>2, <4>2 DEF RepeatInv, SpellingInv, TermsAreApart
      <4> QED BY <3>1, <3>2, <4>1, <4>2, <4>3
    <3>3. CASE k \notin Written(doc)
      BY <2>3, <3>1, <3>3
    <3> QED BY <3>2, <3>3
  <2> QED BY <2>4, <2>5, <2>6
<1> QED BY <1>1, RepeatInvariant, PTL
=============================================================================
