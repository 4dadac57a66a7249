------------------------- MODULE KeySpellingSafety -------------------------
(***************************************************************************)
(* What a document's terms and legend owe the four kinds of reader: one    *)
(* that knows only the shipped table, the space that wrote the document,   *)
(* one that plans a vocabulary from the bundle's dictionary, and another   *)
(* space.                                                                  *)
(***************************************************************************)
EXTENDS KeySpelling

\* The dictionaries a document of the space may travel with: they hold its own
\* keys, and those of any other documents of the bundle.
Dictionaries(s, written) ==
  {written \cup custom \cup bundled :
     custom \in SUBSET DOMAIN Known(s), bundled \in {{}, Bundled}}

PlanOf(s, entries) == Planned([k \in entries |-> Over(Known(s), BundledName)[k]])

\* other spaces that answer as ScopedKeyVocabulary asks: the shipped table's
\* binding is one of the candidates they list
Elsewhere == {VocabularyOf[s] : s \in {s \in DOMAIN Space : Space[s].lists}}

\* what a reader makes of the term of k outside any type, and within the types
\* that could settle it: those that declare one claimant
Unscoped(v, k) == {ReadTerm(v, propertyKeys, {}, termByKey[k])}

Answers(v, k) ==
  Unscoped(v, k)
  \cup {ReadTerm(v, propertyKeys, {c}, termByKey[k]) : c \in Candidates(v, Nfc[termByKey[k]])}

\* what the readers the document was written for make of the term of k
OwnAnswers(k) ==
  Unscoped(BundledVocabulary, k)
  \cup Answers(VocabularyOf[space], k)
  \cup UNION {Answers(plan, k) :
                plan \in {PlanOf(space, e) : e \in Dictionaries(space, Written(doc))}}

ForeignAnswers(k) == UNION {Unscoped(v, k) : v \in Elsewhere}

\* A term that a reader understands names the key it was written for, whether
\* the reader has the shipped table, the writer's space, a plan of any bundle
\* the document travels in, or another space: no value, column or filter moves
\* to another property (export.go, recordPropertyKey; import.go, propertyKeyIn).
TermsComeBack ==
  phase = "written" =>
    \A k \in Written(doc) \ Denied :
      \A answer \in OwnAnswers(k) \cup ForeignAnswers(k) : answer \subseteq {k}

\* The readers the document was written for understand every term: a document
\* carries the legend entry that settles what its own space or its own bundle
\* finds contested (export.go, contestedPropertySpelling).
OwnDocumentsAreRead ==
  phase = "written" => \A k \in Written(doc) \ Denied : {} \notin OwnAnswers(k)

\* Exporting an object, importing the document and exporting it again repeats
\* the terms and the legend, but for the attribution members the import drops
\* (export.go, seedTermLedger), unless the census counted a key nobody wrote.
SecondExportIsTheFirst ==
  phase = "written" /\ first # NoExport /\ first.unwritten = {} =>
    /\ \A k \in Written(doc) : termByKey[k] = first.terms[k]
    /\ \A t \in DOMAIN propertyKeys : t \in DOMAIN first.legend
    /\ \A t \in DOMAIN first.legend :
         IF first.legend[t] \in Written(doc)
         THEN t \in DOMAIN propertyKeys /\ propertyKeys[t] = first.legend[t]
         ELSE first.legend[t] \in Attribution
============================================================================
