--------------------------- MODULE KeyVocabulary ---------------------------
(***************************************************************************)
(* The property namespace of a document: a property is stored under a key  *)
(* and written under a name.  The shipped table (bundledname.go) names the *)
(* bundled keys; a space, or the vocabulary planned from a bundle's        *)
(* dictionary (authoringtypes.go), names the others; and a reader turns a  *)
(* term back into a key through a chain that starts at the document's own  *)
(* legend (import.go, propertyKeyIn).                                      *)
(*                                                                         *)
(* Keys and spellings are strings of one set, because a stored key is also *)
(* a spelling: the one a reader takes verbatim.  Normal forms, fold        *)
(* classes and the suffixed form of a name are functions on that set.      *)
(***************************************************************************)
CONSTANTS
  Terms,        \* the strings that are keys or spellings
  Writable,     \* those a document may hold as a member's name
  Nfc,          \* the canonical form of each
  Fold,         \* the class the forgiving layer puts each in
  Bundled,      \* the keys the shipped table declares
  BundledName,  \* the display name of each
  Unnamed,      \* the bundled keys that answer to no name: internal and hidden
  Denied,       \* the keys an import refuses
  Attribution,  \* the bundled keys that say who: written, and dropped on import
  Suffixed      \* <<name, key>> to `name (tail6)`, for the minted keys only

ASSUME TermsAssumption ==
  /\ Writable \subseteq Terms
  /\ Nfc \in [Terms -> Terms] /\ \A t \in Terms : Nfc[Nfc[t]] = Nfc[t]
  /\ DOMAIN Fold = Terms /\ \A t \in Terms : Fold[Nfc[t]] = Fold[t]
  /\ Bundled \subseteq Writable /\ BundledName \in [Bundled -> Terms]
  /\ Unnamed \subseteq Bundled /\ Denied \subseteq Bundled
  /\ Attribution \subseteq Bundled \ Denied
  /\ DOMAIN Suffixed \subseteq Terms \X (Terms \ Bundled)
  /\ \A pair \in DOMAIN Suffixed : Suffixed[pair] \in Terms \ Bundled

\* The shipped keys and names are plain strings: none has a second normal form
\* that anything else is spelled by.
ASSUME NormalAssumption ==
  \A k \in Bundled :
    /\ Nfc[k] = k /\ Nfc[BundledName[k]] = BundledName[k]
    /\ \A t \in Terms : Nfc[t] \in {k, BundledName[k]} => Nfc[t] = t

Envelope == {"id", "type"}

\* what f says, and what g says where f says nothing
Over(f, g) ==
  [x \in DOMAIN f \cup DOMAIN g |-> IF x \in DOMAIN f THEN f[x] ELSE g[x]]

----------------------------------------------------------------------------
(* The shipped table: a name speaks for one key, and never for a string    *)
(* that is itself a stored key.                                            *)

Claimed(k) ==
  LET name == Nfc[BundledName[k]]
  IN {n \in {name} : k \notin Unnamed /\ n # k /\ n \in Writable /\ n \notin Bundled}

NameOf ==
  [k \in Bundled |->
     {n \in Claimed(k) : \A other \in Bundled \ {k} : n \notin Claimed(other)}]

BundledSlug(k) ==
  IF k \in Bundled /\ NameOf[k] # {} THEN CHOOSE n \in NameOf[k] : TRUE ELSE k

ExactBundled(t) ==
  {k \in Bundled : t \in NameOf[k]} \cup (Unnamed \cap {t})

FoldClass(t) ==
  {k \in Bundled \ Denied :
     \/ Fold[k] = Fold[t]
     \/ k \notin Unnamed /\ Fold[BundledName[k]] = Fold[t]}

BundledBound(t) ==
  IF ExactBundled(t) # {} THEN ExactBundled(t)
  ELSE {k \in FoldClass(t) : FoldClass(t) = {k}}

Disambiguated(name, key) ==
  {Suffixed[pair] : pair \in DOMAIN Suffixed \cap {<<name, key>>}} \cap Writable

----------------------------------------------------------------------------
(* A vocabulary: what it writes a key as, and what it knows of a term.     *)

\* slug: the names it grants; scoped: it can list claimants and live keys;
\* live: the stored keys it reports live; stored: those its own lookup leaves
\* verbatim; claims: the keys it lists for a term; lists: it adds the bundled
\* table's; first: it asks that table before the claimants; said: the terms
\* a dictionary settled.
BundledVocabulary ==
  [slug |-> <<>>, scoped |-> FALSE, live |-> {}, stored |-> {},
   claims |-> [t \in Terms |-> {}], lists |-> FALSE, first |-> FALSE, said |-> <<>>]

Slug(v, k) == IF k \in DOMAIN v.slug THEN v.slug[k] ELSE BundledSlug(k)

\* t is in its canonical form, as every caller that reads has made it
Candidates(v, t) ==
  IF t \in DOMAIN v.said THEN {v.said[t]}
  ELSE v.claims[t] \cup (IF v.lists THEN ExactBundled(t) ELSE {})

\* the key the vocabulary's own lookup answers with, when it knows the term
Answer(v, t) ==
  LET named == Candidates(v, t)
  IN CASE t \in v.stored -> {}
       [] t \notin v.stored /\ v.first /\ ExactBundled(t) # {} -> ExactBundled(t)
       [] OTHER -> IF named = {} THEN BundledBound(t)
                   ELSE {k \in named : named = {k}}

KeyOf(v, t) ==
  IF Answer(v, t) = {} THEN t ELSE CHOOSE k \in Answer(v, t) : TRUE

----------------------------------------------------------------------------
(* The vocabulary planned from a bundle: its dictionary declares entries   *)
(* (stored key to display name), a bundled one under the shipped name.     *)

Planned(entries) ==
  LET custom == DOMAIN entries \ Bundled
      claims == [t \in Terms |-> {k \in custom : Nfc[entries[k]] = t}]
      granted == {k \in custom :
                    LET name == Nfc[entries[k]]
                    IN /\ name # k
                       /\ FoldClass(name) = {}
                       /\ name \notin custom
                       /\ claims[name] = {k}}
      spelled == {k \in DOMAIN entries \cap Bundled : BundledSlug(k) # k}
  IN [slug |-> [k \in granted |-> Nfc[entries[k]]], scoped |-> TRUE,
      live |-> Bundled \cup custom, stored |-> custom, claims |-> claims,
      lists |-> TRUE, first |-> FALSE,
      said |-> [t \in {BundledSlug(k) : k \in spelled} |->
                  CHOOSE k \in spelled : BundledSlug(k) = t]]

----------------------------------------------------------------------------
(* The vocabulary of a space, which the host program supplies: its live    *)
(* custom keys and their names, beside the bundled keys, live in each.     *)

\* the spelling granted to a custom key: its name, unless that is a live
\* stored key, and then the suffixed name
Granted(names, k) ==
  LET live == Bundled \cup DOMAIN names
      label == {n \in {Nfc[names[k]]} : n \in Writable /\ n # k /\ n \notin Envelope}
  IN IF label \subseteq live
     THEN (UNION {Disambiguated(n, k) : n \in label}) \ live
     ELSE label

Store(names, first, lists) ==
  LET live == Bundled \cup DOMAIN names
      label == [k \in DOMAIN names |-> Granted(names, k)]
      labelled == {k \in DOMAIN names : label[k] # {}}
  IN [slug |-> [k \in live |-> IF k \in labelled THEN CHOOSE n \in label[k] : TRUE
                               ELSE IF k \in Bundled /\ BundledSlug(k) \notin live
                                    THEN BundledSlug(k) ELSE k],
      scoped |-> TRUE, live |-> live, stored |-> live,
      claims |-> [t \in Terms |-> {k \in labelled : t \in label[k]}],
      lists |-> lists, first |-> first, said |-> <<>>]

----------------------------------------------------------------------------
(* Reading: the legend, then the space or the plan, then the shipped table *)

\* a legend answers for the canonical form of a spelling too, when no entry
\* states that form and no second spelling shares it
Expanded(legend) ==
  LET other == {t \in DOMAIN legend : Nfc[t] # t}
      lone == {t \in other : /\ Nfc[t] \notin DOMAIN legend
                             /\ \A u \in other : Nfc[u] = Nfc[t] => u = t}
  IN Over(legend, [n \in {Nfc[t] : t \in lone} |->
                     legend[CHOOSE t \in lone : Nfc[t] = n]])

\* the key a reader with vocabulary v binds term t to, inside a document of
\* a type that declares the keys of scope; none when it refuses the document
ReadTerm(v, legend, scope, t) ==
  LET told == Expanded(legend)
      n == Nfc[t]
      named == Candidates(v, n)
      placed == named \cap scope
  IN IF t \in DOMAIN told THEN {told[t]}
     ELSE IF n # t /\ v.scoped /\ t \in v.live THEN {t}
     ELSE IF n \in DOMAIN told THEN {told[n]}
     ELSE IF ~v.scoped THEN {KeyOf(v, n)}
     ELSE IF n \in v.live THEN {n}
     ELSE IF named = {} THEN {KeyOf(v, n)}
     ELSE IF \E k \in named : named = {k} THEN named
     ELSE {k \in placed : placed = {k}}

============================================================================
