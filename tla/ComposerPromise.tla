--------------------------- MODULE ComposerPromise ---------------------------
(***************************************************************************)
(* What an export promises, without the struct, the tasks or the pool.     *)
(*                                                                         *)
(* The objects of a space are settled one at a time, in any order: lifted, *)
(* or carried by a document that was written first and, for a file, by its *)
(* bytes.  An object may also be given up, which is no step.  There is one *)
(* publication: it happens over a directory in which everything is         *)
(* accounted for, it says what the settled objects say and nothing of the  *)
(* order they were settled in, and nothing is settled after it.            *)
(***************************************************************************)
EXTENDS Integers, Sequences, FiniteSets

CONSTANTS
  Tasks, Snapshot,         \* the objects, and what each of them states
  NoKey, NoId, NoName,     \* what a snapshot that states none states
  SettingFields,           \* the settings a space's object may state
  SpaceName,               \* the caller's fallback name, NoName for none
  Table, Resolver,         \* the other two sources of definitions
  Fold, Platform, ReservedHome,   \* the spelling of ids, as in Composer
  ObjectShaped, Store,     \* what is known of ids that nothing carries
  UnwritableKeys, NamelessFormats, TargetFormats,  \* what has no written form
  MetadataOnly             \* whether the export is declared to hold no bytes

VARIABLES
  docs, blobs,   \* what is in the directory: documents, and bytes, by object
  carried,       \* the objects whose document was accounted for
  stored,        \* the files whose bytes were accounted for
  lifted,        \* the objects the two files are to carry
  verdict        \* what was published

promise == <<docs, blobs, carried, stored, lifted, verdict>>

Of(kind) == {t \in lifted : Snapshot[t].kind = kind}

-----------------------------------------------------------------------------
(* What the settled objects say.                                           *)

Stated(field) == UNION {Snapshot[t][field] : t \in Of("space")}

Disagreeing == \E field \in SettingFields : Cardinality(Stated(field)) > 1

(* The sidebar shown is one that some object stated, if any did.           *)
StatedSidebars == {Snapshot[t].widgets : t \in Of("widget")} \ {<<>>}

Sidebars == IF StatedSidebars = {} THEN {<<>>} ELSE StatedSidebars

StatesNothing(s) ==
  \/ s.kind = "system"
  \/ s.kind = "relation" /\ s.key = NoKey
  \/ s.kind = "option" /\ (s.owner = NoKey \/ s.name = NoName)
  \/ /\ s.kind = "space" /\ SpaceName = NoName
     /\ \A field \in SettingFields : s[field] = {}
  \/ /\ s.kind = "widget" /\ s.widgets = <<>>
     /\ s.autoTargets = {} /\ ~s.autoDisabled

Silent == carried = {} /\ \A t \in lifted : StatesNothing(Snapshot[t])

Named(sidebar) ==
  (UNION {Snapshot[t].used : t \in carried})
    \cup UNION {sidebar[n].properties : n \in DOMAIN sidebar}

(* Nothing the export knows defines the key: no object of its own, neither *)
(* table, and no declaration that every type agrees on.                    *)
Undefined(key) ==
  /\ key \notin {Snapshot[t].key : t \in Of("relation")}
  /\ key \notin DOMAIN Table \cup DOMAIN Resolver
  /\ Cardinality(UNION {{d \in Snapshot[t].declares : d.key = key} :
                          t \in carried}) # 1

(* What may end up defining a key has no written form: that is, one of the *)
(* definitions that any source has for it.                                 *)
Unstatable(def) ==
  \/ def.format \in NamelessFormats
  \/ def.targets # {} /\ def.format \notin TargetFormats

Doubtful(key) ==
  \/ \E t \in Of("relation") : Snapshot[t].key = key /\ Unstatable(Snapshot[t])
  \/ key \in DOMAIN Resolver /\ Unstatable(Resolver[key])
  \/ key \in DOMAIN Table /\ Unstatable(Table[key])
  \/ \E t \in carried : \E d \in Snapshot[t].declares :
        d.key = key /\ d.format \in NamelessFormats

(* The objects the index names, an icon the space deleted excepted.        *)
Targets(sidebar) ==
  {Fold[id] :
     id \in (Stated("homepage")
              \cup {sidebar[n].target : n \in DOMAIN sidebar}
              \cup {i \in Stated("icon") :
                      ~(i \in ObjectShaped /\ Store[i] = "deleted")})
            \ Platform}

CarriedIds == {Snapshot[t].envelope : t \in carried} \ {NoId}

FileIds == {Snapshot[t].id : t \in stored}

Verdict(sidebar) ==
  CASE Disagreeing
         -> [status |-> "refused", why |-> "space settings"]
    [] OTHER ->
  CASE Silent
         -> [status |-> "empty"]
    [] OTHER ->
  CASE Named(sidebar) \cap UnwritableKeys # {}
         -> [status |-> "refused", why |-> "dictionary"]
    [] OTHER ->
  CASE MetadataOnly /\ FileIds # {}
         -> [status |-> "refused", why |-> "metadata only"]
    [] OTHER ->
  CASE \E id \in Stated("homepage") : Fold[id] \in Platform \ ReservedHome
         -> [status |-> "refused", why |-> "index"]
    [] OTHER
         -> [status |-> "bundle",
             keys |-> Named(sidebar),
             undefined |-> {key \in Named(sidebar) : Undefined(key)},
             missing |-> Targets(sidebar) \ CarriedIds,
             files |-> FileIds]

(* A doubtful definition may yet be the one that was not chosen.           *)
Verdicts(sidebar) ==
  {Verdict(sidebar)} \cup
    {v \in {[status |-> "refused", why |-> "dictionary"]} :
       /\ ~Disagreeing /\ ~Silent
       /\ \E key \in Named(sidebar) : Doubtful(key)}

-----------------------------------------------------------------------------
Init ==
  /\ docs = {} /\ blobs = {}
  /\ carried = {} /\ stored = {} /\ lifted = {}
  /\ verdict = [status |-> "none"]

Unpublished == verdict.status = "none"

Lift(t) ==
  /\ Unpublished
  /\ t \notin lifted /\ Snapshot[t].kind # "document"
  /\ lifted' = lifted \cup {t}
  /\ UNCHANGED <<docs, blobs, carried, stored, verdict>>

Write(t) ==
  /\ Unpublished
  /\ t \notin docs /\ Snapshot[t].kind = "document"
  /\ docs' = docs \cup {t}
  /\ UNCHANGED <<blobs, carried, stored, lifted, verdict>>

Carry(t) ==
  /\ Unpublished
  /\ t \in docs \ carried
  /\ carried' = carried \cup {t}
  /\ UNCHANGED <<docs, blobs, stored, lifted, verdict>>

Stream(t) ==
  /\ Unpublished
  /\ t \in carried \ blobs /\ Snapshot[t].file
  /\ blobs' = blobs \cup {t}
  /\ UNCHANGED <<docs, carried, stored, lifted, verdict>>

StoreBlob(t) ==
  /\ Unpublished
  /\ t \in blobs \ stored
  /\ stored' = stored \cup {t}
  /\ UNCHANGED <<docs, blobs, carried, lifted, verdict>>

(* Once, and over a directory in which everything is accounted for.        *)
Publish ==
  /\ Unpublished
  /\ docs = carried /\ blobs = stored
  /\ \E sidebar \in Sidebars : verdict' \in Verdicts(sidebar)
  /\ UNCHANGED <<docs, blobs, carried, stored, lifted>>

Next ==
  \/ \E t \in Tasks :
       Lift(t) \/ Write(t) \/ Carry(t) \/ Stream(t) \/ StoreBlob(t)
  \/ Publish

Spec == Init /\ [][Next]_promise
=============================================================================
