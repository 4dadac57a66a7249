# A verification of any-block

any-block is the interchange format of Anytype spaces and the Go library that
writes, validates and reads it. A *bundle* is a directory of documents (one
JSON file per object), the bytes of the file objects, and two bundle-level
files: `index.json` (space settings, sidebar, manifest of the bytes, and a
declaration of everything that is named but missing) and `properties.json`
(the property dictionary: the definition and the vocabulary of every property
the documents reference). This directory holds TLA+ models of the library,
TLC configurations that check them on small spaces, and proofs, checked by
TLAPS, of the properties that matter most.

Paths below are relative to the repository. `compose.go` is
`src/bundle/compose.go` and `validate.go` is `src/bundle/validate.go`, unless a
directory is named.

## 1. The system

An export is a pipeline: *collect* the objects, *plan* their paths
(`bundle/plan.go`), *emit* them with a pool of concurrent tasks, and *finish*.
An emit task loads its object, shows its snapshot to the `Composer`
(`Observe`); an object that `index.json` or `properties.json` can carry instead
(a relation, an option, the space's own object, the sidebar) is lifted and
omitted, and any other object is marshalled, written, and reported
(`ObserveWritten`); the task of a file object then streams its bytes and
reports them (`ObserveFileBlob`). `Composer.Finish` composes the two
bundle-level files. A reader validates a bundle (`bundle.Inspect`,
`bundle.Validate`) and converts it (`bundle/convert`).

| component | state | operations | what makes it correct |
|---|---|---|---|
| bundle composer (`bundle/compose.go`, `usedkeys.go`, `options.go`) | the `Composer` struct behind one mutex: stored definitions, vocabularies, census of used keys, declared properties, carried ids, type uses, blob paths, space-settings candidates, sidebar, counters | `Observe`, `ObserveWritten`, `ObserveFileBlob`, `DeclareMetadataOnly`, `Finish` | the bytes do not depend on the schedule; the dictionary has exactly the referenced keys; what the index names is carried or declared missing; nothing is lost in silence; a bundle is published whole or not at all |
| bundle validator (`bundle/validate.go`, `report.go`) | none (one pass over a directory) | `Inspect`, `InspectAuthoring`, `Validate`, `Report.Err` | accepts what the composer publishes; grades every loss; the authoring surface accepts none |
| path planner (`bundle/plan.go`) | the table of claimed paths | `BuildPlan` | no two paths are the same file; the plan is a function of the set of documents, not of their order |
| converter (`bundle/convert/*.go`) | the outputs of one conversion | `Bundle`, `Profile`, the resolvers | all or nothing; no two outputs share a path; declared losses stay losses |
| command line (`cmd/anyblock/*.go`) | the output directory | `bundle`, `convert`, `validate`, ... | a failed command leaves no output behind |
| index codec (`codec/anyblockjson/index.go`, `indexreferences.go`, `spacesettings.go`, `widgetobject.go`, `widgetviewids.go`) | none | `MarshalIndex`, `UnmarshalIndex`, `ObjectReferences`, the lifts | what it writes it reads; references are folded in one way everywhere |
| reference folding (`refs.go`) | none | `foldRef`, `unfoldRef`, `FoldDocumentId`, `envelopeId`, `ValidateTypeExportMapping`, `reservedIdViolation`, `ClassifyUnresolvedTarget`, `DroppedDeletedIconRef` | the id of a document is the id its references use, in the bundle and after it is read; nobody is re-homed |
| omission predicates (`omittedrelation.go`, `omittedoption.go`, `profilepage.go`, `systemtrim.go`, `snapshotdiff`) | none | `OmittedRelation`, `OmittedBundledRelation`, ... | an omitted object can be rebuilt from what is published |
| property dictionary codec (`dictionary.go`, `propertydefinitionrender.go`, `typeproperties.go`) | none | marshalling, `CarryablePropertyOptions` | an entry reads back as it was stated |
| document codec (`export.go`, `import.go`, `json.go`, `inline.go`, `table.go`, `dataview.go`, ...) | of one document: the term ledger of the export (census, plan, claims, legend), the emission plan of its block graph, and the ids in use, of the export and of the import | `Marshal`, `Unmarshal`; `propertySlug`, `seedTermLedger`, `recordPropertyKey`, `propertyKeyIn`; `planEmission`, `seedIdLabels`, `appendBlocksFlat`, `tableToJSON`, `tableFromJSON`, `genID` | a round trip keeps the document; every term is read back as the property it was written for, by each reader; the ids of blocks, rows, columns and cells stay apart, and a block keeps its id where the format has room for it |
| document validator (`validate.go` of the codec, `authoring.go`) | none | the grammar, member by member | rejects what the importer could not read |
| key vocabulary (`keyvocab.go`, `bundledname.go`, `authoringtypes.go`, `vocabulary/`) | tables built once, or planned from a bundle's dictionary | spelling to stored key, and back | the two directions are inverse; a contested name is never resolved by a guess |
| filter strings (`filterstring/`) | none | parse, format | format and parse are inverse |
| example reader, version 1 model, schemas, JavaScript package | none | | no behaviour of their own |

Two things are hard here. *Concurrency*: the emit tasks reach the composer in
any order, and the order must not reach the bytes; the only shared state is the
struct, and each method holds its mutex to the end, so the interleaving of the
methods is all the concurrency there is. *Partial failure*: an object may fail
to load, a document to render, a stream to finish, a run may be cancelled, and
the two files must be right about whatever is left. `PROJECT.json` lists, under
`hazards`, where each of these bites, with the properties that cover it.

## 2. The modules

`OptionVocabulary` is the order of a property's options (`Finish`, lines
914-978) and the gate that decides which of them an entry may state. It is a
pure module, used by `Composer`.

`Composer` is the core: the composer under its emit pool. The variable `c` is
the `Composer` struct, field by field; `task`, `docs`, `blobs` and `run` are the
export that drives it, and `out` is what `Finish` returned. The actions:

| action | code |
|---|---|
| `ObserveSystem`, `ObserveSpaceSettings`, `ObserveWidgets`, `ObserveUnliftableOption`, `ObserveRepeatedOption`, `ObserveNewOption`, `ObserveKeylessRelation`, `ObserveRelation`, `ObserveDocument` | `Composer.observe` and what it calls, one action for each way through it |
| `ObserveWritten`, `RefuseWritten` | `Composer.ObserveWritten`: its record and its errors |
| `ObserveFileBlob`, `DeclareMetadataOnly` | the methods of those names |
| `FinishConflicting`, `FinishEmpty`, `FinishRefused`, `FinishBundle` | the ways `Finish` returns, in the order of the code; refused is a dictionary that cannot be written, a metadata-only export with bytes, or an index that does not read back |
| `FailObject`, `WriteDocument`, `FailDocument`, `StreamBlob`, `FailStream`, `Cancel`, `Stop` | the caller, modelled from how `compose.go` and `DESIGN.md` 1.5 describe it: a pool of `Width` workers, each step of a task may fail, a cancelled run starts no task and writes neither file |

A snapshot is a record whose `kind` is the first classification of `observe`
that accepts it, with the details that classification reads. Ids, keys, names
and views are values of small sets. `Fold` is `foldRef`, a function on ids:
what a type's or a participant's stored id is written as.

`ComposerSafety` states what a composed bundle owes its reader, in terms of what
the tasks did and of what is in the bundle, and the inductive invariant.
`ComposerProofs` and `CompositionProofs` prove from it.

`ComposerPromise` is the abstract export: no struct, no tasks, no pool. The
objects of a space are settled one at a time, and there is one publication.

| abstract step | the composer's |
|---|---|
| `Lift` | an `Observe` that leaves the object to the two files, one that ends in nothing said (a relation without a key) included |
| `Write`, `Carry` | `WriteDocument`, `ObserveWritten` |
| `Stream`, `StoreBlob` | `StreamBlob`, `ObserveFileBlob` |
| `Publish` | the four ways `Finish` returns |
| no step | a task taken up or given up, a document admitted (`ObserveDocument`), refused (`RefuseWritten`) or failed, `DeclareMetadataOnly`, `Cancel`, `Stop` |

`Verdict` computes what is published from what the settled objects state: a
refusal and its reason, nothing, or a bundle with its keys, the undefined ones
among them, the missing objects and the manifest. It leaves two choices: which
of the stated sidebars is shown, and, when some source of a key states a
definition no dictionary can state (`Doubtful`), whether that source was the one
chosen and the export refused (`Verdicts`). `ComposerSafety` states the refinement
(`Promise`, an `INSTANCE` that reads the abstract variables off the tasks and
`out`; `PromiseKept`), and `PromiseProofs` proves it. Of a published bundle the
abstract verdict covers those five members; definitions, flags, types,
sources and vocabularies have properties of their own.

`ComposerTwin` is one space exported twice,
the second time by an `INSTANCE` over its own variables, so that
"the schedule does not reach the bytes" is an invariant. The instance is of
`CompositionProofs`, which extends `Composer`: what is proved of one export is then
a fact about the other too.

`BundleInspect` is `Inspect`: a function from a bundle (documents, index,
dictionary, blobs) to a set of graded issues. `Export` composes the two: the
bundle a run of `Composer` left behind is put to `BundleInspect`. The composer
declares missing objects from one list of slots and the validator refuses from
another; `Export` is where they must agree. It also names what the composer takes
for granted of a space (`PlainSpace`), for the proofs.

`References` is the two directions of the derived-id fold (`refs.go`): what a
reference slot, a document's own envelope and the path planner write for a store
id, and what an importer rebuilds from each. An id is a record, one form for
each spelling the code tells apart; which names pass the checksum of an account
identity, the fold gate of a type key and the shape of an object id are
constants, and so is which space ids a composite can be split back into. `o` is
the `Options` of a run.

`BundlePlan` is `BuildPlan`: one action for each way one turn of its loop can end
(`RefuseMapping`, `RefuseUnsafe`, `RefuseClaimed`, `RefuseExtension`,
`PlanFile`, `PlanDocument`), `RefuseOptions` before the loop and `Return` after
it. The slice it ranges over comes from a store query with no promised order, so
the model visits the documents in any order.

`Passage` adds what happens to a planned document afterwards: `Marshals` is the
gate of `buildDoc` on the envelope id, and an importer of any destination reads
the envelope and the references to it. `PassageProofs` proves from it.

`Convert` is one run of `convertBundle`. `phase` is where the run is; the other
variables are what it has made: `resolver` (the options, the types declared
missing and the sticky error, `armed`), `lostMember` (`conversionErr`), the
archive's `entries` by directory and id, the attachments to stream (`files`) and
the warnings that a property is about (`told`).

| action | code |
|---|---|
| `RefuseRequest`, `RefuseInspected`, `RefuseTree`, `RefuseResolver`, `BuildResolver` | `convert.go` 125-268: options, inspection, walk, dictionary, `newBundleResolverMode` |
| `ReadIndex`, `RefuseIndex` | `convert.go` 279-335: the index is decoded with the resolver, every slot of it (`IndexSlots`: entry point, homepage, widgets, the ledger of automatic widgets, icon, declared targets), and refused if two spellings it declares have come to one id; then the missing types are read off it |
| `ConvertDocument`, `RefuseDocument` | one turn of the loop, 336-372, with `normalizeMissingTypes`, `completeBundleSnapshot` and `addSnapshot` |
| `AddProperties`, `AddOptionEntries`, `Return` and their refusals | the entries made of the dictionary, of the options met by then, and of the index, whose icon is unfolded once more and may lose a member (`IconLosesAMember`); the carried errors are read last |

`Deliver` is the to-v1 command on a bundle around it (`cmd/anyblock/bundle.go`,
`bundle_full.go`): it checks that its output does not exist, converts, creates
the output exclusively and writes file after file, while another process may
take the path (`Intrude`) and any step may fail. It uses `BundleInspect` for the
inspection and `References` for every id it rebuilds, so that the bundle a
reader admits, the ids it rebuilds and the archive are judged together.
`DeliverProofs` proves what becomes of the output and what the archive holds.

`KeyVocabulary` is the property namespace: the shipped table of names
(`bundledname.go`), the vocabulary that `planAuthoringProperties` makes of a
dictionary, the vocabulary of a space, and the chain by which a reader turns a
term into a stored key (`propertyKeyIn`): the document's legend, a live stored
key, the candidates, the type's scope, the shipped table's forgiving layer. Keys
and spellings are members of one set, because a stored key is also a spelling;
normal forms, fold classes and the suffixed form of a name are functions on it.
The space's vocabulary is the host program's (`Options.Keys`): `Store` is what
the interface's contract (`keyvocab.go` 139-186) and the tests' `nameVocab` say of
one, with the two freedoms the code allows for, whether it answers with the
shipped table first and whether it lists that table's binding.

`KeySpelling` is the term ledger of one export:

| action | code |
|---|---|
| `SeedTermLedger` | `export.go` 497-607: the census, and `planKeyTerms` (769-837) on it |
| `PropertySlug` | `export.go` 445-475: the claim of one key's term, and its legend entry (`recordPropertyKey`) |
| `Finish` | the legend is rendered when every slot was written |
| `ImportAndExport` | `import.go` 918-1003, in the space that wrote the document: the object that import makes of it is exported |

The emit writes the slots in the order of the document's blocks and the details
in the order of their keys; the model claims in any order. `KeySpellingSafety` asks the
readers; `KeySpellingProofs` proves from it.

`BlockIds`, `BlockExport`, `BlockImport` and `BlockPassage` are the blocks of one
document. A stored object is a graph nobody has checked: a block may have several
parents, children that do not exist, or itself among its descendants. A document is
a flat run of entries with indents; a table's entry has columns and rows of cells,
and a cell is a run again. Blocks, rows, columns and the cells their pairs imply
share one domain of ids. An id is a sequence of characters, because what a
document writes depends on them: `-` joins a row and a column into a cell, `.`
stands for all the characters the format has no room for, and a compact label is
the tail of an id.

| module | code |
|---|---|
| `BlockIds` | the shape of ids, their cleaning and cutting, `uniqueLabel` and `suffixLabels` (`json.go`, `table.go`, `export.go`) |
| `BlockExport` | `Marshal`'s block half: the plan (`Walk`, `WalkTable`, `WalkCell`), the labels reserved before anything is written (`SeedIdLabels`), the emission (`AppendBlock`, `TableToJSON`, `CellToJSON`), and the emission before it that the compact labels are planned over (`LocalIds`) |
| `BlockImport` | `Validates`: the id, indent and containment rules of `validate.go`; `Unmarshal`: the rebuild (`AddRun`, `AddTable`, `GenId`, `NewTableInnerId`, `PinPrimaryDataview`, `Absorbed`) |
| `BlockPassage` | a state machine around them: `Export` and `Import` are one call each, `Refuse` is a document the reader does not take, and `Rename`, `Insert` and `Indent` are what an author does to a document in between |

The two calls are pure functions of their arguments, so one step each; what
interleaves is the life of an object, from a store to a document and back, with
another hand in the middle. The caller's id generator may answer with any id,
one in use, one with a joiner, or none. `BlockIdsProofs` proves what the ids
rest on.

`MCComposer`, `MCComposerTwin`, `MCExport`, `MCParticipant`, `MCPassage`, `MCDeliver`,
`MCKeySpelling` and `MCBlockPassage` hold the
scenarios and the values of the constants: small spaces, each a function from
task names to snapshots, small collections of documents, small bundles, and
small block graphs.

Operators commented "a mutant of X" are variants of X with a plausible slip in
them. Nothing uses them: each shows, when put in X's place, that a property of
some run notices the slip.

### What the models leave out

* Names, descriptions and colours stand for all the members of a definition
  that nothing but an equality looks at. The literal text of issues, the JSON
  layout and, in the composer, the spelling of keys are left out.
* The bytes of a document: `ObserveWritten` decodes them, and the model takes
  the facts it reads there (envelope id, used keys, declared properties, named
  types, view labels) from the document's record. That the scan of
  `usedkeys.go` finds what the writer wrote is assumed.
* `ResolveWidgetViewID`, an option no caller in the repository sets.
* Of the dictionary's writer (`MarshalPropertyDictionary`): the refusals that
  concern no key and no format, that is a count out of range, a default that is
  no JSON and an empty target, and the re-read of its own output. An option the
  writer refuses has been dropped before (`Carryable`). The formats without a
  name, those that may have targets, and the keys that cannot be written are
  constants. Which reading of its bytes `ObserveWritten` fails on is one flag of
  a document (`legible`).
* The composer never fills the entry point of an index, so that only `Convert`,
  which reads other writers' indexes, has one.
* `Stats.UnresolvedTypes`' list of sources: the ids are modelled, the sources
  are carried in `typeRefs` and published nowhere else.
* In `BundleInspect`: the grammar of one document, the admission of paths, the
  `remoteFiles` member, and the namespace plan of the authoring surface.
* In `References` and `BundlePlan`: the characters of an id. Two ids that differ
  only in case are two paths here; `format/v2/SPEC.md` (1118-1142) states that a
  bundle may not hold both. `Convert` refuses them (`LowerCase`). Ids are never
  empty.
  The extension and mime tables of `BlobExtension` are constants.
* In `Convert`: the inside of a document, of which the model takes the facts
  that reach another entry or an error (its memberships, the type keys of its
  query source and of its property targets, the ids in its reference slots, the
  option names it stores, whether a template's properties state its one type,
  whether a file states where its bytes are); default
  values of properties; the members of the space's icon beyond the id of its
  image; the wording of reserved listings and screens in the archive
  (`WireWidgetTarget`, `WireHomepage`); a property in a document that the
  dictionary does not define, which arms the error in `PropertyId`
  (`resolver.go:182`) and which the validator refuses before; the lookups of a
  document's shipped relations, which succeed; the bytes of entries
  and of the profile. An option's identity is one string, in which a key is
  spelled `key:` and the key (`KeyedName`): the model has the option that is
  named like another's key, and leaves out the one that is named like its own
  (`OptionsAssumption`). A symbolic link, and a second `properties.json` that the
  validator takes for a dictionary and the converter for a document, are one
  flag of a bundle (`odd`). The mapping of hyphenated type keys is a constant
  (`NativeKey`), and so are the minted keys: `MintKey` gives a fresh one for each
  property, and `MintOption` is the hash of property and name.
* In `KeySpelling`, which of two attribution keys that ask for one free name is
  asked first (`FirstAsking`): the code goes by the order of the keys, the model
  by any fixed order.
* In `KeyVocabulary` and `KeySpelling`: the type half of the namespace, whose
  terms are derived ids since the format dropped the type legend; the
  declarations that type documents add to a planned vocabulary; the entries of a
  dictionary that spell a key otherwise than the export does. What import makes
  of a denied key, a duplicate term or a type document's lifted keys is an error
  and no state.
* In the block modules: the text of a block with its marks and links, styles,
  colours, alignment and the members of a view, all of which are one value (the
  block's words); the kinds of leaves beyond a divider and a view, and the
  kinds that are not written (`Unmapped`) beyond a table's rows and columns out
  of place; fragments; the member grammar of one entry; the normalization of
  indents that a host may ask for before validation; that a minted id has the
  shape of an id of the editor and is checked for it; and the ids of a view's
  own members. The envelope's id is in no check of the format's ids, so that a
  block may repeat it (`RebuiltBlocksAreApart` speaks of what is below the root).
  A plain text in a cell whose children were all dropped is written as a block
  and, after an import, as its bare words, and an id too long for the format may
  share its tail with a minted one: of such objects the second export differs
  from the first, and the runs have none.
* In `Deliver`: the directories above the output, which a failed command leaves
  behind, and a removal that fails.
* A deletion that reaches the store between two questions of one `Finish`: the
  store is a constant of a run.

## 3. The runs

Every composer scenario has a pool of width 2: two tasks in flight already show every
pair of interleaved steps, and each composer method is one step, so a third
worker adds no new order of the methods. Three observations of one thing are
the most any property tells apart (two that agree or differ and one that comes
between them). `Flaky` names the tasks whose object may fail to load in a
scenario; every document may fail to render and every stream to finish.

| run | what it shows |
|---|---|
| `vocabulary` | One select property, its relation, seven options (ordered, order-less ones of one second, a refused colour, a repeat, a nameless one, and one of a property nothing defines), a page, and two objects of which nothing is read, a system object and a relation without a key. The entry lists the acceptable options as the picker ranks them, in all arrival orders; every option snapshot is counted exactly once. |
| `outcomes` | Observations of the space that disagree when they load, an index no reader accepts, bytes under a metadata-only declaration, a file document without its remote facts, a definition whose format the dictionary has no name for, a key it cannot write, or nothing to say. Every step is a step of the abstract export or none at all (`PromiseKept`), so each refusal happens for its own reason and only for it and a space that states nothing publishes nothing; nothing is published over a document that was not accounted for; every run ends and lets go of every task, a cancelled one included. |
| `agreeing` | One space exported twice under two independent schedules, with repeated observations that agree: the same bytes and the same verdict. |
| `bundle` | One export of everything: two relations, one of which departs from the shipped table, the space's settings in two observations that complete each other, a sidebar, a page, two types that dispute a declaration, and a file; references to what is carried, deleted, live and never there; every document may fail, and a relation and the space's own object may fail to load. Whatever is left is put to the validator. Every object and type the two files name is carried or declared missing, never both; no observed definition vanishes without being named as unused, a disputed declaration defines nothing, and an entry that departs from the shipped table is flagged; a widget uses its target's view label whichever was seen first; the validator accepts each bundle, grades what is missing by what the store knows, and the authoring surface accepts exactly the bundles without a loss; and the invariant of the proofs holds (`AggregatesAreTheObservations`). |
| `convert` | Every pair of twenty documents, with and without the documents of two types, under nine pairs of an index and a dictionary, and each one document under seven more (a ledger of automatic widgets with a type that is there and one that is not, an icon that is a member, a listing before the first widget, two declared spellings of one member, options named like keys), for four requests (a full bundle with and without a destination space, an authored one, an unusable request): about sixteen thousand conversions, with every step that refuses taken. |
| `plan` | Every pair of fifteen documents (pages wearing ids they are not entitled to, types with and without a usable key, members of three spaces, files with clean, dirty and treacherous extensions) and two whole spaces, planned in every order under six sets of options (agreeing, lagging and missing resolvers, no space, the document-only mode) and read back in six spaces. |
| `spelling` | Seven spaces whose custom properties bear each other's names, the names of bundled ones and of stored keys, an envelope member's, a decomposed name, an unwritable key, live and removed; four kinds of vocabulary; every document of up to three of the keys at play, each as a detail, in a slot, or only in the census; every order of the claims; read by four kinds of reader, imported and exported again. |
| `blocks` | Six families of objects, exported, perhaps edited, imported, and exported again, up to three documents: three blocks below a root in every shape (shared, dangling, cyclic, a title within, a group); three texts whose ids clash when they are cut, cleaned or shortened; a table whose row and column ids clash with each other, with the cells they imply and with a text beside it; the forms of a cell; two tables that share columns, rows or both, or lack a wrapper; and a document an author changes twice under three generators. |

The properties of `plan`: no two paths are one file; the verdict and every path
depend on the set of documents alone; the id a reference writes is the stem of
its document's file; after the passage a reference and the envelope it names are
still one id; a member of a foreign space stays one; two documents arrive as two
objects, unless they are one person's memberships of the exported and of the
destination space; and one space reads back exactly what it wrote, except for a
type document its own resolver does not serve.

The properties of `convert`: a converted archive has one entry for every
document and for every property the dictionary defines, on any filesystem; every
membership names a type the archive serves; references, property targets, widgets
and the homepage name the entries of what they named in the bundle; a bundle is
refused for a cause that can be read off it and only then, which is what the
resolver's sticky error is for; the losses are told; the output is whole or not
there; and what another process put in its place stays.

The properties of `spelling`: a term a reader understands is the key it was
written for, whether the reader has the shipped table only, the writer's space,
a plan of any dictionary the document may travel with, or another space; the
first three understand every term; and the second export repeats the terms and
the legend of the first. They are asked of the keys an import accepts: a denied
key (`relationFormat` in a column) takes its name when the table and the
vocabulary answer it (`export.go:717`), without the question `recordPropertyKey`
asks of the space's other claimants, and can have no entry, so that a plan which
knows a custom property of that name refuses the document. A comment (`export.go`
910-916) counts that loss as one of portability.

The properties of `blocks`: every id a written document has is one the reader
accepts, and no two are the same, the whole grid of each table included; a
stored id the format has room for stays with its block all the way into the next
store, whichever of two clashing blocks is written first; the plan and the
export, two walks of one graph, agree on what is written; whatever the generator
answers and the author left out, no two rebuilt blocks have one id and a block at
the id of a cell is the cell; a stored tree arrives as the tree it was
(`Outline` says what a tree shows without a document in between); and an export
of what was imported is the document that was imported.

Five properties are proved and checked by no run, because their theorems
(section 4) cover every space: `ManifestMatchesBlobs`, `OnlyAccumulates`,
`StrayDocumentsPublishNothing`, `EntriesAreTheReferencedKeys` and
`MissingReferencesAreSourced`.

Four runs end in a counterexample, each of a sentence in the repository.

| run | the sentence | what the code does |
|---|---|---|
| `participant` | `compose.go:134-138`: the declared slots are the ones `Validate` refuses on | `ObjectReferences` (`index.go:604`) skips a participant's stored id, whose underscore makes it look like a platform name, before it folds it; `MarshalIndex` writes it folded, and nothing declares it when the participant's document is not there |
| `declared` | `bundle/convert/README.md:18-19`: a declared dangling index target is admitted; `unresolved_test.go:244`: "the validator admits this bundle, so the converter must too" | the index is decoded (`convert.go:279`) before the missing types are read off it (324-335): an index that names a type it declares missing arms the sticky error, and the conversion fails at the end; a type in the ledger of automatic widgets (`index.go:745`) does the same, though `index.go:381-386` calls an entry without a document normal |
| `options` | `resolver.go:268-271`: two option keys must not collapse onto one archive entry | an option that states as its key the hash of another name, and a value that spells that name, have one archive id; ids are compared across properties only (251), and map order decides which of the two is stored |
| `contained` | `format/v2/SPEC.md:6732-6733`: "Marshal never emits a document its own validation rejects"; `flat_invariants_test.go:10` | a stored layout row is written with the children it has, whatever they are (`export.go:2558`), and `checkFlatRun` (`validate.go:1833-1855` of the codec) refuses a row that holds anything but columns |

Four places where the composer keeps one of several observations depend on the
order of the tasks and are not run: of two observations of one relation that
differ the later is published (484), against the sentence that the `Observe*`
methods accumulate only commutative aggregates (`compose.go:16-18`,
`compose_test.go:183-185`); the sidebar is replaced (409); a repeat of an option
that moved is collapsed and the first order id stays (686); and two options that
state no id and tie otherwise keep their arrival order (973). They need one
object to be observed twice with something changed in between, which
`compose.go:281-285` expects ("retries and overlapping acquisition streams both
happen"); `agreeing` has repeated observations that agree. `options` needs an option that was created by a conversion, renamed,
and exported, and a document that was given the old name since. `participant`
and `declared` need nothing unusual. `contained` needs a store that holds a layout
row of a shape its editor does not make, which the exporter takes care to
survive everywhere else (a cycle, a missing child, an axis without its wrapper).

Bounds. Nothing is cut off by a counter: every task ends and a plan visits every
document once, so every behaviour is finite. A collision of paths takes two
documents, which is why `plan` has every pair; the whole spaces show that what a
plan does with the third does not depend on the first two. A clash of two
entries, a reference to an entry and a membership in a carried type likewise take
two documents, besides the two types that may be carried with them. A contested name takes two claimants and a third key that is in the
way of both, which is why the documents of `spelling` have up to three keys; the
rest of a space only shows in what its vocabulary answers.

The format's limits are small in `blocks`, so that objects reach them:
`MaxIdLen` 6 (64 in the code), `MintedLen` 3 (24), `LabelLen` 2 (5), `MaxIndent` 2
(32), `MaxGrid` 4 (100000); the rules compare an id, a depth or a grid with the
limit and use nothing else of it, and `LengthsAssumption` keeps their order. A
clash of ids takes two blocks and a third that has the id the first would move
to; a clash with a grid takes one row and two columns; the sharing of an axis takes
two tables. `MaxDocuments` 3 is an export, its import and export, and once more:
the second document is what an import has made regular, so a third that differs
would be a fourth that differs. `MaxSuffix` (9) cuts nothing off: TLC stops where no suffix up to it is free.

Deadlock is checked in all runs but `blocks` and `contained`, whose passages end
(a document was refused, an export failed, or the last document is written);
`Stop` and `Ended` are the stuttering of an ended
run, and a run that is not ended must always have a step.

Fairness. `Spec` assumes weak fairness of each task's `Observe` and of its later
steps, of `DeclareMetadataOnly` and of `Finish`: the pool runs every task it was
given to its end (`DESIGN.md` 1.5, "Tasks already in flight are allowed to
finish"), and the caller calls `Finish` after the last ("called once, after
every emit task returned", `compose.go:188`). Nobody is obliged to cancel, to
fail, or not to. Only `RunsEnd` uses it.

## 4. The proofs

`ComposerProofs` proves, for every set of tasks, snapshots, ids, keys, formats,
tables, stores and widths that satisfy the assumptions of `Composer`:

| theorem | statement |
|---|---|
| `TypeCorrect` | every reachable state has its type |
| `AggregatesCorrect` | each commutative aggregate is a function of the set of observations made so far |
| `StraysCorrect` | `Finish` returns only when every document in the bundle was accounted for |
| `ManifestCorrect` | the manifest locates exactly the bytes in the bundle |
| `EntriesCorrect` | the dictionary has exactly the referenced keys |

The assumptions: each task's snapshot has one of the shapes of
`SnapshotShapes`, the absent values are not values, the pool has a worker, the
tables map keys to facts, and `Fold` and `Store` are functions on ids.

The inductive invariant is

    Ledger == TypeOK /\ TasksFollowTheirKind /\ FinishIsLast
                /\ BundleFollowsTheTasks /\ AggregatesAreTheObservations

None of the safety properties is inductive: they speak of what `Finish`
returned, and `Finish` reads the struct. What ties the struct to the world is
`AggregatesAreTheObservations`: the census of used keys is the union over the
documents reported so far, the blob paths are those of the tasks that streamed
and reported, and so on. It needs the tasks' life (`TasksFollowTheirKind`: only
a document is ever rendered, written or streamed) to know which step adds to
which aggregate, and `BundleFollowsTheTasks` to know that a document in the
bundle is reported, is about to be, or ended the run. `FinishIsLast` says that
nothing is left over when `Finish` returns. `LedgerStarts` and `LedgerKept` prove it
inductive, with one lemma per conjunct (`TypesKept`, `KindsKept`, `BundleKept`,
`DocumentCensusKept`, ...), each with one step per group of actions. The last
three theorems then argue in two steps: the property holds in the state in which
`Finish` returns a bundle (`JustPublished`), and nothing changes afterwards
(`NothingFollowsFinish`, `OnlyFinishReturns`).

`CompositionProofs` proves, from the same assumptions:

| theorem | statement |
|---|---|
| `ConflictsCorrect` | settings that disagree are refused, and no others |
| `TypesCorrect` | a named type is carried or declared missing, never both |
| `DisputesCorrect` | a declaration that two types dispute defines nothing |
| `FlagsCorrect` | an entry that says something else than the shipped table is flagged |
| `NothingVanishes` | every observed definition is published or named as unused |
| `SourcesCorrect` | a reference reported missing is reported with an object it was lifted from |
| `Accumulation` | no step takes anything back from an aggregate |
| `LabelsCorrect` | a widget shows its view under its document's label |
| `OptionsCorrect` | every option snapshot is counted once, and the lifted ones are those the dictionary shows |
| `VocabularyOrdered` | a published vocabulary holds each acceptable option once, in the picker's order (of a space with `PlainOptions`) |

Six of them need more than `Ledger`. `CopiesFlagged` says of the stored
entries what `FlagsCorrect` says of the published ones: the flag is computed
when the relation is observed and read when `Finish` renders. `OptionCensus`
says that a property has a vocabulary exactly when one of its options was
lifted, repeats included, which is what makes the list of unused vocabularies
complete. `SourcesCover` says that every object the settings and the sidebar
name has a source in the struct, although the sidebar is replaced and the
sources only grow. `LabelCensus` says that under a reported document's two ids
stand its labels and no others. It holds of a space in which no two documents
share an id unless one is a repeated observation of the other
(`LabelsAssumption`); otherwise the later of the two would replace the labels of
the earlier. `OptionCount` says that the options observed are those in the
vocabularies and those counted as unliftable or repeated. An option in a
vocabulary is a cell, a pair of a key and a position (`Cells`), so that the
counts of `Stats`, which are sums over the keys, are cardinalities: that a sum of
lengths counts cells, and that a vocabulary loses as many options at the gate as
the gate refuses, is induction over data, and goes through `FoldInduction`
(below), as does `LiftedFits`, that what is lifted of a vocabulary is no longer than it.
There are finitely many keys (`KeysAssumption`).

`VocabularyOrdered` has two halves. What a vocabulary holds is the invariant
`VocabularyCensus`: each entry is one of the options observed, no two entries are
one option, and each liftable option observed is the option of an entry. What the
sort makes of it needs no history. `PrecedesOrders` shows that the comparator,
with the arrival order as its last resort, is a strict total order; therefore each
option has another number of options before it (`EarlierCounts`), so that these
numbers fill the places (`PlacesAreTaken`, by an injection of a finite set into
itself) and the places are in order (`PlacesAreOrdered`). The gate then keeps a
selection of the places in their order (`LiftedSelects`, a fold). The arrival order
never decides, because under `PlainOptions` two entries that the comparator ties
would be one option (`CollectedRanked`). `PlainOptions` asks that two observations
of one id state one content, and likewise two options without an id that nothing
else ranks; without it the published order is the pool's (section 3). TLC evaluates
it on the space of the `vocabulary` run.

`PromiseProofs` proves `PromiseCorrect`, that the composer under its pool
implements `ComposerPromise`. Its invariant is

    Settlement == Ledger /\ OptionCensus /\ SettledOnce /\ SidebarCensus
                    /\ CounterCensus /\ EntriesRead

`SettledOnce` (a document in the bundle is past its task's first half, and only
a file streams) makes a composer step take an object that is not settled yet.
`SidebarCensus` (the sidebar shown is one that was stated) and `CounterCensus`
(the count of documents and the flag of the space's settings say whether there
are any) tie what `Finish` reads to what was observed. The proof takes `Finish`
apart in the order of the code: `VoiceIsHeard` and `SilenceIsHeard` show that
the struct counts as empty exactly when no settled object states anything,
`DictionarySays` that a dictionary with a definition it cannot state is a doubt
raised by some source (`DoubtIsRaised`), which takes `EntriesRead` (a stored
definition is that of some relation observed), `RefusalsSay` that the other
refusals have the abstract causes, `KeysSay`, `OrphansSay`, `TargetsSay` and `FilesSay` that the members of the bundle are
the abstract ones; `FinishSaysTheVerdict` puts them together, and
`StepsKeepThePromise` adds the other actions.

The same module proves what the reader makes of a published bundle:

| theorem | statement | of a space with |
|---|---|---|
| `TargetsCorrect` | what the index names is carried or declared missing, never both and never neither | `PlainSlots` |
| `BundlesAccepted` | the validator reports no error of a published bundle | `PlainDocuments`, `PlainSlots` |
| `LossesGraded` | every loss is reported, as none exactly when the space deleted the object; the authoring surface refuses exactly the bundles with a loss | `PlainSpace` |

These three have hypotheses on the space, and need them: the composer takes them
for granted and checks them nowhere. `PlainDocuments`: two documents are not
written under one id, the document of a file keeps the id of its bytes, and a
document without an id names no type. `PlainSlots`: the slots of the index name
ordinary objects, or platform names where these have a place, and none that is a
platform name before the fold and not after it; that is the participant of the
run `participant`, of which the theorem is false. `PlainSpace` adds that a type
is named by its derived id and never by that of a stored object, since an id that
is both a deleted target and a type nobody has is told twice, in two grades. TLC
evaluates `PlainSpace` on the scenario of the `bundle` run, whose checks cover
the three properties.

The invariant beside `Settlement` is `IndexStands`: what the published index
names, declares and stores, read off the bundle. It holds because the struct's
slots come from the space's objects (`SpaceNames`) and the fold of each is on the
right side of the platform's namespace (`PlainIndex`). Each rule of `Inspect` is then a
lemma, answered by one property of the composer: the manifest by
`ManifestCorrect`, the types by `TypesCorrect`, the properties by
`EntriesCorrect`, the objects by `IndexStands` (`ReaderRequires`: what the reader
misses is what the index leaves unresolved), the ids and the files by
`PlainDocuments`. `ReportGrades` puts them together, for both surfaces. `LossesGraded`
needs one invariant more, `EntriesDrawn`: the types a definition names come from
where the definition does.

And it proves, of two exports of one space:

| theorem | statement | of a space with |
|---|---|---|
| `TwinsAgree` | two exports whose tasks came to the same ends return the same verdict, the same dictionary and the same index, under any two schedules | `AgreeingSpace` |

`AgreeingSpace` asks that repeated observations agree: two relation objects of one
key state one definition, two widget objects that state a member state the same,
two observations of one option are equal, and the options are `PlainOptions`. The
code asks for none of it and takes the first or the last it happens to see, so
that of other spaces the theorem is false. TLC evaluates it on the space of the
`agreeing` run.

The two exports never meet, so there is no invariant between them: each keeps
`Telling`, which says of one export what its struct and its return are, in terms
of the objects observed. To `Ledger`, `VocabularyCensus`, `SidebarCensus` and
`CounterCensus` it adds that a stored definition is that of some relation observed
(`EntriesRead`), the automatic targets those of some widget object (`TargetsRead`),
the labels those of the reported documents (`LabelsRead`), and that the return is
what `Finish` computes from the struct it leaves behind (`Returned`, which holds
because nothing `Finish` changes is read again: `ReadAgain`). `SecondTelling` is
the same invariant of the second export, by the instance. When both have
returned, `StructsAlike` shows that in an agreeing space the two structs are equal but
for the order in which options arrived, and `OneVocabulary` that two vocabularies
collected from the same options are shown in one order: the place of an option
is the number of those before it, whatever the order of arrival
(`OneOrder`). `DictionariesAlike`, `IndexesAlike` and `StatusesAlike` follow what
`Finish` computes, definition by definition.

`PassageProofs` proves, for every collection of documents with unique ids, all
options, resolvers, extension tables and destinations:

| theorem | statement |
|---|---|
| `OrderIrrelevant` | whether a collection is planned, and every path of the plan, depend on the set of documents and the options alone |
| `PathsAreApart` | no two document or blob paths of a plan are the same |
| `ReferencesLead` | a reference, the envelope and the file stem of its document are one id |
| `ReferencesArrive` | every reader rebuilds the reference and the envelope to one id |
| `NobodyMoves` | a foreign member's composite survives export and import |
| `PassageInverts` | a space reads back every id it wrote |
| `DocumentsApart` | two documents arrive as two objects, one person's two memberships excepted |
| `PlanTypes` | the tables map ids of the collection to paths |

They assume what a store does (`MintedAssumption`): only a member's id is a
composite, and the resolver answers for the ids of types alone. Without it the
fold itself would rename a page. `PassageInverts` and `DocumentsApart` assume
that a member's id is a composite too (`MembersAssumption`). The first also
assumes that a resolver which knows the key of an id knows an id for the key
(`ResolverAssumption`), the second that a destination has one type for a key and
does not call it by the id of another document (`DestinationsAssumption`). The
resolvers need not be inverse: a type its own resolver does not serve is excepted
by the property (`Displaced`). The invariant is `PlanInv`: the tables hold
exactly the paths of the documents visited so far, and those documents have
cause for no refusal; so a refusal has its cause in the collection
(`RefusalHasCause`), whatever the order, and a plan has a path for every
document. `FoldsAgree` then shows that the two folds of one document agree, by
kind, and `ReadAlike` that the two readers do.

`DocumentsApart` follows one lemma for each kind (`MembersArrive`,
`TypesArrive`, `OthersArrive`) on where a document arrives; the only ids a reader
makes up are composites of its own space and the types of its own resolver.

`DeliverProofs` proves, for every set of bundles and requests:

| theorem | statement |
|---|---|
| `OutputCorrect` | a command ends with its output whole or with none of its own |
| `OthersAreSpared` | what another process put at the output's path stays |
| `RefusalsHaveCauses` | a bundle is refused for a cause that can be read off it, and one that has a cause is never converted |
| `NothingGetsLost` | the archive has one file for each document, property, option and entry of the index, where case makes no difference either |
| `ReferencesArrive` | what named a document of the bundle names that document's entry |
| `LossesArrive` | each declared loss is in one list of the result, and a replaced type and absent bytes are warned of |
| `MembershipsCorrect` | a membership of an archive's object names a type it serves |

The first two need only `Ownership`: the output is the command's own exactly
while it writes and after it is done, and the removal of a failed command is
armed only then. The others rest on one inductive invariant,

    Conversion == Stages /\ OptionsFollow /\ TypesFollow /\ LossesFollow
                    /\ Apart /\ EntriesFollow /\ Blamed /\ ErrorsRead

None of the properties is inductive, since each speaks of the end of a run, and a
run that has met a cause for refusal goes on: it arms the resolver's error and
reads it last. `OptionsFollow` and `TypesFollow` therefore say what an unarmed
resolver knows at each point (it has an option for each value and each dictionary
entry seen so far, no two of which disagree, and every type looked up so far is
known or declared) and that an armed one has a cause in the bundle.
`LossesFollow` says the same of `lostMember` and what is told of it; `Apart` that
the entries are those owed to the documents converted and the phases completed,
and that no two of them are one file; `EntriesFollow` what they hold; `Stages`
what the validator let through; `ErrorsRead` that no carried error survives
`Return`; `Blamed` that a refused bundle has a cause. One lemma keeps each
(`OptionsFollowKept` and so on), with one step per action. The causes of a
refusal are then found by the action that refuses (`DocumentBlamed`,
`PropertiesBlamed`, `OptionsBlamed`, `TheEndBlamed`), and a converted bundle
loses them one by one (`ConvertedWithoutCause`). `NothingGetsLost` counts the
entries owed (`OwedCounted`) through a bijection with the files. For
`ReferencesArrive`, `ReferencesAgree` shows that a reference and an envelope are
rebuilt to one id, because a derived id is worn only by a document of its kind,
and `CarriedTypes` that a type's key leads to its own document, because the
validator refuses two documents of one key. `MembershipsCorrect` uses that no
step replaces an entry (`OverKeeps`) and that a document with a membership in an
unknown type ends the run.

They assume of a bundle what decoding it has established
(`DecodedAssumption`: it is finite, a derived id belongs to the kind it names,
and a loss is declared once and of a target; `PathsAssumption`: its paths are
distinct; `OptionsAssumption`: no option is named `key:` and its own key), of the
archive that Page is shipped, that a property's id has its key in it and that the
two fixed ids differ (`ArchiveAssumption`), and that a property has an id
(`PropertyKeysAssumption`). TLC evaluates all five on the inputs of the `convert`
run. `RefusalsHaveCauses` quantifies over every index: each slot the reader looks
up is in `NamedByTheIndex`, those no validator requires included.

`FoldInduction` is what the options need. The resolver's are added by folds over
lists of any length, so what it holds at last is a statement by induction over
data. The library's induction theorems take an operator as a parameter, which
the provers cannot instantiate; a module can. `FoldInduction` has the fold's step
and what is claimed of it as constants, proves for them that a claim that holds
of no elements and is kept by each holds of the whole fold (`FoldKeeps`, from
well-foundedness of the subsets of a finite set), and is instantiated once for
each fold (`OfValues`, `OfOptions`, `OfDefinitions`, and in `CompositionProofs`
`OfLifted`, `OfDropped`, `OfShown`, `OfKept` and `OfSelected`). `LargestIsMax` is another induction of
its kind: a set of indices that is not empty has a largest one.

`KeySpellingProofs` proves, for every shipped table, set of spaces, documents,
dictionary and order of the claims:

| theorem | statement |
|---|---|
| `TermsReturn` | no reader takes a term for another key than the one it was written for |
| `OwnDocumentsRead` | the shipped table's reader, the writer's space and every plan of the document's bundle understand each term |
| `SecondExportRepeats` | a second export has the terms and the legend of the first |

They assume of the tables (`TermsAssumption`, `NormalAssumption`) that the shipped
keys and names are in their only normal form and that only minted keys have a
suffixed spelling; and of a space (`SpaceAssumption`) that no custom key is a
bundled key or a bundled key's display name: bundled keys are live in each space,
and a stored key that reads like a bundled name would own that name. Another
space is asked only if its vocabulary lists the shipped table's binding, as
`ScopedKeyVocabulary` asks it to (`keyvocab.go:172-176`). The invariant is
`SpellingInv`: terms are distinct and avoid the document's keys, a term without an
entry owes none, and an entry is true. A term without an entry is then a bundled
key's shipped spelling (`UnstatedTerm`), and one lemma follows it down each reader's
chain (`TableReads`, `OwnSpaceReads`, `PlanReads`, `OtherSpaceReads`).

`SecondExportRepeats` compares two exports whose slots claim in any two orders, so
its invariant (`RepeatInv`) adds that terms and legend are a function of the
census: `ThisExport` says so of the export under way, `FirstExport` of the one it
repeats. That holds because the plan gives no term twice and none that is a
censused key (`PlanKeepsTermsApart`), so that no claim falls back
(`ClaimsFollowThePlan`). The second census lacks only attribution keys, which
yield, and keys no slot may name, and `PlanIgnoresTheDeparted` shows that such keys
have no part in the plan of the others. It uses one assumption more, that a
suffixed spelling is no bundled key (`TermsAssumption`).

`BlockIdsProofs` proves, for ids of any length over any letters that include the
format's own, and any lengths in their order (`LengthsAssumption`):

| theorem | statement |
|---|---|
| `CellsAreApart` | two pairs of a row and a column without a joiner never share a cell's id |
| `CleanIdsAreAccepted` | whatever id was stored, the one written in its place is one the reader accepts, for a row or a column without a joiner |
| `LabelsAreApart` | no compact label names two blocks, ends another block's id, or is a name the document has another use for |

The first is why a document need not write the ids of cells: at the first joiner
of a cell's id its row ends (`NoRowIsLonger`, twice). They are what
`WrittenIdsAreAccepted` and `RebuiltBlocksAreApart` rest on. The properties
themselves stay with TLC, since the walks of the graph are recursive.

Only model-checked: `RunsEnd` (liveness, of the caller's pool: a check that no
step of the composer leaves the run without an end), and the properties of `blocks`, whose walks
are recursive.

## 5. The plan

Done: `OptionVocabulary`, `Composer`, `ComposerSafety`, `ComposerTwin`,
`BundleInspect`, `Export`, `ComposerProofs`, `References`, `BundlePlan`,
`Passage`, `PassageProofs`, `Convert`, `Deliver`, `KeyVocabulary`, `KeySpelling`,
`KeySpellingProofs`, `CompositionProofs`,
`ComposerPromise`, `PromiseProofs`, `DeliverProofs`, `FoldInduction`, `BlockIds`, `BlockExport`,
`BlockImport`, `BlockPassage`, `BlockIdsProofs`.

Next:

1. The pure algorithms of the codec, each against a reference definition on
   bounded inputs: option references, the splitting of inline marks, the omission
   predicates and the snapshot comparison, filter strings, the indents a host
   asks to have normalized.

Not planned: the generated tables and protobuf code, the schemas, the
JavaScript package, the printing of the example reader, and the member-by-member
grammar of one document, which is long, sequential, and has neither state nor
interaction.
