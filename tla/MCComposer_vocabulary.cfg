SPECIFICATION Spec
CONSTANTS
  Keys <- MCKeys
  NoKey = NoKey
  Ids <- MCIds
  NoId = NoId
  Names <- MCNames
  NoName = NoName
  Colors <- MCColors
  Formats <- MCFormats
  Unknown = "unknown"
  Views <- MCViews
  NoView = NoView
  NoDefinition = NoDefinition
  UnwritableKeys = {}
  NamelessFormats = {"emoji"}
  TargetFormats = {"objects"}
  SelectFormats = {"select"}
  Palette = {"red", "blue"}
  Table <- MCTable
  Resolver <- MCResolver
  Fold <- MCFold
  ObjectShaped <- MCObjectShaped
  Platform <- MCPlatform
  ReservedHome <- MCReservedHome
  Store <- MCStore
  Tasks <- VocabularyTasks
  Snapshot <- VocabularyScenario
  Flaky <- VocabularyFlaky
  Width = 2
  SpaceName = NoName
  IncludeFileRemote = FALSE
  CompactBlockLabels = FALSE
  MetadataOnly = FALSE
  StreamsBlobs = FALSE
INVARIANT TypeOK
INVARIANT OptionsAccounted
INVARIANT VocabularyReadsAsThePicker
