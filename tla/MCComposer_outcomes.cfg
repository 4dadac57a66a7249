SPECIFICATION Spec
CONSTANTS
  Keys <- MCKeys
  NoKey = NoKey
  Ids <- MCIds
  NoId = NoId
  Names <- MCNames
  NoName = NoName
  Colors <- MCColors
  Formats <- MCFormats
  Unknown = "unknown"
  Views <- MCViews
  NoView = NoView
  NoDefinition = NoDefinition
  UnwritableKeys = {"season"}
  NamelessFormats = {"emoji"}
  TargetFormats = {"objects"}
  SelectFormats = {"select"}
  Palette = {"red", "blue"}
  Table <- MCTable
  Resolver <- MCResolver
  Fold <- MCFold
  ObjectShaped <- MCObjectShaped
  Platform <- MCPlatform
  ReservedHome <- MCReservedHome
  Store <- MCStore
  Tasks <- OutcomeTasks
  Snapshot <- OutcomeScenario
  Flaky <- OutcomeFlaky
  Width = 2
  SpaceName = NoName
  IncludeFileRemote = TRUE
  CompactBlockLabels = FALSE
  MetadataOnly = TRUE
  StreamsBlobs = TRUE
INVARIANT ConflictsAreRefused
PROPERTY PromiseKept
PROPERTY RunsEnd
