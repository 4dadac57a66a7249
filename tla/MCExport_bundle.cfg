SPECIFICATION Spec
CONSTANTS
  Keys <- MCKeys
  NoKey = NoKey
  Ids <- MCIds
  NoId = NoId
  Names <- MCNames
  NoName = NoName
  Colors <- MCColors
  Formats <- MCFormats
  Unknown = "unknown"
  Views <- MCViews
  NoView = NoView
  NoDefinition = NoDefinition
  UnwritableKeys = {}
  NamelessFormats = {"emoji"}
  TargetFormats = {"objects"}
  SelectFormats = {"select"}
  Palette = {"red", "blue"}
  Table <- MCTable
  Resolver <- MCResolver
  Fold <- MCFold
  ObjectShaped <- MCObjectShaped
  Platform <- MCPlatform
  ReservedHome <- MCReservedHome
  Store <- MCStore
  Tasks <- BundleTasks
  Snapshot <- BundleScenario
  Flaky <- BundleFlaky
  Width = 2
  SpaceName = NoName
  IncludeFileRemote = FALSE
  CompactBlockLabels = TRUE
  MetadataOnly = FALSE
  StreamsBlobs = TRUE
  Listings <- MCListings
INVARIANT NoDefinitionVanishes
INVARIANT DisputedDeclarationsDefineNothing
INVARIANT DivergenceIsFlagged
INVARIANT AggregatesAreTheObservations
INVARIANT TargetsAnswered
INVARIANT TypesAnswered
INVARIANT WidgetsUseTheDocumentsLabels
INVARIANT PublishedBundlesValidate
INVARIANT LossesAreGraded
