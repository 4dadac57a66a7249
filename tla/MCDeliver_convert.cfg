SPECIFICATION Spec
CONSTANTS
  Spaces = {"here"}
  NoSpace = NoSpace
  Readable = {"here"}
  Names <- MCNames
  Identities = {"ann"}
  Foldable = {"habit", "my-type", "a1b2", "ghost", "lost", "page"}
  Addresses = {"cid"}
  Bundled = {"name"}
  Reserved <- MCReserved
  Listings <- MCListings
  NoTypeKey = NoTypeKey
  NoId = NoId
  Bundles <- MCBundles
  Requests <- MCRequests
  ShippedTypes <- MCShippedTypes
  UrlOf <- MCUrlOf
  ContentIds = {"cid"}
  NativeKey <- MCNativeKey
  PageKey = "page"
  Sentinel = "_missing_object"
  MintKey <- MCMintKey
  NoOptionKey = NoOptionKey
  MintOption <- MCMintOption
  RelationId <- MCRelationId
  OptionId <- MCOptionId
  KeyedName <- MCKeyedName
  WidgetsId <- MCWidgetsId
  WorkspaceId <- MCWorkspaceId
  UnsafeOutputs <- MCUnsafeOutputs
  LowerCase <- MCLowerCase
INVARIANT NothingIsLost
INVARIANT MembershipsAreServed
INVARIANT ReferencesLand
INVARIANT RefusedForCause
INVARIANT LossesAreTold
INVARIANT OutputIsWhole
PROPERTY OthersOutputStays
