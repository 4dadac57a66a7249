SPECIFICATION Spec
CONSTANTS
  Spaces = {"here", "there", "flat"}
  NoSpace = NoSpace
  Readable = {"here", "there"}
  Names <- MCNames
  Identities = {"ann", "bob"}
  Foldable = {"wine", "cider", "page", "draft", "stored"}
  Addresses = {"page"}
  Collections <- MCCollections
  Runs <- MCRuns
  NoKey = NoKey
  Exts = {"", ".PNG", "P-NG", "png", "json", "bin"}
  CleanExt <- MCCleanExt
  Mimes = {"", "image/png"}
  MimeExt <- MCMimeExt
  UnsafeIds <- MCUnsafeIds
  Clipped <- MCClipped
  Destinations <- MCDestinations
  Spellings <- MCSpellings
INVARIANT TypeOK
INVARIANT PathsNeverCollide
INVARIANT OrderDecidesNothing
INVARIANT ReferencesNameTheirDocument
INVARIANT ReferencesArriveAtTheirDocument
INVARIANT NobodyIsRehomed
INVARIANT DocumentsArriveApart
INVARIANT FoldAndUnfoldInvert
