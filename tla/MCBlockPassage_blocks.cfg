SPECIFICATION Spec
CONSTANTS
  MaxIdLen = 6
  MintedLen = 3
  LabelLen = 2
  Hex = {"a", "f"}
  NoWords = "none"
  MaxIndent = 2
  MaxGrid = 4
  DataviewId <- MCDataview
  Starts <- MCStarts
  AuthoredIds <- MCAuthored
  MaxDocuments = 3
INVARIANTS
  FittingIdsAreKept
  TreesArrive
  WrittenIdsAreAccepted
  CensusIsTheEmission
  RebuiltBlocksAreApart
  SecondExportRepeats
CHECK_DEADLOCK FALSE
