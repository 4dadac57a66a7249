SPECIFICATION Spec
CONSTANTS
  MaxIdLen = 6
  MintedLen = 3
  LabelLen = 2
  Hex = {"a", "f"}
  NoWords = "none"
  MaxIndent = 2
  MaxGrid = 4
  DataviewId <- MCDataview
  Starts <- StrayRow
  AuthoredIds <- MCAuthored
  MaxDocuments = 3
INVARIANT OwnDocumentsValidate
CHECK_DEADLOCK FALSE
