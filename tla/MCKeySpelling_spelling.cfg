SPECIFICATION Spec
CONSTANTS
  Terms <- MCTerms
  Writable <- MCWritable
  Nfc <- MCNfc
  Fold <- MCFold
  Bundled = {"due", "creator", "format", "hidden", "score"}
  BundledName <- MCBundledName
  Unnamed = {"score"}
  Denied = {"format", "score"}
  Attribution = {"creator"}
  Suffixed <- MCSuffixed
  DroppedDetails = {"hidden"}
  Space <- MCSpace
  Documents <- MCDocuments
INVARIANT TermsComeBack
INVARIANT OwnDocumentsAreRead
INVARIANT SecondExportIsTheFirst
