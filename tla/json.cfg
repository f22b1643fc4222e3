SPECIFICATION Spec
CONSTANTS
  MismatchIsError = FALSE
  NullIsError = FALSE
  Overflow = "saturated"
  NameSize = 4
  MaxDepth = 7
  IntType <- Int8
  Bindings <- MCBindings
  Stores <- MCStores
  Docs <- MCDocs
  CutDocs <- MCCutDocs
  Sizes = {0, 20, 60, 1000}
  Arrays <- MCArrays
INVARIANTS
  StringsTerminated
  ReadsAsMeant
  SkipsMismatches
  TruncatedRefused
  ReportsWhatIsSent
  
CHECK_DEADLOCK FALSE
