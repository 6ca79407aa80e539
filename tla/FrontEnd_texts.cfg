\* Texts with and without macros, right and wrong, through parse().
SPECIFICATION FairSpec
CONSTANTS
  IntMax <- MCIntMax
  ValueOf <- MCValueOf
  Streams <- MCStreams
  Passes <- MCPasses
  Linear <- MCLinear
  Parse <- MCParse
  Generated <- MCGenerated
INVARIANTS
  ExtractionIsParsing
  InsertionsResolve
  NormalFormOrError
  StreamEndsInEOF
  NullOnlyAfterError
  SentencesExactly
PROPERTIES
  ReplacesMostUrgent
  NamesAreFresh
  Returns
