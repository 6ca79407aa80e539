\* Which of the matches at one place is replaced.
SPECIFICATION Spec
CONSTANTS
  IntMax <- MCIntMax
  ValueOf <- MCValueOf
  Streams <- MCStreams
  Passes <- MCPasses
  Linear <- MCLinear
  Parse <- MCParse
  Generated <- MCGenerated
INVARIANT Longest
