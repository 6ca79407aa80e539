\* All generated texts, and trees gen() has to refuse; what compiles is run.
SPECIFICATION MainSpec
CONSTANTS
  MaxWord = 15
  Sources <- MCSources
  Parsed <- MCParsed
  Spine <- MCSpine
  BodyNodes <- MCBodyNodes
INVARIANTS
  TypeOK
  RegistersApart
  BreakTablesAgree
  OutputRuns
  ErrorsAreDeserved
  LinesCanStop
  ComputesMeaning
