SPECIFICATION Spec
CONSTANTS
  MaxWord = 7
  Sources <- SpecialSources
  Parsed <- MCParsed
  Spine <- MCSpine
  BodyNodes <- MCBodyNodes
INVARIANT ArgsOccupyFirstRegisters
