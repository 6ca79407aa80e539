\* All contents of three files that include each other.
SPECIFICATION FairSpec
CONSTANTS
  Files <- MCFiles
  Names <- MCNames
INVARIANTS
  TypeOK
  DepthBounded
  StreamIsExpansion
PROPERTY
  Terminates
CHECK_DEADLOCK FALSE
