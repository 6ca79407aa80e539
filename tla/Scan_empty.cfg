SPECIFICATION Spec
CONSTANTS
  Files <- MCFiles
  Names <- MCNames
INVARIANT ScanReturns
CHECK_DEADLOCK FALSE
