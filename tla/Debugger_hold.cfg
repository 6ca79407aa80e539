SPECIFICATION DebugSpec
CONSTANTS
  MaxWord = 7
  MaxData = 22
  Programs <- MCPrograms
  Certificate <- MCCertificate
INVARIANT
  HeldOnBreakpoint
CHECK_DEADLOCK FALSE
