SPECIFICATION FairDebugSpec
CONSTANTS
  MaxWord = 7
  MaxData = 22
  Programs <- MCPrograms
  Certificate <- MCCertificate
INVARIANTS
  PromptSeesWholeActivations
  SteppingEndsWithItsStep
PROPERTIES
  ReachesEnd
  PromptReturns
CHECK_DEADLOCK FALSE
