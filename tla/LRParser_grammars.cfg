\* Every input of up to five tokens for the parsers of small grammars.
SPECIFICATION FairSpec
CONSTANTS
  TerminalOf <- MCTerminalOf
  Creator <- MCCreator
  SemanticAction <- MCSemanticAction
  Problems <- MCProblems
  Inputs <- MCInputs
INVARIANTS
  StacksAgree
  ValuesDeriveTheInput
  AcceptsExactly
  ConflictsAreDeserved
PROPERTY
  Terminates
CHECK_DEADLOCK FALSE
