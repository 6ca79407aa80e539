SPECIFICATION Spec
CONSTANTS
  MaxWord = 7
  MaxData = 22
  Programs <- MCPrograms
  Certificate <- MCCertificate
INVARIANTS
  TypeOK
  ActivationsDisjoint
  OperandsInSegment
  StackMatchesLocation
  CallsLinked
  CodeIsPatched
  StackDepthBounded
  FinalValues
PROPERTIES
  StopsWhereAsked
  ResetRestoresInitialState
  RefinesRegisterMachine
