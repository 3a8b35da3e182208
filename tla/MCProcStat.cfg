SPECIFICATION Spec
CONSTANTS
  FIELDS = 52
  MaxSpaces = 15
  MaxLines = 3
  MaxFds = 3
  NULL = NULL
INVARIANTS
  DescriptorsClosed
PROPERTIES
  FieldMovesWithSpaces
  SumsNothing
  CallsReturn
CHECK_DEADLOCK FALSE
