SPECIFICATION Spec
CONSTANTS
  FIELDS = 52
  MaxSpaces = 15
  MaxLines = 3
  MaxFds = 3
  NULL = NULL
PROPERTY
  RssOrNothing
CHECK_DEADLOCK FALSE
