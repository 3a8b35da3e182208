SPECIFICATION CrcSpec
CONSTANTS
  W = 16
  BYTE = 2
  Polys <- NarrowPolys
INVARIANTS
  DividesByPoly
  TableOfCrcs
  BigEndianTableBlank
CHECK_DEADLOCK FALSE
