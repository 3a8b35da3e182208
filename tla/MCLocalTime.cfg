SPECIFICATION FairSpec
CONSTANTS
  Times <- ShortTimes
  Zones <- ShortZones
  secs_min = 2
  secs_hour = 6
  secs_day = 24
INVARIANTS
  IndexInBounds
  InstantKept
  FieldsInRange
  WeekdayOfDate
PROPERTY
  Terminates
CHECK_DEADLOCK FALSE
