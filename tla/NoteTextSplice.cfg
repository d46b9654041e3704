SPECIFICATION Spec
CONSTANTS
  Habits <- Everything
  MaxEdits = 4
INVARIANTS TypeOK VoicedOnce
PROPERTIES SplicedIsScored OnlyInserts IdStaysReadable
CHECK_DEADLOCK FALSE
