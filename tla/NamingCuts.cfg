SPECIFICATION Spec
CONSTANTS
  Runes <- AllRunes
  MaxWords = 2
  MaxBytes = 4
  MaxRecordingID = 4
  MaxText = 6
  MaxRecordings = 1
INVARIANTS SlugIsTheWords RingNameIsId
CHECK_DEADLOCK FALSE
