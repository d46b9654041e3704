SPECIFICATION FairSpec
CONSTANTS
  Sources <- AllClips
  MaxFaults = 2
  MaxKills = 2
INVARIANTS NeverOnRumble SpeechIsHeard 
PROPERTIES ClipSettled
CHECK_DEADLOCK FALSE
