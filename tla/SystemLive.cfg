CONSTANTS
  p1 = p1 n1 = n1 n2 = n2 n3 = n3
  Posts = {p1}
  Hourly = hourlyThread
  NoThread = noThread
  Notes = {n1, n2, n3}
  Recorded = {n1, n2}
  Poison = {n2}
  Voices = {"no-gallery", "likely-owner"}
  NoVoice = "none"
  MaxFaults = 2
  MaxRestarts = 1
SPECIFICATION FairSys
PROPERTIES ImplementsBook 
CHECK_DEADLOCK FALSE
