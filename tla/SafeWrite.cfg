SPECIFICATION Spec
CONSTANTS
  MaxWrites = 4
  MaxFaults = 3
  MaxDeaths = 3
INVARIANTS NeverTorn ReturnedIsKept LitterIsRare
CHECK_DEADLOCK FALSE
