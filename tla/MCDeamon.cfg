CONSTANTS
  pa = pa
  pb = pb
  na = na
  nb = nb
  d1 = d1
  d2 = d2
  None = None
  Torn = Torn
  Killer = Killer
  Projects = {pa, pb}
  Names = {na, nb}
  NameOf <- MCNameOf
  Deamons = {d1}
  MaxRuns = 2
  MaxDeaths = 1
  MaxStops = 2
SPECIFICATION FairSpec
INVARIANTS LiveIsMounted FullCleanStaysClean MapIsMetadata
PROPERTIES Remounted RequestsEnd
