CONSTANTS
  Requests = {r1}
  MaxFamilies = 2
  StrictBind = TRUE
  MaxRows = 4
  MaxVersion = 2
SPECIFICATION FairSpec
INVARIANTS FamilyCap  LogoutEverywhere
PROPERTIES EveryRequestEnds
