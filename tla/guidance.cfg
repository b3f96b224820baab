SPECIFICATION FairSpec
CONSTANTS
  plain = plain
  namesake = namesake
  Files = {plain, namesake}
  Ambiguous = {namesake}
  MaxScans = 9
  MaxAsks = 2
  MaxEvents = 1
PROPERTIES
    OffersHold
    ScanCures
    LeadsOut
CHECK_DEADLOCK FALSE
