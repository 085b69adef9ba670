SPECIFICATION FairSpec
CONSTANTS
  Size = 1
  MaxFaults = 1
INVARIANTS
  WaitingFromMember
  OfferedToMember
  EntrySettled
PROPERTIES
  KeepsPromise
  OfferEnds
CHECK_DEADLOCK FALSE
