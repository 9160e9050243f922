\* Two overlapping requests and their revalidations under every fault.
CONSTANTS
  r1 = r1  r2 = r2  r3 = r3
  None = None
  Torn = Torn
  Requests <- TwoRequests
  MaxVersion = 3
  Faults <- CacheFaults
SPECIFICATION FairSpec
INVARIANTS
  TypeOK
PROPERTIES
  RegressesOnlyWhenRaced
  Converges
  EveryRequestIsAnswered
