\* Three goroutines, every mix of handlers and state reads, fair scheduling.
SPECIFICATION FairSpec
CONSTANTS
  Requests = {r1, r2, r3}
  Names = {n1, n2}
  n1 = n1
  n2 = n2
  NoName = NoName
  NoOne = NoOne
  Messages <- MCMessages
INVARIANTS
  TypeOK
  NumbersGapFree
  SnapshotConsistent
PROPERTY RefinesContract
PROPERTY EveryRequestAnswered
