\* Three request threads, handlers that raise included, fair scheduling.
SPECIFICATION FairSpec
CONSTANTS
  Requests = {r1, r2, r3}
  Names = {n1, n2}
  n1 = n1
  n2 = n2
  NoName = NoName
  NoOne = NoOne
  Messages <- MCMessages
INVARIANTS
  TypeOK
  ExceptionsLeaveStateWhole
PROPERTY RefinesContract
PROPERTY EveryThreadEnds
