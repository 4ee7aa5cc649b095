\* Three requests, handlers that may await and throw, shutdown at any time.
SPECIFICATION FairSpec
CONSTANTS
  Requests = {r1, r2, r3}
  Names = {n1, n2}
  n1 = n1
  n2 = n2
  NoName = NoName
  AuthorHandlers = TRUE
  Messages <- MCMessages
INVARIANTS
  TypeOK
  ChainOrder
  GracefulShutdown
PROPERTY RefinesContract
PROPERTY EveryRequestAnswered
