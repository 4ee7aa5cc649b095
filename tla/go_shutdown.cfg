\* One request in flight when the process is told to stop.
SPECIFICATION MainSpec
CONSTANTS
  Requests = {r1, r2}
  Names = {n1}
  n1 = n1
  NoName = NoName
  NoOne = NoOne
  Messages <- MCMessages
INVARIANT GracefulShutdown
