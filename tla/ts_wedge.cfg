\* A handler that throws next to one that does not.
SPECIFICATION FairSpec
CONSTANTS
  Requests = {r1, r2}
  Names = {n1, n2}
  n1 = n1
  n2 = n2
  NoName = NoName
  AuthorHandlers = TRUE
  Messages <- MCMessages
PROPERTY OthersAnswered
