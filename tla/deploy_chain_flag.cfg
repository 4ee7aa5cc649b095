\* Scripts may name the chain on the command line.
SPECIFICATION Spec
CONSTANTS
  Chains = {c1, c2}
  NoFlag = NoFlag
  Flags = {NoFlag, c1, c2}
  MaxEvents = 2
INVARIANT NodeServesItsChain
