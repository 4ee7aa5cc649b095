\* Two chains, every script run for the chain of .env.
SPECIFICATION FairSpec
CONSTANTS
  Chains = {c1, c2}
  NoFlag = NoFlag
  Flags = {NoFlag}
  MaxEvents = 3
  Settings <- MCSettings
INVARIANTS
  TypeOK
  VerifierAgrees
  TestedIsVerified
  EnvSetUp
  PausedAreDead
  BoundBeforeInstructions
  RevertsExplained
PROPERTY TestsEventuallyPass
