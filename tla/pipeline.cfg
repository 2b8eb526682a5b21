\* Two workers, one more than main.c asks for; any may fail to start.
SPECIFICATION FairSpec
CONSTANTS
  m1 = m1
  m2 = m2
  None = None
  Macs <- MCMacs
  Rules <- MCRules
  NoRule <- MCNoRule
  Rule <- MCRule
  Rank <- MCRank
  NWorkers = 2
  ThreadsMayFail = TRUE
  Heads = {0, 1, 7}
  MaxFrames = 2
INVARIANTS
  TypeOK
  NoDanglingPointer
  OneOwner
  FilteredAsConfigured
  NobodyPassesTwice
PROPERTIES
  EveryFrameFreed
