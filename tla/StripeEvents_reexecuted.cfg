CONSTANTS
  Event = {e1}
  Handler = {h1, h2}
  Timeout = 1
  MaxFaults = 1
SPECIFICATION FairSpec
PROPERTY ConcludedNeverExecutedAgain
