\* Two events, two requests that may outlast the timeout, two faults.
CONSTANTS
  Event = {e1, e2}
  Handler = {h1, h2}
  Timeout = 1
  MaxFaults = 2
SPECIFICATION FairSpec
INVARIANTS TypeOK LeaseExclusive AckedIsConcluded
PROPERTIES ProcessedIsFinal LeaseSpec EventuallyAnswered
