SPECIFICATION FairSpec
CONSTANTS
  Pollers = {p, q, r}
  Pids = {n1, n2, n3}
  NoPid = none
  TTL = 4
INVARIANTS TypeOK MutualExclusion
PROPERTIES PollingGoesOn
