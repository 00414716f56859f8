SPECIFICATION Spec
CONSTANTS
  Initial = initial
  Comments = {1}
  FollowUps = {1}
  Bodies = {x, y}
  NoBody = nobody  NoJob = nojob
  Retries = 1
  MaxTime = 2
  MaxFaults = 1
INVARIANTS NoDuplicatePosting
CHECK_DEADLOCK FALSE
