SPECIFICATION FairSpec
CONSTANTS
  Initial = initial
  Comments = {1, 2}
  FollowUps = {1}
  Bodies = {x, y}
  NoBody = nobody  NoJob = nojob
  Retries = 1
  MaxTime = 2
  MaxFaults = 1
INVARIANTS TypeOK PostsAreAccountedFor
PROPERTIES JobsAreSettled
CHECK_DEADLOCK FALSE
