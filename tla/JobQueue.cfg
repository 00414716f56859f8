SPECIFICATION FairSpec
CONSTANTS
    Jobs = {j1, bad}
    Foreign = {bad}
    Unbranded = {bad}
    Slots = {s1, s2, s3, s4, s5}
    NoSlot = NoSlot
    NoJob = NoJob
    Retries = 1
    MaxPublishAttempts = 2
    Prefetch = 2
    MaxFaults = 2
INVARIANTS TypeOK PublishedNeverLost BuriedOnlyAfterAllRetries DuplicatesNeedFaults
  
CHECK_DEADLOCK FALSE
