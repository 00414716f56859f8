SPECIFICATION Spec
CONSTANTS
  k1 = k1  k2 = k2  k3 = k3
  MaxRuns = 2
  Boot = boot
  Users = {ann, bob}
  Markets = {uk, de}
  Skus = {k1, k2, k3}
  Reports <- SecondIsPoorer
  NoRun = norun
  NoUser = nouser
  NoRow = norow
  norow = norow
  TTL = 1
  MaxVersion = 2
  MaxFaults = 1
INVARIANTS TypeOK OneSyncPerBrand LeaseIsKept CompletedMeansStored SearchLagsOnlyPartialReports
PROPERTIES NothingIsTakenBack
SYMMETRY Symmetry
CHECK_DEADLOCK FALSE
