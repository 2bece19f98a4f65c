CONSTANTS
  pa = pa
  pb = pb
  pr = pr
  Packages = {pa, pb, pr}
  Reused = {pr}
  Files <- MCFiles
  Large = {pa}
  BucketCount = 2
  MaxTries = 1
  MaxFails = 2
SPECIFICATION FairSpec
INVARIANTS AllAnnounced WholeUnlessFailed
PROPERTIES NoLateEntry InstallGoesOn
CHECK_DEADLOCK FALSE
