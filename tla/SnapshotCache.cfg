\* Two page requests; refreshes may fail twice.
SPECIFICATION FairSpec
CONSTANTS
  p1 = p1
  p2 = p2
  p3 = p3
  Pages <- MCTwoPages
  Background = Background
  Nobody = Nobody
  TTL = 1
  RefreshTimeout = 1
  MaxFaults = 1
INVARIANTS OnePageRefreshes ServedAgeIsBounded
PROPERTIES NoRequestHangs CacheRecovers
