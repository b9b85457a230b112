SPECIFICATION FairStoreSpec
CONSTANTS
  p1 = p1  t1 = t1  t2 = t2  t3 = t3
  l1 = l1  l2 = l2  l3 = l3
  None = None
  c1 = c1
  Chunks = {c1}
  Procs = {p1}
  Tasks = {t1, t2, t3}
  ProcOf <- OneProc
  Callers <- TwoIfStale
  Locks = {l1, l2, l3}
  Faults = {"stale", "fetch", "io", "crash"}
INVARIANTS
  FetchedOnce
  HitsStayOffline
  OnlyWholeManifests
PROPERTIES
  StoreAnswers
