SPECIFICATION Spec
CONSTANTS
  a = a  b = b  j = j  p1 = p1  p2 = p2
  t1 = t1  t2 = t2  t3 = t3
  l1 = l1  l2 = l2  l3 = l3
  None = None  Done = Done  Err = Err
  Junk = j
  Chunks = {a}
  Procs = {p1}
  Tasks = {t1, t2}
  ProcOf <- OneProc
  Locks = {l1, l2}
  Capacity = 1
  Faults = {"fetch"}
INVARIANTS
  PublishedWhole
