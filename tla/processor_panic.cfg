SPECIFICATION Spec
CONSTANTS
  Jobs = {j1, j2}
  NoJob = NoJob
  Callers = {c1, c2}
  Workers = {w1, w2}
  QueueCap = 1
SYMMETRY Symmetry
INVARIANTS
  NoEnqueuePanics
