SPECIFICATION Spec
CONSTANTS
  Images = {i1}
  Widths <- MCWidths
  Requests = {r1, r2}
  Workers = {w1}
  QueueCap = 1
  NoJob = NoJob
INVARIANTS
  EnqueueOutlivesClient
