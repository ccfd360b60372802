SPECIFICATION Spec
CONSTANTS
  Pages = {p1, p2, p3, p4}
  Queues = {a, b}
  NULL = NULL
  VectorSize = 2
INVARIANTS WellLinked
PROPERTY RefinesQueues
