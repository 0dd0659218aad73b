SPECIFICATION Spec
CONSTANTS
  NULL = NULL
  i1 = i1
  k1 = k1
  t1 = t1
  f1 = f1
  f2 = f2
  p1 = p1
  d1 = d1
  r1 = r1
  r2 = r2
  w1 = w1
  s1 = s1
  worker = worker
  e1 = e1
  bad = bad
  c1 = c1
  scope = scope
PROPERTIES
  QueueMovesOn UnansweredRequeued OverdueHeard OverdueAsked
  JobsEnd EventsSent PublishedAcked LoaderSettles
\* A viewer may leave a page that has nothing left to load alone.
CHECK_DEADLOCK FALSE
