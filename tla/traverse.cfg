SPECIFICATION Spec
CONSTANTS
  a = a
  b = b
  c = c
  d = d
  e = e
  Symbols = {a, b, c, d, e}
  None = None
  Links <- SomeLinks
  Queries <- SomeQueries
  CapsSet <- SomeCaps
  MaxCommits = 2
INVARIANTS CompleteUnlessTruncated DepthIsDistance PathIsReal WithinCaps
CHECK_DEADLOCK FALSE
