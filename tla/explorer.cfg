SPECIFICATION Spec
CONSTANTS
  s = s
  t = t
  u = u
  None = None
  Symbols = {s, t, u}
  Chars <- MCChars
  Indexes <- MCIndexes
  MaxQuery = 1
  MaxBack = 2
  MaxReindex = 2
INVARIANTS WalkStartsAtSelection SelectionOnList PanelSettled
CHECK_DEADLOCK FALSE
