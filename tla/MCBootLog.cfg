CONSTANTS
  Browser = browser
  Children = {c1}
  MaxSettings = 1
  MaxLines = 4
SPECIFICATION Spec
INVARIANT ChildLinesKept
CHECK_DEADLOCK FALSE
