CONSTANTS
  Browser = browser
  Children = {c1}
  MaxSettings = 4
  MaxLines = 3
SPECIFICATION FairSpec
INVARIANTS TypeOK BrowserLinesKept DisplayOwners TmpUsable DaemonNotKilled
PROPERTY DumpDomBootEnds
CHECK_DEADLOCK FALSE
