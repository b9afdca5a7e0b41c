SPECIFICATION PartsSpec
CONSTANTS
  Helpers = {"gpu", "io"}
  MaxObjects = 4
  MaxRefs = 3
  Units = {"u1", "u2"}
  MaxFills = 2
  MaxFds = 4
  TableSize = 2
  Capacity = 2
  MaxValue = 1
  Paths = {"p1", "p2"}
  MaxWatches = 2
  Sizes = {0, 1}
  MaxTime = 2
  FileChanges = 3
  Shells = {"s1"}
  Chars = {"a"}
  MaxText = 2
  Widths = {0, 100}
  Heights = {0, 40}
  Callers = {"t1", "t2"}
  MaxShm = 3
  MaxCount = 2
  MaxFd = 5
  MaxRemaps = 2
  MaxChanges = 2
INVARIANTS
  TypesOK
  OneManager
  NoWildCall
  BindingsStayMapped
  MissedOnlyWithinTheSecond
  HitsApart
  EnterCommitsWhatIsShown
  ChildGetsItsFiles
  NothingElseSurvives
  ResourcesAccountedFor
  ChildHasWhatItWasGiven
PROPERTIES
  IsCounter
  TypingIsUndisturbed
CHECK_DEADLOCK FALSE
