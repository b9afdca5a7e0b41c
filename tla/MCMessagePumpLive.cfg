SPECIFICATION FairSpec
CONSTANTS
  Posters = {"p1", "p2"}
  MaxTasks = 3
  Kind = "default"
  Cap = 2
  FarOff = 5
  MayDelay = TRUE
  MayLose = TRUE
PROPERTIES
  TasksRun
