SPECIFICATION Spec
CONSTANTS
  Posters = {"p1", "p2"}
  MaxTasks = 4
  Kind = "libevent"
  Cap = 2
  FarOff = 5
  MayDelay = TRUE
  MayLose = TRUE
INVARIANTS
  TypeOK
  NoLostWakeup
  StallBounded
PROPERTIES
  TasksRunInOrder
