CONSTANTS
  First <- SomeTasks
  Slots <- TasksOrWait
  Inside <- JustCode
  Shapes <- Straight
  Length = 3
  PostSync = PostSync
  Programs <- MCPrograms
SPECIFICATION Spec
INVARIANT DependencesOrdered
CHECK_DEADLOCK FALSE
