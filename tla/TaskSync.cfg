CONSTANTS
  First <- AllFirst
  Slots <- AllSlots
  Inside <- AllInside
  Shapes <- AllShapes
  Length = 3
  PostSync = PostSync
  Programs <- MCPrograms
SPECIFICATION Spec
INVARIANTS AliveExact EverySyncFound StaticIsCertain EveryTaskSyncs
PROPERTY Terminates
CHECK_DEADLOCK FALSE
