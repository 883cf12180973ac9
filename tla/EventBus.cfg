SPECIFICATION FairSpec
CONSTANTS
  all = all
  ends = ends
  progress = progress
  completed = completed
  Sub = {all, ends}
  Kind = {progress, completed}
  Terminal = {completed}
  Wants <- MCWants
  Capacity <- MCCapacity
  Stubborn = {ends}
  MaxEvents = 4
INVARIANTS
  TypeOK
  ChannelBounded
  DropsCounted
PROPERTIES
  KeepsDelivery
  TerminalDelivered
  QuietAfterClose
  TasksEnd
CHECK_DEADLOCK FALSE
