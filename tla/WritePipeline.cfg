CONSTANTS
  Users = {ana}
  NoUser = NoUser
  MaxPendingWrites = 2
  MaxWrites = 3
  MaxAuthChanges = 1
  MaxMishaps = 1
SPECIFICATION LiveSpec
CHECK_DEADLOCK FALSE
INVARIANTS
  StreamMirrorsQueue
  StatesAreLegal
  OutcomesAreTrue
  WrongTokenIsTransient
PROPERTIES
  ImplementsClient
  QueueDrains
