CONSTANTS
  Users = {ana, bob}
  NoUser = NoUser
  Carts = {cart1}
  MaxSubmissions = 1
  MaxAuthChanges = 3
  MaxRestarts = 1
SPECIFICATION LiveSpec
CHECK_DEADLOCK FALSE
INVARIANTS
  NoOrderLeaks
  ProfileGoesFirst
PROPERTIES
  EverySubmissionIsAnswered
  
