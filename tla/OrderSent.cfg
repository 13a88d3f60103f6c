CONSTANTS
  Users = {ana}
  NoUser = NoUser
  Carts = {cart1}
  MaxSubmissions = 1
  MaxAuthChanges = 2
  MaxRestarts = 0
SPECIFICATION Spec
CHECK_DEADLOCK FALSE
INVARIANTS
  ShownOrderIsSent
