CONSTANTS
  Users = {ana, bob}
  NoUser = NoUser
  Carts = {cart1, cart2}
  MaxSubmissions = 2
  MaxAuthChanges = 2
  MaxRestarts = 1
SPECIFICATION Spec
SYMMETRY Symmetry
CHECK_DEADLOCK FALSE
INVARIANTS
  OrdersMatchSubmissions
  AtMostOneOrderPerSubmission
PROPERTIES
  OrdersFollowIntake
