CONSTANTS
  Users = {ana}
  NoUser = NoUser
  MaxRequests = 2
  MaxLogouts = 1
  MaxMishaps = 1
  MaxBacklog = 2
SPECIFICATION LiveSpec
INVARIANTS
  RootAgreesAtRest
  OnlyLogoutLeadsOut
  AlertsTellWhatHappened
PROPERTIES
  SignInGetsInside
  WindowComesBack
