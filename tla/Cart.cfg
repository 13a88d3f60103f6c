CONSTANTS
  dj = dj
  bar = bar
  foto = foto
  wedding = wedding
  baptism = baptism
  Options = {dj, bar, foto}
  Events = {wedding, baptism}
  BarOptions = {bar}
  EventOf <- MCEventOf
  Price <- MCPrice
  Numbers <- MCNumbers
  MinInt <- MCMinInt
  MaxInt <- MCMaxInt
  MaxAdditions = 4
SPECIFICATION Spec
INVARIANTS
  TotalsAreExact
  CheckoutShowsCart
  OrderedOnce
  OneEventPerOrder
  OrdersAreWorthSubmitting
