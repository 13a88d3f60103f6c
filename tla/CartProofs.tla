------------------------------- MODULE CartProofs -------------------------------
(***************************************************************************)
(* Safety of Cart for every catalogue, every range of Int and any number   *)
(* of additions.                                                           *)
(*                                                                         *)
(* An addition is in one place at a time: in the cart of the services      *)
(* screen, or, once the checkout has been submitted, in one order; and no  *)
(* screen that shows the cart is reached again after that.                 *)
(*                                                                         *)
(* The total is a fold over the cart; that the fold counts what is added   *)
(* once is shown by induction on the length of the cart.                   *)
(***************************************************************************)
EXTENDS Cart, TLAPS, WellFoundedInduction

CartIsOpen == screen \in {"services", "checkout"}

(* A sheet lies over the services of its own event. *)
SheetsAreOfTheEvent ==
  sheet # NoSheet => screen = "services" /\ EventOf[sheet.option] = event

(* There is a button to the checkout only for a cart worth ordering. *)
BarFollowsCart == checkoutBar => totalPrice > 0 /\ selectedServices # <<>>

CheckoutIsWorthSubmitting ==
  screen = "checkout" => checkout.totalPrice > 0 /\ checkout.selectedServices # <<>>

CartIsOfTheEvent ==
  CartIsOpen => \A k \in DOMAIN selectedServices : EventOf[selectedServices[k].option] = event

(* Additions are numbered as they are made. *)
AdditionsAreNumbered ==
  /\ \A k, l \in DOMAIN selectedServices :
       selectedServices[k].addition = selectedServices[l].addition => k = l
  /\ \A k \in DOMAIN selectedServices : selectedServices[k].addition <= additions
  /\ \A i \in DOMAIN submitted : \A k \in DOMAIN submitted[i].selectedServices :
       submitted[i].selectedServices[k].addition <= additions

OpenCartIsNotOrdered ==
  CartIsOpen => \A k \in DOMAIN selectedServices :
    \A i \in DOMAIN submitted : \A l \in DOMAIN submitted[i].selectedServices :
      submitted[i].selectedServices[l].addition # selectedServices[k].addition

OrdersOk == OrderedOnce /\ OneEventPerOrder /\ OrdersAreWorthSubmitting

CartOk == /\ BarFollowsCart
          /\ CartIsOfTheEvent
          /\ AdditionsAreNumbered
          /\ OpenCartIsNotOrdered

CheckoutOk == CheckoutShowsCart /\ CheckoutIsWorthSubmitting

IInv == TypeOK /\ SheetsAreOfTheEvent /\ CartOk /\ CheckoutOk /\ OrdersOk

LEMMA InitIInv == Init => IInv
<1> SUFFICES ASSUME Init PROVE IInv
  OBVIOUS
<1>1. TypeOK
  <2>1. totalPrice \in MinInt..MaxInt /\ additions \in 0..MaxAdditions
    BY CartAssumption DEF Init
  <2>2. EmptyOrder \in Order
    BY DEF EmptyOrder, Order
  <2>3. checkoutBar \in BOOLEAN /\ crashed \in BOOLEAN
    BY DEF Init
  <2>4. /\ screen \in Screen /\ event \in Events /\ sheet = NoSheet
        /\ selectedServices \in Seq(Entry) /\ checkout \in Order /\ submitted \in Seq(Order)
    BY <2>2 DEF Init, Screen
  <2>5. QED
    BY <2>1, <2>3, <2>4 DEF TypeOK
<1>2. SheetsAreOfTheEvent /\ CartOk /\ CheckoutOk /\ OrdersOk
  BY DEF Init, SheetsAreOfTheEvent, CartOk, BarFollowsCart, CartIsOfTheEvent, CartIsOpen,
         AdditionsAreNumbered, OpenCartIsNotOrdered, CheckoutOk, CheckoutShowsCart,
         CheckoutIsWorthSubmitting, OrdersOk, OrderedOnce, OneEventPerOrder,
         OrdersAreWorthSubmitting, Range
<1>3. QED
  BY <1>1, <1>2 DEF IInv

--------------------------------------------------------------------------------
(* Steps that leave the cart and the orders alone: the screen stays, or    *)
(* goes back, or the process ends.                                         *)

LEMMA StillKeeps ==
  ASSUME CartOk, CheckoutOk, OrdersOk,
         UNCHANGED <<event, cartVars, checkout, submitted>>,
         \/ screen' \in {screen, "chooseEvent"}
         \/ screen = "checkout" /\ screen' = "services"
  PROVE  CartOk' /\ CheckoutOk' /\ OrdersOk'
<1> USE DEF cartVars
<1>1. CartOk'
  BY DEF CartOk, BarFollowsCart, CartIsOfTheEvent, CartIsOpen, AdditionsAreNumbered,
         OpenCartIsNotOrdered
<1>2. CheckoutOk'
  BY DEF CheckoutOk, CheckoutShowsCart, CheckoutIsWorthSubmitting
<1>3. OrdersOk'
  BY DEF OrdersOk, OrderedOnce, OneEventPerOrder, OrdersAreWorthSubmitting, Range
<1>4. QED
  BY <1>1, <1>2, <1>3

LEMMA NavigationKeeps ==
  ASSUME IInv, ServicesDidTapBack \/ CheckoutDidTapBack \/ ProcessedDidTapBack \/ Relaunch
  PROVE  IInv'
<1>1. /\ UNCHANGED <<event, cartVars, checkout, submitted>>
      /\ \/ screen' \in {screen, "chooseEvent"}
         \/ screen = "checkout" /\ screen' = "services"
      /\ sheet' = NoSheet
  BY DEF ServicesDidTapBack, CheckoutDidTapBack, ProcessedDidTapBack, Relaunch, Touchable
<1>2. TypeOK'
  <2>1. screen' \in Screen /\ crashed' \in BOOLEAN
    BY DEF ServicesDidTapBack, CheckoutDidTapBack, ProcessedDidTapBack, Relaunch, Screen,
           IInv, TypeOK
  <2>2. QED
    BY <1>1, <2>1 DEF IInv, TypeOK, cartVars
<1>3. SheetsAreOfTheEvent'
  BY <1>1 DEF SheetsAreOfTheEvent
<1>4. QED
  BY <1>1, <1>2, <1>3, StillKeeps DEF IInv

(* The sheet changes its phase, is presented, or goes. *)
LEMMA SheetKeeps ==
  ASSUME IInv, UNCHANGED <<screen, event, cartVars, checkout, submitted, crashed>>,
         \/ sheet' = NoSheet
         \/ \E o \in Options, phase \in Phase :
              /\ sheet' = Sheet(o, phase)
              /\ screen = "services" /\ EventOf[o] = event
  PROVE  IInv'
<1>1. TypeOK'
  BY DEF IInv, TypeOK, cartVars, Sheet
<1>2. SheetsAreOfTheEvent'
  BY DEF SheetsAreOfTheEvent, Sheet
<1>3. QED
  BY <1>1, <1>2, StillKeeps DEF IInv

LEMMA SheetPhases ==
  ASSUME IInv, NEW o \in Options, NEW phases \in SUBSET Phase, SheetIs(o, phases)
  PROVE  screen = "services" /\ EventOf[o] = event
BY DEF IInv, SheetIs, SheetsAreOfTheEvent, Sheet, NoSheet

LEMMA SheetActionsKeep ==
  ASSUME IInv, NEW o \in Options,
         \/ DidSelectRow(o) \/ DescriptionAnswers(o) \/ BarDidTapCartButton(o)
         \/ PresentAlert(o) \/ AlertCancelled(o) \/ DismissSheet(o)
  PROVE  IInv'
<1> USE DEF Phase
<1>1. CASE DidSelectRow(o)
  BY <1>1, SheetKeeps DEF DidSelectRow, ShowSheet, Touchable
<1>2. CASE DescriptionAnswers(o)
  BY <1>2, SheetKeeps, SheetPhases DEF DescriptionAnswers, ShowSheet
<1>3. CASE BarDidTapCartButton(o)
  BY <1>3, SheetKeeps, SheetPhases DEF BarDidTapCartButton, ShowSheet
<1>4. CASE PresentAlert(o)
  BY <1>4, SheetKeeps, SheetPhases DEF PresentAlert, ShowSheet
<1>5. CASE AlertCancelled(o)
  BY <1>5, SheetKeeps, SheetPhases DEF AlertCancelled, ShowSheet
<1>6. CASE DismissSheet(o)
  BY <1>6, SheetKeeps DEF DismissSheet
<1>7. QED
  BY <1>1, <1>2, <1>3, <1>4, <1>5, <1>6

--------------------------------------------------------------------------------
(* A new services screen, the checkout, and the order. *)

LEMMA GoToServicesKeeps ==
  ASSUME IInv, NEW e \in Events, GoToServices(e)
  PROVE  IInv'
<1>1. /\ screen' = "services" /\ event' = e /\ sheet = NoSheet
      /\ selectedServices' = <<>> /\ totalPrice' = 0 /\ checkoutBar' = FALSE
      /\ UNCHANGED <<additions, sheet, checkout, submitted, crashed>>
  BY DEF GoToServices, EmptyCart, Touchable
<1>2. TypeOK'
  <2>1. totalPrice' \in MinInt..MaxInt
    BY <1>1, CartAssumption
  <2>2. checkoutBar' \in BOOLEAN
    BY <1>1
  <2>3. screen' \in Screen /\ event' \in Events /\ selectedServices' \in Seq(Entry)
    BY <1>1 DEF Screen
  <2>4. UNCHANGED <<additions, sheet, checkout, submitted, crashed>>
    BY <1>1
  <2>5. QED
    BY <2>1, <2>2, <2>3, <2>4 DEF IInv, TypeOK
<1>3. SheetsAreOfTheEvent'
  BY <1>1 DEF SheetsAreOfTheEvent
<1>4. CartOk'
  BY <1>1 DEF IInv, CartOk, BarFollowsCart, CartIsOfTheEvent, AdditionsAreNumbered,
              OpenCartIsNotOrdered
<1>5. CheckoutOk'
  BY <1>1 DEF CheckoutOk, CheckoutShowsCart, CheckoutIsWorthSubmitting
<1>6. OrdersOk'
  BY <1>1 DEF IInv, OrdersOk, OrderedOnce, OneEventPerOrder, OrdersAreWorthSubmitting, Range
<1>7. QED
  BY <1>2, <1>3, <1>4, <1>5, <1>6 DEF IInv

LEMMA DidTapCheckoutKeeps ==
  ASSUME IInv, DidTapCheckout
  PROVE  IInv'
<1>1. /\ screen = "services" /\ screen' = "checkout" /\ sheet = NoSheet /\ checkoutBar
      /\ checkout' = [selectedServices |-> selectedServices, totalPrice |-> totalPrice]
      /\ UNCHANGED <<event, cartVars, sheet, submitted, crashed>>
  BY DEF DidTapCheckout, Touchable
<1>2. TypeOK'
  <2>1. totalPrice \in Int /\ selectedServices \in Seq(Entry)
    BY CartAssumption DEF IInv, TypeOK
  <2>2. checkout' \in Order
    BY <1>1, <2>1 DEF Order
  <2>3. QED
    BY <1>1, <2>2 DEF IInv, TypeOK, Screen, cartVars
<1>3. SheetsAreOfTheEvent'
  BY <1>1 DEF SheetsAreOfTheEvent
<1>4. CartOk'
  BY <1>1 DEF IInv, CartOk, BarFollowsCart, CartIsOfTheEvent, CartIsOpen, AdditionsAreNumbered,
              OpenCartIsNotOrdered, cartVars
<1>5. CheckoutOk'
  BY <1>1 DEF IInv, CartOk, BarFollowsCart, CheckoutOk, CheckoutShowsCart,
              CheckoutIsWorthSubmitting, cartVars
<1>6. OrdersOk'
  BY <1>1 DEF IInv, OrdersOk, OrderedOnce, OneEventPerOrder, OrdersAreWorthSubmitting, Range
<1>7. QED
  BY <1>2, <1>3, <1>4, <1>5, <1>6 DEF IInv

(* The order is what is in the cart, and the cart is closed with it. *)
LEMMA DidTapSubmitOrderKeeps ==
  ASSUME IInv, DidTapSubmitOrder
  PROVE  IInv'
<1> DEFINE last == Len(submitted) + 1
<1>1. /\ screen = "checkout" /\ screen' = "processed" /\ sheet = NoSheet
      /\ submitted' = Append(submitted, checkout)
      /\ UNCHANGED <<event, cartVars, sheet, checkout, crashed>>
  BY DEF DidTapSubmitOrder, Touchable
<1>2. submitted \in Seq(Order) /\ checkout \in Order
  BY DEF IInv, TypeOK
<1>3. /\ DOMAIN submitted' = DOMAIN submitted \cup {last}
      /\ last \notin DOMAIN submitted
      /\ submitted'[last] = checkout
      /\ \A i \in DOMAIN submitted : submitted'[i] = submitted[i]
  BY <1>1, <1>2
<1>4. /\ checkout.selectedServices = selectedServices
      /\ checkout.totalPrice > 0 /\ checkout.selectedServices # <<>>
  BY <1>1 DEF IInv, CheckoutOk, CheckoutShowsCart, CheckoutIsWorthSubmitting
<1>5. TypeOK'
  BY <1>1, <1>2 DEF IInv, TypeOK, Screen, cartVars
<1>6. SheetsAreOfTheEvent'
  BY <1>1 DEF SheetsAreOfTheEvent
<1>7. CartOk'
  <2>1. BarFollowsCart' /\ CartIsOfTheEvent' /\ OpenCartIsNotOrdered'
    BY <1>1 DEF IInv, CartOk, BarFollowsCart, CartIsOfTheEvent, CartIsOpen,
                OpenCartIsNotOrdered, cartVars
  <2>2. AdditionsAreNumbered'
    BY <1>1, <1>3, <1>4 DEF IInv, CartOk, AdditionsAreNumbered, cartVars
  <2>3. QED
    BY <2>1, <2>2 DEF CartOk
<1>8. CheckoutOk'
  BY <1>1 DEF CheckoutOk, CheckoutShowsCart, CheckoutIsWorthSubmitting
<1>9. OrdersOk'
  <2>1. OrderedOnce'
    BY <1>1, <1>3, <1>4
    DEF IInv, OrdersOk, OrderedOnce, CartOk, AdditionsAreNumbered, OpenCartIsNotOrdered, CartIsOpen
  <2>2. OneEventPerOrder'
    BY <1>1, <1>3, <1>4
    DEF IInv, OrdersOk, OneEventPerOrder, CartOk, CartIsOfTheEvent, CartIsOpen
  <2>3. OrdersAreWorthSubmitting'
    BY <1>3, <1>4 DEF IInv, OrdersOk, OrdersAreWorthSubmitting, Range
  <2>4. QED
    BY <2>1, <2>2, <2>3 DEF OrdersOk
<1>10. QED
  BY <1>5, <1>6, <1>7, <1>8, <1>9 DEF IInv

--------------------------------------------------------------------------------
(* The cart grows, or the arithmetic traps. *)

LEMMA AddToCartKeeps ==
  ASSUME IInv, NEW o \in Options, NEW number \in Int, NEW phase \in Phase,
         SheetIs(o, {phase}), additions < MaxAdditions, AddToCart(o, number),
         \/ sheet' = NoSheet
         \/ \E next \in Phase : sheet' = Sheet(o, next)
  PROVE  IInv'
<1> DEFINE entry == [option |-> o, number |-> number, addition |-> additions + 1]
           last == Len(selectedServices) + 1
           total == totalPrice + number * Price[o]
           Fitting == Fits(number * Price[o]) /\ Fits(total)
<1>1. screen = "services" /\ EventOf[o] = event
  BY SheetPhases
<1>2. /\ selectedServices \in Seq(Entry) /\ submitted \in Seq(Order)
      /\ additions \in 0..MaxAdditions /\ MaxAdditions \in Nat
      /\ totalPrice \in MinInt..MaxInt /\ MinInt \in Int /\ MaxInt \in Int
      /\ event \in Events /\ checkout \in Order
  BY CartAssumption DEF IInv, TypeOK
<1>3. additions + 1 \in 0..MaxAdditions /\ additions + 1 \in Nat \ {0}
  BY <1>2
<1>4. sheet' \in {NoSheet} \cup [phase : Phase, option : Options]
  BY DEF Sheet
<1>5. SheetsAreOfTheEvent' <=> (sheet' # NoSheet => screen' = "services" /\ EventOf[o] = event')
  BY DEF SheetsAreOfTheEvent, Sheet
<1>6. CASE ~Fitting
  <2>1. crashed' = TRUE /\ UNCHANGED <<screen, event, cartVars, checkout, submitted>>
    BY <1>6 DEF AddToCart
  <2>2. crashed' \in BOOLEAN
    BY <2>1
  <2>3. TypeOK'
    BY <1>4, <2>1, <2>2 DEF IInv, TypeOK, cartVars
  <2>4. QED
    BY <1>1, <1>5, <2>1, <2>3, StillKeeps DEF IInv
<1>7. CASE Fitting
  <2>1. /\ selectedServices' = Append(selectedServices, entry)
        /\ totalPrice' = total
        /\ checkoutBar' = (total > 0)
        /\ additions' = additions + 1
        /\ UNCHANGED <<screen, event, checkout, submitted, crashed>>
    BY <1>7 DEF AddToCart, Added
  <2>2. entry \in Entry
    BY <1>3 DEF Entry
  <2>3. /\ DOMAIN selectedServices' = DOMAIN selectedServices \cup {last}
        /\ last \notin DOMAIN selectedServices
        /\ selectedServices'[last] = entry
        /\ \A k \in DOMAIN selectedServices : selectedServices'[k] = selectedServices[k]
        /\ selectedServices' # <<>>
    BY <1>2, <2>1, <2>2
  <2>4. TypeOK'
    <3>1. checkoutBar' \in BOOLEAN
      BY <2>1
    <3>2. totalPrice' \in MinInt..MaxInt
      BY <1>7, <2>1 DEF Fits
    <3>3. selectedServices' \in Seq(Entry) /\ additions' \in 0..MaxAdditions
      BY <1>2, <1>3, <2>1, <2>2
    <3>4. UNCHANGED <<screen, event, checkout, submitted, crashed>>
      BY <2>1
    <3>5. QED
      BY <1>4, <3>1, <3>2, <3>3, <3>4 DEF IInv, TypeOK
  <2>5. SheetsAreOfTheEvent'
    BY <1>1, <1>5, <2>1
  <2>6. BarFollowsCart'
    <3>1. checkoutBar' <=> totalPrice' > 0
      BY <2>1
    <3>2. QED
      BY <2>3, <3>1 DEF BarFollowsCart
  <2>7. UNCHANGED <<screen, event, checkout, submitted>> /\ additions' = additions + 1
    BY <2>1
  <2>8. CartIsOfTheEvent'
    BY <1>1, <2>3, <2>7 DEF IInv, CartOk, CartIsOfTheEvent, CartIsOpen
  <2>9. /\ \A k \in DOMAIN selectedServices : selectedServices[k].addition \in Nat
        /\ \A i \in DOMAIN submitted : \A k \in DOMAIN submitted[i].selectedServices :
             submitted[i].selectedServices[k].addition \in Nat
    <3>1. \A k \in DOMAIN selectedServices : selectedServices[k] \in Entry
      BY <1>2
    <3>2. \A i \in DOMAIN submitted : submitted[i] \in Order
      BY <1>2
    <3>3. \A i \in DOMAIN submitted : submitted[i].selectedServices \in Seq(Entry)
      BY <3>2 DEF Order
    <3>4. \A i \in DOMAIN submitted : \A k \in DOMAIN submitted[i].selectedServices :
            submitted[i].selectedServices[k] \in Entry
      BY <3>3
    <3>5. QED
      BY <3>1, <3>4 DEF Entry
  <2>10. AdditionsAreNumbered /\ OpenCartIsNotOrdered /\ additions \in Nat
    BY <1>2 DEF IInv, CartOk
  <2>11. AdditionsAreNumbered'
    BY <2>3, <2>7, <2>9, <2>10 DEF AdditionsAreNumbered
  <2>12. OpenCartIsNotOrdered'
    BY <1>1, <2>3, <2>7, <2>9, <2>10
    DEF AdditionsAreNumbered, OpenCartIsNotOrdered, CartIsOpen
  <2>13. CheckoutOk'
    BY <1>1, <2>7 DEF CheckoutOk, CheckoutShowsCart, CheckoutIsWorthSubmitting
  <2>14. OrdersOk'
    BY <2>7 DEF IInv, OrdersOk, OrderedOnce, OneEventPerOrder, OrdersAreWorthSubmitting, Range
  <2>15. QED
    BY <2>4, <2>5, <2>6, <2>8, <2>11, <2>12, <2>13, <2>14 DEF IInv, CartOk
<1>8. QED
  BY <1>6, <1>7

LEMMA StutterKeeps == IInv /\ UNCHANGED vars => IInv'
<1> SUFFICES ASSUME IInv, UNCHANGED vars PROVE IInv'
  OBVIOUS
<1>1. UNCHANGED <<screen, event, cartVars, sheet, checkout, submitted, crashed>>
  BY DEF vars
<1>2. TypeOK' /\ SheetsAreOfTheEvent'
  BY <1>1 DEF IInv, TypeOK, SheetsAreOfTheEvent, cartVars
<1>3. QED
  BY <1>1, <1>2, StillKeeps DEF IInv

LEMMA NextKeepsIInv == IInv /\ [Next]_vars => IInv'
<1> SUFFICES ASSUME IInv, [Next]_vars PROVE IInv'
  OBVIOUS
<1>1. CASE \E e \in Events : GoToServices(e)
  BY <1>1, GoToServicesKeeps
<1>2. CASE ServicesDidTapBack \/ CheckoutDidTapBack \/ ProcessedDidTapBack \/ Relaunch
  BY <1>2, NavigationKeeps
<1>3. CASE DidTapCheckout \/ DidTapSubmitOrder
  BY <1>3, DidTapCheckoutKeeps, DidTapSubmitOrderKeeps
<1>4. ASSUME NEW o \in Options,
             \/ DidSelectRow(o) \/ DescriptionAnswers(o) \/ BarDidTapCartButton(o)
             \/ PresentAlert(o) \/ AlertCancelled(o) \/ DismissSheet(o)
      PROVE  IInv'
  BY <1>4, SheetActionsKeep
<1>5. ASSUME NEW o \in Options, DidTapCartButton(o)
      PROVE  IInv'
  <2>1. "shown" \in Phase /\ 1 \in Int
    BY DEF Phase
  <2>2. QED
    BY <1>5, <2>1, AddToCartKeeps DEF DidTapCartButton
<1>6. ASSUME NEW o \in Options, NEW number \in Numbers, AlertOK(o, number)
      PROVE  IInv'
  <2>1. "alert" \in Phase /\ "dismissQueued" \in Phase /\ number \in Int
    BY CartAssumption DEF Phase
  <2>2. QED
    BY <1>6, <2>1, AddToCartKeeps DEF AlertOK
<1>7. CASE UNCHANGED vars
  BY <1>7, StutterKeeps
<1>8. QED
  BY <1>1, <1>2, <1>3, <1>4, <1>5, <1>6, <1>7 DEF Next

LEMMA IInvHolds == Spec => []IInv
BY InitIInv, NextKeepsIInv, PTL DEF Spec

(* The variables of the services screen and of the checkout keep their     *)
(* types; the total stays in the range of Int, whatever is added.          *)
THEOREM TypeCorrect == Spec => []TypeOK
<1>1. IInv => TypeOK
  BY DEF IInv
<1>2. QED
  BY <1>1, IInvHolds, PTL

(* The copy that the checkout was given is the cart beneath it. *)
THEOREM CheckoutIsTheCart == Spec => []CheckoutShowsCart
<1>1. IInv => CheckoutShowsCart
  BY DEF IInv, CheckoutOk
<1>2. QED
  BY <1>1, IInvHolds, PTL

(* No sequence of taps orders the same addition twice. *)
THEOREM NothingOrderedTwice == Spec => []OrderedOnce
<1>1. IInv => OrderedOnce
  BY DEF IInv, OrdersOk
<1>2. QED
  BY <1>1, IInvHolds, PTL

(* No order mixes the services of two events. *)
THEOREM OneEvent == Spec => []OneEventPerOrder
<1>1. IInv => OneEventPerOrder
  BY DEF IInv, OrdersOk
<1>2. QED
  BY <1>1, IInvHolds, PTL

(* No order is empty, and none is for nothing. *)
THEOREM WorthSubmitting == Spec => []OrdersAreWorthSubmitting
<1>1. IInv => OrdersAreWorthSubmitting
  BY DEF IInv, OrdersOk
<1>2. QED
  BY <1>1, IInvHolds, PTL

--------------------------------------------------------------------------------
(* The order of the naturals is well-founded: induction, for sets. *)
LessThan == {ss \in Nat \X Nat : ss[1] < ss[2]}

LEMMA LessThanIsWellFounded == IsWellFoundedOn(LessThan, Nat)
BY NatLessThanWellFounded DEF OpToRel, LessThan

(* Induction, with the set of the numbers a statement holds of. *)
LEMMA NatByInduction ==
  ASSUME NEW S, 0 \in S, \A n \in Nat : n \in S => n + 1 \in S
  PROVE  Nat \subseteq S
<1> DEFINE T == Nat \ S
<1>1. SUFFICES ASSUME T # {} PROVE FALSE
  OBVIOUS
<1>2. PICK x \in T : \A y \in T : ~(<<y, x>> \in LessThan)
  <2>1. T \subseteq Nat
    OBVIOUS
  <2> HIDE DEF T
  <2>2. QED
    BY <1>1, <2>1, WFMin, LessThanIsWellFounded
<1>3. x - 1 \in Nat /\ x - 1 + 1 = x
  OBVIOUS
<1>4. <<x - 1, x>> \in LessThan
  BY <1>3 DEF LessThan
<1>5. QED
  BY <1>2, <1>3, <1>4

(* The total of a sequence, as the fold computes it: over sets of          *)
(* positions, the last of them first.                                      *)
SumsUp(sum, entries, D) ==
  sum = [s \in SUBSET D |-> IF s = {} THEN 0
                            ELSE sum[s \ {Max(s)}] + Amount(entries[Max(s)])]

LEMMA Positions ==
  ASSUME NEW n \in Nat
  PROVE  /\ n + 1 \in Nat /\ n + 1 \in 1..(n + 1) /\ n + 1 \notin 1..n
         /\ 1..(n + 1) = (1..n) \cup {n + 1}
         /\ (1..(n + 1)) \ {n + 1} = 1..n
         /\ \A i \in 1..(n + 1) : i \in Int /\ i <= n + 1
<1>1. \A i \in Int : i \in 1..(n + 1) <=> i \in 1..n \/ i = n + 1
  OBVIOUS
<1>2. \A i \in 1..(n + 1) : i \in Int /\ i <= n + 1
  OBVIOUS
<1>3. n + 1 \in Nat /\ n + 1 \notin 1..n /\ 1..n \subseteq Int /\ n + 1 \in 1..(n + 1)
  OBVIOUS
<1>4. 1..(n + 1) = (1..n) \cup {n + 1}
  BY <1>1, <1>2, <1>3
<1>5. (1..(n + 1)) \ {n + 1} = 1..n
  <2> HIDE <1>1, <1>2
  <2>1. QED
    BY <1>3, <1>4, Zenon
<1>6. QED
  BY <1>2, <1>3, <1>4, <1>5

LEMMA NoPositions == 1..0 = {} /\ SUBSET (1..0) = {{}}
<1>1. 1..0 = {}
  OBVIOUS
<1>2. QED
  BY <1>1

LEMMA LastPosition ==
  \A n \in Nat : \A s \in SUBSET (1..n) : s # {} =>
    Max(s) \in s /\ \A i \in s : i <= Max(s)
<1> DEFINE S == {n \in Nat : \A s \in SUBSET (1..n) : s # {} =>
                   \E last \in s : \A i \in s : last >= i}
<1>1. 0 \in S
  BY NoPositions
<1>2. ASSUME NEW n \in Nat, n \in S
      PROVE  n + 1 \in S
  <2>1. ASSUME NEW s \in SUBSET (1..(n + 1)), s # {}
        PROVE  \E last \in s : \A i \in s : last >= i
    <3>1. CASE n + 1 \in s
      BY <3>1
    <3>2. CASE n + 1 \notin s
      <4>1. s \in SUBSET (1..n)
        BY <3>2
      <4>2. QED
        BY <1>2, <2>1, <4>1
    <3>3. QED
      BY <3>1, <3>2
  <2>2. QED
    BY <2>1
<1> HIDE DEF S
<1>3. Nat \subseteq S
  BY <1>1, <1>2, NatByInduction
<1>4. SUFFICES ASSUME NEW n \in Nat, NEW s \in SUBSET (1..n), s # {}
               PROVE  Max(s) \in s /\ \A i \in s : i <= Max(s)
  OBVIOUS
<1>5. PICK last \in s : \A i \in s : last >= i
  BY <1>3, <1>4 DEF S
<1>6. Max(s) \in s /\ \A i \in s : Max(s) >= i
  BY <1>5 DEF Max
<1>7. QED
  BY <1>6

LEMMA SumExists ==
  ASSUME NEW entries
  PROVE  \A n \in Nat : \E sum : SumsUp(sum, entries, 1..n)
<1> DEFINE S == {n \in Nat : \E sum : SumsUp(sum, entries, 1..n)}
<1>1. 0 \in S
  <2>1. SumsUp([s \in SUBSET (1..0) |-> 0], entries, 1..0)
    BY NoPositions DEF SumsUp
  <2>2. QED
    BY <2>1
<1>2. ASSUME NEW n \in Nat, n \in S
      PROVE  n + 1 \in S
  <2>1. PICK sum : SumsUp(sum, entries, 1..n)
    BY <1>2
  <2> DEFINE D == 1..(n + 1)
             more == [s \in SUBSET D |->
                        IF n + 1 \in s THEN sum[s \ {n + 1}] + Amount(entries[n + 1]) ELSE sum[s]]
  <2>2. n + 1 \in Nat
    OBVIOUS
  <2>3. ASSUME NEW s \in SUBSET D
        PROVE  more[s] = IF s = {} THEN 0
                         ELSE more[s \ {Max(s)}] + Amount(entries[Max(s)])
    <3>1. CASE n + 1 \in s
      <4>1. Max(s) = n + 1
        <5>1. Max(s) \in s /\ n + 1 <= Max(s)
          BY <2>2, <3>1, LastPosition
        <5>2. Max(s) \in 1..(n + 1)
          BY <5>1
        <5>3. Max(s) \in Int /\ Max(s) <= n + 1
          BY <5>2, Positions
        <5>4. QED
          BY <5>1, <5>3
      <4>2. s \ {n + 1} \in SUBSET D /\ n + 1 \notin s \ {n + 1} /\ s # {}
        BY <3>1
      <4>3. more[s] = sum[s \ {n + 1}] + Amount(entries[n + 1])
        BY <3>1
      <4>4. more[s \ {n + 1}] = sum[s \ {n + 1}]
        BY <4>2
      <4>5. QED
        BY <4>1, <4>2, <4>3, <4>4
    <3>2. CASE n + 1 \notin s
      <4>1. s \in SUBSET (1..n) /\ s \ {Max(s)} \in SUBSET D
        BY <3>2, Positions
      <4>2. sum[s] = IF s = {} THEN 0 ELSE sum[s \ {Max(s)}] + Amount(entries[Max(s)])
        BY <2>1, <4>1 DEF SumsUp
      <4>3. QED
        BY <3>2, <4>1, <4>2
    <3>3. QED
      BY <3>1, <3>2
  <2>4. SumsUp(more, entries, D)
    BY <2>3 DEF SumsUp
  <2> HIDE DEF more
  <2>5. QED
    BY <2>2, <2>4
<1> HIDE DEF S
<1>3. Nat \subseteq S
  BY <1>1, <1>2, NatByInduction
<1>4. QED
  BY <1>3 DEF S

(* Sums over the positions of a sequence do not depend on what follows.    *)
LEMMA SumsAgree ==
  ASSUME NEW few, NEW many, NEW f, NEW g, NEW n \in Nat, NEW m \in Nat, n <= m,
         SumsUp(f, few, 1..n), SumsUp(g, many, 1..m),
         \A i \in 1..n : few[i] = many[i]
  PROVE  \A s \in SUBSET (1..n) : f[s] = g[s]
<1> DEFINE S == {k \in Nat : k <= n => \A s \in SUBSET (1..k) : f[s] = g[s]}
<1>1. 0 \in S
  <2>1. f[{}] = 0 /\ g[{}] = 0
    BY DEF SumsUp
  <2>2. QED
    BY <2>1, NoPositions
<1>2. ASSUME NEW k \in Nat, k \in S
      PROVE  k + 1 \in S
  <2>1. ASSUME k + 1 <= n, NEW s \in SUBSET (1..(k + 1)), s # {}
        PROVE  f[s] = g[s]
    <3>1. s \in SUBSET (1..n) /\ s \in SUBSET (1..m)
      BY <2>1
    <3>2. Max(s) \in s /\ \A i \in s : i <= Max(s)
      BY <2>1, <3>1, LastPosition
    <3>3. s \ {Max(s)} \in SUBSET (1..k)
      <4>1. SUFFICES ASSUME NEW i \in s, i # Max(s) PROVE i \in 1..k
        OBVIOUS
      <4>2. /\ i \in 1..(k + 1) /\ Max(s) \in 1..(k + 1) /\ i <= Max(s)
        BY <3>2
      <4>3. QED
        BY <4>1, <4>2
    <3>4. f[s \ {Max(s)}] = g[s \ {Max(s)}]
      BY <1>2, <2>1, <3>3
    <3>5. f[s] = f[s \ {Max(s)}] + Amount(few[Max(s)])
      BY <2>1, <3>1 DEF SumsUp
    <3>6. g[s] = g[s \ {Max(s)}] + Amount(many[Max(s)])
      BY <2>1, <3>1 DEF SumsUp
    <3>7. QED
      BY <3>1, <3>2, <3>4, <3>5, <3>6
  <2>2. f[{}] = 0 /\ g[{}] = 0
    BY DEF SumsUp
  <2>3. ASSUME k + 1 <= n, NEW s \in SUBSET (1..(k + 1))
        PROVE  f[s] = g[s]
    <3>1. CASE s = {}
      BY <2>2, <3>1
    <3>2. CASE s # {}
      BY <2>1, <2>3, <3>2
    <3>3. QED
      BY <3>1, <3>2
  <2>4. QED
    BY <2>3
<1> HIDE DEF S
<1>3. n \in S
  BY <1>1, <1>2, NatByInduction
<1>4. QED
  BY <1>3 DEF S

LEMMA TotalIsSum ==
  ASSUME NEW entries \in Seq(Entry)
  PROVE  \E sum : SumsUp(sum, entries, 1..Len(entries)) /\ Total(entries) = sum[1..Len(entries)]
<1> DEFINE D == 1..Len(entries)
           sum == CHOOSE f : SumsUp(f, entries, D)
<1>1. DOMAIN entries = D /\ Len(entries) \in Nat
  OBVIOUS
<1>2. Total(entries) = sum[D]
  BY <1>1 DEF Total, FoldLeft, MapThenFoldSet, SumsUp
<1>3. SumsUp(sum, entries, D)
  BY <1>1, SumExists
<1>4. QED
  BY <1>2, <1>3

(* The total of nothing is zero, and what is added counts once. *)
LEMMA TotalOfNothing == Total(<<>>) = 0
<1>1. <<>> \in Seq(Entry) /\ 1..Len(<<>>) = {}
  OBVIOUS
<1>2. QED
  BY <1>1, TotalIsSum DEF SumsUp

LEMMA TotalOfMore ==
  ASSUME NEW entries \in Seq(Entry), NEW entry \in Entry
  PROVE  Total(Append(entries, entry)) = Total(entries) + Amount(entry)
<1> DEFINE n == Len(entries)
           more == Append(entries, entry)
<1>1. /\ n \in Nat /\ n + 1 \in Nat /\ more \in Seq(Entry) /\ Len(more) = n + 1
      /\ more[n + 1] = entry /\ \A i \in 1..n : entries[i] = more[i]
  OBVIOUS
<1>2. PICK f : SumsUp(f, entries, 1..n) /\ Total(entries) = f[1..n]
  BY TotalIsSum
<1>3. PICK g : SumsUp(g, more, 1..(n + 1)) /\ Total(more) = g[1..(n + 1)]
  BY <1>1, TotalIsSum
<1> HIDE DEF more, n
<1>4. f[1..n] = g[1..n]
  <2>1. n <= n + 1 /\ 1..n \in SUBSET (1..n)
    BY <1>1
  <2>2. QED
    BY <1>1, <1>2, <1>3, <2>1, SumsAgree
<1>5. Max(1..(n + 1)) = n + 1
  <2>1. 1..(n + 1) # {} /\ n + 1 \in 1..(n + 1) /\ 1..(n + 1) \in SUBSET (1..(n + 1))
    BY <1>1, Positions
  <2>2. Max(1..(n + 1)) \in 1..(n + 1) /\ n + 1 <= Max(1..(n + 1))
    BY <1>1, <2>1, LastPosition
  <2>3. QED
    BY <1>1, <2>2, Positions
<1>6. 1..(n + 1) # {} /\ (1..(n + 1)) \ {n + 1} = 1..n
  <2>1. n + 1 \in 1..(n + 1) /\ (1..(n + 1)) \ {n + 1} = 1..n
    BY <1>1, Positions
  <2>2. QED
    BY <2>1
<1>7. g[1..(n + 1)] = g[1..n] + Amount(more[n + 1])
  BY <1>3, <1>5, <1>6 DEF SumsUp
<1>8. QED
  BY <1>1, <1>2, <1>3, <1>4, <1>7 DEF more

--------------------------------------------------------------------------------

LEMMA TotalsKept ==
  ASSUME TotalsAreExact, UNCHANGED <<selectedServices, totalPrice, checkout, submitted>>
  PROVE  TotalsAreExact'
BY DEF TotalsAreExact

LEMMA AddToCartTotals ==
  ASSUME IInv, TotalsAreExact, NEW o \in Options, NEW number \in Int, AddToCart(o, number)
  PROVE  TotalsAreExact'
<1> DEFINE entry == [option |-> o, number |-> number, addition |-> additions + 1]
           total == totalPrice + number * Price[o]
<1>1. CASE UNCHANGED <<cartVars, checkout, submitted>>
  BY <1>1, TotalsKept DEF cartVars
<1>2. CASE /\ selectedServices' = Append(selectedServices, entry)
           /\ totalPrice' = total
           /\ UNCHANGED <<checkout, submitted>>
  <2>1. selectedServices \in Seq(Entry) /\ entry \in Entry
    BY CartAssumption DEF IInv, TypeOK, Entry
  <2>2. Amount(entry) = number * Price[o]
    BY DEF Amount
  <2>3. Total(Append(selectedServices, entry)) = Total(selectedServices) + Amount(entry)
    BY <2>1, TotalOfMore
  <2>4. totalPrice' = Total(selectedServices')
    BY <1>2, <2>2, <2>3 DEF TotalsAreExact
  <2>5. QED
    BY <1>2, <2>4 DEF TotalsAreExact
<1>3. QED
  BY <1>1, <1>2 DEF AddToCart, Added

LEMMA NextKeepsTotals == IInv /\ TotalsAreExact /\ [Next]_vars => TotalsAreExact'
<1> SUFFICES ASSUME IInv, TotalsAreExact, [Next]_vars PROVE TotalsAreExact'
  OBVIOUS
<1>1. ASSUME NEW e \in Events, GoToServices(e)
      PROVE  TotalsAreExact'
  BY <1>1, TotalOfNothing DEF GoToServices, EmptyCart, TotalsAreExact
<1>2. CASE DidTapCheckout
  BY <1>2 DEF DidTapCheckout, TotalsAreExact, cartVars
<1>3. CASE DidTapSubmitOrder
  <2>1. submitted \in Seq(Order)
    BY DEF IInv, TypeOK
  <2>2. Range(submitted') = Range(submitted) \cup {checkout}
    <3>1. /\ submitted' = Append(submitted, checkout)
          /\ DOMAIN submitted' = DOMAIN submitted \cup {Len(submitted) + 1}
          /\ submitted'[Len(submitted) + 1] = checkout
          /\ Len(submitted) + 1 \notin DOMAIN submitted
          /\ \A i \in DOMAIN submitted : submitted'[i] = submitted[i]
      BY <1>3, <2>1 DEF DidTapSubmitOrder
    <3>2. QED
      BY <3>1 DEF Range
  <2>3. UNCHANGED <<selectedServices, totalPrice, checkout>>
    BY <1>3 DEF DidTapSubmitOrder, cartVars
  <2>4. QED
    BY <2>2, <2>3 DEF TotalsAreExact
<1>4. ASSUME NEW o \in Options, DidTapCartButton(o)
      PROVE  TotalsAreExact'
  BY <1>4, AddToCartTotals DEF DidTapCartButton
<1>5. ASSUME NEW o \in Options, NEW number \in Numbers, AlertOK(o, number)
      PROVE  TotalsAreExact'
  BY <1>5, AddToCartTotals, CartAssumption DEF AlertOK
<1>6. CASE \/ ServicesDidTapBack \/ CheckoutDidTapBack \/ ProcessedDidTapBack \/ Relaunch
           \/ UNCHANGED vars
  BY <1>6, TotalsKept DEF ServicesDidTapBack, CheckoutDidTapBack, ProcessedDidTapBack, Relaunch,
                          vars, cartVars
<1>7. ASSUME NEW o \in Options,
             \/ DidSelectRow(o) \/ DescriptionAnswers(o) \/ BarDidTapCartButton(o)
             \/ PresentAlert(o) \/ AlertCancelled(o) \/ DismissSheet(o)
      PROVE  TotalsAreExact'
  BY <1>7, TotalsKept DEF DidSelectRow, DescriptionAnswers, BarDidTapCartButton, PresentAlert,
                          AlertCancelled, DismissSheet, ShowSheet, cartVars
<1>8. QED
  BY <1>1, <1>2, <1>3, <1>4, <1>5, <1>6, <1>7 DEF Next

(* In the cart, on the checkout and in every order the total is the exact  *)
(* sum of what was added.                                                  *)
THEOREM ExactTotals == Spec => []TotalsAreExact
<1>1. Init => TotalsAreExact
  BY TotalOfNothing DEF Init, TotalsAreExact, EmptyOrder, Range
<1>2. QED
  BY <1>1, NextKeepsTotals, IInvHolds, PTL DEF Spec

================================================================================
