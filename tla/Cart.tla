---------------------------------- MODULE Cart ----------------------------------
(***************************************************************************)
(* The cart of one ServicesViewController, the description sheet that adds *)
(* to it, and the CheckoutViewController that submits a copy of it.        *)
(*                                                                         *)
(* The navigation stack is ChooseEvent > Services > Checkout > Processed;  *)
(* "screen" is its top, and what lies beneath keeps its state.  A sheet    *)
(* covers the services screen, so only the sheet can be touched.  The rows *)
(* are there once the catalogue has loaded (module Catalogue).             *)
(***************************************************************************)
EXTENDS Integers, Sequences, Functions, SequencesExt

CONSTANTS Options,       \* rows of the catalogue, of every event
          Events,
          EventOf,       \* the event of each option
          BarOptions,    \* the options priced per person
          Price,         \* the price of each option, as decoded
          Numbers,       \* what Int(text) may make of the text of the alert
          MinInt, MaxInt, \* the range of Int
          MaxAdditions   \* bound on the additions to carts

ASSUME CartAssumption ==
  /\ EventOf \in [Options -> Events]
  /\ BarOptions \subseteq Options
  /\ Price \in [Options -> Int]
  /\ Numbers \subseteq Int
  /\ MinInt \in Int /\ MaxInt \in Int /\ MinInt <= 0 /\ 0 <= MaxInt
  /\ MaxAdditions \in Nat

VARIABLES screen,           \* top of the navigation stack
          event,            \* ServicesViewController.event
          selectedServices, \* ServicesViewController.selectedServices
          totalPrice,       \* ServicesViewController.totalPrice
          checkoutBar,      \* the bar with the checkout button is on screen
          sheet,            \* the description presented over the services
          checkout,         \* what CheckoutViewController was given
          submitted,        \* the calls of submitOrder, in order
          additions,        \* number of additions so far
          crashed           \* an arithmetic trap has ended the process

cartVars == <<selectedServices, totalPrice, checkoutBar, additions>>
vars == <<screen, event, cartVars, sheet, checkout, submitted, crashed>>

Screen == {"chooseEvent", "services", "checkout", "processed"}

(* An entry of selectedServices: the option, and for the properties the    *)
(* number it was multiplied by and which addition it was.                  *)
Entry == [option : Options, number : Int, addition : Nat \ {0}]
Order == [selectedServices : Seq(Entry), totalPrice : Int]
EmptyOrder == [selectedServices |-> <<>>, totalPrice |-> 0]

(* The spinner covers the cart button until the description has loaded.    *)
Phase == {"loading", "failed", "shown", "alertQueued", "alert", "dismissQueued"}
NoSheet == [phase |-> "none"]
Sheet(o, phase) == [phase |-> phase, option |-> o]

TypeOK ==
  /\ screen \in Screen
  /\ event \in Events
  /\ selectedServices \in Seq(Entry)
  /\ totalPrice \in MinInt..MaxInt
  /\ checkoutBar \in BOOLEAN
  /\ sheet \in {NoSheet} \cup [phase : Phase, option : Options]
  /\ checkout \in Order
  /\ submitted \in Seq(Order)
  /\ additions \in 0..MaxAdditions
  /\ crashed \in BOOLEAN

(* Faulty variants, named for the fault, stand before the definition they  *)
(* vary; no specification uses them.                                       *)
CartIsShared == UNCHANGED cartVars

(* A new ServicesViewController: viewDidLoad calls updateCheckoutUI on an  *)
(* empty cart.                                                             *)
EmptyCart ==
  /\ selectedServices' = <<>>
  /\ totalPrice' = 0
  /\ checkoutBar' = FALSE
  /\ UNCHANGED additions

Init ==
  /\ screen = "chooseEvent"
  /\ event \in Events
  /\ selectedServices = <<>>
  /\ totalPrice = 0
  /\ checkoutBar = FALSE
  /\ sheet = NoSheet
  /\ checkout = EmptyOrder
  /\ submitted = <<>>
  /\ additions = 0
  /\ crashed = FALSE

Touchable(s) == ~crashed /\ screen = s /\ sheet = NoSheet

--------------------------------------------------------------------------------
(* Navigation. *)

(* goToServices instantiates a controller for every visit. *)
GoToServices(e) ==
  /\ Touchable("chooseEvent")
  /\ screen' = "services"
  /\ event' = e
  /\ EmptyCart
  /\ UNCHANGED <<sheet, checkout, submitted, crashed>>

ServicesDidTapBack ==
  /\ Touchable("services")
  /\ screen' = "chooseEvent"
  /\ UNCHANGED <<event, cartVars, sheet, checkout, submitted, crashed>>

CheckoutCopyIsStale ==
  /\ Touchable("services")
  /\ checkoutBar
  /\ screen' = "checkout"
  /\ checkout' = IF checkout = EmptyOrder
                 THEN [selectedServices |-> selectedServices, totalPrice |-> totalPrice]
                 ELSE checkout
  /\ UNCHANGED <<event, cartVars, sheet, submitted, crashed>>

(* The checkout gets copies: both properties are values. *)
DidTapCheckout ==
  /\ Touchable("services")
  /\ checkoutBar
  /\ screen' = "checkout"
  /\ checkout' = [selectedServices |-> selectedServices, totalPrice |-> totalPrice]
  /\ UNCHANGED <<event, cartVars, sheet, submitted, crashed>>

CheckoutDidTapBack ==
  /\ Touchable("checkout")
  /\ screen' = "services"
  /\ UNCHANGED <<event, cartVars, sheet, checkout, submitted, crashed>>

DidTapSubmitOrder ==
  /\ Touchable("checkout")
  /\ submitted' = Append(submitted, checkout)
  /\ screen' = "processed"
  /\ UNCHANGED <<event, cartVars, sheet, checkout, crashed>>

ProcessedPopsOne ==
  /\ Touchable("processed")
  /\ screen' = "checkout"
  /\ UNCHANGED <<event, cartVars, sheet, checkout, submitted, crashed>>

(* popToRootViewController: the checkout and the services screen go.       *)
ProcessedDidTapBack ==
  /\ Touchable("processed")
  /\ screen' = "chooseEvent"
  /\ UNCHANGED <<event, cartVars, sheet, checkout, submitted, crashed>>

--------------------------------------------------------------------------------
(* The description sheet and the cart. *)

ShowSheet(o, phase) ==
  /\ sheet' = Sheet(o, phase)
  /\ UNCHANGED <<screen, event, cartVars, checkout, submitted, crashed>>

DidSelectRow(o) ==
  /\ Touchable("services")
  /\ EventOf[o] = event
  /\ ShowSheet(o, "loading")

SheetIs(o, phases) == ~crashed /\ sheet \in {Sheet(o, phase) : phase \in phases}

DescriptionAnswers(o) ==
  /\ SheetIs(o, {"loading"})
  /\ ShowSheet(o, "shown") \/ ShowSheet(o, "failed")

Fits(n) == n \in MinInt..MaxInt

Added(o, number) ==
  Append(selectedServices,
         [option |-> o, number |-> number, addition |-> additions + 1])

TotalWraps(o, number) ==
  LET total == totalPrice + number * Price[o] IN
    /\ selectedServices' = Added(o, number)
    /\ totalPrice' = MinInt + ((total - MinInt) % (MaxInt - MinInt + 1))
    /\ checkoutBar' = (totalPrice' > 0)
    /\ additions' = additions + 1
    /\ UNCHANGED <<screen, event, checkout, submitted, crashed>>

BarShownForAnyCart(o, number) ==
  /\ Fits(number * Price[o]) /\ Fits(totalPrice + number * Price[o])
  /\ selectedServices' = Added(o, number)
  /\ totalPrice' = totalPrice + number * Price[o]
  /\ checkoutBar' = TRUE
  /\ additions' = additions + 1
  /\ UNCHANGED <<screen, event, checkout, submitted, crashed>>

(* The body of the addToCart closures.  Arithmetic on Int traps.           *)
AddToCart(o, number) ==
  LET result == number * Price[o]
      total  == totalPrice + result IN
    IF Fits(result) /\ Fits(total)
    THEN /\ selectedServices' = Added(o, number)
         /\ totalPrice' = total
         /\ checkoutBar' = (total > 0)
         /\ additions' = additions + 1
         /\ UNCHANGED <<screen, event, checkout, submitted, crashed>>
    ELSE crashed' = TRUE /\ UNCHANGED <<screen, event, cartVars, checkout, submitted>>

(* DJ, FOTO and DECOR: add and dismiss in one handler. *)
DidTapCartButton(o) ==
  /\ o \notin BarOptions
  /\ SheetIs(o, {"shown"})
  /\ additions < MaxAdditions
  /\ AddToCart(o, 1)
  /\ sheet' = NoSheet

(* BAR: the alert is posted to the main queue.  A second tap before it is  *)
(* up posts a second alert, which UIKit does not present over the first.   *)
BarDidTapCartButton(o) ==
  /\ o \in BarOptions
  /\ SheetIs(o, {"shown"})
  /\ ShowSheet(o, "alertQueued")

PresentAlert(o) ==
  /\ SheetIs(o, {"alertQueued"})
  /\ ShowSheet(o, "alert")

(* OK with a text that is an Int: add, and post the dismissal. *)
AlertOK(o, number) ==
  /\ SheetIs(o, {"alert"})
  /\ additions < MaxAdditions
  /\ AddToCart(o, number)
  /\ sheet' = Sheet(o, "dismissQueued")

(* Cancel, or OK with any other text: completion(false) only prints. *)
AlertCancelled(o) ==
  /\ SheetIs(o, {"alert"})
  /\ ShowSheet(o, "shown")

(* The posted dismissal, or the user's swipe.  An alert that is queued is  *)
(* not presented over a sheet that has gone.                               *)
DismissSheet(o) ==
  /\ SheetIs(o, Phase \ {"alert"})
  /\ sheet' = NoSheet
  /\ UNCHANGED <<screen, event, cartVars, checkout, submitted, crashed>>

(* The process ends, by a trap or otherwise, and is launched again. *)
Relaunch ==
  /\ screen' = "chooseEvent"
  /\ sheet' = NoSheet
  /\ crashed' = FALSE
  /\ UNCHANGED <<event, cartVars, checkout, submitted>>

--------------------------------------------------------------------------------

Next ==
  \/ \E e \in Events : GoToServices(e)
  \/ ServicesDidTapBack
  \/ DidTapCheckout \/ CheckoutDidTapBack
  \/ DidTapSubmitOrder
  \/ ProcessedDidTapBack
  \/ \E o \in Options :
       \/ DidSelectRow(o) \/ DescriptionAnswers(o)
       \/ DidTapCartButton(o) \/ BarDidTapCartButton(o)
       \/ PresentAlert(o) \/ AlertCancelled(o) \/ DismissSheet(o)
       \/ \E number \in Numbers : AlertOK(o, number)
  \/ Relaunch

Spec == Init /\ [][Next]_vars

--------------------------------------------------------------------------------

Amount(entry) == entry.number * Price[entry.option]

Total(entries) == FoldLeft(LAMBDA sum, entry : sum + Amount(entry), 0, entries)

(* totalPrice and selectedServices are two variables, updated by five      *)
(* closures and copied twice: in the cart, on the checkout screen and in   *)
(* every order, the total is the exact sum of what was added, although Int *)
(* is bounded.                                                             *)
TotalsAreExact ==
  /\ totalPrice = Total(selectedServices)
  /\ \A order \in {checkout} \cup Range(submitted) :
       order.totalPrice = Total(order.selectedServices)

(* What is on the checkout screen is the cart beneath it, also after going *)
(* back, adding and checking out again: nothing that was added is left out *)
(* of the order, and nothing is ordered that the customer has not seen.    *)
CheckoutShowsCart ==
  screen = "checkout" =>
    /\ checkout.selectedServices = selectedServices
    /\ checkout.totalPrice = totalPrice

(* One addition is ordered at most once, in one place: after an order has  *)
(* been submitted no sequence of taps leads back to the cart it came from. *)
OrderedOnce ==
  \A i, j \in DOMAIN submitted :
    \A k \in DOMAIN submitted[i].selectedServices,
       l \in DOMAIN submitted[j].selectedServices :
      submitted[i].selectedServices[k].addition = submitted[j].selectedServices[l].addition
        => i = j /\ k = l

(* An order is for one event: the cart does not survive the choice of      *)
(* another event.                                                          *)
OneEventPerOrder ==
  \A i \in DOMAIN submitted :
    \A k, l \in DOMAIN submitted[i].selectedServices :
      EventOf[submitted[i].selectedServices[k].option]
        = EventOf[submitted[i].selectedServices[l].option]

(* No order is empty or free: the checkout bar follows the total, and the  *)
(* total of a cart with nothing in it is zero.                             *)
OrdersAreWorthSubmitting ==
  \A order \in Range(submitted) :
    order.totalPrice > 0 /\ order.selectedServices # <<>>

================================================================================
