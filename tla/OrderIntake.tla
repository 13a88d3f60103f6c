------------------------------ MODULE OrderIntake ------------------------------
(***************************************************************************)
(* What submitting an order promises the company that reads "orders": it   *)
(* receives a submission at most once, never from nobody, and with the     *)
(* services, the total and the contact of the tap.  It may receive nothing *)
(* of a submission, and submissions in any order: the app promises no more.*)
(***************************************************************************)
EXTENDS Naturals, Sequences

CONSTANTS Users, NoUser, Carts

VARIABLES asked,    \* the submissions, in the order of the taps
          received  \* the orders the company can read

vars == <<asked, received>>

Init == /\ asked = <<>>
        /\ received = {}

Ask(u, cart) ==
  /\ asked' = Append(asked, [uid |-> u, cart |-> cart])
  /\ UNCHANGED received

Receive(s) ==
  /\ asked[s].uid # NoUser
  /\ \A order \in received : order.submission # s
  /\ received' = received \cup {[contact    |-> asked[s].uid,
                                 cart       |-> asked[s].cart,
                                 submission |-> s]}
  /\ UNCHANGED asked

Next == \/ \E u \in Users \cup {NoUser}, cart \in Carts : Ask(u, cart)
        \/ \E s \in DOMAIN asked : Receive(s)

Spec == Init /\ [][Next]_vars

================================================================================
