------------------------------ MODULE MCCatalogue ------------------------------
(***************************************************************************)
(* Two disc jockeys of different price and one more of the same price as   *)
(* the first, so that arrival order and ties matter; two decorations whose *)
(* prices run against their titles; one document of a service the app does *)
(* not know, one that does not decode and one photographer, all three with *)
(* a picture URL that Storage rejects.                                     *)
(***************************************************************************)
EXTENDS Catalogue

CONSTANTS dj1, dj2, dj3, bar1, foto1, foto2, decor1, decor2, cake, broken

MCService == [d \in Documents |->
  CASE d \in {dj1, dj2, dj3} -> "DJ"
    [] d \in {bar1, broken}  -> "BAR"
    [] d \in {foto1, foto2} -> "FOTO"
    [] d \in {decor1, decor2} -> "DECOR"
    [] OTHER                 -> "CAKE"]
MCPrice == [d \in Documents |-> IF d \in {dj2, decor1} THEN 2 ELSE 1]
MCTitle == [d \in Documents |-> IF d = decor2 THEN 2 ELSE 1]

================================================================================
