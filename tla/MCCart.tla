-------------------------------- MODULE MCCart --------------------------------
(***************************************************************************)
(* Two events; the first has a DJ and a bar, the second a photographer.    *)
(* An Int of -8..24 lets a bar for a few people fit and one for many trap. *)
(***************************************************************************)
EXTENDS Cart

CONSTANTS dj, bar, foto, wedding, baptism

MCEventOf == [o \in Options |-> IF o = foto THEN baptism ELSE wedding]
MCPrice == [o \in Options |-> IF o = bar THEN 3 ELSE 5]
MCNumbers == {-2, 0, 2, 9}
MCMinInt == -8
MCMaxInt == 24

===============================================================================
