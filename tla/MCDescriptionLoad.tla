--------------------------- MODULE MCDescriptionLoad ---------------------------
(***************************************************************************)
(* A disc jockey, a photographer and a decoration, one after the other in  *)
(* any order, so that two of them load behind a third; a bar loads as a    *)
(* disc jockey does.                                                       *)
(***************************************************************************)
EXTENDS DescriptionLoad

CONSTANTS dj, foto, decor

MCKind == [s \in Sheets |-> CASE s = dj   -> "DJ"
                              [] s = foto -> "FOTO"
                              [] OTHER    -> "DECOR"]

================================================================================
