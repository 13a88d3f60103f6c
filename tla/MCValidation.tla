------------------------------ MODULE MCValidation ------------------------------
(***************************************************************************)
(* Validation on few characters a kind, and texts long enough for every    *)
(* regular expression to accept some and for padding on either side.       *)
(***************************************************************************)
EXTENDS Validation

MCKeys == [k \in Kinds |-> CASE k = "email"       -> {"a", "7", "@", ".", " "}
                             [] k = "phoneNumber" -> {"0", "7", " "}
                             [] k = "password"    -> {"a", "A", "7", " "}]

MCMaxLength == [k \in Kinds |-> CASE k = "email"       -> 7
                                  [] k = "phoneNumber" -> 11
                                  [] k = "password"    -> 7]

================================================================================
