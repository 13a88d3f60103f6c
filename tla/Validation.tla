------------------------------- MODULE Validation -------------------------------
(***************************************************************************)
(* A text field of the login, register or forgot-password form: what the   *)
(* Validator makes of what is typed and pasted, and what is sent once it   *)
(* has agreed.  The Validator trims a copy; the text of the field is sent. *)
(*                                                                         *)
(* A text is a sequence of characters, of which one stands for each class  *)
(* that the regular expressions tell apart.                                *)
(***************************************************************************)
EXTENDS Naturals, Sequences, FiniteSets

CONSTANTS Keys,      \* the characters that are entered into a field of each kind
          MaxLength  \* bound on the length of a text of each kind

Kinds == {"email", "phoneNumber", "password"}

Whitespace  == {" "}
Small       == {"a"}
Big         == {"A"}
Digits      == {"0", "7", "8"}
Special     == {"!", "_", "@", "."}
Letters     == Small \cup Big
LocalPart   == Letters \cup Digits \cup {".", "_"}  \* [A-Z0-9a-z._%+-]
Domain      == Letters \cup Digits \cup {"."}       \* [A-Za-z0-9.-]
Characters  == Whitespace \cup Letters \cup Digits \cup Special

ASSUME KeysAreCharacters == Keys \in [Kinds -> SUBSET Characters]
ASSUME LengthsAreBounded == MaxLength \in [Kinds -> Nat]

VARIABLES kind, text, sent, alerted

vars == <<kind, text, sent, alerted>>

Nothing == <<>>

TypeOK ==
  /\ kind \in Kinds
  /\ text \in Seq(Characters)
  /\ Len(text) <= MaxLength[kind]
  /\ sent \in {Nothing, text}
  /\ alerted \in BOOLEAN

All(t, from, to, class) == \A i \in from..to : t[i] \in class

(* trimmingCharacters(in: .whitespacesAndNewlines) *)
Trimmed(t) ==
  IF \A i \in DOMAIN t : t[i] \in Whitespace THEN <<>>
  ELSE LET first == CHOOSE i \in DOMAIN t :
                      t[i] \notin Whitespace /\ All(t, 1, i - 1, Whitespace)
           last  == CHOOSE i \in DOMAIN t :
                      t[i] \notin Whitespace /\ All(t, i + 1, Len(t), Whitespace)
       IN SubSeq(t, first, last)

(* Faulty variants, named for the fault, stand before the definition they  *)
(* vary; no specification uses them.                                       *)
AnyNumberOfAts(email) ==
  LET t == Trimmed(email) IN
    \E at, dot \in DOMAIN t :
      /\ 1 < at /\ at + 1 < dot
      /\ t[at] = "@" /\ t[dot] = "."
      /\ All(t, 1, at - 1, LocalPart \cup {"@"})
      /\ All(t, at + 1, dot - 1, Domain)
      /\ Len(t) - dot \in 2..64

(* One at sign between two parts that are not empty, and two to sixty-four *)
(* letters after some dot of the second.                                   *)
IsValidEmail(email) ==
  LET t == Trimmed(email) IN
    \E at, dot \in DOMAIN t :
      /\ 1 < at /\ at + 1 < dot
      /\ t[at] = "@" /\ t[dot] = "."
      /\ All(t, 1, at - 1, LocalPart)
      /\ All(t, at + 1, dot - 1, Domain)
      /\ All(t, dot + 1, Len(t), Letters)
      /\ Len(t) - dot \in 2..64

StartsWith07(t) == Len(t) >= 2 /\ t[1] = "0" /\ t[2] = "7"

NotAnchored(phoneNumber) ==
  LET t == Trimmed(phoneNumber) IN
    /\ Len(t) >= 10
    /\ StartsWith07(t)
    /\ All(t, 3, 10, Digits)

IsValidPhoneNumber(phoneNumber) ==
  LET t == Trimmed(phoneNumber) IN
    /\ Len(t) = 10
    /\ StartsWith07(t)
    /\ All(t, 3, 10, Digits)

IsValidPassword(password) == Len(Trimmed(password)) \in 6..32

IsValid(k, t) ==
  CASE k = "email"       -> IsValidEmail(t)
    [] k = "phoneNumber" -> IsValidPhoneNumber(t)
    [] k = "password"    -> IsValidPassword(t)

Init ==
  /\ kind \in Kinds
  /\ text = <<>>
  /\ sent = Nothing
  /\ alerted = FALSE

Enter(character) ==
  /\ sent = Nothing
  /\ Len(text) < MaxLength[kind]
  /\ text' = Append(text, character)
  /\ alerted' = FALSE
  /\ UNCHANGED <<kind, sent>>

(* The button: an alert, or the text as it is in the field. *)
DidTap ==
  /\ sent = Nothing
  /\ text # <<>>
  /\ IF IsValid(kind, text) THEN sent' = text /\ UNCHANGED alerted
                            ELSE alerted' = TRUE /\ UNCHANGED sent
  /\ UNCHANGED <<kind, text>>

Next == DidTap \/ \E character \in Keys[kind] : Enter(character)

Spec == Init /\ [][Next]_vars

--------------------------------------------------------------------------------

Count(t, class) == Cardinality({i \in DOMAIN t : t[i] \in class})

(* An e-mail address that is sent has one at sign, a dot after it, no      *)
(* whitespace but at its ends, and ends in letters.                        *)
SentEmailIsAnAddress ==
  kind = "email" /\ sent # Nothing =>
    LET t == Trimmed(sent) IN
      /\ Count(sent, {"@"}) = 1
      /\ Count(t, Whitespace) = 0
      /\ \E at \in DOMAIN t : t[at] = "@" /\ \E dot \in at + 2..Len(t) - 2 : t[dot] = "."
      /\ {t[Len(t)], t[Len(t) - 1]} \subseteq Letters

(* A phone number that is sent has ten digits and, but for whitespace at   *)
(* its ends, nothing else: the company can dial it.                        *)
SentPhoneCanBeDialled ==
  kind = "phoneNumber" /\ sent # Nothing =>
    Count(sent, Digits) = 10 /\ Count(sent, Characters \ Digits) = Len(sent) - 10
      /\ \A i \in DOMAIN sent : sent[i] \in Whitespace =>
           All(sent, 1, i, Whitespace) \/ All(sent, i, Len(sent), Whitespace)

(* What the Validator lets through can be used as what it claims to be.    *)
SentTextsAreUsable == TypeOK /\ SentEmailIsAnAddress /\ SentPhoneCanBeDialled

(* "password required to contain a small, a big letter, a number and a     *)
(* special character."                                                     *)
SentPasswordHasAllKinds ==
  kind = "password" /\ sent # Nothing =>
    \A class \in {Small, Big, Digits, Special} : Count(sent, class) > 0

================================================================================
