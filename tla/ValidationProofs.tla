----------------------------- MODULE ValidationProofs -----------------------------
(***************************************************************************)
(* SentTextsAreUsable for texts of any length, of any of the characters.   *)
(*                                                                         *)
(* The search for the first and the last character that is not whitespace  *)
(* succeeds because the naturals are well-founded; what lies between them  *)
(* is then, character for character, what the regular expression matched.  *)
(***************************************************************************)
EXTENDS Validation, TLAPS, WellFoundedInduction, FiniteSetTheorems

(* What an accepted text was accepted for. *)
SentIsValid == sent # Nothing => sent = text /\ IsValid(kind, text)

IInv == TypeOK /\ SentIsValid

--------------------------------------------------------------------------------
(* Trimming *)

LessThan == {ss \in Nat \X Nat : ss[1] < ss[2]}

LEMMA Least ==
  ASSUME NEW S, S \subseteq Nat, S # {}
  PROVE  \E x \in S : \A y \in S : x <= y
<1>1. IsWellFoundedOn(LessThan, Nat)
  BY NatLessThanWellFounded DEF OpToRel, LessThan
<1>2. PICK x \in S : \A y \in S : ~(<<y, x>> \in LessThan)
  BY <1>1, WFMin
<1>3. ASSUME NEW y \in S
      PROVE  x <= y
  <2>1. x \in Nat /\ y \in Nat /\ <<y, x>> \in Nat \X Nat
    OBVIOUS
  <2>2. ~(y < x)
    BY <1>2, <2>1 DEF LessThan
  <2>3. QED
    BY <2>1, <2>2
<1>4. QED
  BY <1>3

LEMMA Greatest ==
  ASSUME NEW n \in Nat, NEW S, S \subseteq 1..n, S # {}
  PROVE  \E x \in S : \A y \in S : y <= x
<1> DEFINE T == {n - y : y \in S}
<1>1. T \subseteq Nat /\ T # {}
  <2>1. ASSUME NEW y \in S
        PROVE  n - y \in Nat
    <3>1. y \in 1..n
      OBVIOUS
    <3>2. QED
      BY <3>1
  <2>2. QED
    BY <2>1
<1> HIDE DEF T
<1>2. PICK z \in T : \A y \in T : z <= y
  BY <1>1, Least
<1>3. PICK x \in S : z = n - x
  BY <1>2 DEF T
<1>4. ASSUME NEW y \in S
      PROVE  y <= x
  <2>1. n - y \in T
    BY DEF T
  <2>2. n - x <= n - y
    BY <1>2, <1>3, <2>1
  <2>3. QED
    BY <2>2
<1>5. QED
  BY <1>4

(* The whitespace at the ends goes, and nothing else. *)
Ends(t, first, last) ==
  /\ first \in 1..Len(t) /\ last \in first..Len(t)
  /\ \A i \in DOMAIN t : i < first \/ last < i => t[i] \in Whitespace
  /\ Len(Trimmed(t)) = last - first + 1 /\ DOMAIN Trimmed(t) = 1..(last - first + 1)
  /\ \A j \in DOMAIN Trimmed(t) : Trimmed(t)[j] = t[first - 1 + j]

LEMMA TrimmedCutsEnds ==
  ASSUME NEW t \in Seq(Characters), Trimmed(t) # <<>>
  PROVE  \E first, last \in Nat : Ends(t, first, last)
<1> DEFINE n == Len(t)
           S == {i \in DOMAIN t : t[i] \notin Whitespace}
           IsFirst(i) == t[i] \notin Whitespace /\ All(t, 1, i - 1, Whitespace)
           IsLast(i) == t[i] \notin Whitespace /\ All(t, i + 1, Len(t), Whitespace)
           first == CHOOSE i \in DOMAIN t : IsFirst(i)
           last == CHOOSE i \in DOMAIN t : IsLast(i)
<1>1. n \in Nat /\ DOMAIN t = 1..n
  OBVIOUS
<1>2. S # {}
  BY DEF Trimmed
<1>3. S \subseteq Nat /\ S \subseteq 1..n
  BY <1>1
<1>4. \E i \in DOMAIN t : IsFirst(i)
  <2>1. PICK x \in S : \A y \in S : x <= y
    BY <1>2, <1>3, Least
  <2>2. \A i \in 1..(x - 1) : t[i] \in Whitespace
    BY <1>1, <1>3, <2>1
  <2>3. QED
    BY <2>1, <2>2 DEF All
<1>5. \E i \in DOMAIN t : IsLast(i)
  <2>1. PICK x \in S : \A y \in S : y <= x
    BY <1>1, <1>2, <1>3, Greatest
  <2>2. \A i \in (x + 1)..n : t[i] \in Whitespace
    BY <1>1, <1>3, <2>1
  <2>3. QED
    BY <2>1, <2>2 DEF All
<1>6. Trimmed(t) = SubSeq(t, first, last)
  BY <1>2 DEF Trimmed
<1>7. first \in 1..n /\ IsFirst(first)
  BY <1>1, <1>4
<1>8. last \in 1..n /\ IsLast(last)
  BY <1>1, <1>5
<1> HIDE DEF first, last
<1>9. first <= last
  BY <1>1, <1>7, <1>8 DEF All
<1>10. \A i \in DOMAIN t : i < first \/ last < i => t[i] \in Whitespace
  BY <1>1, <1>7, <1>8 DEF All
<1>11. /\ Len(Trimmed(t)) = last - first + 1 /\ DOMAIN Trimmed(t) = 1..(last - first + 1)
       /\ \A j \in DOMAIN Trimmed(t) : Trimmed(t)[j] = t[first - 1 + j]
  BY <1>1, <1>6, <1>7, <1>8, <1>9
<1>12. QED
  BY <1>1, <1>7, <1>8, <1>9, <1>10, <1>11 DEF Ends

--------------------------------------------------------------------------------

LEMMA ClassesAreApart ==
  /\ \A c \in LocalPart \cup Domain \cup Letters \cup Whitespace \cup Digits \cup {"."} : c # "@"
  /\ \A c \in LocalPart \cup Domain \cup Letters \cup Digits \cup {"@", "."} : c \notin Whitespace
  /\ {"0", "7"} \subseteq Digits /\ Digits \subseteq Characters /\ Whitespace \subseteq Characters
BY DEF LocalPart, Domain, Letters, Whitespace, Digits, Small, Big, Characters

LEMMA TwoOrMore == \A k \in 2..64 : k \in Int /\ k >= 2
OBVIOUS

LEMMA EmailIsAnAddress ==
  ASSUME NEW t \in Seq(Characters), IsValidEmail(t)
  PROVE  /\ Count(t, {"@"}) = 1
         /\ Count(Trimmed(t), Whitespace) = 0
         /\ \E at \in DOMAIN Trimmed(t) : Trimmed(t)[at] = "@" /\
              \E dot \in at + 2..Len(Trimmed(t)) - 2 : Trimmed(t)[dot] = "."
         /\ {Trimmed(t)[Len(Trimmed(t))], Trimmed(t)[Len(Trimmed(t)) - 1]} \subseteq Letters
<1> DEFINE s == Trimmed(t)
<1>1. PICK at \in DOMAIN s, dot \in DOMAIN s :
        /\ 1 < at /\ at + 1 < dot
        /\ s[at] = "@" /\ s[dot] = "."
        /\ All(s, 1, at - 1, LocalPart)
        /\ All(s, at + 1, dot - 1, Domain)
        /\ All(s, dot + 1, Len(s), Letters)
        /\ Len(s) - dot \in 2..64
  BY DEF IsValidEmail
<1>2. s # <<>>
  BY <1>1
<1>3. PICK first \in Nat, last \in Nat : Ends(t, first, last)
  BY <1>2, TrimmedCutsEnds
<1> DEFINE n == last - first + 1
<1>4. /\ first \in 1..Len(t) /\ last \in first..Len(t) /\ Len(t) \in Nat
      /\ DOMAIN t = 1..Len(t) /\ n \in Nat
      /\ \A i \in DOMAIN t : i < first \/ last < i => t[i] \in Whitespace
      /\ Len(s) = n /\ DOMAIN s = 1..n
      /\ \A j \in 1..n : s[j] = t[first - 1 + j]
  BY <1>3 DEF Ends
<1> HIDE DEF s
<1>0. dot \in Nat /\ dot + 2 <= n
  <2>1. dot \in 1..n /\ Len(s) = n /\ Len(s) - dot \in 2..64
    BY <1>1, <1>4
  <2>2. n - dot \in 2..64
    BY <2>1
  <2>3. n - dot >= 2
    BY <2>2, TwoOrMore
  <2>4. dot \in Nat /\ n \in Nat
    BY <1>4, <2>1
  <2>5. QED
    BY <2>3, <2>4
<1>5. /\ at \in 1..n /\ dot \in 1..n /\ dot + 2 <= n /\ 1 < at /\ at + 1 < dot
      /\ at \in Nat /\ dot \in Nat /\ first \in Nat /\ last \in Nat /\ n \in Nat
      /\ 1 <= first /\ last <= Len(t) /\ n = last - first + 1
  BY <1>1, <1>4, <1>0
<1> HIDE DEF n
<1>6. \A j \in 1..n : /\ j # at => s[j] # "@"
                      /\ s[j] \notin Whitespace
                      /\ j > dot => s[j] \in Letters
  <2>1. \A j \in 1..n : \/ j = at \/ j = dot \/ j \in 1..(at - 1)
                        \/ j \in (at + 1)..(dot - 1) \/ j \in (dot + 1)..n
    BY <1>5
  <2>2. \A j \in 1..n : \/ j = at \/ s[j] = "." \/ s[j] \in LocalPart \/ s[j] \in Domain
                        \/ s[j] \in Letters
    BY <1>1, <1>4, <1>5, <2>1 DEF All
  <2>3. \A j \in 1..n : j > dot => s[j] \in Letters
    BY <1>1, <1>4, <1>5 DEF All
  <2>4. QED
    BY <1>1, <2>2, <2>3, ClassesAreApart
<1>7. {i \in DOMAIN t : t[i] \in {"@"}} = {first - 1 + at}
  <2>1. t[first - 1 + at] = "@" /\ first - 1 + at \in DOMAIN t
    <3>1. s[at] = t[first - 1 + at]
      BY <1>4, <1>5
    <3>2. first - 1 + at \in 1..Len(t)
      BY <1>4, <1>5
    <3>3. QED
      BY <1>1, <1>4, <3>1, <3>2
  <2>2. ASSUME NEW i \in DOMAIN t, t[i] = "@"
        PROVE  i = first - 1 + at
    <3>1. i \in first..last
      <4>1. t[i] \notin Whitespace
        BY <2>2 DEF Whitespace
      <4>2. QED
        BY <1>4, <4>1
    <3>2. i - first + 1 \in 1..n /\ first - 1 + (i - first + 1) = i
      <4>1. i \in Int /\ first <= i /\ i <= last
        BY <1>5, <3>1
      <4>2. i - first + 1 \in Int /\ 1 <= i - first + 1 /\ i - first + 1 <= n
        BY <1>5, <4>1
      <4>3. first - 1 + (i - first + 1) = i
        BY <1>5, <4>1
      <4>4. QED
        BY <1>5, <4>2, <4>3
    <3>3. s[i - first + 1] = "@"
      BY <1>4, <2>2, <3>2
    <3>4. i - first + 1 = at
      BY <1>6, <3>2, <3>3
    <3>5. QED
      BY <1>4, <1>5, <3>2, <3>4
  <2>3. QED
    BY <2>1, <2>2
<1>8. Count(t, {"@"}) = 1
  BY <1>7, FS_Singleton DEF Count
<1>9. Count(s, Whitespace) = 0
  <2>1. {i \in DOMAIN s : s[i] \in Whitespace} = {}
    BY <1>4, <1>6
  <2>2. QED
    BY <2>1, FS_EmptySet DEF Count
<1>10. at \in DOMAIN s /\ s[at] = "@" /\ dot \in at + 2..Len(s) - 2 /\ s[dot] = "."
  <2>1. dot \in at + 2..n - 2
    BY <1>5
  <2>2. QED
    BY <1>1, <1>4, <2>1
<1>11. {s[Len(s)], s[Len(s) - 1]} \subseteq Letters
  <2>1. n \in 1..n /\ n > dot /\ n - 1 \in 1..n /\ n - 1 > dot
    BY <1>5
  <2>2. QED
    BY <1>4, <1>6, <2>1
<1>12. QED
  BY <1>8, <1>9, <1>10, <1>11 DEF s

LEMMA PhoneCanBeDialled ==
  ASSUME NEW t \in Seq(Characters), IsValidPhoneNumber(t)
  PROVE  /\ Count(t, Digits) = 10
         /\ Count(t, Characters \ Digits) = Len(t) - 10
         /\ \A i \in DOMAIN t : t[i] \in Whitespace =>
              All(t, 1, i, Whitespace) \/ All(t, i, Len(t), Whitespace)
<1> DEFINE s == Trimmed(t)
<1>1. Len(s) = 10 /\ StartsWith07(s) /\ All(s, 3, 10, Digits)
  BY DEF IsValidPhoneNumber
<1>2. s # <<>>
  <2>1. Len(<<>>) # 10
    OBVIOUS
  <2> HIDE DEF s
  <2>2. QED
    BY <1>1, <2>1
<1>3. PICK first \in Nat, last \in Nat : Ends(t, first, last)
  BY <1>2, TrimmedCutsEnds
<1>4. /\ first \in 1..Len(t) /\ last \in first..Len(t) /\ Len(t) \in Nat
      /\ DOMAIN t = 1..Len(t)
      /\ \A i \in DOMAIN t : i < first \/ last < i => t[i] \in Whitespace
      /\ Len(s) = last - first + 1 /\ DOMAIN s = 1..(last - first + 1)
      /\ \A j \in 1..(last - first + 1) : s[j] = t[first - 1 + j]
  BY <1>3 DEF Ends
<1> HIDE DEF s
<1>5. last = first + 9 /\ 1 <= first /\ last <= Len(t) /\ first \in Nat /\ Len(t) \in Nat
  <2>1. last - first + 1 = 10
    BY <1>1, <1>4
  <2>2. 1 <= first /\ last <= Len(t) /\ Len(t) \in Nat
    BY <1>4
  <2>3. QED
    BY <2>1, <2>2
<1>6. \A j \in 1..10 : s[j] = t[first - 1 + j]
  <2>1. last - first + 1 = 10
    BY <1>5
  <2>2. QED
    BY <1>4, <2>1
<1>7. \A j \in 1..10 : s[j] \in Digits
  <2>1. \A j \in 1..10 : j = 1 \/ j = 2 \/ j \in 3..10
    OBVIOUS
  <2>2. QED
    BY <1>1, <2>1, ClassesAreApart DEF StartsWith07, All
<1>8. \A i \in DOMAIN t : i \in first..last => t[i] \in Digits
  <2>1. ASSUME NEW i \in first..last
        PROVE  t[i] \in Digits
    <3>1. i - first + 1 \in 1..10 /\ first - 1 + (i - first + 1) = i
      BY <1>5
    <3>2. QED
      BY <1>6, <1>7, <3>1
  <2>2. QED
    BY <2>1
<1>9. \A i \in DOMAIN t : i \in first..last \/ i < first \/ last < i
  BY <1>4, <1>5
<1>10. \A c \in Digits : c \notin Whitespace
  BY ClassesAreApart
<1>11. {i \in DOMAIN t : t[i] \in Digits} = first..last
  <2>1. first..last \subseteq DOMAIN t
    BY <1>4, <1>5
  <2>2. QED
    BY <1>4, <1>8, <1>9, <1>10, <2>1
<1>12. Count(t, Digits) = 10
  <2>1. first \in Int /\ last \in Int /\ ~(first > last) /\ last - first + 1 = 10
    BY <1>5
  <2>2. Cardinality(first..last) = 10
    BY <2>1, FS_Interval
  <2>3. QED
    BY <1>11, <2>2 DEF Count
<1>13. Count(t, Characters \ Digits) = Len(t) - 10
  <2>1. \A i \in DOMAIN t : t[i] \in Characters
    OBVIOUS
  <2>2. {i \in DOMAIN t : t[i] \in Characters \ Digits} =
          DOMAIN t \ {i \in DOMAIN t : t[i] \in Digits}
    BY <2>1
  <2>3. IsFiniteSet(DOMAIN t) /\ Cardinality(DOMAIN t) = Len(t)
    <3>1. IsFiniteSet(1..Len(t)) /\ Cardinality(1..Len(t)) = Len(t)
      <4>1. 1 \in Int /\ Len(t) \in Int /\ ~(1 > Len(t)) /\ Len(t) - 1 + 1 = Len(t)
        BY <1>5
      <4>2. QED
        BY <4>1, FS_Interval
    <3>2. QED
      BY <1>4, <3>1
  <2>4. DOMAIN t \cap {i \in DOMAIN t : t[i] \in Digits} = {i \in DOMAIN t : t[i] \in Digits}
    OBVIOUS
  <2> DEFINE D == {i \in DOMAIN t : t[i] \in Digits}
  <2>5. Cardinality(DOMAIN t \ D) = Cardinality(DOMAIN t) - Cardinality(DOMAIN t \cap D)
    <3> HIDE DEF D
    <3>1. QED
      BY <2>3, FS_Difference
  <2>6. Cardinality(D) = 10
    BY <1>12 DEF Count
  <2>7. QED
    BY <2>2, <2>3, <2>4, <2>5, <2>6 DEF Count
<1>14. ASSUME NEW i \in DOMAIN t, t[i] \in Whitespace
       PROVE  All(t, 1, i, Whitespace) \/ All(t, i, Len(t), Whitespace)
  <2>1. i < first \/ last < i
    BY <1>8, <1>9, <1>10, <1>14
  <2>2. CASE i < first
    <3>1. \A j \in 1..i : j \in DOMAIN t /\ j < first
      BY <1>4, <1>5, <2>2
    <3>2. QED
      BY <1>4, <3>1 DEF All
  <2>3. CASE last < i
    <3>1. \A j \in i..Len(t) : j \in DOMAIN t /\ last < j
      BY <1>4, <1>5, <2>3
    <3>2. QED
      BY <1>4, <3>1 DEF All
  <2>4. QED
    BY <2>1, <2>2, <2>3
<1>15. QED
  BY <1>12, <1>13, <1>14

--------------------------------------------------------------------------------

LEMMA InitIInv == Init => IInv
<1> SUFFICES ASSUME Init PROVE IInv
  OBVIOUS
<1>1. kind \in Kinds /\ text = <<>> /\ sent = Nothing /\ alerted = FALSE
  BY DEF Init
<1>2. MaxLength[kind] \in Nat
  BY <1>1, LengthsAreBounded
<1>3. text \in Seq(Characters) /\ Len(text) <= MaxLength[kind]
  BY <1>1, <1>2
<1>4. alerted \in BOOLEAN
  BY <1>1
<1>5. QED
  BY <1>1, <1>3, <1>4 DEF IInv, TypeOK, SentIsValid

LEMMA NextKeepsIInv == IInv /\ [Next]_vars => IInv'
<1> SUFFICES ASSUME IInv, [Next]_vars PROVE IInv'
  OBVIOUS
<1> USE DEF IInv, TypeOK, SentIsValid
<1>1. CASE DidTap
  BY <1>1 DEF DidTap
<1>2. ASSUME NEW character \in Keys[kind], Enter(character)
      PROVE  IInv'
  <2>1. character \in Characters /\ MaxLength[kind] \in Nat
    BY KeysAreCharacters, LengthsAreBounded
  <2>2. text' \in Seq(Characters) /\ Len(text') <= MaxLength[kind]
    BY <1>2, <2>1 DEF Enter
  <2>3. QED
    BY <1>2, <2>2 DEF Enter, Nothing
<1>3. CASE UNCHANGED vars
  BY <1>3 DEF vars
<1>4. QED
  BY <1>1, <1>2, <1>3 DEF Next

LEMMA IInvHolds == Spec => []IInv
BY InitIInv, NextKeepsIInv, PTL DEF Spec

(* Whatever is typed and pasted, of any length: an e-mail address that is  *)
(* sent has one at sign, a dot after it and letters at its end, a phone    *)
(* number ten digits, and neither has whitespace but at its ends.          *)
THEOREM SentTextsUsable == Spec => []SentTextsAreUsable
<1>1. ASSUME IInv
      PROVE  SentTextsAreUsable
  <2>1. sent # Nothing => sent \in Seq(Characters) /\ IsValid(kind, sent)
    BY <1>1 DEF IInv, TypeOK, SentIsValid
  <2>2. SentEmailIsAnAddress
    <3>1. SUFFICES ASSUME kind = "email", sent # Nothing
                   PROVE  LET t == Trimmed(sent) IN
                            /\ Count(sent, {"@"}) = 1
                            /\ Count(t, Whitespace) = 0
                            /\ \E at \in DOMAIN t : t[at] = "@" /\
                                 \E dot \in at + 2..Len(t) - 2 : t[dot] = "."
                            /\ {t[Len(t)], t[Len(t) - 1]} \subseteq Letters
      BY DEF SentEmailIsAnAddress
    <3>2. sent \in Seq(Characters) /\ IsValidEmail(sent)
      BY <2>1, <3>1 DEF IsValid
    <3>3. QED
      BY <3>2, EmailIsAnAddress
  <2>3. SentPhoneCanBeDialled
    <3>1. SUFFICES ASSUME kind = "phoneNumber", sent # Nothing
                   PROVE  /\ Count(sent, Digits) = 10
                          /\ Count(sent, Characters \ Digits) = Len(sent) - 10
                          /\ \A i \in DOMAIN sent : sent[i] \in Whitespace =>
                               All(sent, 1, i, Whitespace) \/ All(sent, i, Len(sent), Whitespace)
      BY DEF SentPhoneCanBeDialled
    <3>2. sent \in Seq(Characters) /\ IsValidPhoneNumber(sent)
      BY <2>1, <3>1 DEF IsValid
    <3>3. QED
      BY <3>2, PhoneCanBeDialled
  <2>4. QED
    BY <1>1, <2>2, <2>3 DEF IInv, SentTextsAreUsable
<1>2. QED
  BY <1>1, IInvHolds, PTL

================================================================================
